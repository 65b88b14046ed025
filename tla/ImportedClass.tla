----------------------------- MODULE ImportedClass -----------------------------
(***************************************************************************)
(* boost::dll::experimental::imported_class: a smart_library of its own,   *)
(* lib_, an object of a class of that library, data_, and a reference to   *)
(* the class's type information, ti_.  Libraries are owned as              *)
(* LibraryOwners says: an image is in memory while somebody owns it.       *)
(* import_mangled makes values that hold a shared_library of their own, too,*)
(* out of a smart_library of the program or of an imported class.          *)
(*                                                                         *)
(* A symbol is where the image of lib_ has it: the table is the library's  *)
(* (TableIsTheLibrary of SmartLibrary).                                    *)
(*                                                                         *)
(* A constructor runs in steps (lib_, data_, ti_), and when one throws,    *)
(* the members made before it are destroyed in reverse; the destructor     *)
(* takes the same steps back.  Different objects may be at different       *)
(* steps, in different threads.  A smart_library that is being read is not *)
(* changed: it is not safe for that, and callers see to it.                *)
(***************************************************************************)
EXTENDS Integers, FiniteSets

CONSTANTS
    Libs,       \* the program's smart_library objects
    Classes,    \* imported_class objects
    Values,     \* what import_mangled returns
    Blocks,     \* (bound) blocks of memory for objects of imported classes
    Images,     \* the libraries that exist
    Features,   \* Features[f]: the symbols of the class that image f has
    Reload,     \* Reload[f]: the images a copy of f, by path, may turn out to be
    Imports,    \* (bound) the ways to import: [rvalue, sized]
    Throwing,   \* (bound) may constructors of the class throw?
    None

(* C1 and C3 are the complete and the allocating constructor, D1 and D0    *)
(* the complete and the deleting destructor (Itanium C++ ABI).             *)
Symbols == {"C1", "C3", "D1", "D0", "typeinfo"}

ASSUME ClassAssumption ==
    /\ Features \in [Images -> SUBSET Symbols]
    /\ Reload \in [Images -> SUBSET Images]
    /\ Imports \subseteq [rvalue : BOOLEAN, sized : BOOLEAN]
    /\ Throwing \in BOOLEAN
    /\ Libs \cap Classes = {}
    /\ None \notin Images \cup Blocks \cup Libs \cup Classes

VARIABLES
    owns,       \* the image that a smart_library, or the lib_ of a class, owns
    stage,      \* how far the constructor or destructor of a class is
    call,       \* the constructor that made it: [kind, from, sized]
    data_,      \* the block with the object, None for a null pointer
    ti_,        \* the image with the type information
    size_,      \* size_: "zero" or "whole", of what the object needs
    heap,       \* what is in a block
    value       \* an imported value: the image of the shared_library that it
                \* shares with its copies, and the image it points into

classVars == <<owns, stage, call, data_, ti_, size_, heap, value>>

Owners == Libs \cup Classes
Stages == {"none", "lib", "data", "done", "unwind", "release"}
Kinds == {"lvalue", "rvalue", "copy"}
Calls == [kind : Kinds, from : Owners, sized : BOOLEAN]
Sizes == {"zero", "whole"}

(* by: allocated as an array of char, or by the class's own constructor.   *)
Free == [status |-> "free", by |-> "array", image |-> None]

Imported == [box : Images, points : Images]
Resident == ({owns[o] : o \in Owners}
               \cup {value[v].box : v \in {w \in Values : value[w] # None}}) \ {None}

Init ==
    /\ owns = [o \in Owners |-> None]
    /\ stage = [i \in Classes |-> "none"]
    /\ call = [i \in Classes |-> None]
    /\ data_ = [i \in Classes |-> None]
    /\ ti_ = [i \in Classes |-> None]
    /\ size_ = [i \in Classes |-> "zero"]
    /\ heap = [b \in Blocks |-> Free]
    /\ value = [v \in Values |-> None]

(* Is o being read by a constructor?                                       *)
Read(o) == \E i \in Classes : stage[i] \in {"lib", "data"} /\ call[i].from = o

Whole(i) == stage[i] = "done" /\ data_[i] # None

-----------------------------------------------------------------------------
(* lib_(lib) copies the library by path, lib_(std::move(lib)) takes it.    *)
(* A copy that throws leaves nothing behind.                               *)
Begin(i, c, size) ==
    /\ stage[i] = "none"
    /\ IF c.kind = "rvalue"
       THEN owns' = [owns EXCEPT ![i] = owns[c.from], ![c.from] = None]
       ELSE \E f \in IF owns[c.from] = None THEN {None} ELSE Reload[owns[c.from]] :
                owns' = [owns EXCEPT ![i] = f]
    /\ stage' = [stage EXCEPT ![i] = "lib"]
    /\ call' = [call EXCEPT ![i] = c]
    /\ size_' = [size_ EXCEPT ![i] = size]
    /\ UNCHANGED <<data_, ti_, heap, value>>

(* import_class(lib, [size,] ...) and imported_class::make. *)
Import(i, l, rvalue, sized) ==
    /\ ~rvalue \/ ~Read(l)
    /\ Begin(i, [kind |-> IF rvalue THEN "rvalue" ELSE "lvalue", from |-> l, sized |-> sized],
                IF sized THEN "whole" ELSE "zero")

(* copy() and move(): is_allocating_ is true of what was made with a size. *)
CopyObject(i, j) ==
    /\ i # j /\ Whole(j)
    /\ Begin(i, [kind |-> "copy", from |-> j, sized |-> ~call[j].sized],
                IF call[j].sized THEN "zero" ELSE size_[j])

(* make_data(lib, size, ...) wants the complete constructor and destructor,*)
(* make_data(lib, ...) the allocating and the deleting one.                *)
Needed(sized) == IF sized THEN {"C1", "D1"} ELSE {"C3", "D0"}
Has(i, symbols) == owns[i] # None /\ symbols \subseteq Features[owns[i]]

MakeDataFails(i) ==
    /\ stage[i] = "lib" /\ ~Has(i, Needed(call[i].sized))
    /\ stage' = [stage EXCEPT ![i] = "unwind"]
    /\ UNCHANGED <<owns, call, data_, ti_, size_, heap, value>>

Object(i) ==
    [status |-> "object", by |-> IF call[i].sized THEN "array" ELSE "class",
     image |-> owns[i]]

(* The constructor is called if the symbols are there.  In an array that   *)
(* is too small for the object it writes past the end, and nothing can be  *)
(* said of what follows.                                                   *)
Constructs(i) ==
    /\ stage[i] = "lib" /\ Has(i, Needed(call[i].sized))
    /\ call[i].sized => size_[i] = "whole"

MakeData(i) ==
    /\ Constructs(i)
    /\ \E b \in Blocks :
          /\ heap[b].status = "free"
          /\ heap' = [heap EXCEPT ![b] = Object(i)]
          /\ data_' = [data_ EXCEPT ![i] = b]
    /\ stage' = [stage EXCEPT ![i] = "data"]
    /\ UNCHANGED <<owns, call, ti_, size_, value>>

(* The class's constructor throws; nothing holds the array of char yet.    *)
ConstructorThrows(i) ==
    /\ Throwing
    /\ Constructs(i)
    /\ IF call[i].sized
       THEN \E b \in Blocks :
               /\ heap[b].status = "free"
               /\ heap' = [heap EXCEPT ![b] = [Free EXCEPT !.status = "raw"]]
       ELSE UNCHANGED heap
    /\ stage' = [stage EXCEPT ![i] = "unwind"]
    /\ UNCHANGED <<owns, call, data_, ti_, size_, value>>

(* Mutant: the object is not destroyed when get_type_info() throws.        *)
TypeInfoForgets(i) ==
    /\ stage[i] = "data"
    /\ IF Has(call[i].from, {"typeinfo"})
       THEN /\ ti_' = [ti_ EXCEPT ![i] = owns[call[i].from]]
            /\ stage' = [stage EXCEPT ![i] = "done"]
            /\ UNCHANGED data_
       ELSE /\ stage' = [stage EXCEPT ![i] = "unwind"]
            /\ data_' = [data_ EXCEPT ![i] = None]
            /\ UNCHANGED ti_
    /\ UNCHANGED <<owns, call, size_, heap, value>>

(* ti_(lib.get_type_info<T>()) asks the argument, not lib_.                *)
TypeInfo(i) ==
    /\ stage[i] = "data"
    /\ IF Has(call[i].from, {"typeinfo"})
       THEN /\ ti_' = [ti_ EXCEPT ![i] = owns[call[i].from]]
            /\ stage' = [stage EXCEPT ![i] = "done"]
       ELSE /\ stage' = [stage EXCEPT ![i] = "unwind"]
            /\ UNCHANGED ti_
    /\ UNCHANGED <<owns, call, data_, size_, heap, value>>

(* Mutant: data_ is declared, and so destroyed, the other way round.       *)
DestroyDataLast(i) ==
    /\ stage[i] = "unwind" \/ (stage[i] = "done" /\ ~Read(i))
    /\ stage' = [stage EXCEPT ![i] = "release"]
    /\ owns' = [owns EXCEPT ![i] = None]
    /\ UNCHANGED <<call, data_, ti_, size_, heap, value>>

(* Mutant: data_ still points to what was destroyed.                       *)
DestroyDataKeeps(i) ==
    /\ stage[i] = "unwind" \/ (stage[i] = "done" /\ ~Read(i))
    /\ stage' = [stage EXCEPT ![i] = "release"]
    /\ heap' = IF data_[i] = None THEN heap
               ELSE [heap EXCEPT ![data_[i]] = [@ EXCEPT !.status = "free"]]
    /\ UNCHANGED <<owns, call, data_, ti_, size_, value>>

(* ~unique_ptr() with deleter: the complete destructor and delete[]. *)
DestroyData(i) ==
    /\ stage[i] = "unwind" \/ (stage[i] = "done" /\ ~Read(i))
    /\ stage' = [stage EXCEPT ![i] = "release"]
    /\ heap' = IF data_[i] = None THEN heap
               ELSE [heap EXCEPT ![data_[i]] = [@ EXCEPT !.status = "free"]]
    /\ data_' = [data_ EXCEPT ![i] = None]
    /\ UNCHANGED <<owns, call, ti_, size_, value>>

(* ~smart_library() of lib_; the object is gone. *)
ReleaseLib(i) ==
    /\ stage[i] = "release"
    /\ owns' = [owns EXCEPT ![i] = None]
    /\ stage' = [stage EXCEPT ![i] = "none"]
    /\ call' = [call EXCEPT ![i] = None]
    /\ ti_' = [ti_ EXCEPT ![i] = None]
    /\ size_' = [size_ EXCEPT ![i] = "zero"]
    /\ UNCHANGED <<data_, heap, value>>

(* Mutant: the library is not moved along.                                 *)
MoveConstructDataOnly(i, j) ==
    /\ i # j /\ stage[i] = "none" /\ stage[j] = "done" /\ ~Read(j)
    /\ data_' = [data_ EXCEPT ![i] = data_[j], ![j] = None]
    /\ stage' = [stage EXCEPT ![i] = "done"]
    /\ call' = [call EXCEPT ![i] = call[j]]
    /\ ti_' = [ti_ EXCEPT ![i] = ti_[j]]
    /\ size_' = [size_ EXCEPT ![i] = size_[j]]
    /\ UNCHANGED <<owns, heap, value>>

(* imported_class(imported_class&&): every member is moved. *)
MoveConstruct(i, j) ==
    /\ i # j /\ stage[i] = "none" /\ stage[j] = "done" /\ ~Read(j)
    /\ owns' = [owns EXCEPT ![i] = owns[j], ![j] = None]
    /\ data_' = [data_ EXCEPT ![i] = data_[j], ![j] = None]
    /\ stage' = [stage EXCEPT ![i] = "done"]
    /\ call' = [call EXCEPT ![i] = call[j]]
    /\ ti_' = [ti_ EXCEPT ![i] = ti_[j]]
    /\ size_' = [size_ EXCEPT ![i] = size_[j]]
    /\ UNCHANGED <<heap, value>>

(* The program loads and unloads its own smart_library objects. *)
UseLibrary(l) ==
    /\ ~Read(l)
    /\ \E f \in Images \cup {None} : owns' = [owns EXCEPT ![l] = f]
    /\ UNCHANGED <<stage, call, data_, ti_, size_, heap, value>>

(* Mutant: the value has no library of its own.                            *)
ImportMangledBorrows(v, o) ==
    /\ value[v] = None /\ owns[o] # None
    /\ o \in Classes => stage[o] = "done"
    /\ value' = [value EXCEPT ![v] = [box |-> None, points |-> owns[o]]]
    /\ UNCHANGED <<owns, stage, call, data_, ti_, size_, heap>>

(* import_mangled(p, name), and imported_class::import: a copy of p's      *)
(* library, by path, and what p itself finds.  When either throws, there   *)
(* is no value.                                                            *)
ImportMangled(v, o) ==
    /\ value[v] = None /\ owns[o] # None
    /\ o \in Classes => stage[o] = "done"
    /\ \E f \in Reload[owns[o]] :
          value' = [value EXCEPT ![v] = [box |-> f, points |-> owns[o]]]
    /\ UNCHANGED <<owns, stage, call, data_, ti_, size_, heap>>

CopyValue(v, w) ==
    /\ value[v] = None /\ value[w] # None
    /\ value' = [value EXCEPT ![v] = value[w]]
    /\ UNCHANGED <<owns, stage, call, data_, ti_, size_, heap>>

DropValue(v) ==
    /\ value[v] # None
    /\ value' = [value EXCEPT ![v] = None]
    /\ UNCHANGED <<owns, stage, call, data_, ti_, size_, heap>>

Next ==
    \/ \E i \in Classes :
        \/ \E l \in Libs, m \in Imports : Import(i, l, m.rvalue, m.sized)
        \/ \E j \in Classes : CopyObject(i, j) \/ MoveConstruct(i, j)
        \/ MakeDataFails(i)
        \/ MakeData(i)
        \/ ConstructorThrows(i)
        \/ TypeInfo(i)
        \/ DestroyData(i)
        \/ ReleaseLib(i)
    \/ \E l \in Libs : UseLibrary(l)
    \/ \E v \in Values :
        \/ \E o \in Owners : ImportMangled(v, o)
        \/ \E w \in Values : CopyValue(v, w)
        \/ DropValue(v)

Spec == Init /\ [][Next]_classVars

-----------------------------------------------------------------------------
(* Types; an object that is not made yet, or was destroyed, has no data_.  *)
ClassTypeOK ==
    /\ owns \in [Owners -> Images \cup {None}]
    /\ stage \in [Classes -> Stages]
    /\ call \in [Classes -> Calls \cup {None}]
    /\ data_ \in [Classes -> Blocks \cup {None}]
    /\ ti_ \in [Classes -> Images \cup {None}]
    /\ size_ \in [Classes -> Sizes]
    /\ heap \in [Blocks -> [status : {"free", "raw", "object"}, by : {"array", "class"},
                            image : Images \cup {None}]]
    /\ value \in [Values -> Imported \cup {None}]
    /\ \A i \in Classes : stage[i] \in {"none", "lib", "release"} => data_[i] = None

(* The code of an object, its destructor above all, is in memory as long   *)
(* as the object is: through the constructor's steps, failing ones, moves, *)
(* and the destructor, whatever the program does with its own libraries.   *)
ClassesStayMapped == \A i \in Classes :
    data_[i] # None => heap[data_[i]].image \in Resident

(* What get_type_info() refers to is in memory while the object is ("Get a *)
(* const reference to the std::type_info", import_class.hpp).              *)
TypeInfoStaysMapped == \A i \in Classes : Whole(i) => ti_[i] \in Resident

(* "Returned value refcounts usage of the loaded shared library, so that   *)
(* it won't get unload until all copies of return value are not destroyed" *)
(* (import_mangled.hpp): what a value points into is in memory, though it  *)
(* holds another reference than the one it was looked up by.               *)
ValuesStayMapped == \A v \in Values :
    value[v] # None => value[v].points \in Resident

(* Every object that was constructed will be destroyed once: exactly one   *)
(* data_ points to it, and none to anything else.                          *)
ObjectsHaveOneOwner == \A b \in Blocks :
    Cardinality({i \in Classes : data_[i] = b}) = IF heap[b].status = "object" THEN 1 ELSE 0

(* What holds between any two steps of the constructors and destructors.   *)
ClassInv == ClassTypeOK /\ ObjectsHaveOneOwner

(* "The thing is actually an array, so delete[]" (import_class.hpp): what  *)
(* the deleter deletes is an array.                                        *)
AsAllocated == \A b \in Blocks : heap[b].status = "free" => heap[b].by = "array"

(* An import that is given the size succeeds, if the library has the       *)
(* constructor, the destructor and the type information ("Returns an       *)
(* instance of imported_class", import_class.hpp).                         *)
ImportSucceeds == \A i \in Classes :
    stage[i] = "unwind" /\ call[i].kind # "copy" /\ call[i].sized
        => ~Has(i, {"C1", "D1", "typeinfo"})

(* copy() invokes the copy constructor, which the library has.             *)
CopySucceeds == \A i \in Classes :
    stage[i] = "unwind" /\ call[i].kind = "copy" => ~Has(i, {"C1", "D1", "typeinfo"})
=============================================================================
