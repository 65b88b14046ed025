----------------------------- MODULE SmartLibrary -----------------------------
(***************************************************************************)
(* boost::dll::experimental::smart_library: a shared_library and the table *)
(* of the symbols in a file.  The table (MangledStorage) is the file it    *)
(* was read from here.  A call reads the file and loads the library in two *)
(* steps, and files may change between them.  What a smart_library does    *)
(* with its lib_ is SharedLibrary's action for it; Plain are the objects   *)
(* of class shared_library it may be constructed from.                     *)
(***************************************************************************)
EXTENDS SharedLibrary

CONSTANTS
    Plain,          \* shared_library objects
    Readable,       \* the files library_info can parse, loadable or not
    Decorations,    \* (bound) with and without load_mode::append_decorations
    NoCall

ASSUME SmartAssumption ==
    /\ Plain \subseteq Objs
    /\ Loadable \cup {Program} \subseteq Readable /\ Readable \subseteq Files
    /\ Decorations \subseteq BOOLEAN
    /\ NoCall \notin [op : {"construct", "copy", "move", "load"}, obj : Objs \ Plain,
                      path : Path, reports : {"throw", "ec", "none"},
                      decorations : BOOLEAN, search : BOOLEAN]

VARIABLES
    table,      \* table[o]: the file storage_ was read from
    call,       \* what is left to do of the call that is being executed
    last        \* the last call: member, object, how it reports a failure
                \* ("throw", "ec" or, for a noexcept one, "none"), and how it
                \* ended ("terminated": an exception met the noexcept)

smartVars == <<vars, table, call, last>>

Smart == Objs \ Plain
Constructs == {"construct", "copy", "move"}
SmartCalls == Constructs \cup {"load", "unload", "assign", "swap"}
Reports == {"throw", "ec", "none"}

SmartInit ==
    /\ Init
    /\ table = [o \in Objs |-> NoFile]
    /\ call = NoCall
    /\ \E o \in Smart :
          last = [op |-> "unload", obj |-> o, reports |-> "none", how |-> "returned"]

Ready == call = NoCall /\ last.how # "terminated"

Begun(op, o, p, reports, decorations, search) ==
    /\ call' = [op |-> op, obj |-> o, path |-> p, reports |-> reports,
                decorations |-> decorations, search |-> search]
    /\ UNCHANGED last

Ended(op, o, reports, how) ==
    /\ last' = [op |-> op, obj |-> o, reports |-> reports, how |-> how]
    /\ call' = NoCall

(* An exception leaves the member, or meets its noexcept. *)
Thrown(op, o, reports) ==
    Ended(op, o, reports, IF reports = "none" THEN "terminated" ELSE "thrown")

(* mangled_storage::load(p) clears the table; then library_info throws for *)
(* a path it cannot open or parse.                                         *)
CanRead(p) == FileAt(p) \in Readable

(* Mutant: what was read before the format was refused stays.              *)
TableOfAnything(p) == FileAt(p)

TableOf(p) == IF CanRead(p) THEN FileAt(p) ELSE NoFile

Empty(o) == ~IsLoaded(o) /\ table[o] = NoFile

-----------------------------------------------------------------------------
(* smart_library(path, mode): the library, and then the table.             *)
ConstructLibrary(o, p, decorations, search) ==
    /\ Ready /\ Empty(o)
    /\ Load(o, p, decorations, search, TRUE)
    /\ IF ret'.ec = Ok THEN Begun("construct", o, p, "throw", decorations, search)
       ELSE Thrown("construct", o, "throw")
    /\ UNCHANGED table

(* smart_library(const shared_library&) noexcept copies it, by path, and   *)
(* then reads the table from where the argument is.                        *)
ConstructByCopy(o, s) ==
    /\ Ready /\ Empty(o)
    /\ AssignSame(o, s) \/ AssignLoaded(o, s, TRUE) \/ AssignUnlocated(o, s, TRUE)
    /\ IF ret'.ec = Ok /\ IsLoaded(s)
       THEN Begun("copy", o, Location(handle[s]), "none", FALSE, FALSE)
       ELSE Thrown("copy", o, "none")
    /\ UNCHANGED table

(* Mutant: lib_ is not destroyed when an exception leaves the constructor. *)
ConstructTableLeaks ==
    /\ call # NoCall /\ call.op \in Constructs
    /\ table' = [table EXCEPT ![call.obj] = TableOf(call.path)]
    /\ IF CanRead(call.path)
       THEN Ended(call.op, call.obj, call.reports, "returned") /\ UNCHANGED vars
       ELSE /\ Thrown(call.op, call.obj, call.reports)
            /\ handle' = [handle EXCEPT ![call.obj] = NoHandle]
            /\ Returned("unload", call.obj, call.obj, Ok)
            /\ UNCHANGED <<loaderVars, steps>>

ConstructTable ==
    /\ call # NoCall /\ call.op \in Constructs
    /\ table' = [table EXCEPT ![call.obj] = TableOf(call.path)]
    /\ IF CanRead(call.path)
       THEN Ended(call.op, call.obj, call.reports, "returned") /\ UNCHANGED vars
       ELSE Thrown(call.op, call.obj, call.reports) /\ Unload(call.obj)

(* smart_library(shared_library&&) noexcept asks the object it has moved   *)
(* from where it is.                                                       *)
ConstructByMove(o, s) ==
    /\ Ready /\ Empty(o)
    /\ MoveConstruct(o, s)
    /\ Thrown("move", o, "none")
    /\ UNCHANGED table

(* The three load() members, and the two constructors that take an ec: the *)
(* table, and then the library.                                            *)
LoadTable(o, p, decorations, search, reports) ==
    /\ Ready
    /\ table' = [table EXCEPT ![o] = TableOf(p)]
    /\ IF CanRead(p) THEN Begun("load", o, p, reports, decorations, search)
       ELSE Thrown("load", o, reports)
    /\ UNCHANGED vars

LoadLibrary ==
    /\ call # NoCall /\ call.op = "load"
    /\ Load(call.obj, call.path, call.decorations, call.search, call.reports = "throw")
    /\ IF ret'.ec # Ok /\ call.reports = "throw"
       THEN Thrown("load", call.obj, "throw")
       ELSE Ended("load", call.obj, call.reports, "returned")
    /\ UNCHANGED table

SmartUnload(o) ==
    /\ Ready
    /\ Unload(o)
    /\ table' = [table EXCEPT ![o] = NoFile]
    /\ Ended("unload", o, "none", "returned")

(* Mutant: the table is assigned before the library.                       *)
SmartAssignTableFirst(o, s) ==
    /\ Ready
    /\ \/ AssignSame(o, s) \/ AssignNothing(o, s)
       \/ AssignLoaded(o, s, TRUE) \/ AssignUnlocated(o, s, TRUE)
    /\ table' = [table EXCEPT ![o] = table[s]]
    /\ IF ret'.ec = Ok THEN Ended("assign", o, "throw", "returned")
       ELSE Thrown("assign", o, "throw")

(* assign(), and the copy constructor: both copy lib_, which may throw,    *)
(* and then storage_.                                                      *)
SmartAssign(o, s) ==
    /\ Ready
    /\ \/ AssignSame(o, s) \/ AssignNothing(o, s)
       \/ AssignLoaded(o, s, TRUE) \/ AssignUnlocated(o, s, TRUE)
    /\ IF ret'.ec = Ok
       THEN /\ table' = [table EXCEPT ![o] = table[s]]
            /\ Ended("assign", o, "throw", "returned")
       ELSE Thrown("assign", o, "throw") /\ UNCHANGED table

(* smart_library(smart_library&&) *)
SmartMove(o, s) ==
    /\ Ready /\ Empty(o)
    /\ MoveConstruct(o, s)
    /\ table' = [table EXCEPT ![s] = NoFile, ![o] = table[s]]
    /\ Ended("move", o, "none", "returned")

(* Mutant: the symbols stay where they are.                                *)
SmartSwapLibraries(o, s) ==
    /\ Ready
    /\ Swap(o, s)
    /\ Ended("swap", o, "none", "returned")
    /\ UNCHANGED table

SmartSwap(o, s) ==
    /\ Ready
    /\ Swap(o, s)
    /\ table' = [table EXCEPT ![o] = table[s], ![s] = table[o]]
    /\ Ended("swap", o, "none", "returned")

(* The program loads and unloads its plain shared_library objects. *)
PlainCall(s) ==
    /\ Ready
    /\ \/ \E p \in Paths, search \in Searches, decorations \in Decorations :
              Load(s, p, decorations, search, TRUE)
       \/ Unload(s)
    /\ UNCHANGED <<table, call, last>>

(* Files change at any time, also between the two steps of a call. *)
FilesChange ==
    /\ last.how # "terminated"
    /\ Environment
    /\ UNCHANGED <<table, call, last>>

SmartNext ==
    \/ \E o \in Smart :
        \/ \E p \in Paths, search \in Searches, decorations \in Decorations :
              \/ ConstructLibrary(o, p, decorations, search)
              \/ \E reports \in {"throw", "ec"} :
                    LoadTable(o, p, decorations, search, reports)
        \/ \E s \in Plain : ConstructByCopy(o, s) \/ ConstructByMove(o, s)
        \/ SmartUnload(o)
        \/ \E s \in Smart : SmartAssign(o, s) \/ SmartMove(o, s) \/ SmartSwap(o, s)
    \/ ConstructTable
    \/ LoadLibrary
    \/ \E s \in Plain : PlainCall(s)
    \/ FilesChange

SmartSpec == SmartInit /\ [][SmartNext]_smartVars

-----------------------------------------------------------------------------
(* Types; only smart libraries have a table.                               *)
SmartTypeOK ==
    /\ TypeOK
    /\ table \in [Objs -> Readable \cup {NoFile}]
    /\ call = NoCall \/ call \in [op : Constructs \cup {"load"}, obj : Smart,
                                 path : Path, reports : Reports,
                                 decorations : BOOLEAN, search : BOOLEAN]
    /\ last \in [op : SmartCalls, obj : Smart, reports : Reports,
                 how : {"returned", "thrown", "terminated"}]
    /\ \A s \in Plain : table[s] = NoFile

(* With files that stay and paths that mean one file to both (no           *)
(* decorations, no search), the symbols in the table are the symbols of    *)
(* the library that is asked for them ("created on construction",          *)
(* symbol_storage()): failed loads, moves and swaps never leave the table  *)
(* of one library with the handle of another.                              *)
TableIsTheLibrary ==
    Ready /\ steps = 0 =>
        \A o \in Smart : table[o] # NoFile /\ IsLoaded(o) => table[o] = handle[o]

(* What holds between any two steps of the members.                        *)
SmartInv == SmartTypeOK /\ TableIsTheLibrary

(* assign() of smart_library is assign() of shared_library and a copy of   *)
(* the table: when the first throws, the object still has both as before.  *)
FailedAssignKeepsBoth ==
    [][ret'.op = "assign" /\ ret'.ec # Ok /\ last'.op = "assign" /\ call' = NoCall
         => UNCHANGED <<handle, table>>]_smartVars

(* "The actual DLL/DSO won't be unloaded until there is at least one       *)
(* instance" (~smart_library): also when a constructor or load() is left   *)
(* by an exception of the symbol table, every reference has one owner.     *)
SmartImplementsOwners == ImplementsOwners

(* "Construct from a shared_library object ... \throw Nothing": what is    *)
(* made of a loaded library comes to be.                                   *)
LoadedIsTaken == last.how = "terminated" => ~IsLoaded(last.obj)

(* "\param ec Variable that will be set to the result of the operation."   *)
EcIsSet == last.reports = "ec" => last.how # "thrown"

(* append_decorations: the library that was found by the decorated name is *)
(* loaded, and the constructor succeeds, as long as nobody touches files.  *)
DecoratedIsConstructed ==
    [][call # NoCall /\ call.op = "construct" /\ steps' = 0
         => last'.how = "returned"]_smartVars
=============================================================================
