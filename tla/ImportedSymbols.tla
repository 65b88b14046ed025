--------------------------- MODULE ImportedSymbols ---------------------------
(***************************************************************************)
(* import_symbol and import_alias: a shared_library on the heap, kept by a *)
(* shared_ptr inside every imported value that refers into it.  Imports    *)
(* are made, copied and dropped by several threads; each call into the     *)
(* loader is one step, and other threads run between the steps of one      *)
(* import.  What users do meanwhile with libraries of their own is Load    *)
(* and Unload; their other members are in SharedLibrary.                   *)
(***************************************************************************)
EXTENDS SharedLibrary

CONSTANTS
    Boxes,      \* the shared_library objects that make_shared creates
    Imports,    \* imported values: library_function or shared_ptr<T>
    Threads,
    NoImport, Idle

ASSUME ImportsAssumption ==
    /\ Boxes \subseteq Objs
    /\ NoImport \notin [box : Boxes, lib : Files, symbol : Symbols]
    /\ Idle \notin [box : Boxes, symbol : Symbols, into : Imports, unwind : BOOLEAN]
    /\ Imports \cap Objs = {} /\ Threads \cap Objs = {} /\ Imports \cap Threads = {}

VARIABLES
    import,     \* import[i]: the shared_ptr's owner and what it points to
    doing       \* doing[t]: the shared_ptr p that thread t's call has at hand

importVars == <<vars, import, doing>>

Libs == Objs \ Boxes
Imported(i) == import[i] # NoImport
Busy(t) == doing[t] # Idle

ImportsTypeOK ==
    /\ TypeOK
    /\ import \in [Imports -> [box : Boxes, lib : Files, symbol : Symbols]
                                \cup {NoImport}]
    /\ doing \in [Threads -> [box : Boxes, symbol : Symbols, into : Imports,
                              unwind : BOOLEAN] \cup {Idle}]

ImportsInit ==
    /\ Init
    /\ import = [i \in Imports |-> NoImport]
    /\ doing = [t \in Threads |-> Idle]

(* The imported values and the calls that keep box b alive: its use_count. *)
Users(b) == {i \in Imports : Imported(i) /\ import[i].box = b}
              \cup {t \in Threads : Busy(t) /\ doing[t].box = b}

(* Value i does not exist, and nobody is about to create it. *)
Unused(i) == ~Imported(i) /\ \A t \in Threads : Busy(t) => doing[t].into # i

-----------------------------------------------------------------------------
(* p = make_shared<shared_library>(...), by path, from a const library or  *)
(* from one that is moved from.  Every constructor may throw, and then     *)
(* there is no box.                                                        *)
Constructed(t, b, y, i) ==
    /\ doing' = IF ret'.ec = Ok
                THEN [doing EXCEPT ![t] = [box |-> b, symbol |-> y,
                                           into |-> i, unwind |-> FALSE]]
                ELSE doing
    /\ UNCHANGED import

MakeByPath(b) ==
    \E p \in Paths, search \in Searches, decorations \in BOOLEAN :
        Load(b, p, decorations, search, TRUE)

(* Mutant: the box takes the library's handle and not a reference.         *)
MakeByCopyOfHandle(b, s) ==
    \/ AssignSame(b, s)
    \/ /\ IsLoaded(s)
       /\ handle' = [handle EXCEPT ![b] = handle[s]]
       /\ Returned("assign", b, s, Ok)
       /\ UNCHANGED <<loaderVars, steps>>

MakeByCopy(b, s) ==
    AssignSame(b, s) \/ AssignLoaded(b, s, TRUE) \/ AssignUnlocated(b, s, TRUE)

MakeByMove(b, s) == MoveConstruct(b, s)

Begin(t, b, y, i) ==
    /\ ~Busy(t) /\ Users(b) = {} /\ Unused(i)
    /\ \/ MakeByPath(b)
       \/ \E s \in Libs : MakeByCopy(b, s) \/ MakeByMove(b, s)
    /\ Constructed(t, b, y, i)

(* Mutant: the exception leaves p behind.                                  *)
ResolveForgets(t) ==
    /\ Busy(t) /\ ~doing[t].unwind
    /\ LET d == doing[t]
       IN  /\ Get(d.box, d.symbol)
           /\ IF ret'.ec = Ok
              THEN import' = [import EXCEPT ![d.into] =
                     [box |-> d.box, lib |-> handle[d.box], symbol |-> d.symbol]]
              ELSE UNCHANGED import
           /\ doing' = [doing EXCEPT ![t] = Idle]

(* addr = &p->get<T>(name), and the value is made of p and addr; if the    *)
(* symbol is not there, p is released by the exception.                    *)
Resolve(t) ==
    /\ Busy(t) /\ ~doing[t].unwind
    /\ LET d == doing[t]
       IN  /\ Get(d.box, d.symbol)
           /\ IF ret'.ec = Ok
              THEN /\ import' = [import EXCEPT ![d.into] =
                        [box |-> d.box, lib |-> handle[d.box], symbol |-> d.symbol]]
                   /\ doing' = [doing EXCEPT ![t] = Idle]
              ELSE /\ doing' = [doing EXCEPT ![t].unwind = TRUE]
                   /\ UNCHANGED import

(* Mutant: the destroyed library does not forget its handle.               *)
UnwindKeepsHandle(t) ==
    /\ Busy(t) /\ doing[t].unwind
    /\ ld' = Closed(ld, handle[doing[t].box])
    /\ Returned("unload", doing[t].box, doing[t].box, Ok)
    /\ doing' = [doing EXCEPT ![t] = Idle]
    /\ UNCHANGED <<fs, cwd, dlerr, handle, steps, import>>

(* The last shared_ptr to the box was given up: ~shared_library. *)
Unwind(t) ==
    /\ Busy(t) /\ doing[t].unwind
    /\ Unload(doing[t].box)
    /\ doing' = [doing EXCEPT ![t] = Idle]
    /\ UNCHANGED import

CopyImport(i, j) ==
    /\ Imported(i) /\ Unused(j)
    /\ import' = [import EXCEPT ![j] = import[i]]
    /\ UNCHANGED <<vars, doing>>

(* Mutant: the box goes with the value it was made for.                    *)
DropImportWithBox(t, i) ==
    /\ ~Busy(t) /\ Imported(i)
    /\ import' = [import EXCEPT ![i] = NoImport]
    /\ doing' = [doing EXCEPT ![t] = [box |-> import[i].box, into |-> i,
                     symbol |-> import[i].symbol, unwind |-> TRUE]]
    /\ UNCHANGED vars

(* The use count drops; the thread that brings it to zero is the one that  *)
(* destroys the box, and it does so after other threads may have run.      *)
DropImport(t, i) ==
    /\ ~Busy(t) /\ Imported(i)
    /\ import' = [import EXCEPT ![i] = NoImport]
    /\ doing' = IF Users(import[i].box) = {i}
                THEN [doing EXCEPT ![t] = [box |-> import[i].box, into |-> i,
                          symbol |-> import[i].symbol, unwind |-> TRUE]]
                ELSE doing
    /\ UNCHANGED vars

UserCall ==
    /\ \E o \in Libs :
          \/ \E p \in Paths, search \in Searches, decorations \in BOOLEAN :
                Load(o, p, decorations, search, TRUE)
          \/ IsLoaded(o) /\ Unload(o)
    /\ UNCHANGED <<import, doing>>

FilesChange == Environment /\ UNCHANGED <<import, doing>>

ImportsNext ==
    \/ \E t \in Threads :
        \/ \E b \in Boxes, y \in Symbols, i \in Imports : Begin(t, b, y, i)
        \/ Resolve(t)
        \/ Unwind(t)
        \/ \E i \in Imports : DropImport(t, i)
    \/ \E i, j \in Imports : CopyImport(i, j)
    \/ UserCall
    \/ FilesChange

ImportsSpec == ImportsInit /\ [][ImportsNext]_importVars

-----------------------------------------------------------------------------
(* "Imported" symbols stay usable: what every imported value points to is  *)
(* in memory, in the library it was found in, whoever made or dropped      *)
(* other values, unloaded the library it came from, or replaced the file   *)
(* (import.hpp: the shared_ptr of library_function).                       *)
ImportsStayMapped == \A i \in Imports : Imported(i) =>
    /\ import[i].lib \in Mapped(ld)
    /\ handle[import[i].box] = import[i].lib
    /\ import[i].symbol \in Exports[import[i].lib]

(* No box outlives its last user: an import that throws, or that is        *)
(* dropped, does not keep a library in memory.                             *)
NoLibraryForgotten == \A b \in Boxes : IsLoaded(b) => Users(b) # {}

(* What holds between any two steps of the threads.                        *)
ImportsInv == ImportsTypeOK /\ NoLibraryForgotten

(* What a user of the box owns: its library. *)
OwnedBy(u) ==
    IF u \in Libs THEN handle[u]
    ELSE IF u \in Imports
    THEN IF Imported(u) THEN handle[import[u].box] ELSE NoHandle
    ELSE IF Busy(u) THEN handle[doing[u].box] ELSE NoHandle

ImportOwners == INSTANCE LibraryOwners
    WITH Objs <- Libs \cup Imports \cup Threads, Libs <- Files, None <- NoHandle,
         owns <- [u \in Libs \cup Imports \cup Threads |-> OwnedBy(u)],
         resident <- Mapped(ld)

(* A library is in memory exactly as long as a shared_library, an imported *)
(* value or a call that is making or destroying one owns it: two layers of *)
(* counting, shared_ptr's and the loader's, implement one ownership.       *)
ImportsImplementOwners == ImportOwners!Spec
=============================================================================
