--------------------------- MODULE WindowsLibrary ---------------------------
(***************************************************************************)
(* boost::dll::shared_library over detail::shared_library_impl for         *)
(* Windows.  Objects, and what an action stands for, are as in             *)
(* SharedLibrary; the members of shared_library itself are the same code   *)
(* over another loader.                                                    *)
(***************************************************************************)
EXTENDS WindowsLoader

CONSTANTS
    Objs,       \* shared_library objects
    Paths,      \* (bound) the paths callers load by
    FileSystems,\* (bound) the contents of the directories to start with
    Steps       \* (bound) how many times the environment changes files or cwd

ASSUME LibraryAssumption ==
    /\ IsFiniteSet(Objs)
    /\ Paths \subseteq [dir : Dirs \cup {Bare, Dot}, name : Names, dotted : BOOLEAN]
    /\ FileSystems \subseteq [Dirs -> [Names -> Files \cup {NoFile}]]
    /\ Steps \in Nat

VARIABLES
    handle,     \* handle[o]: shared_library_impl::handle_
    ret,        \* the last load(), copy or get(): objects and error code
    steps       \* environment changes so far

vars == <<loaderVars, handle, ret, steps>>

Errors == {"bad_file_descriptor", "module_not_found", "bad_exe_format",
           "procedure_not_found"}
Ok == "ok"
NoCall == [op |-> "none", obj |-> NoHandle, from |-> NoHandle, ec |-> Ok]

WinTypeOK ==
    /\ LoaderTypeOK
    /\ handle \in [Objs -> Handle]
    /\ ret \in [op : {"load", "assign", "get"}, obj : Objs, from : Objs,
                ec : Errors \cup {Ok}] \cup {NoCall}
    /\ steps \in 0 .. Steps

IsLoaded(o) == handle[o] # NoHandle

(* Members that report nothing leave no error code. *)
Silent == ret' = NoCall
Returned(op, o, s, ec) == ret' = [op |-> op, obj |-> o, from |-> s, ec |-> ec]

Init ==
    /\ fs \in FileSystems
    /\ cwd \in Dirs
    /\ LoaderInit
    /\ handle = [o \in Objs |-> NoHandle]
    /\ ret = NoCall
    /\ steps = 0

-----------------------------------------------------------------------------
(* shared_library_impl::load after its unload(): what an attempt ends      *)
(* with, and whether it should be the last one.                            *)
Attempt(h, p, ec, last) == [handle |-> h, path |-> p, ec |-> ec, last |-> last]

Anchored(p, search) ==
    IF search \/ p.dir \in Dirs THEN p ELSE [p EXCEPT !.dir = cwd]

Decorate(p) == [p EXCEPT !.name = Suffixed[p.name], !.dotted = FALSE]
MinGW(p) == [p EXCEPT !.name = Prefixed[p.name], !.dotted = FALSE]

(* From MSDN: a final "." keeps the loader from completing the name.       *)
WithDot(p) == IF p.name \in Extended THEN p ELSE [p EXCEPT !.dotted = TRUE]

(* Mutant: an attempt is the last one only if it succeeds.                 *)
LoadImplGoesOn(l, p) ==
    IF LoadLibrary(l, p) # NoHandle THEN Attempt(LoadLibrary(l, p), p, Ok, TRUE)
    ELSE Attempt(NoHandle, p, Ok, FALSE)

(* Mutant: ec.clear() is forgotten when there is no such file.             *)
LoadImplKeepsError(l, p) ==
    IF LoadLibrary(l, p) # NoHandle THEN Attempt(LoadLibrary(l, p), p, Ok, TRUE)
    ELSE Attempt(NoHandle, p, LastError(p), FileAt(p) # NoFile)

LoadImpl(l, p) ==
    IF LoadLibrary(l, p) # NoHandle THEN Attempt(LoadLibrary(l, p), p, Ok, TRUE)
    ELSE IF FileAt(p) # NoFile THEN Attempt(NoHandle, p, LastError(p), TRUE)
    ELSE Attempt(NoHandle, p, Ok, FALSE)

(* Mutant: no "." is added to a name without an extension.                 *)
LoadExactUndotted(l, sl, ec) ==
    LET h == LoadLibrary(l, sl)
    IN  Attempt(h, sl, IF h = NoHandle THEN LastError(sl) ELSE ec, TRUE)

(* ec is assigned only when nothing was loaded.                            *)
LoadExact(l, sl, ec) ==
    LET p == WithDot(sl)
        h == LoadLibrary(l, p)
    IN  Attempt(h, p, IF h = NoHandle THEN LastError(p) ELSE ec, TRUE)

LoadOutcome(l, p, decorations, search) ==
    LET sl        == Anchored(p, search)
        decorated == LoadImpl(l, Decorate(sl))
        mingw     == LoadImpl(l, MinGW(sl))
    IN  IF ~decorations THEN LoadExact(l, sl, Ok)
        ELSE IF decorated.last THEN decorated
        ELSE IF mingw.last THEN mingw
        ELSE LoadExact(l, sl, mingw.ec)

Load(o, p, decorations, search) ==
    LET l == Freed(ld, handle[o])
        r == LoadOutcome(l, p, decorations, search)
    IN  /\ handle' = [handle EXCEPT ![o] = r.handle]
        /\ ld' = Loaded(l, r.handle, r.path)
        /\ Returned("load", o, o, r.ec)
        /\ UNCHANGED <<fs, cwd, steps>>

(* Mutant: handle_ = 0 is forgotten after FreeLibrary.                     *)
UnloadKeepsHandle(o) ==
    /\ ld' = Freed(ld, handle[o])
    /\ Silent
    /\ UNCHANGED <<fs, cwd, handle, steps>>

Unload(o) ==
    /\ handle' = [handle EXCEPT ![o] = NoHandle]
    /\ ld' = Freed(ld, handle[o])
    /\ Silent
    /\ UNCHANGED <<fs, cwd, steps>>

(* shared_library(LoadLibraryW(p)): the object owns the caller's reference. *)
Adopt(o, p) ==
    /\ ~IsLoaded(o)
    /\ handle' = [handle EXCEPT ![o] = LoadLibrary(ld, p)]
    /\ ld' = Loaded(ld, LoadLibrary(ld, p), p)
    /\ Silent
    /\ UNCHANGED <<fs, cwd, steps>>

-----------------------------------------------------------------------------
(* GetModuleFileNameW: the full name the module was mapped by. *)
Location(h) == [dir |-> ld.lname[h].dir, name |-> ld.lname[h].name, dotted |-> FALSE]

AssignSame(o, s) ==
    /\ handle[o] = handle[s]
    /\ Returned("assign", o, s, Ok)
    /\ UNCHANGED <<loaderVars, handle, steps>>

AssignNothing(o, s) ==
    /\ IsLoaded(o) /\ ~IsLoaded(s)
    /\ handle' = [handle EXCEPT ![o] = NoHandle]
    /\ ld' = Freed(ld, handle[o])
    /\ Returned("assign", o, s, Ok)
    /\ UNCHANGED <<fs, cwd, steps>>

(* Mutant: the copy is loaded with decorations.                            *)
AssignLoadedDecorated(o, s) ==
    /\ handle[o] # handle[s] /\ IsLoaded(s)
    /\ LET copy == LoadOutcome(ld, Location(handle[s]), TRUE, FALSE)
       IN  /\ IF copy.ec = Ok
              THEN /\ handle' = [handle EXCEPT ![o] = copy.handle]
                   /\ ld' = Freed(Loaded(ld, copy.handle, copy.path), handle[o])
              ELSE UNCHANGED <<handle, ld>>
           /\ Returned("assign", o, s, copy.ec)
    /\ UNCHANGED <<fs, cwd, steps>>

(* A second load by path, in the default mode, and a swap.                 *)
AssignLoaded(o, s) ==
    /\ handle[o] # handle[s] /\ IsLoaded(s)
    /\ LET copy == LoadOutcome(ld, Location(handle[s]), FALSE, FALSE)
       IN  /\ IF copy.ec = Ok
              THEN /\ handle' = [handle EXCEPT ![o] = copy.handle]
                   /\ ld' = Freed(Loaded(ld, copy.handle, copy.path), handle[o])
              ELSE UNCHANGED <<handle, ld>>
           /\ Returned("assign", o, s, copy.ec)
    /\ UNCHANGED <<fs, cwd, steps>>

Trade(o, s) == [handle EXCEPT ![o] = handle[s], ![s] = handle[o]]

(* Mutant: sl.handle_ = nullptr is forgotten in the move constructor.      *)
MoveConstructCopies(o, s) ==
    /\ o # s /\ ~IsLoaded(o)
    /\ handle' = [handle EXCEPT ![o] = handle[s]]
    /\ Silent
    /\ UNCHANGED <<loaderVars, steps>>

MoveConstruct(o, s) ==
    /\ o # s /\ ~IsLoaded(o)
    /\ handle' = [handle EXCEPT ![s] = NoHandle, ![o] = handle[s]]
    /\ Silent
    /\ UNCHANGED <<loaderVars, steps>>

MoveAssign(o, s) ==
    /\ handle' = IF handle[s] # handle[o] THEN Trade(o, s) ELSE handle
    /\ Silent
    /\ UNCHANGED <<loaderVars, steps>>

Swap(o, s) ==
    /\ handle' = Trade(o, s)
    /\ Silent
    /\ UNCHANGED <<loaderVars, steps>>

(* has() is get() without its error. *)
Get(o, y) ==
    /\ Returned("get", o, o,
           IF ~IsLoaded(o) THEN "bad_file_descriptor"
           ELSE IF y \in Exports[handle[o]] THEN Ok ELSE "procedure_not_found")
    /\ UNCHANGED <<loaderVars, handle, steps>>

-----------------------------------------------------------------------------
InUse(f) == f \in Mapped(ld)

(* Somebody installs, replaces or removes a file that is not in use,       *)
(* renames one, or changes directory.                                      *)
Environment ==
    /\ steps < Steps
    /\ steps' = steps + 1
    /\ \/ \E w \in FullName, f \in (Files \ {Program}) \cup {NoFile} :
            /\ ~InUse(fs[w.dir][w.name]) /\ fs[w.dir][w.name] # f
            /\ fs' = [fs EXCEPT ![w.dir][w.name] = f]
            /\ UNCHANGED cwd
       \/ \E w, v \in FullName :
            /\ fs[w.dir][w.name] # NoFile /\ fs[v.dir][v.name] = NoFile
            /\ fs' = [fs EXCEPT ![v.dir][v.name] = fs[w.dir][w.name],
                                ![w.dir][w.name] = NoFile]
            /\ UNCHANGED cwd
       \/ cwd' \in Dirs \ {cwd} /\ UNCHANGED fs
    /\ Silent
    /\ UNCHANGED <<ld, handle>>

Next ==
    \/ \E o \in Objs :
        \/ \E p \in Paths, decorations, search \in BOOLEAN :
              Load(o, p, decorations, search)
        \/ Unload(o)
        \/ \E p \in Paths : Adopt(o, p)
        \/ \E s \in Objs :
              \/ AssignSame(o, s)
              \/ AssignNothing(o, s)
              \/ AssignLoaded(o, s)
              \/ MoveConstruct(o, s)
              \/ MoveAssign(o, s)
              \/ Swap(o, s)
        \/ \E y \in Symbols : Get(o, y)
    \/ Environment

Spec == Init /\ [][Next]_vars

-----------------------------------------------------------------------------
Owners(f) == {o \in Objs : handle[o] = f}

(* Every reference has exactly one object that will free it, through up to *)
(* three attempts of a load and the temporary object of a copy.            *)
WinOwnership == \A f \in Files :
    ld.refs[f] = Cardinality(Owners(f)) + (IF f = Program THEN 1 ELSE 0)

(* The inductive part: without owners to count, the references would not   *)
(* stay natural numbers.                                                   *)
WinInv == WinTypeOK /\ WinOwnership

(* load() reports no error exactly when the object ends loaded: no error   *)
(* of an attempt that was followed by another one survives, and a load     *)
(* that fails says so.                                                     *)
WinLoadTellsTheTruth ==
    ret.op = "load" => (ret.ec = Ok <=> IsLoaded(ret.obj))

(* A copy never fails, and is equal to its source, wherever the source's   *)
(* file has been moved since ("lib == *this", shared_library.hpp).         *)
WinCopyIsEqual ==
    ret.op = "assign" => ret.ec = Ok /\ handle[ret.obj] = handle[ret.from]

Loading(o, p, decorations, search) ==
    LoadOutcome(Freed(ld, handle[o]), p, decorations, search)

(* "From experiments: Default library extension appended to the module     *)
(* name even if we have some path": a load without decorations opens a     *)
(* file of the name it was given, never the one with ".dll" appended.      *)
ExactMeansExact == \A o \in Objs, p \in Paths, search \in BOOLEAN :
    LET r == Loading(o, p, FALSE, search)
    IN  r.handle # NoHandle =>
          \/ Loaded(Freed(ld, handle[o]), r.handle, r.path).lname[r.handle].name = p.name
          \/ \E d \in Dirs : fs[d][p.name] = r.handle

(* The names load() may try, in their order. *)
Tried(sl, decorations) ==
    IF decorations THEN <<Decorate(sl), MinGW(sl), WithDot(sl)>>
    ELSE <<WithDot(sl)>>

(* "decorated path exists : current error is not a bad file descriptor":   *)
(* unless system folders are searched, a file with one of the names keeps  *)
(* load() from the names after it, also when it cannot be mapped, and the  *)
(* error of a load that fails is the loader's for that file; it is the     *)
(* undecorated name's only if no file has one of the decorated names.      *)
FirstThereDecides == \A o \in Objs, p \in Paths, decorations \in BOOLEAN :
    LET r     == Loading(o, p, decorations, FALSE)
        names == Tried(Anchored(p, FALSE), decorations)
    IN  \E k \in DOMAIN names :
          /\ r.path = names[k]
          /\ \A j \in 1 .. k - 1 : Found(names[j]) = NoFile
          /\ r.handle = NoHandle => /\ r.ec = LastError(names[k])
                                    /\ Found(names[k]) # NoFile \/ k = Len(names)

Abstract == INSTANCE LibraryOwners
    WITH Libs <- Files, None <- NoHandle,
         owns <- handle, resident <- Mapped(ld)

(* The Windows loader's counts and names implement the same promise.       *)
WinImplementsOwners == Abstract!Spec
=============================================================================
