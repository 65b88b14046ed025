---------------------------- MODULE SharedLibrary ----------------------------
(***************************************************************************)
(* boost::dll::shared_library over detail::shared_library_impl for POSIX.  *)
(* An object is a handle; every other piece of state belongs to the        *)
(* loader.  One action is one call of a member by one thread.  An object   *)
(* that is not loaded also stands for one that is not constructed (yet, or *)
(* any more), so Unload is the destructor too, and a constructor is the    *)
(* member it calls on an object that is not loaded.                        *)
(***************************************************************************)
EXTENDS Loader

CONSTANTS
    Objs,       \* shared_library objects
    Paths,      \* (bound) the paths callers load by
    Searches,   \* (bound) with and without load_mode::search_system_folders
    FileSystems,\* (bound) the contents of the directories to start with
    Linux,      \* BOOST_OS_LINUX || BOOST_OS_ANDROID
    Steps       \* (bound) how many times the environment changes files or cwd

ASSUME LibraryAssumption ==
    /\ IsFiniteSet(Objs)
    /\ Paths \subseteq Path
    /\ Searches \subseteq BOOLEAN
    /\ FileSystems \subseteq [Dirs -> [Names -> Files \cup {NoFile}]]
    /\ Linux \in BOOLEAN
    /\ Steps \in Nat

VARIABLES
    handle,     \* handle[o]: shared_library_impl::handle_
    ret,        \* the last call: member, object, argument object, error code,
                \* and whether that was thrown
    steps       \* environment changes so far

vars == <<loaderVars, handle, ret, steps>>

Errors == {"bad_file_descriptor", "executable_format_error", "invalid_seek",
           "no_such_file_or_directory"}
Ok == "ok"
Calls == {"none", "load", "unload", "adopt", "assign", "move", "moveassign",
          "swap", "has", "get"}

TypeOK ==
    /\ LoaderTypeOK
    /\ handle \in [Objs -> Handle]
    /\ ret \in [op : Calls, obj : Objs, from : Objs, ec : Errors \cup {Ok},
               thrown : BOOLEAN]
    /\ steps \in 0 .. Steps

IsLoaded(o) == handle[o] # NoHandle

Returned(op, o, s, ec) ==
    ret' = [op |-> op, obj |-> o, from |-> s, ec |-> ec, thrown |-> FALSE]
Threw(op, o, s, ec) ==
    ret' = [op |-> op, obj |-> o, from |-> s, ec |-> ec, thrown |-> TRUE]

(* Mutant: report_error() throws without asking dlerror() for the text.    *)
ReportedKeepsText(op, o, s, ec, text, throws) ==
    /\ dlerr' = text
    /\ IF throws /\ ec # Ok THEN Threw(op, o, s, ec) ELSE Returned(op, o, s, ec)

(* How a call ends that leaves the loader's error text (or none) behind:   *)
(* the overload without an ec gives it to report_error(), which puts the   *)
(* text, whoever caused it, in the exception.                              *)
Reported(op, o, s, ec, text, throws) ==
    IF throws /\ ec # Ok THEN Threw(op, o, s, ec) /\ dlerr' = FALSE
    ELSE Returned(op, o, s, ec) /\ dlerr' = text

Init ==
    /\ fs \in FileSystems
    /\ cwd \in Dirs
    /\ LoaderInit
    /\ handle = [o \in Objs |-> NoHandle]
    /\ \E o \in Objs : ret = [op |-> "none", obj |-> o, from |-> o, ec |-> Ok,
                             thrown |-> FALSE]
    /\ steps = 0

-----------------------------------------------------------------------------
(* shared_library_impl::load after its unload(): the handle it ends with,  *)
(* the path it handed to dlopen, ec, and whether the loader's error text   *)
(* is left for report_error.                                               *)

Decorate(p) == [p EXCEPT !.name = Decorated[p.name]]

(* Unless system folders are searched, a relative name is tied to the      *)
(* working directory: "./" in front on Linux, an absolute path elsewhere.  *)
Anchored(p, search) ==
    IF search THEN p
    ELSE IF Linux THEN IF p.dir = Bare THEN [p EXCEPT !.dir = Dot] ELSE p
    ELSE IF p.dir \in {Bare, Dot} THEN [p EXCEPT !.dir = cwd] ELSE p

Attempt(h, p, ec, text) == [handle |-> h, path |-> p, ec |-> ec, text |-> text]

(* Mutant: ec.clear() is forgotten when the executable itself is opened.   *)
LoadExactKeepsError(l, sl) ==
    IF Dlopen(l, sl) # NoHandle THEN Attempt(Dlopen(l, sl), sl, Ok, FALSE)
    ELSE Attempt(IF FileAt(sl) = Program THEN Program ELSE NoHandle,
                 sl, "bad_file_descriptor", TRUE)

(* Mutant: reset_dlerror() is forgotten when the second dlopen succeeds.   *)
LoadExactKeepsText(l, sl) ==
    IF Dlopen(l, sl) # NoHandle THEN Attempt(Dlopen(l, sl), sl, Ok, TRUE)
    ELSE IF FileAt(sl) = Program THEN Attempt(Program, sl, Ok, FALSE)
    ELSE Attempt(NoHandle, sl, "bad_file_descriptor", TRUE)

LoadExact(l, sl) ==
    IF Dlopen(l, sl) # NoHandle THEN Attempt(Dlopen(l, sl), sl, Ok, FALSE)
    ELSE IF FileAt(sl) = Program THEN Attempt(Program, sl, Ok, FALSE)
    ELSE Attempt(NoHandle, sl, "bad_file_descriptor", TRUE)

(* Mutant: exists() is asked about the undecorated path.                   *)
LoadOutcomeAsksWrongPath(l, p, decorations, search) ==
    LET sl == Anchored(p, search)
    IN  IF p = NoPath
        THEN Attempt(NoHandle, p, "bad_file_descriptor", FALSE)
        ELSE IF ~decorations THEN LoadExact(l, sl)
        ELSE IF Dlopen(l, Decorate(sl)) # NoHandle
        THEN Attempt(Dlopen(l, Decorate(sl)), Decorate(sl), Ok, FALSE)
        ELSE IF FileAt(sl) \notin {NoFile, Program}
        THEN Attempt(NoHandle, sl, "executable_format_error", TRUE)
        ELSE LoadExact(l, sl)

LoadOutcome(l, p, decorations, search) ==
    LET sl     == Anchored(p, search)
        actual == Decorate(sl)
    IN  IF p = NoPath
        THEN Attempt(NoHandle, p, "bad_file_descriptor", FALSE)
        ELSE IF ~decorations THEN LoadExact(l, sl)
        ELSE IF Dlopen(l, actual) # NoHandle
        THEN Attempt(Dlopen(l, actual), actual, Ok, FALSE)
        ELSE IF FileAt(actual) # NoFile /\ FileAt(sl) # Program
        THEN Attempt(NoHandle, actual, "executable_format_error", TRUE)
        ELSE LoadExact(l, sl)

(* Mutant: load() does not unload() first.                                 *)
LoadLeaks(o, p, decorations, search, throws) ==
    LET r == LoadOutcome(ld, p, decorations, search)
    IN  /\ handle' = [handle EXCEPT ![o] = r.handle]
        /\ ld' = Opened(ld, r.handle, r.path)
        /\ Reported("load", o, o, r.ec, r.text, throws)
        /\ UNCHANGED <<fs, cwd, steps>>

Load(o, p, decorations, search, throws) ==
    LET l == Closed(ld, handle[o])
        r == LoadOutcome(l, p, decorations, search)
    IN  /\ handle' = [handle EXCEPT ![o] = r.handle]
        /\ ld' = Opened(l, r.handle, r.path)
        /\ Reported("load", o, o, r.ec, r.text, throws)
        /\ UNCHANGED <<fs, cwd, steps>>

(* Mutant: handle_ = 0 is forgotten after dlclose.                         *)
UnloadKeepsHandle(o) ==
    /\ ld' = Closed(ld, handle[o])
    /\ Returned("unload", o, o, Ok)
    /\ UNCHANGED <<fs, cwd, dlerr, handle, steps>>

Unload(o) ==
    /\ handle' = [handle EXCEPT ![o] = NoHandle]
    /\ ld' = Closed(ld, handle[o])
    /\ Returned("unload", o, o, Ok)
    /\ UNCHANGED <<fs, cwd, dlerr, steps>>

(* shared_library(dlopen(p, ...)): the object owns the caller's reference. *)
Adopt(o, p) ==
    /\ ~IsLoaded(o)
    /\ handle' = [handle EXCEPT ![o] = Dlopen(ld, p)]
    /\ ld' = Opened(ld, Dlopen(ld, p), p)
    /\ dlerr' = (dlerr \/ Dlopen(ld, p) = NoHandle)
    /\ Returned("adopt", o, o, Ok)
    /\ UNCHANGED <<fs, cwd, steps>>

-----------------------------------------------------------------------------
(* location(): the image's name as the loader has it; the executable has   *)
(* an empty one, and program_location() answers for it.                    *)
Location(h) == IF ld.lname[h] = NoPath THEN ProgramLocation ELSE ld.lname[h]

(* assign(lib, ec), and the copy constructor and copy assignment made of   *)
(* it: a copy is a second load, by path and in the default mode, and only  *)
(* when that succeeded the object's own library is given up.               *)
AssignSame(o, s) ==
    /\ handle[o] = handle[s]
    /\ Returned("assign", o, s, Ok)
    /\ UNCHANGED <<loaderVars, handle, steps>>

(* Mutant: a library that is not loaded is "nothing to copy".              *)
AssignNothingKeeps(o, s) ==
    /\ IsLoaded(o) /\ ~IsLoaded(s)
    /\ Returned("assign", o, s, Ok)
    /\ UNCHANGED <<loaderVars, handle, steps>>

AssignNothing(o, s) ==
    /\ IsLoaded(o) /\ ~IsLoaded(s)
    /\ handle' = [handle EXCEPT ![o] = NoHandle]
    /\ ld' = Closed(ld, handle[o])
    /\ Returned("assign", o, s, Ok)
    /\ UNCHANGED <<fs, cwd, dlerr, steps>>

(* Mutant: load(lib.location(), ec) on the object itself, without a copy.  *)
AssignReloads(o, s, throws) ==
    /\ handle[o] # handle[s] /\ IsLoaded(s)
    /\ LET l == Closed(ld, handle[o])
           r == LoadOutcome(l, Location(handle[s]), FALSE, FALSE)
       IN  /\ handle' = [handle EXCEPT ![o] = r.handle]
           /\ ld' = Opened(l, r.handle, r.path)
           /\ Reported("assign", o, s, r.ec, r.text, throws)
    /\ UNCHANGED <<fs, cwd, steps>>

(* Mutant: the handle is copied without a reference of its own.            *)
AssignByHandle(o, s, throws) ==
    /\ handle[o] # handle[s] /\ IsLoaded(s)
    /\ handle' = [handle EXCEPT ![o] = handle[s]]
    /\ ld' = Closed(ld, handle[o])
    /\ Returned("assign", o, s, Ok)
    /\ UNCHANGED <<fs, cwd, dlerr, steps>>

AssignLoaded(o, s, throws) ==
    /\ handle[o] # handle[s] /\ IsLoaded(s)
    /\ LET copy == LoadOutcome(ld, Location(handle[s]), FALSE, FALSE)
       IN  /\ IF copy.ec = Ok
              THEN /\ handle' = [handle EXCEPT ![o] = copy.handle]
                   /\ ld' = Closed(Opened(ld, copy.handle, copy.path), handle[o])
              ELSE UNCHANGED <<handle, ld>>
           /\ Reported("assign", o, s, copy.ec, copy.text, throws)
    /\ UNCHANGED <<fs, cwd, steps>>

(* The loader does not say where the argument is.  On Linux this is only   *)
(* the executable without /proc, and nothing resets dlerror(); elsewhere   *)
(* path_from_handle may, or program_location_impl() fails as on Linux.     *)
AssignUnlocated(o, s, throws) ==
    /\ handle[o] # handle[s] /\ IsLoaded(s)
    /\ Linux => handle[s] = Program
    /\ \/ Reported("assign", o, s, "no_such_file_or_directory", dlerr, throws)
       \/ ~Linux /\ Reported("assign", o, s, "bad_file_descriptor", FALSE, throws)
    /\ UNCHANGED <<fs, cwd, ld, handle, steps>>

Trade(o, s) == [handle EXCEPT ![o] = handle[s], ![s] = handle[o]]

(* Mutant: sl.handle_ = nullptr is forgotten in the move constructor.      *)
MoveConstructCopies(o, s) ==
    /\ o # s /\ ~IsLoaded(o)
    /\ handle' = [handle EXCEPT ![o] = handle[s]]
    /\ Returned("move", o, s, Ok)
    /\ UNCHANGED <<loaderVars, steps>>

MoveConstruct(o, s) ==
    /\ o # s /\ ~IsLoaded(o)
    /\ handle' = [handle EXCEPT ![s] = NoHandle, ![o] = handle[s]]
    /\ Returned("move", o, s, Ok)
    /\ UNCHANGED <<loaderVars, steps>>

MoveAssign(o, s) ==
    /\ handle' = IF handle[s] # handle[o] THEN Trade(o, s) ELSE handle
    /\ Returned("moveassign", o, s, Ok)
    /\ UNCHANGED <<loaderVars, steps>>

Swap(o, s) ==
    /\ handle' = Trade(o, s)
    /\ Returned("swap", o, s, Ok)
    /\ UNCHANGED <<loaderVars, steps>>

-----------------------------------------------------------------------------
(* has(symbol) leaves dlsym's error text behind; get(symbol) throws it.    *)

Finds(o, y) == y \in Exports[handle[o]]

Has(o, y) ==
    /\ dlerr' = (dlerr \/ (IsLoaded(o) /\ ~Finds(o, y)))
    /\ Returned("has", o, o, Ok)
    /\ UNCHANGED <<fs, cwd, ld, handle, steps>>

Get(o, y) ==
    /\ IF ~IsLoaded(o)
       THEN Threw("get", o, o, "bad_file_descriptor") /\ UNCHANGED dlerr
       ELSE IF Finds(o, y) THEN Returned("get", o, o, Ok) /\ UNCHANGED dlerr
       ELSE Reported("get", o, o, "invalid_seek", TRUE, TRUE)
    /\ UNCHANGED <<fs, cwd, ld, handle, steps>>

(* Somebody installs, replaces or removes a file, or changes directory.    *)
(* The running executable may be replaced or removed like any other file,  *)
(* but not given a new name.                                               *)
Environment ==
    /\ steps < Steps
    /\ steps' = steps + 1
    /\ \/ \E d \in Dirs, n \in Names, f \in (Files \ {Program}) \cup {NoFile} :
            /\ fs' = [fs EXCEPT ![d][n] = f]
            /\ UNCHANGED cwd
       \/ cwd' \in Dirs /\ UNCHANGED fs
    /\ ret' = [ret EXCEPT !.op = "none", !.ec = Ok, !.thrown = FALSE]
    /\ UNCHANGED <<ld, dlerr, handle>>

Next ==
    \/ \E o \in Objs :
        \/ \E p \in Paths \cup {NoPath}, search \in Searches,
              decorations, throws \in BOOLEAN :
                Load(o, p, decorations, search, throws)
        \/ Unload(o)
        \/ \E p \in Paths : Adopt(o, p)
        \/ \E s \in Objs :
              \/ AssignSame(o, s)
              \/ AssignNothing(o, s)
              \/ \E throws \in BOOLEAN :
                    AssignLoaded(o, s, throws) \/ AssignUnlocated(o, s, throws)
              \/ MoveConstruct(o, s)
              \/ MoveAssign(o, s)
              \/ Swap(o, s)
        \/ \E y \in Symbols : Has(o, y) \/ Get(o, y)
    \/ Environment

Spec == Init /\ [][Next]_vars

-----------------------------------------------------------------------------
Owners(f) == {o \in Objs : handle[o] = f}

(* Every reference the loader counts has exactly one object that will      *)
(* release it: no path through load, assign, move or swap leaks a          *)
(* reference or closes one twice.  The executable has one of its own.      *)
Ownership == \A f \in Files :
    ld.refs[f] = Cardinality(Owners(f)) + (IF f = Program THEN 1 ELSE 0)

(* load() reports no error exactly when the object ends loaded: whatever   *)
(* attempt failed before, and through the unload it starts with.           *)
LoadTellsTheTruth ==
    ret.op = "load" => (ret.ec = Ok <=> IsLoaded(ret.obj))

(* With a loader that matches names, the names of the mapped images tell   *)
(* them apart, and none of them is where the executable is; a copy by path *)
(* depends on it.                                                          *)
NamesTellApart(l) == \A f \in Mapped(l) :
    /\ f = Program <=> l.lname[f] = NoPath
    /\ f # Program =>
         /\ l.lname[f].dir \in Dirs \cup {Dot}
         /\ l.lname[f].dir \in Dirs => FileAt(l.lname[f]) # Program
    /\ \A g \in Mapped(l) : l.lname[f] = l.lname[g] => f = g
NamesInv == NamesTellApart(ld)

(* A copy that fails leaves its target and the loader as they were,        *)
(* whichever of the two loads inside it failed.                            *)
FailedAssignChangesNothing ==
    [][ret'.op = "assign" /\ ret'.ec # Ok => UNCHANGED <<handle, ld>>]_vars

(* "lib == *this" after a copy that reported no error (shared_library.hpp, *)
(* copy constructors, operator= and assign).                               *)
CopyIsEqual ==
    ret.op = "assign" /\ ret.ec = Ok => handle[ret.obj] = handle[ret.from]

(* "Does not invalidate existing symbols and functions loaded from lib":   *)
(* whatever is copied, moved or swapped, the argument's library stays.     *)
SourceStaysMapped ==
    [][ret'.op \in {"assign", "move", "moveassign", "swap"}
         => handle[ret'.from] \in Mapped(ld') \cup {NoHandle}]_vars

(* "lib.is_loaded() returns false" after lib was moved from.               *)
MovedFromIsEmpty ==
    ret.op \in {"move", "moveassign"} => ~IsLoaded(ret.from)

(* executable_format_error is for a file that dlopen found and could not   *)
(* map ("decorated path exists", shared_library_impl.hpp).                 *)
FormatErrorMeansMalformed ==
    [][ret'.op = "load" /\ ret'.ec = "executable_format_error"
         => \A p \in Paths, search \in Searches, throws \in BOOLEAN :
              Load(ret'.obj, p, TRUE, search, throws)
                => Searched(Decorate(Anchored(p, search))) \in Files \ Loadable]_vars

(* No error text is left to be reported with a later, unrelated failure    *)
(* (report_error): neither that of an attempt that was recovered from, nor *)
(* one that an exception has carried away.  What leaves a text is a call   *)
(* that fails and throws nothing: has(), dlopen() by the caller, and load  *)
(* and assign with an ec.  (get() of an object that is not loaded has an   *)
(* exception of its own and does not look at dlerror().)                   *)
NoStaleText ==
    [][/\ dlerr' /\ ~dlerr =>
            \/ ret'.op \in {"has", "adopt"}
            \/ ret'.op \in {"load", "assign"} /\ ret'.ec # Ok /\ ~ret'.thrown
       /\ ret'.thrown /\ (ret'.op = "get" => IsLoaded(ret'.obj)) => ~dlerr']_vars

Abstract == INSTANCE LibraryOwners
    WITH Libs <- Files, None <- NoHandle,
         owns <- handle, resident <- Mapped(ld)

(* The counts, names and paths implement what the documentation promises.  *)
ImplementsOwners == Abstract!Spec
=============================================================================
