---------------------------- MODULE WindowsLoader ----------------------------
(***************************************************************************)
(* What the Windows half of Boost.DLL relies on: the file system and       *)
(* LoadLibraryExW, FreeLibrary and GetModuleFileNameW, as far as the code  *)
(* can observe them.  A module is identified with the file it was mapped   *)
(* from.  Unlike POSIX, the loader completes names, searches several       *)
(* directories, and a file that is mapped can be renamed but neither       *)
(* replaced nor removed.                                                   *)
(***************************************************************************)
EXTENDS Integers, Sequences, SequencesExt, FiniteSets

CONSTANTS
    Dirs,       \* directories
    SearchPath, \* where a bare name is looked for; Dot is the working directory
    Names,      \* file names
    Extended,   \* the names that have an extension
    Suffixed,   \* Suffixed[n]: n with ".dll" appended
    Prefixed,   \* Prefixed[n]: n with "lib" in front and ".dll" appended
    Files,      \* file identities
    Loadable,   \* the files that can be mapped
    Lacking,    \* the modules that need another one, which nobody has
    Program,    \* the file of the running executable
    Symbols,    \* symbol names
    Exports,    \* Exports[f]: the symbols GetProcAddress finds in file f
    NoFile, NoHandle, NoPath,
    Bare,       \* the directory of a path without one: "x"
    Dot         \* the directory of a path relative to the working one: ".\x"

ASSUME WindowsLoaderAssumption ==
    /\ SearchPath \in Seq(Dirs \cup {Dot}) /\ SearchPath # <<>>
    /\ Extended \subseteq Names
    /\ Suffixed \in [Names -> Extended] /\ Prefixed \in [Names -> Extended]
    /\ Loadable \subseteq Files /\ Program \in Files \ Loadable
    /\ Lacking \subseteq Files \ (Loadable \cup {Program})
    /\ Exports \in [Files -> SUBSET Symbols]
    /\ NoFile \notin Files /\ NoHandle \notin Files
    /\ Bare \notin Dirs /\ Dot \notin Dirs /\ Bare # Dot
    /\ NoPath \notin [dir : Dirs, name : Names]

VARIABLES
    fs,     \* fs[d][n]: the file that name n of directory d denotes
    cwd,    \* the working directory of the process
    ld      \* the loader: reference counts and names of the modules

loaderVars == <<fs, cwd, ld>>

(* dotted: the name ends with "." (which names the same file). *)
Path == [dir : Dirs \cup {Bare, Dot}, name : Names, dotted : BOOLEAN]
FullName == [dir : Dirs, name : Names]
Handle == Files \cup {NoHandle}

LoaderTypeOK ==
    /\ fs \in [Dirs -> [Names -> Files \cup {NoFile}]]
    /\ cwd \in Dirs
    /\ ld \in [refs : [Files -> Nat], lname : [Files -> FullName \cup {NoPath}]]

Whereabouts(f) == {w \in FullName : fs[w.dir][w.name] = f}

(* The system maps the executable, by the name it was started with. *)
LoaderInit ==
    \E w \in Whereabouts(Program) :
        ld = [refs  |-> [f \in Files |-> IF f = Program THEN 1 ELSE 0],
              lname |-> [f \in Files |-> IF f = Program THEN w ELSE NoPath]]

Mapped(l) == {f \in Files : l.refs[f] > 0}

-----------------------------------------------------------------------------
Absolute(dir) == IF dir \in Dirs THEN dir ELSE cwd
FileAt(p) == fs[Absolute(p.dir)][p.name]

(* A name without an extension and without a final "." gets one. *)
Completed(p) ==
    IF p.dotted \/ p.name \in Extended THEN p.name ELSE Suffixed[p.name]

(* The full names that may be meant, in the order of the search. *)
Candidates(p) ==
    LET dirs == IF p.dir = Bare THEN SearchPath ELSE <<p.dir>>
    IN  [k \in DOMAIN dirs |-> [dir |-> Absolute(dirs[k]), name |-> Completed(p)]]

Meant(p) ==
    LET k == SelectInSeq(Candidates(p), LAMBDA w : fs[w.dir][w.name] # NoFile)
    IN  Candidates(p)[IF k = 0 THEN 1 ELSE k]
Found(p) == fs[Meant(p).dir][Meant(p).name]

(* A module that has the name answers for it; a bare name is compared with *)
(* the modules' names without their directories.                           *)
Namesakes(l, p) == {f \in Mapped(l) :
    IF p.dir = Bare THEN l.lname[f].name = Completed(p) ELSE l.lname[f] = Meant(p)}

LoadLibrary(l, p) ==
    IF Namesakes(l, p) # {} THEN CHOOSE f \in Namesakes(l, p) : TRUE
    ELSE IF Found(p) \in Loadable \cup Mapped(l) THEN Found(p)
    ELSE NoHandle

(* GetLastError() after LoadLibrary failed: ERROR_MOD_NOT_FOUND may be     *)
(* said of the module itself and of one that it needs.                     *)
LastError(p) ==
    IF Found(p) \in Lacking \cup {NoFile} THEN "module_not_found"
    ELSE "bad_exe_format"

Loaded(l, h, p) ==
    IF h = NoHandle THEN l
    ELSE [refs  |-> [l.refs EXCEPT ![h] = @ + 1],
          lname |-> IF l.refs[h] = 0 THEN [l.lname EXCEPT ![h] = Meant(p)]
                    ELSE l.lname]

(* FreeLibrary *)
Freed(l, h) ==
    IF h = NoHandle THEN l
    ELSE [refs  |-> [l.refs EXCEPT ![h] = @ - 1],
          lname |-> IF l.refs[h] = 1 THEN [l.lname EXCEPT ![h] = NoPath]
                    ELSE l.lname]
=============================================================================
