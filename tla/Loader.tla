------------------------------- MODULE Loader -------------------------------
(***************************************************************************)
(* What Boost.DLL relies on and does not implement: the file system seen   *)
(* through boost::dll::fs, the working directory, and the dynamic loader   *)
(* behind dlopen, dlclose, dlsym and dlerror.  Only what the library's     *)
(* code can observe of them is kept.                                       *)
(*                                                                         *)
(* A mapped image is identified with the file it was mapped from: POSIX    *)
(* has dlopen return one handle for one file however it is spelled.  Two   *)
(* kinds of loaders are covered: with ByName = TRUE (glibc, FreeBSD) a     *)
(* name that a mapped image already has is answered without looking at the *)
(* file system, with ByName = FALSE (musl, bionic) the file's device and   *)
(* inode decide.                                                           *)
(***************************************************************************)
EXTENDS Integers, FiniteSets

CONSTANTS
    Dirs,       \* directories
    SysDir,     \* the directory a name without a parent path is searched in
    Names,      \* file names
    Decorated,  \* Decorated[n]: n with the "lib" prefix and the suffix added
    Files,      \* file identities (device and inode)
    Loadable,   \* the files dlopen can map
    Program,    \* the file of the running executable
    Symbols,    \* symbol names
    Exports,    \* Exports[f]: the symbols dlsym finds in file f
    ByName,     \* does dlopen match the names of mapped images first?
    NoFile, NoHandle, NoPath,
    Bare,       \* the directory of a path without a parent path: "x"
    Dot,        \* the directory of a path relative to the working one: "./x"
    Nowhere     \* the directory of a path that denotes nothing any more

ASSUME LoaderAssumption ==
    /\ SysDir \in Dirs /\ Names # {}
    /\ Decorated \in [Names -> Names]
    /\ Loadable \subseteq Files
    /\ Program \in Files \ Loadable    \* dlopen does not map an executable
    /\ Exports \in [Files -> SUBSET Symbols]
    /\ ByName \in BOOLEAN
    /\ NoFile \notin Files
    /\ NoHandle \notin Files
    /\ NoPath \notin [dir : Dirs \cup {Bare, Dot, Nowhere}, name : Names]
    /\ {Bare, Dot, Nowhere} \cap Dirs = {}
    /\ Bare # Dot /\ Bare # Nowhere /\ Dot # Nowhere

VARIABLES
    fs,     \* fs[d][n]: the file that name n of directory d denotes
    cwd,    \* the working directory of the process
    ld,     \* the loader: reference counts and names of the images
    dlerr   \* is there an error text that dlerror has not handed out?

loaderVars == <<fs, cwd, ld, dlerr>>

Path == [dir : Dirs \cup {Bare, Dot, Nowhere}, name : Names]
Handle == Files \cup {NoHandle}

LoaderTypeOK ==
    /\ fs \in [Dirs -> [Names -> Files \cup {NoFile}]]
    /\ cwd \in Dirs
    /\ ld \in [refs : [Files -> Nat], lname : [Files -> Path \cup {NoPath}]]
    /\ dlerr \in BOOLEAN

(* The executable is mapped by the system before main() runs. *)
LoaderInit ==
    /\ ld = [refs  |-> [f \in Files |-> IF f = Program THEN 1 ELSE 0],
             lname |-> [f \in Files |-> NoPath]]
    /\ dlerr = FALSE

Mapped(l) == {f \in Files : l.refs[f] > 0}

-----------------------------------------------------------------------------
(* File system queries: exists(p) is FileAt(p) # NoFile, and equivalent(p, *)
(* q) of two existing files is FileAt(p) = FileAt(q).                      *)

FileAt(p) ==
    IF p.dir = Nowhere THEN NoFile
    ELSE fs[IF p.dir \in Dirs THEN p.dir ELSE cwd][p.name]

(* What dlopen looks at: a name without '/' is searched, not resolved.     *)
RealName(p) == IF p.dir = Bare THEN [p EXCEPT !.dir = SysDir] ELSE p
Searched(p) == FileAt(RealName(p))

(* read_symlink("/proc/self/exe"): where the executable is now; once it is *)
(* unlinked, the kernel's answer names no file.                            *)
ProgramLocation ==
    LET here == {p \in [dir : Dirs, name : Names] : FileAt(p) = Program}
    IN  IF here # {} THEN CHOOSE p \in here : TRUE
        ELSE [dir |-> Nowhere, name |-> CHOOSE n \in Names : TRUE]

-----------------------------------------------------------------------------
(* dlopen(p): the handle it returns, and the loader after it returned it.  *)

Namesakes(l, p) == {f \in Mapped(l) : ByName /\ l.lname[f] = RealName(p)}

Dlopen(l, p) ==
    IF Namesakes(l, p) # {} THEN CHOOSE f \in Namesakes(l, p) : TRUE
    ELSE IF Searched(p) \in Loadable THEN Searched(p)
    ELSE NoHandle

(* A first mapping keeps the name it was asked for in link_map::l_name.    *)
Opened(l, h, p) ==
    IF h = NoHandle THEN l
    ELSE [refs  |-> [l.refs EXCEPT ![h] = @ + 1],
          lname |-> IF l.refs[h] = 0
                    THEN [l.lname EXCEPT ![h] = RealName(p)] ELSE l.lname]

(* dlclose(h); the last one unmaps the image. *)
Closed(l, h) ==
    IF h = NoHandle THEN l
    ELSE [refs  |-> [l.refs EXCEPT ![h] = @ - 1],
          lname |-> IF l.refs[h] = 1
                    THEN [l.lname EXCEPT ![h] = NoPath] ELSE l.lname]
=============================================================================
