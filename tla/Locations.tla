------------------------------ MODULE Locations ------------------------------
(***************************************************************************)
(* Where is a library, a symbol, the program?  shared_library::location(), *)
(* symbol_location_ptr() and program_location() on every platform: one     *)
(* thread asks, in the steps of detail/*/path_from_handle.hpp and          *)
(* program_location_impl.hpp, while other threads load and unload images.  *)
(*                                                                         *)
(* An image stands for its handle, its path and the addresses inside it.   *)
(* The loader, dladdr, VirtualQuery and GetModuleFileNameW are external:   *)
(* they are modelled as the comments of this code describe them.           *)
(***************************************************************************)
EXTENDS Integers, Sequences, SequencesExt, FiniteSets

CONSTANTS
    Images,     \* what can be in memory
    Program,    \* the executable, in memory from the start
    NoImage,    \* no handle, a null pointer, an empty path
    Nowhere,    \* an address that is in no image
    Length,     \* Length[x]: the number of characters of x's path
    Hosts,      \* (bound) [platform, layout, proc, lasterr, libs]: see Init
    Memory,     \* (bound) the largest buffer, in characters, there is memory for
    Changes     \* (bound) loads and unloads by other threads

ASSUME LocationsAssumption ==
    /\ Program \in Images
    /\ NoImage \notin Images /\ Nowhere \notin Images /\ NoImage # Nowhere
    /\ Length \in [Images -> Nat \ {0}]
    /\ Memory \in Nat /\ Memory >= 1024 * 1024
    /\ Changes \in Nat

VARIABLES
    host,       \* the platform, how bionic lays out soinfo, can it
                \* name the executable
    lib,        \* handle_ of the caller's shared_library
    refs,       \* the loader's reference counts
    images,     \* the images in memory, in the order of dyld's list
    held,       \* the images other threads hold a reference of
    call,       \* the call the thread makes and where it is in it
    lasterr,    \* GetLastError() of the thread
    dlerr,      \* is there an error text for dlerror() of the thread?
    gone,       \* did an image leave memory since the call began?
    changes     \* loads and unloads by other threads so far

vars == <<host, lib, refs, images, held, call, lasterr, dlerr, gone, changes>>
loader == <<refs, images>>

Platforms == {"macos", "android", "linux", "qnx", "freebsd", "solaris",
              "windows", "cygwin"}
Ok == "ok"
Errors == {"bad_file_descriptor", "bad_address", "module_not_found",
           "insufficient_buffer", "invalid_parameter", "no_such_file", "bad_alloc"}
Mapped == {x \in Images : refs[x] > 0}

ASSUME HostsAssumption ==
    Hosts \subseteq [platform : Platforms, layout : {"array", "plain"}, proc : BOOLEAN,
                    lasterr : Errors \cup {Ok}, libs : SUBSET Images]

NoCall == [op |-> "none", of |-> NoImage, pc |-> "done", count |-> 0, i |-> 0,
           name |-> NoImage, probe |-> NoImage, size |-> 0,
           path |-> NoImage, length |-> 0, ec |-> Ok]

Init ==
    /\ host \in Hosts
    /\ lib = NoImage
    /\ lasterr = host.lasterr
    /\ refs = [x \in Images |-> IF x = Program THEN 1 ELSE 0]
    /\ images = <<Program>>
    /\ held = {}
    /\ call = NoCall
    /\ dlerr = FALSE /\ gone = FALSE /\ changes = 0

-----------------------------------------------------------------------------
(* The loader. *)

Dlopen(x) ==
    /\ refs' = [refs EXCEPT ![x] = @ + 1]
    /\ images' = IF refs[x] = 0 THEN Append(images, x) ELSE images

(* An image is in the list once. *)
Position(x) == CHOOSE i \in DOMAIN images : images[i] = x

Dlclose(x) ==
    /\ refs' = [refs EXCEPT ![x] = @ - 1]
    /\ images' = IF refs[x] = 1 THEN RemoveAt(images, Position(x)) ELSE images
    /\ gone' = (gone \/ refs[x] = 1)

(* shared_library::load of the thread that asks (module SharedLibrary). *)
LoadLibrary(x) ==
    /\ call.pc = "done" /\ lib = NoImage
    /\ Dlopen(x)
    /\ lib' = x
    /\ UNCHANGED <<host, held, call, lasterr, dlerr, gone, changes>>

OtherLoads(x) ==
    /\ changes < Changes /\ x \notin held
    /\ Dlopen(x)
    /\ held' = held \cup {x}
    /\ changes' = changes + 1
    /\ UNCHANGED <<host, lib, call, lasterr, dlerr, gone>>

OtherUnloads(x) ==
    /\ changes < Changes /\ x \in held
    /\ Dlclose(x)
    /\ held' = held \ {x}
    /\ changes' = changes + 1
    /\ UNCHANGED <<host, lib, call, lasterr, dlerr>>

-----------------------------------------------------------------------------
(* The calls.  A step of a call changes call, and what it names besides.   *)

Calling(op, of, pc) == [NoCall EXCEPT !.op = op, !.of = of, !.pc = pc]
Answer(c, x, length, ec) ==
    [c EXCEPT !.pc = "done", !.path = x, !.length = length, !.ec = ec,
              !.probe = NoImage]
Found(c, x) == Answer(c, x, Length[x], Ok)
Failed(c, ec) == Answer(c, NoImage, 0, ec)

Begin(c) ==
    /\ call.pc = "done"
    /\ call' = c
    /\ gone' = FALSE
    /\ UNCHANGED <<host, lib, loader, held, lasterr, dlerr, changes>>

(* shared_library::location(ec) *)
LibraryLocation ==
    LET c == Calling("library", lib, "handle")
    IN  Begin(IF lib = NoImage THEN Failed(c, "bad_file_descriptor") ELSE c)

(* symbol_location_ptr(ptr, ec) of a pointer into x, of a null pointer, or *)
(* of one into the heap.                                                   *)
SymbolLocation(x) ==
    LET c == Calling("symbol", x, "address")
    IN  Begin(IF x = NoImage THEN Failed(c, "bad_address") ELSE c)

(* program_location(ec) *)
ProgramLocation == Begin(Calling("program", Program, "program"))

AtStep(pc, platforms) == call.pc = pc /\ host.platform \in platforms
OnlyCall == UNCHANGED <<host, lib, loader, held, lasterr, dlerr, gone, changes>>

(* dladdr *)
Dladdr ==
    /\ AtStep("address", Platforms \ {"windows"})
    /\ call' = IF call.of \in Mapped THEN Found(call, call.of)
               ELSE Failed(call, "bad_address")
    /\ dlerr' = (dlerr /\ call.of \in Mapped)
    /\ UNCHANGED <<host, lib, loader, held, lasterr, gone, changes>>

(* VirtualQuery succeeds for the heap, too; its AllocationBase is then no  *)
(* handle of a module.  It fails outside the process's address space.      *)
QueryAddress ==
    /\ AtStep("address", {"windows"})
    /\ \/ /\ call' = [call EXCEPT !.pc = "handle"]
          /\ UNCHANGED lasterr
       \/ /\ call.of = Nowhere
          /\ lasterr' = "invalid_parameter"
          /\ call' = Failed(call, lasterr')
    /\ UNCHANGED <<host, lib, loader, held, dlerr, gone, changes>>

(* path_from_handle of the platforms whose handle is a link_map: the name  *)
(* of the executable's is empty.                                           *)
ReadLinkMap ==
    /\ AtStep("handle", {"linux", "qnx", "freebsd", "solaris"})
    /\ call' = IF call.of = Program THEN [call EXCEPT !.pc = "program"]
               ELSE Found(call, call.of)
    /\ OnlyCall

(* Mutant: what the word in front holds is taken for the answer.           *)
ReadSoinfoOnce ==
    /\ AtStep("handle", {"android"})
    /\ call' = IF host.layout = "array" THEN Found(call, call.of)
               ELSE Failed(call, "bad_address")
    /\ OnlyCall

(* path_from_handle for Android: the member base is first looked for       *)
(* behind an array that only some versions have.  Without the array that   *)
(* word points into no image, which is what the code relies on.            *)
ReadSoinfo ==
    /\ AtStep("handle", {"android"})
    /\ LET first == IF host.layout = "array" THEN Found(call, call.of)
                    ELSE Failed(call, "bad_address")
       IN  call' = IF first.ec # Ok THEN Found(call, call.of) ELSE first
    /\ OnlyCall

-----------------------------------------------------------------------------
(* path_from_handle for macOS: every image is opened once more, and closed *)
(* again, to compare handles.                                              *)

CountImages ==
    /\ AtStep("handle", {"macos"})
    /\ call' = [call EXCEPT !.pc = "name", !.count = Len(images)]
    /\ OnlyCall

(* _dyld_get_image_name(i), or NULL beyond the last image. *)
ReadName ==
    /\ AtStep("name", {"macos"})
    /\ call' = [call EXCEPT !.pc = "open",
                   !.name = IF call.i < Len(images) THEN images[call.i + 1] ELSE NoImage]
    /\ OnlyCall

(* dlopen(name); NULL stands for the executable.  If the image has left    *)
(* memory, its name has, too: the file may be mapped again, or nothing be  *)
(* found.                                                                  *)
OpenImage ==
    /\ AtStep("open", {"macos"})
    /\ \/ LET x == IF call.name = NoImage THEN Program ELSE call.name
          IN  /\ Dlopen(x)
              /\ call' = [call EXCEPT !.pc = "close", !.probe = x]
              /\ UNCHANGED dlerr
       \/ /\ call.name \notin Mapped \cup {NoImage}
          /\ call' = [call EXCEPT !.pc = "close", !.probe = NoImage]
          /\ dlerr' = TRUE
          /\ UNCHANGED loader
    /\ UNCHANGED <<host, lib, held, lasterr, gone, changes>>

(* The comparison of handles: the path is the name that was opened.        *)
Compared ==
    IF call.probe = call.of THEN Answer(call, call.name, Length[call.of], Ok)
    ELSE IF call.i < call.count
    THEN [call EXCEPT !.pc = "name", !.i = @ + 1, !.probe = NoImage]
    ELSE Failed(call, "bad_file_descriptor")

(* Mutant: a probe that was recognised stays open.                         *)
CloseImageUnlessFound ==
    /\ AtStep("close", {"macos"})
    /\ IF call.probe \in {NoImage, call.of} THEN UNCHANGED <<loader, gone>>
       ELSE Dlclose(call.probe)
    /\ call' = Compared
    /\ dlerr' = (call'.pc # "done" /\ (dlerr \/ call.probe = NoImage))
    /\ UNCHANGED <<host, lib, held, lasterr, changes>>

(* Mutant: reset_dlerror() is forgotten when an image was recognised.      *)
CloseImageKeepsText ==
    /\ AtStep("close", {"macos"})
    /\ IF call.probe = NoImage THEN UNCHANGED <<loader, gone>> ELSE Dlclose(call.probe)
    /\ call' = Compared
    /\ dlerr' = (call'.ec = Ok /\ (dlerr \/ call.probe = NoImage))
    /\ UNCHANGED <<host, lib, held, lasterr, changes>>

(* Mutant: the image's reference is given back twice.                      *)
CloseImageTwice ==
    /\ AtStep("close", {"macos"})
    /\ IF call.probe = NoImage THEN UNCHANGED <<loader, gone>>
       ELSE /\ refs' = [refs EXCEPT ![call.probe] = @ - 2]
            /\ UNCHANGED <<images, gone>>
    /\ call' = Compared
    /\ dlerr' = (call'.pc # "done" /\ (dlerr \/ call.probe = NoImage))
    /\ UNCHANGED <<host, lib, held, lasterr, changes>>

(* dlclose(probe_handle), which leaves an error text for a null handle.    *)
CloseImage ==
    /\ AtStep("close", {"macos"})
    /\ IF call.probe = NoImage THEN UNCHANGED <<loader, gone>> ELSE Dlclose(call.probe)
    /\ call' = Compared
    /\ dlerr' = (call'.pc # "done" /\ (dlerr \/ call.probe = NoImage))
    /\ UNCHANGED <<host, lib, held, lasterr, changes>>

-----------------------------------------------------------------------------
(* GetModuleFileNameW(of, buffer, size): what it returns, and the last     *)
(* error after it.  Success does not reset the last error.                 *)
GetModuleFileName(x, size) ==
    IF x \notin Mapped THEN [length |-> 0, err |-> "module_not_found"]
    ELSE IF Length[x] < size THEN [length |-> Length[x], err |-> lasterr]
    ELSE [length |-> size, err |-> "insufficient_buffer"]

AskName ==
    /\ AtStep("handle", {"windows", "cygwin"})
    /\ call' = [call EXCEPT !.pc = "ask",
                   !.size = IF host.platform = "windows" THEN 260 ELSE 4096]
    /\ OnlyCall

(* Mutant: the buffer grows once.                                          *)
LargerOnce(size) == 1024

Larger(size) == IF size = 260 THEN 1024 ELSE 2 * size

(* Mutant: a buffer that is just filled is taken for success.              *)
FitsBuffer(got, size) == got.length # 0 /\ got.length <= size

Fits(got, size) == got.length # 0 /\ got.length < size

(* path_from_handle for Windows: buffers of 260, 1024, 2048, ... characters, *)
(* as long as the last error is that the buffer is too small.               *)
AskWindows ==
    /\ AtStep("ask", {"windows"})
    /\ LET got == GetModuleFileName(call.of, call.size)
       IN  /\ lasterr' = got.err
           /\ call' =
                IF Fits(got, call.size) THEN Answer(call, call.of, got.length, Ok)
                ELSE IF got.err = "insufficient_buffer" /\ Larger(call.size) < 1024 * 1024
                THEN [call EXCEPT !.size = Larger(@)]
                ELSE Failed(call, got.err)
    /\ UNCHANGED <<host, lib, loader, held, dlerr, gone, changes>>

(* Mutant: the same buffer once more. *)
NotTwice(size) == size

Twice(size) == 2 * size

(* path_from_handle for Cygwin looks at the last error only: one that      *)
(* stays ERROR_INSUFFICIENT_BUFFER, which success does not reset, asks for *)
(* buffers without end.                                                    *)
AskCygwin ==
    /\ AtStep("ask", {"cygwin"})
    /\ call.size <= Memory
    /\ LET got == GetModuleFileName(call.of, call.size)
       IN  /\ lasterr' = got.err
           /\ call' =
                CASE got.err = "insufficient_buffer" -> [call EXCEPT !.size = Twice(@)]
                  [] got.err = Ok -> Answer(call, call.of, got.length, Ok)
                  [] OTHER -> Failed(call, "bad_file_descriptor")
    /\ dlerr' = (dlerr /\ call'.ec = Ok)
    /\ UNCHANGED <<host, lib, loader, held, gone, changes>>

(* buffer.resize() for which there is no memory: its exception leaves      *)
(* location(), which documents std::bad_alloc.                             *)
ResizeFails ==
    /\ AtStep("ask", {"cygwin"})
    /\ call.size > Memory
    /\ call' = Failed(call, "bad_alloc")
    /\ OnlyCall

-----------------------------------------------------------------------------
(* program_location_impl *)

(* A link in /proc, or a file there, when it is mounted. *)
ReadProc ==
    /\ AtStep("program", {"linux", "android", "cygwin", "qnx"})
    /\ call' = IF host.proc THEN Found(call, Program)
               ELSE Failed(call, IF host.platform = "qnx" THEN "bad_file_descriptor"
                                 ELSE "no_such_file")
    /\ OnlyCall

(* A buffer of 1024 characters and then one of the size that was asked     *)
(* for, which counts the final null.  FreeBSD may know no name.            *)
AskSystem ==
    /\ AtStep("program", {"macos", "freebsd"})
    /\ call' = IF host.platform = "freebsd" /\ ~host.proc
               THEN Failed(call, "no_such_file")
               ELSE IF Length[Program] < 1024 THEN Found(call, Program)
               ELSE Answer(call, Program, Length[Program] + 1, Ok)
    /\ OnlyCall

GetExecName ==
    /\ AtStep("program", {"solaris"})
    /\ call' = Found(call, Program)
    /\ OnlyCall

(* path_from_handle(NULL): the executable's path. *)
NullHandle ==
    /\ AtStep("program", {"windows"})
    /\ call' = [call EXCEPT !.pc = "handle"]
    /\ OnlyCall

Call == LibraryLocation \/ ProgramLocation
        \/ \E x \in Mapped \cup {NoImage, Nowhere} : SymbolLocation(x)

Step == \/ Dladdr \/ QueryAddress \/ ReadLinkMap \/ ReadSoinfo
        \/ CountImages \/ ReadName \/ OpenImage \/ CloseImage
        \/ AskName \/ AskWindows \/ AskCygwin \/ ResizeFails
        \/ ReadProc \/ AskSystem \/ GetExecName \/ NullHandle

Next ==
    \/ \E x \in host.libs : LoadLibrary(x)
    \/ Call \/ Step
    \/ \E x \in Images : OtherLoads(x) \/ OtherUnloads(x)

(* The thread that asks keeps running: nothing in these loops blocks.      *)
Spec == Init /\ [][Next]_vars /\ WF_vars(Step)

-----------------------------------------------------------------------------
LocationTypeOK ==
    /\ host \in Hosts /\ host.platform \in Platforms
    /\ lib \in Images \cup {NoImage}
    /\ refs \in [Images -> Nat]
    /\ ToSet(images) = Mapped /\ Len(images) = Cardinality(Mapped)
    /\ held \subseteq Images
    /\ call.pc \in {"done", "handle", "address", "program", "name", "open", "close", "ask"}
    /\ call.ec \in Errors \cup {Ok}
    /\ lasterr \in Errors \cup {Ok}

(* A location that is answered without an error is the whole path of what  *)
(* was asked for ("full path", shared_library.hpp and                      *)
(* runtime_symbol_info.hpp), whatever other threads load and unload, and   *)
(* whichever size the path has.                                            *)
AnswersAreRight ==
    call.pc = "done" /\ call.op # "none" /\ call.ec = Ok
      => call.path = call.of /\ call.length = Length[call.path]

(* Cygwin tells success from failure by the last error alone: it has to be *)
(* clear before the call and to stay so, with the first buffer.            *)
LastErrorTells ==
    host.platform = "cygwin" =>
        host.lasterr = Ok /\ (lib # NoImage => Length[lib] < 4096)

(* A library that is loaded is found, if no image left memory in between   *)
(* ("not thread safe: other thread may [un]load images"), the system can   *)
(* name its own executable and, on Cygwin, the last error tells.           *)
LoadedIsFound ==
    call.pc = "done" /\ call.op = "library" /\ call.of # NoImage /\ ~gone /\ LastErrorTells
      => call.ec = Ok \/ (call.of = Program /\ ~host.proc)

(* Without the conditions on other threads and the last error.             *)
AlwaysFound ==
    call.pc = "done" /\ call.op = "library" /\ call.of # NoImage
      => call.ec = Ok \/ (call.of = Program /\ ~host.proc)

(* Opening images to compare handles gives every reference back, and keeps *)
(* none of an image that other threads unload in between.                  *)
ReferencesAreKept == \A x \in Images :
    refs[x] = Cardinality({o \in {"program", "lib", "held", "probe"} :
                  \/ o = "program" /\ x = Program
                  \/ o = "lib" /\ x = lib
                  \/ o = "held" /\ x \in held
                  \/ o = "probe" /\ x = call.probe})

(* No error text of the probes is left for a later failure to report.      *)
NoTextLeft == call.pc = "done" => ~dlerr

(* A call leaves the process as it found it: references and error texts.   *)
LocationInv == LocationTypeOK /\ ReferencesAreKept /\ NoTextLeft

(* Every call is over at some time, on every platform: the loops over      *)
(* images and over buffers end.  Where the thread's last error says for    *)
(* ever that the buffer is too small (Cygwin, an old error or a path of    *)
(* 4096 characters), what ends the loop is the memory: the call is over    *)
(* with std::bad_alloc.                                                    *)
Answered == call.pc # "done" ~> call.pc = "done"
=============================================================================
