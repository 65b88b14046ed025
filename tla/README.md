# Boost.DLL in TLA+

Boost.DLL (`include/boost/dll/`) loads shared libraries, finds symbols in them and
keeps them in memory while they are used. It is a header-only library over
`dlopen`/`LoadLibrary`; it has no threads of its own, and what makes it hard is the
state it shares with the loader: reference counts, names of mapped images, error
texts, and files that other processes replace while the program runs.

Paths below are relative to `include/boost/dll/`.

## Inventory

| Component | State | Operations | Depends on |
|---|---|---|---|
| `shared_library` over `detail/posix/shared_library_impl` | `handle_` | constructors, `load`, `unload`, `assign`, move, `swap`, `has`, `get`, `location` | loader, `program_location_impl`, `path_from_handle`, `report_error` |
| the same over `detail/windows/shared_library_impl` | `handle_` | the same, with `LoadLibraryEx` and `GetLastError` | Windows loader |
| `detail/*/path_from_handle`, `program_location_impl` | none; macOS reopens every image, Windows and Cygwin grow a buffer | handle to path, the executable's path | loader, `dladdr`, `VirtualQuery`, `GetModuleFileNameW`, `/proc/self/exe` |
| `import.hpp` | `shared_ptr<shared_library>` inside each imported value | `import_symbol`, `import_alias`, call, copy, destroy | `shared_library` |
| `smart_library` | a `shared_library` and a `mangled_storage` of its symbols | `load`, `unload`, `get_function`, `get_constructor`, `add_type_alias`, ... | `library_info`, demangling |
| `detail/demangling/*` | `mangled_storage`: (mangled, demangled) pairs and aliases | look-ups by demangled name, for Itanium names and for MSVC's | `library_info` |
| `detail/import_mangled_helpers.hpp` | none | sequences of types that name overloads | |
| `import_mangled.hpp` | `shared_ptr<shared_library>` and function pointers | `import_mangled`, call | `smart_library` |
| `import_class.hpp` | library, constructed object, deleter, type information | constructors, `copy`, `move`, member calls, destructor | `smart_library` |
| `library_info`, `elf_info`, `pe_info`, `macho_info` | an open `ifstream`, the detected format | `sections`, `symbols`, `symbols(section)` | the file |
| `runtime_symbol_info.hpp` | none | `symbol_location`, `this_line_location`, `program_location` | `path_from_handle`, `program_location_impl` |
| `alias.hpp`, `shared_library_load_mode.hpp`, `config.hpp`, `aggressive_ptr_cast.hpp` | none | macros, constants, casts | |

How they interact: every component that hands out a symbol holds a `shared_library`
(directly or through a `shared_ptr`), and every `shared_library` holds one reference
of the loader. A copy of a `shared_library` is *a second load by path*
(`shared_library.hpp:211-221`), so ownership depends on what the loader and the file
system answer at that moment.

What is hard, and the properties that make each component correct:

- `shared_library`: every reference released exactly once on every path (also the
  failing ones); error codes that tell what happened after up to three attempts; a
  copy that is the same library though it is made by path; no error text left for a
  later failure to report.
- the same on Windows: the loader completes names and searches directories itself, so
  that one call may mean many files; an error of an attempt that was followed by a
  successful one must not survive; a load without decorations must mean the name it
  was given.
- locations: a path that is answered without an error is the whole path of what was
  asked for, also when it just fills a buffer and while other threads load and unload;
  probing opens and closes images, and must leave references and error texts as they were.
- imports: a symbol that can be called is in memory, whatever happens to the objects
  it was imported from, with imports made, copied and dropped by several threads; and
  when nothing uses a library any more, it is unmapped.
- `smart_library`: its symbol table always describes the library that is loaded; a
  failing `load` leaves a consistent object.
- `imported_class`: every constructed object is destroyed exactly once, with the
  deallocation that matches its allocation, before its library goes.
- `library_info`: `symbols()` lists exactly the exported names, `symbols(section)` is
  the part of it that lies in the section, whatever the tables' sizes are.
- look-ups by demangled name: what is found has the class, the parameters and the
  qualifiers that were asked for, and what a library exports is found.

## Modules

| Module | Models | Kind |
|---|---|---|
| `Loader` | `dlopen`, `dlclose`, `dlerror`, names of mapped images, file system and working directory, as the code uses them (external) | state and operators |
| `LibraryOwners` | what the documentation of `shared_library` promises | abstract specification |
| `SharedLibrary` | `shared_library.hpp`, `detail/posix/shared_library_impl.hpp`, `detail/system_error.hpp`, `detail/posix/path_from_handle.hpp` | component over `Loader`, implements `LibraryOwners` |
| `ImportedSymbols` | `import.hpp`, several threads | composed with `SharedLibrary`, implements `LibraryOwners` |
| `SmartLibrary` | `smart_library.hpp`: the library and the table together | composed with `SharedLibrary`, implements `LibraryOwners` |
| `WindowsLoader` | `LoadLibraryExW`, `FreeLibrary`, `GetLastError`, the search for names, as the code uses them (external) | state and operators |
| `WindowsLibrary` | `detail/windows/shared_library_impl.hpp` under `shared_library.hpp` | component over `WindowsLoader`, implements `LibraryOwners` |
| `Locations` | `detail/*/path_from_handle.hpp`, `detail/posix/program_location_impl.hpp`, `runtime_symbol_info.hpp` | component, one thread among others |
| `MsvcNames` | the grammar of `detail/demangling/msvc.hpp` | operators |
| `MangledImport` | `detail/import_mangled_helpers.hpp` | operators |
| `MangledStorage` | `detail/demangling/itanium.hpp`, `msvc.hpp`, `mangled_storage_base.hpp` | component over `MsvcNames` and `MangledImport` |
| `ImportedClass` | `import_class.hpp`, `detail/ctor_dtor.hpp`, `detail/type_info.hpp`, `import_mangled.hpp` | component over libraries owned as in `LibraryOwners` |
| `Listing` | what `library_info.hpp` promises of `sections` and `symbols`, and the state all parsers have | reference definition, common base of the parsers |
| `ElfInfo`, `PeInfo`, `MachoInfo` | the parsers, step by step | components over `Listing` |
| `LibraryInfo` | `library_info.hpp`: which parser is chosen for what file, and what is refused | component |
| `MC...` | small instances for TLC | |
| `SharedLibraryProofs`, `WindowsLibraryProofs`, `ImportedSymbolsProofs`, `SmartLibraryProofs`, `ImportedClassProofs`, `LocationsProofs`, `ParserProofs` (the three parsers), `SymbolTableProofs` (`LibraryInfo` and `MangledStorage`) | the properties of the module they are named for, for all values of its constants | TLAPS proofs |

Every module has one type invariant. Where a property says what the types need beside
them, both are one invariant with named parts (`WinInv == WinTypeOK /\ WinOwnership`,
`ElfInv`, `ClassInv`, ...).

### SharedLibrary and Loader

An object is `handle[o]`, the only member of the class. `NoHandle` also stands for an
object that is not constructed, so the destructor is `Unload`, and a constructor is
the member it calls. One action is one member function: `LoadOutcome` follows
`shared_library_impl::load` from its early return for an empty path through the
decorated attempt, `exists()`/`equivalent()`, the exact attempt, and the executable's
own handle; `Load` adds the `unload()` it starts with. `AssignSame`, `AssignNothing`
and `AssignLoaded` are the three ways through `assign` for a source whose path is known, and
`AssignUnlocated` is the early return for one whose path is not. `ret` records the last call,
its error code and whether that was thrown; `dlerr` says whether an error text waits in
`dlerror`. `Reported` is how a call ends that failed: the overloads without an error code throw
through `report_error`, which takes the text out of `dlerror` and puts it in the exception,
the others leave it there.

The loader's images are identified with files, since POSIX returns one handle for one
file. `ByName` distinguishes loaders that answer a known name without looking at the
file (glibc, FreeBSD) from those that compare device and inode (musl, bionic).
`Linux` distinguishes the two ways a relative name is tied to the working directory.
`Environment` replaces, adds or removes files and changes directory.

### WindowsLibrary and WindowsLoader

The members of `shared_library` are the same code over another `shared_library_impl`.
`LoadOutcome` follows `load` through its attempts: the decorated name, the name with
"lib" in front as MinGW writes it, and the exact name, each of which `LoadImpl` or
`LoadExact` turns into a handle, an error code and the answer to whether it was the last
one. `LoadExact` adds the final "." that keeps the loader from appending an extension.
A path is a directory, or none (`Bare`), or the working directory (`Dot`), with a name.
Some modules need another one that nobody has (`Lacking`): the system reports the same
`module_not_found` of them as of a name no file has, and `load` tells the two cases apart
by `exists()`.

`WindowsLoader` states what the system does with it: `Completed` appends `.dll`,
`Candidates` lists the search, and a module that is in memory and has the name answers
before any file does (`Namesakes`). A file that is mapped can be renamed, but neither
replaced nor removed, which is what makes copies by path work better than on POSIX.

### Locations

`host` is the platform with what differs within it: how Android's bionic lays out
`soinfo`, whether the system can name the executable, and what `GetLastError` holds
from earlier calls. A call is asked by one thread and answered in the steps of the code
(`pc`): macOS counts the images, reads a name, opens it, compares, and closes it again;
Windows asks with buffers of 260, 1024, 2048, ... characters; Cygwin with 4096, 8192, ..., but
looks at the last error only. Where that stays `ERROR_INSUFFICIENT_BUFFER` (an old error, which
success does not reset, or a path that filled the first buffer) its loop asks for larger buffers
until there is no memory for one: beyond `Memory` characters `ResizeFails` ends the call with the
`std::bad_alloc` that `location()` documents. Between any two steps `OtherLoads` and `OtherUnloads` change what is
in memory; `gone` remembers that an image left it. A path is its image and its length.

### ImportedSymbols

An import is made in the steps of `import_symbol`: the `shared_ptr` to a new
`shared_library` (a *box*) is constructed by path, by copy or by move; then the symbol is
resolved; when that throws, the box is unwound. Imports share their box. Threads take
their steps in any order, the owner loads and unloads its library between them, and a file
may change.

### SmartLibrary and MangledStorage

`SmartLibrary` adds `table[o]`, the file the symbols were read from, to every object, and
takes each member in the code's order: constructors load the library and then the table,
`load` the table and then the library. `call` holds what is left of the member that is
being executed, and `FilesChange` may happen in between. `last` says how the last member
reports failures and how it ended; an exception in a `noexcept` constructor ends the
program. What the members do with `lib_` are the actions of `SharedLibrary`.

`MangledStorage` is the table itself. An entity is what the compiler exports (a function,
a member, a constructor variant, type information, ...); `Demangled` is the sequence of
tokens the demangler shows for it, and the look-ups compare token sequences as the code
compares strings, including the search for a suffix in `get_mem_fn` and the last match
that stays in `get_constructor`. The demangler itself is external. `Answer` are the
`get_*` members of `smart_library`. `abi` says which of the two storages the program was
built with: for MSVC the table holds what `__unDName` shows (`Undecorated`), with
visibility, `virtual`, calling conventions and `__ptr64`, and the look-ups are the parsers of
`msvc.hpp`. The constructors of an instance of a class template are named after the template
(`SourceName`), and the mangled name has its arguments mangled, so that `MarkedAs` finds none
of them: `ClassTemplate` says which names of classes are those of instances. `MsvcNames` writes each `try_consume` as a function from the set of what
may be left to consume to the set of what is left after it: the empty set is a failure,
and an optional prefix is a union.

`MangledImport` is the compile-time side of `import_mangled`: `IsMemFnSeq` says which
sequences of types are taken for overloads of a member, and `MakeMemFnSeq` pairs every
function with the version of the class that precedes it: `make[left][c]` is the template for
the class at `c` and the last `left` types. The comment in
`detail/import_mangled_helpers.hpp:145-148` gives `Class, const Class, void(int)` as a
sequence; `is_mem_fn_seq` (237-241) refuses it, because it wants a function in the second
place. The model follows the code.

### ImportedClass

An `imported_class` is made in the order of its members: `lib_`, `data_`, `ti_`. `stage`
says how far it is; `unwind` and `release` are the way back, for a constructor that throws
and for the destructor. `heap` holds the blocks objects are put in, with how they were
allocated. `Reload[f]` is what a copy of the library by path may turn out to be: only `f`
with a loader that matches names (`CopyIsEqualCorrect` below proves it), any image
otherwise. A smart library that another thread is reading is not changed: the code takes no lock
and its documentation does not offer it.

### ElfInfo, PeInfo, MachoInfo, LibraryInfo

A file is a list of sections or load commands with the numbers the parsers look at
(indices of string tables, section numbers, offsets); the instances list such files and
the calls `sections`, `symbols`, `symbols(section)`. One action is one turn of a loop, and
`ret` grows by at most one name in it; in `MachoInfo` the turns are those of
`command_finder` and of the gatherer it calls, in one action, `NextEntry`.
`Listing` says what a call should answer, from the content of the file (`Answer`), and has
the variables that are the same in all parsers; their other operators carry the name of
the format (`PeInit`, `MachoFindSection`), so that one module can prove about all three. Which
files the theorems are about is stated beside each parser, as `NamesApart`, `SectionsApart`,
`PeSectionsApart`, `ExportsStored`, `MachoSectionsApart` and `SymbolsExternal`; TLC evaluates
these on the files of the instances (`MCFilesAsProved`). `LibraryInfo`
models the chain of `parsing_supported` tests for ELF, PE and Mach-O in 32 and 64 bits on
each platform, files that end too early or are malformed, and a stream whose exceptions are on:
`Thrown` says which refusal the caller sees, and `Left` in which state a call that throws
leaves the stream. `getline` at the end of the file sets `eofbit` alone, which the `seekg(0)` of the
next call clears; `read` sets `failbit` as well, which nobody clears; and a size that is out of
bounds leaves the stream as it is.

In `PeInfo` a file has the words that follow its ordinals (`behind`), as many as there are up to its
end, each of them any number. `symbols(section)` reads one of them for each function without a name
(`OrdinalEntry`, `HasOrdinal`), and throws where there are no more.

## Runs

| Run | Shows |
|---|---|
| `shared_library_glibc` | Ownership of references, truthful error codes, copies that equal their source, failed copies that change nothing, no stale error text, and the refinement of `LibraryOwners`; files change once during a history |
| `imported_symbols` | Two threads import from a library that its owner loads and unloads while its file is replaced: imports point into memory, nothing is kept without a user, and both counters implement one ownership |
| `windows_library` | Two objects over the Windows loader: one owner for every reference, truthful error codes after up to three attempts, copies that equal their source, a load without decorations that means its name, the error of the first file that has one of the names, and the refinement of `LibraryOwners`; a file is installed, renamed or removed, or the working directory changes, once |
| `locations` | Every platform, paths around the sizes of the buffers, other threads load and unload: answers are whole and right, a loaded library is found, references and error texts are left as they were, and every call is over at some time, on Cygwin at the latest with `std::bad_alloc` |
| `smart_library` | The table goes with the library through failing loads, constructions, assignments, moves and swaps; an exception of the table loses no reference |
| `mangled_storage` | Every look-up finds what it asks for and nothing else, among nested classes of one name, const overloads, overloads, instances of function and class templates, thunks of MSVC and constructor variants, with and without aliases, for Itanium names and for 32 and 64 bit names of MSVC; sequences of overloads are looked up in the right version of their class |
| `imported_class` | An object's code and type information, and what an imported value points to, stay in memory; every constructed object has one owner, also when constructors, look-ups or copies fail |
| `elf_info` | Every call on well-formed files of many shapes answers what `Listing` says, and ends |
| `pe_info` | The same of PE files, whatever lies behind their ordinals: where functions have no name, a stray word may add a name that is none or end the call with an exception, and nothing else is wrong |
| `macho_info` | Every call on Mach-O files, with load commands in several orders, answers what `Listing` says |
| `library_info` | Complete, cut-off and malformed files of every format on every platform: what is opened as what, what is refused and why. Over sequences of calls some of which throw, an answer is whole, and a call is refused only for what it reads itself or after one that left the stream failed |
| `smart_noexcept` | Counterexample: `smart_library(shared_library&&)` asks the moved-from object for its location and terminates the program |

Further configurations are kept for the module named before the underscore. They check what is
documented and TLC finds violated, and are not part of the regular runs. Where one
lists several properties, keep one `INVARIANT` or `PROPERTY` at a time: TLC stops at
the first it finds violated.

| Configuration | What its counterexamples show |
|---|---|
| `SharedLibrary_copy` | With a loader that compares files, a copy taken after the file was replaced is not equal to its source |
| `SharedLibrary_divergences` | `MovedFromIsEmpty`: move assignment leaves the moved-from object loaded. `FormatErrorMeansMalformed`: with searched system folders, `executable_format_error` may blame an unrelated file in the working directory |
| `SmartLibrary_divergences` | `EcIsSet`: `load(path, ec)` throws when the symbols cannot be read. `DecoratedIsConstructed`: with `append_decorations` the library is found, and its symbols are looked for under the undecorated name |
| `Locations_divergences` | `AnswersAreRight`: macOS and FreeBSD return the path of a program with a path of 1024 or more characters with its final null. `AlwaysFound`: Cygwin takes an error left by an earlier call for a failure, and macOS may miss a loaded library when another image leaves memory during the scan |
| `MangledStorage_divergences` | `AliasIsUsed`: a second alias of one type is dropped. `FindsWhatIsAsked`: `get_mem_fn` finds "non-virtual thunk to ..." when that is listed first, and `get_constructor` finds no constructor of an instance of a class template |
| `ImportedClass_divergences` | `ImportSucceeds`: the constructors that take `smart_library&&` ask the moved-from library for the type information and always throw. `CopySucceeds`: `copy()` tests `is_allocating_` the wrong way round. `AsAllocated`: what the allocating constructor allocated is given back by `delete[]` of `char`. `TypeInfoStaysMapped`: with a loader that compares files (`Reload <- AnyImage`, only here), `ti_` may refer to an image nobody keeps. `ValuesStayMapped`: so may a value of `import_mangled` |
| `ElfInfo_merged` | A section whose name the linker stored as the tail of another name (`.text` of `.rela.text`) is missing in `sections()` |
| `PeInfo_nameless` | `PeExact`: of a file with a function without a name, `symbols(section)` takes the word behind the ordinals for an ordinal and lists a name that is none |
| `PeInfo_divergences` | Zero-filled sections, and functions exported under more than one name: either kind of file is enough to refute `PeAnswered`. `PeReturns`: the words behind the ordinals may end with the file, and the call throws |
| `MachoInfo_divergences` | Local symbols are listed; of two sections of one name only the first is searched: either is enough |

### Bounds

`SharedLibrary`: two objects suffice for every interaction of a call with its argument, and the
loader is shared by both; three names, one of them the decorated form of another, which
is itself decorated to the third; two directories, so that a bare name and a relative
one mean different files; two loadable files, one that is not, and the executable;
`Steps` environment changes; the objects are interchangeable (symmetry). `Searches` and `Paths` list what callers pass.
`WindowsLibrary`: two objects; two directories and four names, so that one path may mean a
file without an extension, its `.dll` beside it, the one with "lib" in front, or one of
another directory; four trees in which each of these is a library, one that lacks a module, the
executable, a file that is none, or missing; one environment change; the objects are interchangeable
(symmetry). `Locations`: paths of 259, 260, 1024 and 32767 characters, the sizes of the
first buffers and one less and the longest path; `Memory` is 1048576 characters, twice the largest
buffer Windows is asked with, so that Cygwin's loop may double its buffer eight times before it is
out of memory; the caller loads one of two
images per platform, other threads any, four loads or unloads altogether, enough for an image to be loaded, to
leave memory and to come back within one scan.
`ImportedSymbols`: two threads, two imports and two boxes, so that two imports share a box
or not, and one change of the file. `SmartLibrary`: two smart objects and a plain one, a
file that cannot be parsed, one change of a file. `MangledStorage`: two tables, for
`assign` and `swap`, and libraries with at most thirty entries chosen so that names end
alike, or, for MSVC, differ in one token; sequences of at most five types.
`ImportedClass`: two objects, since copies and moves have one argument, two blocks, two values that
share or do not share a library, three images with different symbols; blocks, objects and
values are interchangeable (symmetry). Parsers: files with up to a handful of sections and
symbols, with each of the special indices the code tests and each order of tables.

### Fairness

`ElfInfo` and `PeInfo` assume weak fairness of their only process: a loop in a
single thread that nothing blocks keeps running. `Locations` assumes it of the
steps of the thread that asks, for the same reason; nothing is assumed of the other threads,
which may load and unload for ever or never. The other specifications
assume none: their properties are safety properties, and nothing in that code waits.

## Proofs

`SharedLibraryProofs` proves, for every number of objects, files, names and paths, for
both kinds of loaders and both platforms: `TypeCorrect`, `OwnershipCorrect`,
`LoadTellsTheTruthCorrect`, and `ImplementsOwnersCorrect`, the refinement. The inductive
invariant `IInv` is the type invariant with `Counted`: for every file the loader's count is the
number of objects whose handle it is (plus one for the executable). The types alone are
not inductive, since `dlclose` would take a count below zero if nothing said an owner
exists. `Replace` is the argument for every action that releases one handle and takes
another, `Trading` for those that exchange two.

It proves `CopyIsEqualCorrect` for Linux with a loader that matches names. Its invariant `NamesInv` says that the names of the mapped images tell
them apart, and that none of them names the executable's file; a copy by path then
finds exactly the image it copies, whatever the environment has done to the files. The
counterexample of `SharedLibrary_copy.cfg` shows that the assumption on the loader is needed.

Assumptions: `LoaderAssumption` and `LibraryAssumption` (types of the constants, a
finite number of objects, `dlopen` does not map the executable's file again, and the
environment does not give the running executable a second name).

`WindowsLibraryProofs` proves every property of the `windows_library` run, for every
search path and every set of directories, names, files and objects. `IInv` is the type invariant
with `Counted`, as above, and with the fact that every module the loader counts has a
full name (`LoaderState`): without it `GetModuleFileNameW` might return nothing that a copy could
be loaded by. Three arguments carry the rest:

- `LoadOutcomeSound`: whichever attempt is the last, there is an error exactly if there is no
  handle, and the handle is what `LoadLibrary` answered for the path of that attempt. An attempt
  that is not the last one leaves `Ok` (`LoadImplSound`), which is why `LoadExact` may keep
  the error code it is given.
- `MeantType`: the search of any non-empty sequence of directories ends with a full name that has the
  completed name, and the directory that was given, if one was. The first position that
  matches exists because `<` is well founded on the natural numbers. From it follow
  `ExactMeansExactCorrect` (through `LoadedByName`) and `FirstThereDecidesCorrect` (through
  `FoundHere`): an attempt is followed by another one only if no file has the name it was for.
- `NamesInv`: no two modules in memory have one full name. A module gets a name only when
  it is mapped anew, and then no other module answered to that name (`LoadedNames`).
  `WinCopyIsEqualCorrect` follows: a copy asks for the name of its source, and exactly
  one module has it. Nothing is assumed about files here, in contrast to POSIX.

Assumptions: `WindowsLoaderAssumption` (types of the constants, a search path that is not empty,
decorated names have an extension, the executable's file is not loaded as a library)
and `LibraryAssumption` (a finite number of objects, paths are paths).

`SharedLibraryProofs` also proves the three action properties of the `shared_library_glibc` run:
`FailedAssignChangesNothingCorrect`, `SourceStaysMappedCorrect` and `NoStaleTextCorrect`
(`OkLeavesNoText`: whichever attempt of `LoadOutcome` succeeds, it has cleared the text of
those before; `ReportedText`: what is thrown has taken the text along; `UnlocatedSays` has the
early return of `assign`).

### Imports and smart libraries

`ImportedSymbolsProofs` extends `SharedLibraryProofs`: `ImportsIInv` adds to its `IInv` that a
call at work has a box and a place for its result that nobody else can find (`Alone`),
that a value points into the library of its box (`Points`), and that a loaded box is
kept by somebody (`LoadedAreKept`). `ImportsInvCorrect` and `ImportsStayMappedCorrect`
follow. `ImportsImplementOwnersCorrect` is the refinement: the owners of `LibraryOwners` are
threads, values and plain objects, each for the library of its box, and a step maps to
loading, copying, moving or releasing, or to a stutter. Nothing is assumed of the loader or the
files.

`SmartLibraryProofs` proves two theorems without assumptions: every step of a smart
library is a step of `SharedLibrary` or leaves it alone (`SmartStep`), from which
`SmartImplementsOwnersCorrect` and `FailedAssignKeepsBothCorrect` follow. `SmartInvCorrect` assumes
`OneFilePerPath`, no decorations and no searched folders, since `SmartLibrary_divergences.cfg`
shows it false with decorations. Its invariant `Undisturbed` says, until a
file changes: the mapped images are the files of their names (`Named`), no member but the one at
work leaves a table of another file (`TablesMatch`), and that one has done the half that comes
first (`HalfDone`): constructors the library, `load` the table.

### Objects of imported classes

`ImportedClassProofs` proves `ClassInvCorrect` and `ClassesStayMappedCorrect` for any loader.
`IInv` adds to the types that what `data_` points to is an object of the image that
its holder's `lib_` *owns* (`Held`): that it is merely in memory is not inductive, since another
object could release it. `OneHolder` and `NoneLost` make it exactly one owner.
`TypeInfoStaysMappedCorrect` and `ValuesStayMappedCorrect` assume `NamesMatch`, that a copy by
path is its source's image, which `CopyIsEqualCorrect` proves of `SharedLibrary`, for Linux and a
loader that matches names; with other loaders the first is false
(`ImportedClass_divergences.cfg`). They need
to know what a constructor's argument still is while the constructor runs (`Sourced`).

### Locations

`LocationInvCorrect`, `AnswersAreRightCorrect` and `LoadedIsFoundCorrect` are proved for all
platforms, any set of images, any lengths of paths and any number of changes by other
threads. `IInv` has five parts: `Types`; `Listed`, dyld's list has every image in memory once and the
executable in front; `Counted`, the owner of every reference; `Under`, what is known at each step
of a call (only the scan has probes and error texts); and `Scan`. `Scan` says that a probe is
the image that was named (`Probed`), that the scan for the executable ends at the first entry
(`FirstIsProgram`), and that as long as no image leaves memory what is looked for
is ahead in the list (`Scanning`). The lemmas about lists without repetitions (`OnceAppend`,
`OnceRemove`, `RemoveAtProperties`) carry `Listed` through loads and unloads.

The last two theorems have hypotheses, each of which marks the boundary that
`Locations_divergences.cfg` shows crossed:

- `ProgramFits`: on macOS and FreeBSD the executable's path has fewer than 1024 characters.
  Nothing is assumed of libraries' paths.
- `PathsFit`: the caller's libraries have paths of fewer than 524288 characters on Windows (whose
  paths end at 32767).

On Cygwin `LoadedIsFound` itself has the condition `LastErrorTells`: the thread starts with no last
error and the library's path is within the first buffer. That the last error then stays clear is
an invariant of its own (`NoErrorLeft`).

Assumptions: `LocationsAssumption` and `HostsAssumption` (types of the constants).

### library_info

`SymbolTableProofs` proves `InfoInvCorrect` and `OpenedAsWhatItIsCorrect` for every
set of files and platforms. The missing piece of the invariant is `RuledOut`: when a format is to be
tried, the file is of none of the earlier ones. `LeftSays` is what makes a refusal traceable: a stream
that is left failed was left so by a call that was cut off within a structure.

### The parsers

`ParserProofs` proves what the runs check of the three parsers, for every set of files and of
questions, of any size. The argument is the same each time: what `ret` holds is what the
entries the loop has passed should have added (`ElfNames`, `ElfShown`, `PeListed`,
`MachoListed`), and when the loop is over, these are all entries there are.

- `ElfInvCorrect`: the loops stay in their tables, and the `!=` of `sections()` is reached. Nothing
  is assumed but that tables are sequences. `TerminatedTable` and `NameAtOffset` are the lemmas: the strings between
  the terminators, and where each of them begins.
- `SectionsListedCorrect` assumes `NamesApart`: a section's name does not begin in the middle of
  another string. `ElfInfo_merged.cfg` shows it false of names a linker merged.
- `SymbolsListedCorrect` assumes `SectionsApart`: a name that is asked for is that of one
  section, and `e_shnum`, with which the code's search ends when there is none, is not a symbol's
  section. `ElfIndexed` says what the search has found, and `ElfFound` that each of
  the four tables noted so far is the last of its type and name among the headers passed,
  which at the end is what `ElfContent` asks for. The order of the headers plays no part.
- `PeInvCorrect` assumes `PeSectionsApart` (sections overlap neither in memory nor in the file, and
  no contents are at offset 0) and `ExportsStored` (no more names than functions, and these
  in stored contents). Under both, `FileOffset` is 0 for no export, and a section's range of
  offsets has those of its own addresses and no other. Nothing is assumed of the words behind the
  ordinals. `Stray` are the places where one of them is taken for an ordinal, or missing; a call that
  has come across one is `Astray` and stays so (`AstrayStays`), and its answer may have one name too
  many, or be an exception. `PeInfo_divergences.cfg`
  shows it false of zero-filled sections and of functions with two names.
- `MachoInvCorrect` assumes `MachoSectionsApart` (sections have names, and one that is asked for is
  the only one of its name) and `SymbolsExternal`. The number of a section is its
  position in the lists of all segments, one behind the other: `Flat` unfolds `FlattenSeq` by one list
  at a time, and `SoFar` is its part before the command's `i`-th and the entry's `j`-th place.
  `MachoInfo_divergences.cfg` shows it false of local symbols and of two sections of a name.

A section without a name would move the numbers of those behind it, because
`section_names_gather` drops it; no file of the instances has one, and it is an assumption here, not
a finding.

### The table and sequences of overloads

`SymbolTableProofs` also proves `StorageInvCorrect`, for every number of storages and libraries and
for sequences of types of any length. Its two halves need different arguments:

- `Tables` says of every storage that it is `TableOf` the library it was filled from, that this
  is a library of the program's own kind of names, and that aliases are among those added. One lemma,
  `Given`, serves every action that gives one storage a library; `Swap` gives two.
- `OverloadsHaveTheirClass` does not depend on the steps. `MakeExists` shows that the function
  `make` of `MakeMemFnSeq` exists (each value depends on one or two values for fewer types),
  `MakeSteps` that the result is computed by the template's cases (`Row`), and `MakePairs`, from
  the shortest rest of a sequence that would refute it, that the functions from the `k`-th type on are
  paired in order with the class that precedes each (`Paired`).

`StorageAssumption` says that aliases are pairs and that the types given are sequences.

### The look-ups by names of the Itanium ABI

`ItaniumFindsWhatIsAsked` proves `FindsWhatIsAsked` of the programs that GCC and Clang build, for every
number of storages, libraries, aliases and look-ups, and for classes, parameters and overloads of any
number. It is not true of all libraries (the thunk of `MangledStorage_divergences.cfg` is a
counterexample), so it assumes something of the names, each in terms of what a part of a name is and none
in terms of what a look-up compares:

- `AreWords(words)`: the parts of names are made of words, and `(`, `)`, `, `, the blank after a returned type,
  `~` and `typeinfo for` are no words; the names of class templates are. `::` is one, so classes may be
  nested to any depth.
- `EntitiesSpelled(words)`: the classes, names, parameters and qualifiers of what a library exports are
  made of words; there are no thunks; and a free function is not in a "namespace" that is a class asked for.
- `QueriesSpelled(words)`: so are the look-ups; a function that is asked for by its full name is not
  spelled like a constructor, and a member not like its own class (`get_function` and
  `get_mem_fn` would find the constructor, whose demangled name says nothing of what it is); and no
  constructor or destructor of an instance of a class template is asked for (`NoInstance`), since none
  is found.

`MCNamesAsProved` in `MCMangledStorage` has TLC evaluate the three for the libraries and look-ups of
`MangledStorage.cfg`: all strings but the separators are words there.

The argument: the first `(` ends what comes before the parameters (`FirstCut`), the last `)` the
parameters (`LastCut`), and a list of types says what its types are because none contains a comma
(`ListParts`); together `ParametersApart`. The last `::` separates a class from its member (`ScopedIs`,
`SameCtor`, `SameDtor`). A blank is only in the names of templates' instances, once, so the
suffix `FullName` looks for is the whole name or all that follows the blank (`NoSpaceNoPrefix`,
`AfterSpace`). From these, a lemma for each look-up (`AsksVariable` ... `AsksTypeInfo`) shows that the names
it matches are those of the entities `Asked` describes; `VariableFound` and its like, that the entry
taken from the table is one of these; `AnswersRight` puts both together, and `Tables` is the invariant.

### Only model-checked

Termination of the parsers and of `Locations` are liveness properties under fairness and stay with TLC. So does `FindsWhatIsAsked` for
the names of MSVC: their look-ups consume a name step by step, each step from a set of what may
be left, and the names have blanks, qualifiers and visibility in places of their own, so the cuts
above do not carry over.

## Plan

Modelled and checked: every component of the inventory but the last. Proved: every safety property
the runs check, `FindsWhatIsAsked` for one of the two kinds of names. Left: the other, a grammar of what
`__unDName` shows, under which each `try_consume` leaves one rest.

## Not modelled

`alias.hpp`, `config.hpp`, load mode constants and pointer casts: macros and
compile-time code without state. Symbol versions, dependencies of libraries
and code run by their constructors are the loader's, and left out with them. The demangler
is the compiler's runtime. Long section names of PE files ("/4" and the like) are not
resolved by the code, and no file has them here. Members called through
`imported_class::call` change the imported object and nothing of the library's.
Load modes other than `append_decorations` and `search_system_folders` are passed to the
system; so are the handles `LoadLibraryExW` returns for libraries loaded as data.
`get_related` returns names for a person to read. The tuples of `import_mangled` that
hold function pointers and choose among them are overload resolution of the compiler.
`strip_handle` clears mode bits that dyld keeps in a handle: a handle is its image here.
Code of a library that runs during `dlclose` and calls back into the object
that is being unloaded is not modelled, as the loader's calls into libraries are not.
