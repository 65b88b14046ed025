----------------------------- MODULE LibraryInfo -----------------------------
(***************************************************************************)
(* boost::dll::library_info: which format a file has, whether the platform *)
(* can load it, and the calls on an object whose stream throws whenever it *)
(* fails or ends.  What a parser makes of a file is left to ElfInfo,       *)
(* PeInfo and MachoInfo: an answer here is which parser gave it.           *)
(***************************************************************************)
EXTENDS Integers, Sequences

CONSTANTS
    Platforms,  \* what the program may be built for: [os, is32bit], where
                \* "linux" is any system but Windows and macOS
    Files       \* (bound) [magic, length, damaged]: what the file starts
                \* with, its length in bytes, and what goes wrong in which
                \* calls, a function from some calls to where they stop:
                \* "read" (a structure is cut off), "name" (one that
                \* getline reads has no end) or "other" (an offset or a size
                \* is out of bounds).  A missing file has length -1.

Formats == <<"elf32", "elf64", "pe32", "pe64", "macho32", "macho64">>
Elf == {"elf32", "elf64"}
Pe == {"pe32", "pe64"}
Macho == {"macho32", "macho64"}
Calls == {"sections", "symbols", "symbols_in"}

(* The names of sections and those of ELF files are read with their tables. *)
ASSUME InfoAssumption ==
    /\ Platforms \subseteq [os : {"windows", "macos", "linux"}, is32bit : BOOLEAN]
    /\ \A f \in Files :
          /\ DOMAIN f.damaged \subseteq Calls
          /\ \A call \in DOMAIN f.damaged :
                /\ f.damaged[call] \in {"read", "name", "other"}
                /\ f.damaged[call] = "name" => call # "sections" /\ f.magic \notin Elf

VARIABLES
    platform,
    file,
    native,     \* throw_if_not_native_format
    pc,         \* "open", the format to be tried next, "ready", or what the
                \* constructor has thrown
    fmt,        \* fmt_
    stream,     \* the state of f_ once the constructor is through: "eof" is
                \* eofbit alone, "failed" is failbit with or without it
    ret         \* the last call and who answered it

infoVars == <<platform, file, native, pc, fmt, stream, ret>>

Thrown == {"no_file", "stream_failure", "not_native", "unsupported"}

Init ==
    /\ platform \in Platforms
    /\ file \in Files
    /\ native \in BOOLEAN
    /\ pc = "open" /\ fmt = "none" /\ stream = "good"
    /\ ret = [call |-> "none", by |-> "none"]

-----------------------------------------------------------------------------
(* f_.exceptions() throws at once if the file could not be opened. *)
Open ==
    /\ pc = "open"
    /\ pc' = IF file.length < 0 THEN "no_file" ELSE Head(Formats)
    /\ UNCHANGED <<platform, file, native, fmt, stream, ret>>

(* How many bytes parsing_supported() reads before it can tell.  The ELF   *)
(* parsers read characters with >>, which skips blanks, until one differs; *)
(* the PE parsers read the DOS header, and the PE header, which ends at    *)
(* byte 300, if it has "MZ".                                               *)
NeededBytes(format) ==
    CASE format \in Elf /\ file.magic \in Elf     -> 5
      [] format \in Elf /\ file.magic = "blank"   -> file.length + 1
      [] format \in Elf                           -> 1
      [] format \in Pe /\ file.magic \in Pe \cup {"dos"} -> 300
      [] format \in Pe                            -> 64
      [] format \in Macho                         -> 4

ParsingSupported(format) == file.magic = format

(* Mutant: a 32-bit process takes every PE file.                           *)
ForeignUnlessPe(format) ==
    \/ platform.os = "windows" /\ format \notin Pe
    \/ platform.os = "macos" /\ format \notin Macho
    \/ platform.os = "linux" /\ format \notin Elf
    \/ platform.is32bit /\ format \in {"elf64", "macho64"}

(* throw_if_in_linux, _windows, _macos and _32bit, as init() applies them. *)
Foreign(format) ==
    \/ platform.os = "windows" /\ format \notin Pe
    \/ platform.os = "macos" /\ format \notin Macho
    \/ platform.os = "linux" /\ format \notin Elf
    \/ platform.is32bit /\ format \in {"elf64", "pe64", "macho64"}

(* Mutant: the format is taken before it is known to be native.            *)
ProbeEarly(k) ==
    LET format == Formats[k]
    IN  /\ pc = format
        /\ fmt' = format
        /\ pc' = IF ~ParsingSupported(format)
                 THEN IF k = Len(Formats) THEN "unsupported" ELSE Formats[k + 1]
                 ELSE IF native /\ Foreign(format) THEN "not_native" ELSE "ready"
        /\ UNCHANGED <<platform, file, native, stream, ret>>

(* init(): one of the six else-if's. *)
Probe(k) ==
    LET format == Formats[k]
    IN  /\ pc = format
        /\ IF file.length < NeededBytes(format)
           THEN pc' = "stream_failure" /\ UNCHANGED fmt
           ELSE IF ParsingSupported(format)
           THEN IF native /\ Foreign(format)
                THEN pc' = "not_native" /\ UNCHANGED fmt
                ELSE pc' = "ready" /\ fmt' = format
           ELSE /\ pc' = IF k = Len(Formats) THEN "unsupported" ELSE Formats[k + 1]
                /\ UNCHANGED fmt
        /\ UNCHANGED <<platform, file, native, stream, ret>>

(* The state in which a call that stops leaves the stream: read() sets     *)
(* failbit when bytes are missing, getline does not if it got some, and an *)
(* overflow or a size is not found out by the stream.                      *)
Left(damage) ==
    CASE damage = "read" -> "failed"
      [] damage = "name" -> "eof"
      [] damage = "other" -> "good"

(* Mutant: eofbit and failbit do not throw.                                *)
AskUnchecked(call) ==
    /\ pc = "ready"
    /\ ret' = [call |-> call, by |-> fmt]
    /\ UNCHANGED <<platform, file, native, pc, fmt, stream>>

(* Mutant: a call starts to read before it goes to the start of the file.  *)
AskNotRewound(call) ==
    /\ pc = "ready"
    /\ IF stream = "good" /\ call \notin DOMAIN file.damaged
       THEN ret' = [call |-> call, by |-> fmt] /\ UNCHANGED stream
       ELSE /\ ret' = [call |-> call, by |-> "thrown"]
            /\ stream' = IF stream = "good" THEN Left(file.damaged[call]) ELSE stream
    /\ UNCHANGED <<platform, file, native, pc, fmt>>

(* sections(), symbols(), symbols(section).  Each first reads the header,  *)
(* after seekg(0), which clears eofbit and throws again if failbit is set. *)
Ask(call) ==
    /\ pc = "ready"
    /\ \/ /\ stream # "failed" /\ call \notin DOMAIN file.damaged
          /\ ret' = [call |-> call, by |-> fmt] /\ stream' = "good"
       \/ /\ stream # "failed" /\ call \in DOMAIN file.damaged
          /\ ret' = [call |-> call, by |-> "thrown"] /\ stream' = Left(file.damaged[call])
       \/ /\ stream = "failed"
          /\ ret' = [call |-> call, by |-> "thrown"] /\ UNCHANGED stream
    /\ UNCHANGED <<platform, file, native, pc, fmt>>

Next ==
    \/ Open
    \/ \E k \in DOMAIN Formats : Probe(k)
    \/ \E call \in Calls : Ask(call)

Spec == Init /\ [][Next]_infoVars

-----------------------------------------------------------------------------
KnownFormats == {Formats[k] : k \in DOMAIN Formats}

InfoTypeOK ==
    /\ pc \in {"open", "ready"} \cup KnownFormats \cup Thrown
    /\ fmt \in KnownFormats \cup {"none"} /\ (fmt = "none" <=> pc # "ready")
    /\ stream \in {"good", "eof", "failed"}
    /\ ret.by \in {"none", "thrown", fmt}
    /\ pc # "ready" => ret.call = "none" /\ ret.by = "none" /\ stream = "good"

(* What the platform can load, by what it is rather than by exclusion.     *)
Loadable(format) ==
    /\ format \in CASE platform.os = "windows" -> Pe
                    [] platform.os = "macos" -> Macho
                    [] platform.os = "linux" -> Elf
    /\ platform.is32bit => format \in {"elf32", "pe32", "macho32"}

(* "Throw an exception if this file format is not supported by OS": no     *)
(* order of the tests accepts a foreign file, refuses one the platform     *)
(* loads, or takes a file for one of another format.                       *)
OpenedAsWhatItIs ==
    /\ pc = "ready" => fmt = file.magic /\ (native => Loadable(fmt))
    /\ pc = "not_native" => native /\ ~Loadable(file.magic)
    /\ pc = "unsupported" => file.magic \notin KnownFormats

(* An answer is that of the file's own parser, and the parser had all of   *)
(* the bytes it asked for, whichever calls threw before.                   *)
AnswersAreWhole ==
    ret.by \notin {"none", "thrown"} =>
        ret.by = file.magic /\ ret.call \notin DOMAIN file.damaged

(* A call is refused only for what it would read itself, or after one that *)
(* was cut off within a structure: a name without an end or an offset out  *)
(* of bounds fails the calls that come across it, and no later one.        *)
RefusedForCause ==
    /\ ret.by = "thrown" => ret.call \in DOMAIN file.damaged \/ stream = "failed"
    /\ stream = "failed" => \E call \in DOMAIN file.damaged : file.damaged[call] = "read"

(* What holds of the object before and after every call.                   *)
InfoInv == InfoTypeOK /\ AnswersAreWhole /\ RefusedForCause
=============================================================================
