------------------------------- MODULE PeInfo -------------------------------
(***************************************************************************)
(* detail::pe_info: sections(), symbols() and symbols(section), one action *)
(* per iteration of their loops.  A section lies at a virtual address and, *)
(* as far as its contents are stored, at a file offset; a name is read     *)
(* where its address points, which is left out.                            *)
(***************************************************************************)
EXTENDS Listing

CONSTANTS
    PeFiles,        \* (bound) the files that are asked about
    Garbage         \* what is read as a name behind the table of names

(* Tables are sequences of unsigned numbers, with as many ordinals as      *)
(* names.                                                                  *)
ASSUME PeAssumption ==
    \A f \in PeFiles :
        /\ IsSeq(f.sections) /\ IsSeq(f.names) /\ IsSeq(f.ordinals) /\ IsSeq(f.functions)
        /\ Len(f.ordinals) = Len(f.names)
        /\ IsSeq(f.behind) /\ ToSet(f.behind) \subseteq Nat
        /\ ToSet(f.ordinals) \subseteq Nat /\ ToSet(f.functions) \subseteq Nat
        /\ \A k \in DOMAIN f.sections : LET s == f.sections[k] IN
              s.va \in Nat /\ s.vsize \in Nat /\ s.raw \in Nat /\ s.rawsize \in Nat

VARIABLE    \* the file is [sections, names, ordinals, functions, behind]: the
            \* section headers, the three tables of the export directory,
            \* and the words from the end of the ordinals to that of the file
    range   \* section_begin_addr and section_end_addr

peVars == <<file, q, pc, i, range, ret>>

NumberOfSections == Len(file.sections)
NumberOfNames == Len(file.names)
NumberOfFunctions == Len(file.functions)

(* Entries of the tables; reading on behind a table is possible, as far as *)
(* the file goes.                                                          *)
NameEntry(k) == IF k < NumberOfNames THEN file.names[k + 1] ELSE Garbage
HasOrdinal(k) == k < NumberOfNames + Len(file.behind)
OrdinalEntry(k) ==
    IF k < NumberOfNames THEN file.ordinals[k + 1] ELSE file.behind[k - NumberOfNames + 1]
FunctionEntry(k) == file.functions[k + 1]

(* Mutant: the address is compared with the file's own layout.             *)
FileOffsetUnmapped(address) ==
    LET k == SelectInSeq(file.sections, LAMBDA s :
                address >= s.raw /\ address < s.raw + s.rawsize)
    IN  IF k = 0 THEN 0 ELSE address

(* get_file_offset(): 0 when no section's stored contents hold the address. *)
FileOffset(address) ==
    LET k == SelectInSeq(file.sections, LAMBDA s :
                address >= s.va /\ address < s.va + s.rawsize)
    IN  IF k = 0 THEN 0
        ELSE file.sections[k].raw + address - file.sections[k].va

Nowhere == [begin |-> 0, end |-> 0]

PeInit ==
    /\ file \in PeFiles
    /\ q \in Questions
    /\ pc = CASE q.op = "sections" -> "sections"
              [] q.op = "symbols" -> "symbols"
              [] q.op = "symbols_in" -> "find"
    /\ i = 0 /\ range = Nowhere /\ ret = <<>>

-----------------------------------------------------------------------------
NextSection ==
    /\ pc = "sections"
    /\ IF i < NumberOfSections
       THEN ret' = Append(ret, file.sections[i + 1].name) /\ i' = i + 1 /\ UNCHANGED pc
       ELSE pc' = "done" /\ UNCHANGED <<ret, i>>
    /\ UNCHANGED <<file, q, range>>

(* symbols(): the table of names. *)
PeNextName ==
    /\ pc = "symbols"
    /\ IF i < NumberOfNames
       THEN ret' = Append(ret, NameEntry(i)) /\ i' = i + 1 /\ UNCHANGED pc
       ELSE pc' = "done" /\ UNCHANGED <<ret, i>>
    /\ UNCHANGED <<file, q, range>>

(* Mutant: a section that was not found is not told from an empty range.   *)
FindSectionNever ==
    /\ pc = "find"
    /\ UNCHANGED <<file, q, ret>>
    /\ IF i = NumberOfSections
       THEN pc' = "scan" /\ i' = 0 /\ UNCHANGED range
       ELSE LET s == file.sections[i + 1]
            IN  /\ range' = [begin |-> s.raw, end |-> s.raw + s.rawsize]
                /\ i' = IF s.name = q.wanted THEN NumberOfSections ELSE i + 1
                /\ UNCHANGED pc

(* symbols(section): where are the section's contents? *)
PeFindSection ==
    /\ pc = "find"
    /\ UNCHANGED <<file, q, ret>>
    /\ IF i < NumberOfSections
       THEN /\ LET s == file.sections[i + 1]
               IN  range' = IF s.name = q.wanted
                            THEN [begin |-> s.raw, end |-> s.raw + s.rawsize]
                            ELSE range
            /\ i' = i + 1 /\ UNCHANGED pc
       ELSE /\ pc' = IF range.begin = 0 \/ range.end = 0 THEN "done" ELSE "scan"
            /\ i' = 0 /\ UNCHANGED range

(* Is the k-th ordinal that of a function stored in the range?             *)
FunctionInRange(k) ==
    /\ OrdinalEntry(k) < NumberOfFunctions
    /\ FileOffset(FunctionEntry(OrdinalEntry(k))) \in range.begin .. range.end - 1

(* Mutant: an ordinal to be skipped stays the one to look at.              *)
NextFunctionSticks ==
    /\ pc = "scan"
    /\ \/ /\ i < NumberOfFunctions /\ HasOrdinal(i)
          /\ i' = IF OrdinalEntry(i) < NumberOfFunctions THEN i + 1 ELSE i
          /\ UNCHANGED <<pc, ret>>
       \/ /\ i >= NumberOfFunctions \/ ~HasOrdinal(i)
          /\ pc' = "done" /\ UNCHANGED <<ret, i>>
    /\ UNCHANGED <<file, q, range>>

(* The i-th ordinal, the function it is for, and where that is stored.     *)
(* There are NumberOfNames ordinals: the loop goes on with the words       *)
(* behind them, one for each function without a name.  At the end of the   *)
(* file the stream throws, as it may for what is read as a name there.     *)
NextFunction ==
    /\ pc = "scan"
    /\ \/ /\ i < NumberOfFunctions /\ HasOrdinal(i)
          /\ ret' = IF FunctionInRange(i) THEN Append(ret, NameEntry(i)) ELSE ret
          /\ i' = i + 1 /\ UNCHANGED pc
       \/ /\ i < NumberOfFunctions
          /\ HasOrdinal(i) => i >= NumberOfNames /\ FunctionInRange(i)
          /\ pc' = "thrown" /\ UNCHANGED <<ret, i>>
       \/ i >= NumberOfFunctions /\ pc' = "done" /\ UNCHANGED <<ret, i>>
    /\ UNCHANGED <<file, q, range>>

PeNext == NextSection \/ PeNextName \/ PeFindSection \/ NextFunction

PeSpec == PeInit /\ [][PeNext]_peVars /\ WF_peVars(PeNext)

-----------------------------------------------------------------------------
(* What the file contains by the PE specification: every name, and the     *)
(* section its function's address is mapped from, stored or zero-filled.   *)
SectionAt(address) == SelectInSeq(file.sections, LAMBDA s :
    address >= s.va /\ address < s.va + s.vsize)

PeContent ==
    [sections |-> [k \in DOMAIN file.sections |-> file.sections[k].name],
     symbols  |-> {[name     |-> file.names[k],
                    exported |-> TRUE,
                    section  |-> SectionAt(FunctionEntry(file.ordinals[k]))] :
                        k \in DOMAIN file.names}]

PeTypeOK ==
    /\ pc \in {"sections", "symbols", "find", "scan", "done", "thrown"}
    /\ i \in 0 .. NumberOfSections + NumberOfNames + NumberOfFunctions
    /\ range.begin <= range.end
    /\ range # Nowhere => \E k \in DOMAIN file.sections :
           file.sections[k].name = q.wanted /\ file.sections[k].raw = range.begin

(* The word read for a function without a name is taken for an ordinal, or *)
(* is not there.  Mostly it is two characters of a name, but the last one  *)
(* and its null make a small number, and so does much of the DOS header,   *)
(* which is read if the file has no ordinals.                              *)
Stray(k) ==
    /\ q.op = "symbols_in" /\ k \in NumberOfNames .. NumberOfFunctions - 1
    /\ HasOrdinal(k) => OrdinalEntry(k) < NumberOfFunctions

Astray == \E k \in 0 .. i : Stray(k)

(* Each call answers what library_info promises, gaps between the ordinals *)
(* and functions without a name included, except where a function without  *)
(* a name makes symbols(section) read a stray word: then there is a name   *)
(* that is none, or an exception, but no name is missing in an answer.     *)
PeAnswered ==
    /\ pc = "done" => \/ ToSet(ret) = Answer(PeContent)
                      \/ Astray /\ ToSet(ret) = Answer(PeContent) \cup {Garbage}
    /\ pc = "thrown" => Astray

(* The answer at the end, and the parser's variables on the way there.     *)
PeInv == PeTypeOK /\ PeAnswered

(* "List of symbols from the specified section" and nothing else, of every *)
(* file.                                                                   *)
PeExact == pc = "done" => ToSet(ret) = Answer(PeContent)

(* Every call on a complete file returns.                                  *)
PeReturns == pc # "thrown"

PeEnds == <>(pc \in {"done", "thrown"})

(* A name that is asked for is that of one section, and sections overlap   *)
(* neither in memory nor in the file, where 0 is the headers' place.       *)
PeSectionsApart ==
    \A f \in PeFiles : \A k \in DOMAIN f.sections : LET s == f.sections[k] IN
        /\ s.rawsize > 0 => s.raw > 0
        /\ \A n \in DOMAIN f.sections \ {k} : LET t == f.sections[n] IN
              /\ \A x \in Questions :
                    x.op = "symbols_in" => ~(s.name = x.wanted /\ t.name = x.wanted)
              /\ \/ s.va + s.vsize <= t.va /\ s.va + s.rawsize <= t.va
                 \/ t.va + t.vsize <= s.va /\ t.va + t.rawsize <= s.va
              /\ s.raw + s.rawsize <= t.raw \/ t.raw + t.rawsize <= s.raw

(* There are no more names than functions, and each name is that of a      *)
(* function whose address is in a section's stored contents.               *)
ExportsStored ==
    \A f \in PeFiles :
        /\ Len(f.names) <= Len(f.functions)
        /\ \A k \in DOMAIN f.names :
              /\ f.ordinals[k] < Len(f.functions)
              /\ LET address == f.functions[f.ordinals[k] + 1]
                 IN  \E m \in DOMAIN f.sections : LET s == f.sections[m] IN
                        /\ s.va <= address
                        /\ address < s.va + s.vsize /\ address < s.va + s.rawsize
=============================================================================
