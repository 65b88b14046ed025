------------------------------ MODULE MachoInfo ------------------------------
(***************************************************************************)
(* detail::macho_info: sections(), symbols() and symbols(section), one     *)
(* action per section or symbol of a load command that command_finder      *)
(* comes to.  Sections are numbered from 1 through all the segments.       *)
(***************************************************************************)
EXTENDS Listing

CONSTANTS
    MachoFiles,     \* (bound) the files that are asked about
    Underscore      \* the character '_'

(* A file is its load commands: [cmd, sections, symbols].  Only segments   *)
(* have sections, and only the symbol table has symbols.                   *)
ASSUME MachoAssumption ==
    \A f \in MachoFiles :
        /\ IsSeq(f)
        /\ \A k \in DOMAIN f :
              /\ IsSeq(f[k].sections) /\ IsSeq(f[k].symbols)
              /\ f[k].cmd # "SEGMENT" => f[k].sections = <<>>
              /\ f[k].cmd # "SYMTAB" => f[k].symbols = <<>>

VARIABLES           \* pc is the command that command_finder looks for
    j,              \* the callback's counter, and command_finder's is i
    section_index   \* 0 for all

machoVars == <<file, q, pc, i, j, section_index, ret>>

Ncmds == Len(file)

MachoInit ==
    /\ file \in MachoFiles
    /\ q \in Questions
    /\ pc = IF q.op = "symbols" THEN "SYMTAB" ELSE "SEGMENT"
    /\ i = 0 /\ j = 0 /\ section_index = 0 /\ ret = <<>>

-----------------------------------------------------------------------------
(* section_names_gather: empty names are not shown. *)
SectionShown(name) == IF name # <<>> THEN <<name>> ELSE <<>>

(* Mutant: any of the bits that N_SECT has will do.                        *)
WantedAnyType(y) ==
    y.name # <<>> /\ y.type # "UNDEF" /\ section_index \in {0, y.sect}

(* symbol_names_gather: is it listed, and how?  A name of n_strx = 0 and   *)
(* an empty one are the same here.                                         *)
Wanted(y) ==
    y.name # <<>> /\ y.type = "SECT" /\ y.sect # 0 /\ section_index \in {0, y.sect}

Unprefixed(name) == IF Head(name) = Underscore THEN Tail(name) ELSE name

SymbolShown(y) == IF Wanted(y) THEN <<Unprefixed(y.name)>> ELSE <<>>

(* command_finder: a load command's next entry, or the next command.       *)
NextEntry(cmd, Entries(_), Shown(_)) ==
    /\ pc = cmd /\ i < Ncmds
    /\ LET entries == Entries(file[i + 1])
       IN  IF file[i + 1].cmd = cmd /\ j < Len(entries)
           THEN ret' = ret \o Shown(entries[j + 1]) /\ j' = j + 1 /\ UNCHANGED i
           ELSE i' = i + 1 /\ j' = 0 /\ UNCHANGED ret
    /\ UNCHANGED <<file, q, pc, section_index>>

NextSegment == NextEntry("SEGMENT", LAMBDA c : c.sections, SectionShown)

(* Mutant: std::distance without the 1 that sections are numbered from.    *)
FindSectionFromZero ==
    /\ pc = "SEGMENT" /\ i = Ncmds /\ q.op = "symbols_in"
    /\ section_index' = SelectInSeq(ret, LAMBDA name : name = q.wanted) - 1
    /\ pc' = IF q.wanted \in ToSet(ret) THEN "SYMTAB" ELSE "done"
    /\ i' = 0 /\ ret' = <<>>
    /\ UNCHANGED <<file, q, j>>

(* symbols(section): the position of the name in what sections() returned. *)
MachoFindSection ==
    /\ pc = "SEGMENT" /\ i = Ncmds /\ q.op = "symbols_in"
    /\ section_index' = SelectInSeq(ret, LAMBDA name : name = q.wanted)
    /\ pc' = IF section_index' = 0 THEN "done" ELSE "SYMTAB"
    /\ i' = 0 /\ ret' = <<>>
    /\ UNCHANGED <<file, q, j>>

NextSymtab == NextEntry("SYMTAB", LAMBDA c : c.symbols, SymbolShown)

Return ==
    /\ i = Ncmds
    /\ pc = "SYMTAB" \/ (pc = "SEGMENT" /\ q.op = "sections")
    /\ pc' = "done"
    /\ UNCHANGED <<file, q, i, j, section_index, ret>>

MachoNext == NextSegment \/ MachoFindSection \/ NextSymtab \/ Return

MachoSpec == MachoInit /\ [][MachoNext]_machoVars

-----------------------------------------------------------------------------
(* What the file contains by the Mach-O format: external symbols can be    *)
(* linked against, and the compiler's names have a '_' that the source's   *)
(* names have not.                                                         *)
AllSections(f) == FlattenSeq([k \in DOMAIN f |-> f[k].sections])

MachoContent ==
    LET named == UNION {{y \in ToSet(file[k].symbols) : y.name # <<>>} : k \in DOMAIN file}
    IN  [sections |-> AllSections(file),
         symbols  |-> {[name     |-> Unprefixed(y.name),
                        exported |-> y.external /\ y.type = "SECT",
                        section  |-> IF y.type = "SECT" THEN y.sect ELSE 0] : y \in named}]

MachoTypeOK ==
    /\ pc \in {"SEGMENT", "SYMTAB", "done"}
    /\ i \in 0 .. Ncmds
    /\ section_index \in 0 .. Len(MachoContent.sections)
    /\ section_index # 0 => MachoContent.sections[section_index] = q.wanted

(* Each call answers what library_info promises: the load commands come in *)
(* any order, with others between them, and sections are numbered through  *)
(* all the segments.                                                       *)
MachoAnswered == pc = "done" => ToSet(ret) = Answer(MachoContent)

(* The answer at the end, and the parser's variables on the way there.     *)
MachoInv == MachoTypeOK /\ MachoAnswered

(* Sections have names, and one that is asked for is that of one section.  *)
MachoSectionsApart ==
    \A f \in MachoFiles : LET names == AllSections(f) IN
        /\ \A k \in DOMAIN f : <<>> \notin ToSet(f[k].sections)
        /\ \A x \in Questions : x.op = "symbols_in" => \A m, n \in DOMAIN names :
              names[m] = x.wanted /\ names[n] = x.wanted => m = n

(* The symbols that are in a section are external.                         *)
SymbolsExternal ==
    \A f \in MachoFiles : \A k \in DOMAIN f : \A y \in ToSet(f[k].symbols) :
        y.name # <<>> /\ y.type = "SECT" => y.external /\ y.sect # 0
=============================================================================
