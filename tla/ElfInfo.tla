------------------------------- MODULE ElfInfo -------------------------------
(***************************************************************************)
(* detail::elf_info: sections(), symbols() and symbols(section) as the     *)
(* loops they are, one action per iteration.                               *)
(*                                                                         *)
(* A string table is a sequence of characters; a name is referred to by    *)
(* the offset of its first one, and two names may share a tail.  The       *)
(* characters are model values, a ".text" may be one of them.              *)
(***************************************************************************)
EXTENDS Listing

CONSTANTS
    ElfFiles,       \* (bound) the files that are asked about
    NUL,            \* the character '\0'
    SymtabName, StrtabName, DynsymName, DynstrName  \* ".symtab" and so on

(* Tables are sequences, and offsets and section numbers are unsigned.     *)
FilesAreTables ==
    \A f \in ElfFiles :
        /\ IsSeq(f.names) /\ IsSeq(f.sections)
        /\ \A k \in DOMAIN f.sections : LET s == f.sections[k] IN
              /\ s.name \in Nat /\ IsSeq(s.body)
              /\ s.type \in {"SYMTAB", "DYNSYM"} =>
                    \A n \in DOMAIN s.body : s.body[n].name \in Nat /\ s.body[n].shndx \in Nat

ASSUME ElfAssumption ==
    /\ StrtabName # DynstrName
    /\ FilesAreTables

VARIABLES   \* the file is [names: a string table, sections: their headers
            \* and contents], i the loop's counter or the offset of name_begin
    index,  \* symbols(section): the section's number, e_shnum if there is none
    tabs    \* symbols_text: the sections found so far, 0 if not (yet)

elfVars == <<file, q, pc, i, index, tabs, ret>>

(* resize(size + 1, '\0'): a table is read with a terminator of its own. *)
Terminated(table) == Append(table, NUL)

(* The C string that starts at an offset. *)
NameAt(table, offset) ==
    LET t   == Terminated(table)
        end == SelectInSubSeq(t, offset + 1, Len(t), LAMBDA c : c = NUL)
    IN  SubSeq(t, offset + 1, end - 1)

InTable(table, offset) == offset < Len(Terminated(table))

Shnum == Len(file.sections)
Section(k) == file.sections[k + 1]      \* sections are numbered from 0
SectionName(s) == NameAt(file.names, s.name)

None == [symtab |-> 0, strtab |-> 0, dynsym |-> 0, dynstr |-> 0]

ElfInit ==
    /\ file \in ElfFiles
    /\ q \in Questions
    /\ pc = CASE q.op = "sections" -> "names"
              [] q.op = "symbols" -> "tables"
              [] q.op = "symbols_in" -> "find"
    /\ i = 0 /\ index = 0 /\ tabs = None /\ ret = <<>>

-----------------------------------------------------------------------------
(* sections(): the strings of the section names' table.                    *)

(* Mutant: the table is read without a terminator of its own.              *)
NextNameOverruns ==
    /\ pc = "names"
    /\ LET name == NameAt(file.names, i)
       IN  /\ ret' = IF name # <<>> THEN Append(ret, name) ELSE ret
           /\ i' = i + Len(name) + 1
           /\ pc' = IF i' = Len(file.names) THEN "done" ELSE "names"
    /\ UNCHANGED <<file, q, index, tabs>>

(* Mutant: an empty name ends the list.                                    *)
NextNameStops ==
    /\ pc = "names"
    /\ LET name == NameAt(file.names, i)
       IN  /\ ret' = IF name # <<>> THEN Append(ret, name) ELSE ret
           /\ i' = i + Len(name) + 1
           /\ pc' = IF name = <<>> THEN "done" ELSE "names"
    /\ UNCHANGED <<file, q, index, tabs>>

ElfNextName ==
    /\ pc = "names"
    /\ LET name == NameAt(file.names, i)
       IN  /\ ret' = IF name # <<>> THEN Append(ret, name) ELSE ret
           /\ i' = i + Len(name) + 1
           /\ pc' = IF i' = Len(Terminated(file.names)) THEN "done" ELSE "names"
    /\ UNCHANGED <<file, q, index, tabs>>

-----------------------------------------------------------------------------
(* symbols(section): which section has that name?  names.at() throws.      *)
ElfFindSection ==
    /\ pc = "find"
    /\ UNCHANGED <<file, q, tabs, ret>>
    /\ IF i = Shnum
       THEN pc' = "tables" /\ i' = 0 /\ index' = Shnum
       ELSE IF ~InTable(file.names, Section(i).name)
       THEN pc' = "thrown" /\ UNCHANGED <<i, index>>
       ELSE IF SectionName(Section(i)) = q.wanted
       THEN pc' = "tables" /\ i' = 0 /\ index' = i
       ELSE i' = i + 1 /\ UNCHANGED <<pc, index>>

(* Mutant: the section's number is taken after the loop has counted it.    *)
RememberNext(s) ==
    IF ~InTable(file.names, s.name) THEN tabs
    ELSE IF s.type = "SYMTAB" THEN [tabs EXCEPT !.symtab = i + 2]
    ELSE IF s.type = "STRTAB" THEN [tabs EXCEPT !.strtab = i + 2]
    ELSE tabs

(* symbols_text(): one section header. *)
Remember(s) ==
    IF ~InTable(file.names, s.name) THEN tabs
    ELSE LET name == SectionName(s)
         IN  IF s.type = "SYMTAB" /\ name = SymtabName THEN [tabs EXCEPT !.symtab = i + 1]
             ELSE IF s.type = "STRTAB" /\ name = DynstrName THEN [tabs EXCEPT !.dynstr = i + 1]
             ELSE IF s.type = "STRTAB" /\ name = StrtabName THEN [tabs EXCEPT !.strtab = i + 1]
             ELSE IF s.type = "DYNSYM" /\ name = DynsymName THEN [tabs EXCEPT !.dynsym = i + 1]
             ELSE tabs

(* The size of a section that was not found is 0, and so may that of one   *)
(* that was.                                                               *)
Body(k) == IF k = 0 THEN <<>> ELSE file.sections[k].body
Empty(k) == Body(k) = <<>>

(* Mutant: only a missing ".symtab" makes it fall back to ".dynsym".       *)
ChosenBySymtab ==
    IF Empty(tabs.symtab)
    THEN [symbols |-> tabs.dynsym, text |-> tabs.dynstr]
    ELSE [symbols |-> tabs.symtab, text |-> tabs.strtab]

(* ".symtab" with its strings, or else ".dynsym" with its own. *)
Chosen ==
    IF Empty(tabs.symtab) \/ Empty(tabs.strtab)
    THEN [symbols |-> tabs.dynsym, text |-> tabs.dynstr]
    ELSE [symbols |-> tabs.symtab, text |-> tabs.strtab]

(* Mutant: a section that is skipped is not counted.                       *)
NextTableSticks ==
    /\ pc = "tables"
    /\ UNCHANGED <<file, q, index, ret>>
    /\ IF i < Shnum
       THEN /\ tabs' = Remember(Section(i))
            /\ i' = IF InTable(file.names, Section(i).name) THEN i + 1 ELSE i
            /\ UNCHANGED pc
       ELSE pc' = "done" /\ i' = 0 /\ UNCHANGED tabs

NextTable ==
    /\ pc = "tables"
    /\ UNCHANGED <<file, q, index, ret>>
    /\ IF i < Shnum
       THEN tabs' = Remember(Section(i)) /\ i' = i + 1 /\ UNCHANGED pc
       ELSE /\ pc' = IF Empty(Chosen.symbols) \/ Empty(Chosen.text) THEN "done"
                     ELSE "emit"
            /\ i' = 0
            /\ UNCHANGED tabs

-----------------------------------------------------------------------------
Visible(y) ==
    y.visibility \in {"DEFAULT", "PROTECTED"} /\ y.bind # "LOCAL" /\ y.size > 0

NextSymbol ==
    /\ pc = "emit"
    /\ LET symbols == Body(Chosen.symbols)
           strings == Body(Chosen.text)
           y       == symbols[i + 1]
           name    == NameAt(strings, y.name)
       IN  /\ ret' = IF /\ q.op = "symbols_in" => y.shndx = index
                        /\ Visible(y) /\ InTable(strings, y.name) /\ name # <<>>
                     THEN Append(ret, name) ELSE ret
           /\ i' = i + 1
           /\ pc' = IF i' = Len(symbols) THEN "done" ELSE "emit"
    /\ UNCHANGED <<file, q, index, tabs>>

ElfNext == ElfNextName \/ ElfFindSection \/ NextTable \/ NextSymbol

ElfSpec == ElfInit /\ [][ElfNext]_elfVars /\ WF_elfVars(ElfNext)

-----------------------------------------------------------------------------
(* What the file contains, by the ELF specification rather than by loops:  *)
(* the static symbol table if it is there, else the dynamic one.           *)

Named(type, name) == SelectLastInSeq(file.sections, LAMBDA s :
    s.type = type /\ InTable(file.names, s.name) /\ SectionName(s) = name)

ElfContent ==
    LET static  == [symbols |-> Named("SYMTAB", SymtabName),
                    text    |-> Named("STRTAB", StrtabName)]
        dynamic == [symbols |-> Named("DYNSYM", DynsymName),
                    text    |-> Named("STRTAB", DynstrName)]
        usable(t) == ~Empty(t.symbols) /\ ~Empty(t.text)
        table   == IF usable(static) THEN static ELSE dynamic
        listed  == IF ~usable(table) THEN {} ELSE {y \in ToSet(Body(table.symbols)) :
                       /\ InTable(Body(table.text), y.name)
                       /\ NameAt(Body(table.text), y.name) # <<>>}
    IN  [sections |-> [k \in DOMAIN file.sections |-> SectionName(file.sections[k])],
         symbols  |-> {[name     |-> NameAt(Body(table.text), y.name),
                        exported |-> Visible(y),
                        section  |-> y.shndx + 1] : y \in listed}]

ElfTypeOK ==
    /\ pc \in {"names", "find", "tables", "emit", "done", "thrown"}
    /\ index \in 0 .. Shnum
    /\ tabs \in [DOMAIN None -> 0 .. Shnum]
    /\ i \in 0 .. Len(Terminated(file.names)) + Shnum + Len(Body(Chosen.symbols))

(* symbols() and symbols(section) list the exportable names of the file,   *)
(* and of the section, whichever tables were stripped from it, in whatever *)
(* order they come.                                                        *)
SymbolsListed ==
    pc = "done" /\ q.op # "sections" => ToSet(ret) = Answer(ElfContent)

(* The "do ... while (name_begin != name_end)" of sections() meets its end *)
(* and does not step over it.                                              *)
NamesMeetTheEnd == pc = "names" => i < Len(Terminated(file.names))

(* What holds at every step of the loops.                                  *)
ElfInv == ElfTypeOK /\ NamesMeetTheEnd

(* Every call returns or throws. *)
ElfEnds == <>(pc \in {"done", "thrown"})

(* No section's name is the tail of another string.                        *)
NamesApart ==
    \A f \in ElfFiles : \A k \in DOMAIN f.sections :
        LET o == f.sections[k].name
        IN  o # 0 /\ InTable(f.names, o) => f.names[o] = NUL

(* A name that is asked for is that of one section, and e_shnum is not the *)
(* number of a symbol's section.                                           *)
SectionsApart ==
    \A f \in ElfFiles :
        /\ \A x \in Questions : x.op = "symbols_in" => \A k, n \in DOMAIN f.sections :
              /\ NameAt(f.names, f.sections[k].name) = x.wanted
              /\ NameAt(f.names, f.sections[n].name) = x.wanted
              => k = n
        /\ \A k \in DOMAIN f.sections : f.sections[k].type \in {"SYMTAB", "DYNSYM"} =>
              \A n \in DOMAIN f.sections[k].body :
                  f.sections[k].body[n].shndx # Len(f.sections)

(* "List of sections that exist in binary file" (library_info.hpp).        *)
SectionsListed ==
    pc = "done" /\ q.op = "sections"
      => Answer(ElfContent) \ {<<>>} \subseteq ToSet(ret)
=============================================================================
