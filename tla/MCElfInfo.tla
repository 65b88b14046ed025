------------------------------ MODULE MCElfInfo ------------------------------
(* Binary files for ElfInfo: with and without a static symbol table, with  *)
(* either part of it empty or missing, a dynamic one with other symbols,   *)
(* sections in two orders, and names that share tails or lie outside.      *)
EXTENDS ElfInfo

CONSTANTS rela, text, symtab, strtab, dynsym, dynstr, f, g, Kinds, Merged

(* The names' table; ".text" alone, or as the tail of ".rela.text". *)
Table == (IF Merged THEN <<NUL, rela, text, NUL>> ELSE <<NUL, text, NUL>>)
           \o <<symtab, NUL, strtab, NUL, dynsym, NUL, dynstr, NUL>>
Offset(c) == SelectInSeq(Table, LAMBDA d : d = c) - 1

Header(c, type, body) == [name |-> Offset(c), type |-> type, body |-> body]
Null == [name |-> 0, type |-> "NULL", body |-> <<>>]
Outside == [name |-> 99, type |-> "OTHER", body |-> <<>>]
Text == Header(text, "OTHER", <<>>)

Sym(name, visibility, bind, size, shndx) ==
    [name |-> name, visibility |-> visibility, bind |-> bind,
     size |-> size, shndx |-> shndx]
MCSymbols == {
    Sym(1, "DEFAULT", "GLOBAL", 8, 1), Sym(3, "PROTECTED", "WEAK", 8, 2),
    Sym(3, "HIDDEN", "GLOBAL", 8, 1), Sym(1, "DEFAULT", "LOCAL", 8, 1),
    Sym(3, "DEFAULT", "GLOBAL", 0, 0), Sym(0, "DEFAULT", "GLOBAL", 8, 1),
    Sym(77, "DEFAULT", "GLOBAL", 8, 1)}
Strings == <<NUL, f, NUL, g, NUL>>
Dynamic == <<Sym(3, "DEFAULT", "GLOBAL", 8, 1)>>

Headers(kind, symbols) ==
    CASE kind = "both" ->
           <<Null, Text, Header(dynsym, "DYNSYM", Dynamic), Header(dynstr, "STRTAB", Strings),
             Header(symtab, "SYMTAB", symbols), Header(strtab, "STRTAB", Strings)>>
      [] kind = "static_first" ->
           <<Null, Text, Header(strtab, "STRTAB", Strings), Header(symtab, "SYMTAB", symbols),
             Header(dynstr, "STRTAB", Strings), Header(dynsym, "DYNSYM", Dynamic)>>
      [] kind = "stripped" ->
           <<Null, Text, Header(dynsym, "DYNSYM", symbols), Header(dynstr, "STRTAB", Strings)>>
      [] kind = "no_strings" ->
           <<Null, Text, Header(symtab, "SYMTAB", symbols),
             Header(dynsym, "DYNSYM", Dynamic), Header(dynstr, "STRTAB", Strings)>>
      [] kind = "empty_strings" ->
           <<Null, Text, Header(symtab, "SYMTAB", symbols), Header(strtab, "STRTAB", <<>>),
             Header(dynsym, "DYNSYM", Dynamic), Header(dynstr, "STRTAB", Strings)>>
      [] kind = "other_type" ->
           <<Null, Text, Header(symtab, "OTHER", symbols), Header(strtab, "STRTAB", Strings)>>
      [] kind = "outside" ->
           <<Null, Outside, Text, Header(symtab, "SYMTAB", symbols),
             Header(strtab, "STRTAB", Strings)>>

Layout(kind, symbols) ==
    Headers(kind, symbols)
      \o IF Merged THEN <<Header(rela, "OTHER", <<>>)>> ELSE <<>>

MCFiles == {[names |-> Table, sections |-> Layout(kind, <<r, s>>)] :
                kind \in Kinds, r \in MCSymbols, s \in MCSymbols}
           \cup {[names |-> SubSeq(Table, 1, Len(Table) - 1),
                  sections |-> Layout("both", <<r>>)] : r \in MCSymbols}

Ask(op, wanted) == [op |-> op, wanted |-> wanted]
MCQuestions == {Ask("sections", <<>>), Ask("symbols", <<>>)}
    \cup {Ask("symbols_in", w) : w \in {<<text>>, <<symtab>>, <<rela>>, <<dynsym>>}}

MCSymtabName == <<symtab>>
MCStrtabName == <<strtab>>
MCDynsymName == <<dynsym>>
MCDynstrName == <<dynstr>>

(* These files are what the proofs ask for, but for merged names. *)
ASSUME MCFilesAsProved == SectionsApart /\ (Merged \/ NamesApart)
=============================================================================
