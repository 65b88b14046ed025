SPECIFICATION ElfSpec
CONSTANTS
    NUL = NUL  rela = rela  text = text  symtab = symtab  strtab = strtab
    dynsym = dynsym  dynstr = dynstr  f = f  g = g
    SymtabName <- MCSymtabName
    StrtabName <- MCStrtabName
    DynsymName <- MCDynsymName
    DynstrName <- MCDynstrName
    Kinds = {"both", "static_first", "stripped", "no_strings", "empty_strings", "other_type", "outside"}
    Merged = FALSE
    ElfFiles <- MCFiles
    Questions <- MCQuestions
\* A call that returned is over.
CHECK_DEADLOCK FALSE
INVARIANTS ElfInv SymbolsListed SectionsListed
PROPERTIES ElfEnds
