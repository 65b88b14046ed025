----------------------------- MODULE MCMachoInfo -----------------------------
(* Files for MachoInfo: two segments and the symbol table in any order     *)
(* among other commands; symbols of every type in every section.           *)
EXTENDS MachoInfo

CONSTANTS dotText, dotConst, dotData, none, f, g,
    Locals,     \* are there symbols that are not external?
    SameName    \* do two segments have a section of the same name?

Segment(sections) == [cmd |-> "SEGMENT", sections |-> sections, symbols |-> <<>>]
Symtab(symbols) == [cmd |-> "SYMTAB", sections |-> <<>>, symbols |-> symbols]
Uuid == [cmd |-> "UUID", sections |-> <<>>, symbols |-> <<>>]

Code == Segment(<<<<dotText>>, <<dotConst>>>>)
Data == Segment(<<IF SameName THEN <<dotConst>> ELSE <<dotData>>>>)

Sym(name, type, external, sect) ==
    [name |-> name, type |-> type, external |-> external, sect |-> sect]
Externals == {Sym(<<Underscore, f>>, "SECT", TRUE, n) : n \in 1 .. 3}
               \cup {Sym(<<g>>, "SECT", TRUE, n) : n \in 1 .. 3}
Others == {Sym(<<>>, "SECT", TRUE, 1), Sym(<<Underscore, g>>, "UNDEF", TRUE, 0),
           Sym(<<Underscore, g>>, "ABS", FALSE, 0)}
MCSymbols == Externals \cup Others
    \cup IF Locals THEN {Sym(<<Underscore, g>>, "SECT", FALSE, n) : n \in 1 .. 3} ELSE {}

MCFiles == UNION {{<<Code, Data, Uuid, Symtab(<<r, s>>)>>,
                   <<Code, Symtab(<<r, s>>), Uuid, Data>>,
                   <<Symtab(<<r, s>>), Uuid, Code, Data>>} :
                    r \in MCSymbols, s \in MCSymbols}

Ask(op, wanted) == [op |-> op, wanted |-> wanted]
MCQuestions == {Ask("sections", <<>>), Ask("symbols", <<>>)}
    \cup {Ask("symbols_in", w) : w \in {<<dotText>>, <<dotConst>>, <<dotData>>, <<none>>}}

(* These files are what the proofs ask for, but for the two exceptions. *)
ASSUME MCFilesAsProved ==
    (SameName \/ MachoSectionsApart) /\ (Locals \/ SymbolsExternal)
=============================================================================
