---------------------------- MODULE ParserProofs ----------------------------
(***************************************************************************)
(* What the three parsers of library_info answer, for every set of files   *)
(* of their formats and of questions.  Each parser is a specification of   *)
(* its own; they share the variables they have in common, and what is      *)
(* proved of one says nothing of another.                                  *)
(***************************************************************************)
EXTENDS ElfInfo, PeInfo, MachoInfo, SequenceTheorems, WellFoundedInduction, TLAPS

-----------------------------------------------------------------------------
(* First and last positions, and sequences that grow.                      *)

LEMMA MinOf ==
    ASSUME NEW S, S \subseteq Nat, S # {}
    PROVE  Min(S) \in S /\ \A y \in S : Min(S) =< y
<1> DEFINE Less == {ss \in Nat \X Nat : ss[1] < ss[2]}
<1>1. IsWellFoundedOn(Less, Nat)
  BY NatLessThanWellFounded DEF OpToRel
<1> HIDE DEF Less
<1>2. PICK x \in S : \A y \in S : ~(<<y, x>> \in Less)
  BY <1>1, WFMin
<1>3. ASSUME NEW y \in S PROVE x =< y
  <2>1. y < x => <<y, x>> \in Less
    BY DEF Less
  <2>2. x \in Nat /\ y \in Nat /\ ~(y < x)
    BY <1>2, <2>1
  <2> QED
    BY <2>2
<1> QED
  BY <1>3 DEF Min

LEMMA MaxOf ==
    ASSUME NEW n \in Nat, NEW S, S \subseteq 1 .. n, S # {}
    PROVE  Max(S) \in S /\ \A y \in S : Max(S) >= y
<1> DEFINE D == {n - x : x \in S}
<1>1. D \subseteq Nat /\ D # {}
  OBVIOUS
<1>2. Min(D) \in D /\ \A y \in D : Min(D) =< y
  BY <1>1, MinOf
<1> HIDE DEF D
<1>3. PICK x \in S : Min(D) = n - x
  BY <1>2 DEF D
<1>4. ASSUME NEW y \in S PROVE x >= y
  <2>1. n - y \in D
    BY DEF D
  <2>2. n - x =< n - y
    BY <1>2, <1>3, <2>1
  <2> QED
    BY <2>2
<1> QED
  BY <1>4 DEF Max

LEMMA AppendElements ==
    ASSUME NEW s, s \in Seq(ToSet(s)), NEW x
    PROVE  /\ Append(s, x) \in Seq(ToSet(Append(s, x)))
           /\ ToSet(Append(s, x)) = ToSet(s) \cup {x}
           /\ Len(Append(s, x)) = Len(s) + 1
<1> DEFINE S == ToSet(s) \cup {x}
           a == Append(s, x)
<1>1. s \in Seq(S) /\ x \in S
  BY SeqMonotonic
<1> HIDE DEF S
<1>2. /\ a \in Seq(S) /\ Len(a) = Len(s) + 1 /\ Len(s) \in Nat
      /\ \A k \in 1 .. Len(s) : a[k] = s[k]
      /\ a[Len(s) + 1] = x
      /\ DOMAIN s = 1 .. Len(s) /\ DOMAIN a = 1 .. Len(s) + 1
  BY <1>1, AppendProperties, LenProperties
<1> HIDE DEF a
<1>3. ToSet(a) = ToSet(s) \cup {x}
  BY <1>2 DEF ToSet
<1>4. S = ToSet(a)
  BY <1>3 DEF S
<1> QED
  BY <1>2, <1>3, <1>4 DEF a

-----------------------------------------------------------------------------
(* A table of strings, and the string at an offset.                        *)

LEMMA TerminatedTable ==
    ASSUME NEW t, IsSeq(t)
    PROVE  LET T == Terminated(t)
           IN  /\ Len(t) \in Nat /\ Len(T) = Len(t) + 1
               /\ T \in Seq(ToSet(T)) /\ DOMAIN T = 1 .. Len(T)
               /\ T[Len(T)] = NUL
<1>1. t \in Seq(ToSet(t))
  BY DEF IsSeq, ToSet
<1> QED
  BY <1>1, AppendElements, AppendProperties, LenProperties DEF Terminated

(* A string ends before the first NUL from its offset on.                  *)
LEMMA NameAtOffset ==
    ASSUME NEW t, IsSeq(t), NEW o \in Nat
    PROVE  LET T == Terminated(t)
           IN  /\ InTable(t, o) => \E e \in o + 1 .. Len(T) :
                     /\ T[e] = NUL /\ \A k \in o + 1 .. e - 1 : T[k] # NUL
                     /\ Len(NameAt(t, o)) = e - 1 - o
                     /\ NameAt(t, o) = <<>> <=> e = o + 1
               /\ ~InTable(t, o) => NameAt(t, o) = <<>>
<1> DEFINE T == Terminated(t)
           I == {k \in o + 1 .. Len(T) : T[k] = NUL}
<1>1. /\ Len(T) \in Nat \ {0}
      /\ T \in Seq(ToSet(T)) /\ DOMAIN T = 1 .. Len(T) /\ T[Len(T)] = NUL
  BY TerminatedTable
<1>2. NameAt(t, o) = SubSeq(T, o + 1, (IF I # {} THEN Min(I) ELSE 0) - 1)
  BY DEF NameAt, SelectInSubSeq, Min, Min
<1>3. InTable(t, o) <=> o < Len(T)
  BY DEF InTable
<1> HIDE DEF T
<1>4. CASE o < Len(T)
  <2>1. I \subseteq Nat /\ Len(T) \in I
    BY <1>1, <1>4
  <2>2. Min(I) \in I /\ \A y \in I : Min(I) =< y
    BY <2>1, MinOf
  <2> DEFINE e == Min(I)
  <2>4. NameAt(t, o) = SubSeq(T, o + 1, e - 1)
    BY <1>2, <2>1
  <2> HIDE DEF e
  <2>3. /\ e \in o + 1 .. Len(T) /\ T[e] = NUL
        /\ \A k \in o + 1 .. e - 1 : T[k] # NUL
    <3>1. e \in I /\ \A y \in I : e =< y
      BY <2>2 DEF e
    <3>2. ASSUME NEW k \in o + 1 .. e - 1, T[k] = NUL PROVE FALSE
      <4>1. k \in I /\ k < e
        BY <1>1, <3>1, <3>2
      <4> QED
        BY <1>1, <3>1, <4>1
    <3> QED
      BY <3>1, <3>2
  <2>5. /\ SubSeq(T, o + 1, e - 1) \in Seq(ToSet(T))
        /\ Len(SubSeq(T, o + 1, e - 1)) = e - 1 - o
    BY <1>1, <2>3, SubSeqProperties
  <2>6. SubSeq(T, o + 1, e - 1) = <<>> <=> e = o + 1
    BY <2>3, <2>5, EmptySeq
  <2> QED
    BY <1>3, <1>4, <2>3, <2>4, <2>5, <2>6 DEF T
<1>5. CASE ~(o < Len(T))
  <2>1. I = {}
    BY <1>1, <1>5
  <2>2. SubSeq(T, o + 1, 0 - 1) = <<>>
    BY <1>1, SubSeqEmpty
  <2> QED
    BY <1>2, <1>3, <1>5, <2>1, <2>2 DEF T
<1> QED
  BY <1>4, <1>5
-----------------------------------------------------------------------------
(* ELF.                                                                    *)

Tabs == {"symtab", "strtab", "dynsym", "dynstr"}

(* The loops' counters, each within what it counts. *)
ElfTypes ==
    /\ file \in ElfFiles /\ q \in Questions
    /\ pc \in {"names", "find", "tables", "emit", "done", "thrown"}
    /\ index \in 0 .. Shnum
    /\ tabs \in [Tabs -> 0 .. Shnum]
    /\ ret \in Seq(ToSet(ret))
    /\ i \in Nat
    /\ pc = "names" => i < Len(Terminated(file.names))
    /\ pc = "emit" => i < Len(Body(Chosen.symbols))
    /\ pc \in {"find", "tables", "thrown"} => i =< Shnum
    /\ pc = "done" => \/ i =< Len(Terminated(file.names))
                      \/ i =< Len(Body(Chosen.symbols))

(* The tables of a file that is asked about. *)
LEMMA ElfTables ==
    ASSUME file \in ElfFiles
    PROVE  /\ IsSeq(file.names)
           /\ Len(Terminated(file.names)) \in Nat
           /\ Shnum \in Nat /\ DOMAIN file.sections = 1 .. Shnum
           /\ \A k \in 1 .. Shnum :
                 file.sections[k].name \in Nat /\ IsSeq(file.sections[k].body)
           /\ \A k \in 0 .. Shnum :
                 /\ IsSeq(Body(k)) /\ Len(Body(k)) \in Nat
                 /\ DOMAIN Body(k) = 1 .. Len(Body(k))
                 /\ Empty(k) <=> Len(Body(k)) = 0
<1>1. /\ IsSeq(file.names) /\ IsSeq(file.sections)
      /\ \A k \in DOMAIN file.sections :
            file.sections[k].name \in Nat /\ IsSeq(file.sections[k].body)
  BY ElfAssumption DEF FilesAreTables
<1>2. \A s : IsSeq(s) => /\ Len(s) \in Nat /\ DOMAIN s = 1 .. Len(s)
                             /\ s = <<>> <=> Len(s) = 0
  BY DEF IsSeq
<1>3. Len(Terminated(file.names)) \in Nat
  BY <1>1, TerminatedTable
<1>4. Shnum \in Nat /\ DOMAIN file.sections = 1 .. Shnum
  BY <1>1, <1>2 DEF Shnum
<1>5. ASSUME NEW k \in 0 .. Shnum
      PROVE  IsSeq(Body(k))
  <2>1. CASE k = 0
    BY <2>1 DEF Body, IsSeq
  <2>2. CASE k # 0
    BY <1>1, <1>4, <2>2 DEF Body
  <2> QED
    BY <2>1, <2>2
<1>6. ASSUME NEW k \in 0 .. Shnum
      PROVE  /\ Len(Body(k)) \in Nat /\ DOMAIN Body(k) = 1 .. Len(Body(k))
             /\ Empty(k) <=> Len(Body(k)) = 0
  <2>1. /\ Len(Body(k)) \in Nat /\ DOMAIN Body(k) = 1 .. Len(Body(k))
        /\ Body(k) = <<>> <=> Len(Body(k)) = 0
    BY <1>2, <1>5
  <2> QED
    BY <2>1 DEF Empty
<1>7. \A k \in 1 .. Shnum : file.sections[k].name \in Nat /\ IsSeq(file.sections[k].body)
  BY <1>1, <1>4
<1> QED
  BY <1>1, <1>3, <1>4, <1>5, <1>6, <1>7

LEMMA ChosenTables ==
    ASSUME ElfTypes
    PROVE  /\ Chosen.symbols \in 0 .. Shnum
           /\ Chosen.text \in 0 .. Shnum
BY DEF ElfTypes, Chosen, Tabs

LEMMA ElfInitTypes ==
    ASSUME ElfInit
    PROVE  ElfTypes
<1>1. /\ file \in ElfFiles /\ q \in Questions
      /\ q.op \in {"sections", "symbols", "symbols_in"}
      /\ i = 0 /\ index = 0 /\ ret = <<>>
      /\ tabs = [symtab |-> 0, strtab |-> 0, dynsym |-> 0, dynstr |-> 0]
  BY QuestionsAssumption DEF ElfInit, None
<1>2. pc \in {"names", "find", "tables"}
  BY <1>1 DEF ElfInit
<1>3. Shnum \in Nat /\ 0 < Len(Terminated(file.names))
  BY <1>1, ElfTables, TerminatedTable
<1>4. tabs \in [Tabs -> 0 .. Shnum]
  BY <1>1, <1>3 DEF Tabs
<1>5. ret \in Seq(ToSet(ret))
  BY <1>1
<1> QED
  BY <1>1, <1>2, <1>3, <1>4, <1>5 DEF ElfTypes

(* The end of a name is the next one's beginning, or the table's end. *)
LEMMA NextNameFits ==
    ASSUME ElfTypes, ElfNextName
    PROVE  LET T == Terminated(file.names)
           IN  /\ i' \in i + 1 .. Len(T) /\ T[i'] = NUL
               /\ \A k \in i + 1 .. i' - 1 : T[k] # NUL
               /\ pc' = IF i' = Len(T) THEN "done" ELSE "names"
<1> DEFINE T == Terminated(file.names)
           name == NameAt(file.names, i)
<1>1. IsSeq(file.names) /\ i \in Nat /\ i < Len(T)
  BY ElfTables DEF ElfTypes, ElfNextName
<1>2. i' = i + Len(name) + 1 /\ pc' = IF i' = Len(T) THEN "done" ELSE "names"
  BY DEF ElfNextName
<1>3. PICK e \in i + 1 .. Len(T) : /\ T[e] = NUL /\ \A k \in i + 1 .. e - 1 : T[k] # NUL
                                   /\ Len(name) = e - 1 - i
  BY <1>1, NameAtOffset DEF InTable
<1>4. Len(T) \in Nat
  BY <1>1, TerminatedTable
<1> HIDE DEF T, name
<1>5. i' = e
  BY <1>1, <1>2, <1>3, <1>4
<1> QED
  BY <1>2, <1>3, <1>5 DEF T

LEMMA ElfNextTypes ==
    ASSUME ElfTypes, [ElfNext]_elfVars
    PROVE  ElfTypes'
<1> USE DEF ElfTypes
<1>a. Shnum \in Nat
  BY ElfTables
<1>b. ASSUME UNCHANGED file PROVE Shnum' = Shnum
  BY <1>b DEF Shnum
<1>c. ASSUME UNCHANGED <<file, tabs>>
      PROVE  Len(Body(Chosen.symbols))' = Len(Body(Chosen.symbols))
  BY <1>c DEF Body, Chosen, Empty
<1>d. ASSUME UNCHANGED file
      PROVE  Len(Terminated(file.names))' = Len(Terminated(file.names))
  BY <1>d
<1>e. \A x : /\ Append(ret, x) \in Seq(ToSet(Append(ret, x)))
  BY AppendElements
<1>1. CASE ElfNextName
  <2> DEFINE T == Terminated(file.names)
  <2>1. /\ i' \in i + 1 .. Len(T) /\ pc' = IF i' = Len(T) THEN "done" ELSE "names"
        /\ Len(T) \in Nat
    BY <1>1, NextNameFits, ElfTables
  <2>2. /\ UNCHANGED <<file, q, index, tabs>> /\ pc = "names"
        /\ ret' = ret \/ \E x : ret' = Append(ret, x)
    BY <1>1 DEF ElfNextName
  <2>3. ret' \in Seq(ToSet(ret'))
    BY <1>e, <2>2
  <2> HIDE DEF T
  <2>4. /\ i' \in Nat /\ pc' \in {"names", "done"} /\ i' =< Len(T)
        /\ pc' = "names" => i' < Len(T)
    BY <2>1
  <2>5. Len(T)' = Len(T)
    BY <1>d, <2>2 DEF T
  <2> QED
    BY <1>b, <2>2, <2>3, <2>4, <2>5 DEF T
<1>2. CASE ElfFindSection
  <2>1. /\ UNCHANGED <<file, q, tabs, ret>> /\ i =< Shnum
        /\ \/ pc' = "tables" /\ i' = 0 /\ index' = Shnum
           \/ pc' = "thrown" /\ UNCHANGED <<i, index>>
           \/ pc' = "tables" /\ i' = 0 /\ index' = i
           \/ i # Shnum /\ i' = i + 1 /\ pc = "find" /\ UNCHANGED <<pc, index>>
    BY <1>2 DEF ElfFindSection
  <2>2. /\ i' \in Nat /\ i' =< Shnum /\ index' \in 0 .. Shnum
        /\ pc' \in {"tables", "thrown", "find"}
    BY <1>a, <2>1
  <2> QED
    BY <1>b, <2>1, <2>2
<1>3. CASE NextTable
  <2>1. UNCHANGED <<file, q, index, ret>> /\ pc = "tables" /\ i =< Shnum
    BY <1>3 DEF NextTable
  <2>2. CASE i < Shnum
    <3>1. i' = i + 1 /\ pc' = pc /\ tabs' = Remember(Section(i))
      BY <1>3, <2>2 DEF NextTable
    <3>2. i + 1 \in 0 .. Shnum
      BY <1>a, <2>2
    <3>3. tabs' \in [Tabs -> 0 .. Shnum]
      BY <3>1, <3>2 DEF Remember, Tabs
    <3> QED
      BY <1>a, <1>b, <2>1, <3>1, <3>2, <3>3
  <2>3. CASE ~(i < Shnum)
    <3>1. /\ i' = 0 /\ UNCHANGED tabs
          /\ pc' = IF Empty(Chosen.symbols) \/ Empty(Chosen.text)
                   THEN "done" ELSE "emit"
      BY <1>3, <2>3 DEF NextTable
    <3>2. /\ Len(Body(Chosen.symbols)) \in Nat
          /\ Len(Terminated(file.names)) \in Nat
          /\ Empty(Chosen.symbols) <=> Len(Body(Chosen.symbols)) = 0
      BY ElfTables, ChosenTables
    <3>3. pc' \in {"done", "emit"} /\ i' = 0 /\ 0 =< Len(Terminated(file.names))
      BY <3>1, <3>2
    <3>4. pc' = "emit" => 0 < Len(Body(Chosen.symbols))
      BY <3>1, <3>2
    <3> QED
      BY <1>b, <1>c, <1>d, <2>1, <3>1, <3>3, <3>4
  <2> QED
    BY <2>2, <2>3
<1>4. CASE NextSymbol
  <2> DEFINE n == Len(Body(Chosen.symbols))
  <2>1. n \in Nat /\ i < n
    BY <1>4, ElfTables, ChosenTables DEF NextSymbol
  <2>2. /\ UNCHANGED <<file, q, index, tabs>>
        /\ i' = i + 1 /\ pc' = IF i' = n THEN "done" ELSE "emit"
        /\ ret' = ret \/ \E x : ret' = Append(ret, x)
    BY <1>4 DEF NextSymbol
  <2>3. n' = n
    BY <1>c, <2>2
  <2> HIDE DEF n
  <2>4. i' \in Nat /\ i' =< n /\ pc' \in {"done", "emit"} /\ (pc' = "emit" => i' < n)
    BY <2>1, <2>2
  <2>5. ret' \in Seq(ToSet(ret'))
    BY <1>e, <2>2
  <2> QED
    BY <1>b, <2>2, <2>3, <2>4, <2>5 DEF n
<1>5. CASE UNCHANGED elfVars
  <2>1. UNCHANGED <<file, q, pc, i, index, tabs, ret>>
    BY <1>5 DEF elfVars
  <2> QED
    BY <1>b, <1>c, <1>d, <2>1
<1> QED
  BY <1>1, <1>2, <1>3, <1>4, <1>5 DEF ElfNext

LEMMA ElfTypesImply ==
    ASSUME ElfTypes
    PROVE  ElfInv
<1> DEFINE t == Len(Terminated(file.names))
           n == Len(Body(Chosen.symbols))
<1>1. t \in Nat /\ n \in Nat /\ Shnum \in Nat
  BY ElfTables, ChosenTables DEF ElfTypes
<1>2. i \in 0 .. t + Shnum + n
  <2>1. i \in Nat /\ (i =< t \/ i =< Shnum \/ i =< n)
    BY <1>1 DEF ElfTypes
  <2> HIDE DEF t, n
  <2> QED
    BY <1>1, <2>1
<1>3. DOMAIN None = Tabs
  BY DEF None, Tabs
<1> QED
  BY <1>2, <1>3 DEF ElfTypes, ElfInv, ElfTypeOK, NamesMeetTheEnd

(* The loops over names, headers and symbols stay within their tables, and *)
(* the one that compares with != meets the end of the names and does not   *)
(* step over it, for every table of names and every table of symbols.      *)
THEOREM ElfInvCorrect ==
    ElfSpec => []ElfInv
<1>1. ElfInit => ElfTypes
  BY ElfInitTypes
<1>2. ElfTypes /\ [ElfNext]_elfVars => ElfTypes'
  BY ElfNextTypes
<1>3. ElfTypes => ElfInv
  BY ElfTypesImply
<1> QED
  BY <1>1, <1>2, <1>3, PTL DEF ElfSpec

-----------------------------------------------------------------------------
(* sections() of an ELF file.                                              *)

Starts(o) == o = 0 \/ Terminated(file.names)[o] = NUL
ListedName(o) ==
    NameAt(file.names, o) = <<>> \/ NameAt(file.names, o) \in ToSet(ret)

(* Every string that begins before the loop's offset is listed. *)
ElfNames ==
    /\ pc \in {"find", "tables", "emit", "thrown"} => q.op # "sections"
    /\ pc = "names" =>
          /\ q.op = "sections" /\ Starts(i)
          /\ \A o \in 0 .. i - 1 : Starts(o) => ListedName(o)
    /\ pc = "done" /\ q.op = "sections" =>
          \A o \in 0 .. Len(Terminated(file.names)) - 1 : Starts(o) => ListedName(o)

LEMMA ElfNextNames ==
    ASSUME ElfTypes, ElfNames, [ElfNext]_elfVars
    PROVE  ElfNames'
<1>a. ASSUME UNCHANGED file
      PROVE  \A o : Starts(o)' <=> Starts(o)
  BY <1>a DEF Starts
<1>b. ASSUME UNCHANGED <<file, ret>>
      PROVE  \A o : ListedName(o)' <=> ListedName(o)
  BY <1>b DEF ListedName
<1>1. CASE ElfNextName
  <2> DEFINE T == Terminated(file.names)
             name == NameAt(file.names, i)
  <2>1. PICK p \in i + 1 .. Len(T) :
            /\ i' = p /\ T[p] = NUL /\ \A k \in i + 1 .. p - 1 : T[k] # NUL
            /\ pc' = IF p = Len(T) THEN "done" ELSE "names"
    BY <1>1, NextNameFits
  <2>2. /\ UNCHANGED <<file, q, index, tabs>> /\ pc = "names"
        /\ ret' = IF name # <<>> THEN Append(ret, name) ELSE ret
    BY <1>1 DEF ElfNextName
  <2>3. ToSet(ret') = IF name # <<>> THEN ToSet(ret) \cup {name} ELSE ToSet(ret)
    BY <2>2, AppendElements DEF ElfTypes
  <2>4. Len(T) \in Nat /\ i \in Nat /\ p \in Nat
    BY ElfTables DEF ElfTypes
  <2>5. /\ q.op = "sections" /\ \A o \in 0 .. i - 1 : Starts(o) => ListedName(o)
    BY <2>2 DEF ElfNames
  <2>6. ASSUME NEW o \in 0 .. p - 1, Starts(o) PROVE ListedName(o)'
    <3>1. o \in 0 .. i
      <4>1. o \notin i + 1 .. p - 1
        BY <2>1, <2>4, <2>6 DEF Starts
      <4> QED
        BY <2>4, <4>1
    <3>2. CASE o = i
      BY <2>2, <2>3, <3>2 DEF ListedName
    <3>3. CASE o # i
      <4>1. ListedName(o)
        BY <2>4, <2>5, <2>6, <3>1, <3>3
      <4> QED
        BY <2>2, <2>3, <4>1 DEF ListedName
    <3> QED
      BY <3>2, <3>3
  <2>7. \A o \in 0 .. p - 1 : Starts(o)' => ListedName(o)'
    BY <1>a, <2>2, <2>6
  <2>8. T' = T /\ Starts(p)'
    BY <2>1, <2>2 DEF Starts
  <2> HIDE DEF T, name
  <2>9. CASE p = Len(T)
    <3>1. pc' = "done" /\ q' = q /\ p = Len(T)'
      BY <2>1, <2>2, <2>8, <2>9
    <3> QED
      BY <2>7, <3>1 DEF ElfNames, T
  <2>10. CASE p # Len(T)
    <3>1. pc' = "names" /\ q' = q /\ q.op = "sections" /\ i' = p
      BY <2>1, <2>2, <2>5, <2>10
    <3>2. Starts(i)'
      BY <2>8, <3>1 DEF Starts
    <3> QED
      BY <2>7, <3>1, <3>2 DEF ElfNames
  <2> QED
    BY <2>9, <2>10
<1>2. CASE ElfFindSection \/ NextTable \/ NextSymbol
  <2>1. /\ pc \in {"find", "tables", "emit"} /\ q' = q
        /\ pc' \in {"find", "tables", "emit", "thrown", "done"}
    BY <1>2 DEF ElfFindSection, NextTable, NextSymbol
  <2> QED
    BY <2>1 DEF ElfNames
<1>3. CASE UNCHANGED elfVars
  <2>1. UNCHANGED <<file, q, pc, i, ret>>
    BY <1>3 DEF elfVars
  <2>2. (Len(Terminated(file.names)))' = Len(Terminated(file.names))
    BY <2>1
  <2>3. ElfNames' <=> ElfNames
    BY <1>a, <1>b, <2>1, <2>2 DEF ElfNames
  <2> QED
    BY <2>3
<1> QED
  BY <1>1, <1>2, <1>3 DEF ElfNext

LEMMA ElfNamesImply ==
    ASSUME NamesApart, ElfTypes, ElfNames
    PROVE  SectionsListed
<1> SUFFICES ASSUME pc = "done", q.op = "sections",
                    NEW k \in DOMAIN file.sections,
                    SectionName(file.sections[k]) # <<>>
             PROVE  SectionName(file.sections[k]) \in ToSet(ret)
  BY DEF SectionsListed, Answer, Sections,
         ToSet, ElfContent
<1> DEFINE o == file.sections[k].name
           T == Terminated(file.names)
<1>1. /\ o \in Nat /\ IsSeq(file.names)
  BY ElfTables DEF ElfTypes
<1>2. SectionName(file.sections[k]) = NameAt(file.names, o)
  BY DEF SectionName
<1>3. InTable(file.names, o)
  BY <1>1, <1>2, NameAtOffset
<1>4. Len(T) \in Nat /\ o < Len(T) /\ Len(T) = Len(file.names) + 1 /\ Len(file.names) \in Nat
  BY <1>1, <1>3, TerminatedTable DEF InTable
<1>5. Starts(o)
  <2>1. o # 0 => file.names[o] = NUL
    BY <1>3 DEF NamesApart, ElfTypes
  <2>2. o # 0 => T[o] = file.names[o]
    BY <1>1, <1>4, AppendProperties DEF Terminated, IsSeq
  <2> QED
    BY <2>1, <2>2 DEF Starts
<1>6. \A p \in 0 .. Len(T) - 1 : Starts(p) => ListedName(p)
  BY DEF ElfNames
<1> HIDE DEF o, T
<1>7. ListedName(o)
  BY <1>1, <1>4, <1>5, <1>6
<1> QED
  BY <1>2, <1>7 DEF ListedName

(* sections() lists every section with a name, in whatever order the names *)
(* are stored, of files whose linker does not merge tails of names; with   *)
(* them it does not: ElfInfo_merged.cfg is the counterexample.             *)
THEOREM SectionsListedCorrect ==
    ASSUME NamesApart
    PROVE  ElfSpec => []SectionsListed
<1> DEFINE Inv == ElfTypes /\ ElfNames
<1>1. ElfInit => Inv
  <2>1. ElfInit => ElfNames
    BY QuestionsAssumption DEF ElfInit, ElfNames, Starts
  <2> QED
    BY <2>1, ElfInitTypes
<1>2. Inv /\ [ElfNext]_elfVars => Inv'
  BY ElfNextTypes, ElfNextNames
<1>3. Inv => SectionsListed
  BY ElfNamesImply
<1> QED
  BY <1>1, <1>2, <1>3, PTL DEF ElfSpec

-----------------------------------------------------------------------------
(* symbols() and symbols(section) of an ELF file.                          *)

(* The k-th section is of that type and has that name.                     *)
Match(k, type, name) ==
    /\ file.sections[k].type = type
    /\ InTable(file.names, file.sections[k].name)
    /\ SectionName(file.sections[k]) = name

(* x is the last one of the first n sections that is, or 0.                *)
LastOf(x, n, type, name) ==
    \/ x = 0 /\ \A k \in 1 .. n : ~Match(k, type, name)
    \/ x \in 1 .. n /\ Match(x, type, name) /\ \A k \in x + 1 .. n : ~Match(k, type, name)

Found(n) ==
    /\ LastOf(tabs.symtab, n, "SYMTAB", SymtabName)
    /\ LastOf(tabs.strtab, n, "STRTAB", StrtabName)
    /\ LastOf(tabs.dynsym, n, "DYNSYM", DynsymName)
    /\ LastOf(tabs.dynstr, n, "STRTAB", DynstrName)

TheSymbols == Body(Chosen.symbols)
TheStrings == Body(Chosen.text)
Usable == ~Empty(Chosen.symbols) /\ ~Empty(Chosen.text)

HasName(y) == InTable(TheStrings, y.name) /\ NameAt(TheStrings, y.name) # <<>>
Shown(y) == Visible(y) /\ HasName(y) /\ (q.op = "symbols_in" => y.shndx = index)
ShownNames(n) ==
    {NameAt(TheStrings, TheSymbols[k].name) : k \in {m \in 1 .. n : Shown(TheSymbols[m])}}

IndexRight ==
    \/ index \in 0 .. Shnum - 1 /\ SectionName(Section(index)) = q.wanted
    \/ index = Shnum /\ \A k \in 1 .. Shnum : SectionName(file.sections[k]) # q.wanted

(* The section asked for, the tables found so far, and the names shown so  *)
(* far.                                                                    *)
ElfIndexed ==
    /\ pc = "find" =>
          \A k \in 1 .. i : SectionName(file.sections[k]) # q.wanted
    /\ pc \in {"tables", "emit", "done"} /\ q.op = "symbols_in" => IndexRight

ElfFound ==
    /\ pc = "find" => tabs = None
    /\ pc = "tables" => Found(i)
    /\ pc \in {"emit", "done"} /\ q.op # "sections" => Found(Shnum)

ElfShown ==
    /\ pc \in {"find", "tables"} => ret = <<>>
    /\ pc = "emit" => Usable /\ ToSet(ret) = ShownNames(i)
    /\ pc = "done" /\ q.op # "sections" =>
          ToSet(ret) = IF Usable THEN ShownNames(Len(TheSymbols)) ELSE {}

LEMMA ElfNextIndexed ==
    ASSUME ElfTypes, ElfNames, ElfIndexed, [ElfNext]_elfVars
    PROVE  ElfIndexed'
<1>a. ASSUME UNCHANGED <<file, q, index>>
      PROVE  IndexRight' <=> IndexRight
  BY <1>a DEF IndexRight, Section, SectionName, Shnum
<1>b. Shnum \in Nat /\ i \in Nat
  BY ElfTables DEF ElfTypes
<1>1. CASE ElfNextName
  <2>1. pc' \in {"names", "done"} /\ q' = q /\ q.op = "sections"
    BY <1>1 DEF ElfNextName, ElfNames
  <2> QED
    BY <2>1 DEF ElfIndexed
<1>2. CASE ElfFindSection
  <2>1. /\ pc = "find" /\ UNCHANGED <<file, q, tabs, ret>> /\ i =< Shnum
        /\ \A k \in 1 .. i : SectionName(file.sections[k]) # q.wanted
    BY <1>2 DEF ElfFindSection, ElfTypes, ElfIndexed
  <2>2. CASE i = Shnum
    <3>1. pc' = "tables" /\ index' = Shnum
      BY <1>2, <2>2 DEF ElfFindSection
    <3>2. IndexRight'
      BY <2>1, <2>2, <3>1 DEF IndexRight, SectionName, Shnum
    <3> QED
      BY <3>1, <3>2 DEF ElfIndexed
  <2>3. CASE i # Shnum /\ ~InTable(file.names, Section(i).name)
    BY <1>2, <2>3 DEF ElfFindSection, ElfIndexed
  <2>4. CASE i # Shnum /\ InTable(file.names, Section(i).name)
             /\ SectionName(Section(i)) = q.wanted
    <3>1. pc' = "tables" /\ index' = i
      BY <1>2, <2>4 DEF ElfFindSection
    <3>2. i \in 0 .. Shnum - 1
      BY <1>b, <2>1, <2>4
    <3>3. IndexRight'
      BY <2>1, <2>4, <3>1, <3>2 DEF IndexRight, SectionName, Section, Shnum
    <3> QED
      BY <3>1, <3>3 DEF ElfIndexed
  <2>5. CASE i # Shnum /\ InTable(file.names, Section(i).name)
             /\ SectionName(Section(i)) # q.wanted
    <3>1. i' = i + 1 /\ pc' = "find"
      BY <1>2, <2>1, <2>5 DEF ElfFindSection
    <3>2. \A k \in 1 .. i + 1 : SectionName(file.sections[k]) # q.wanted
      BY <1>b, <2>1, <2>5 DEF Section
    <3> QED
      BY <2>1, <3>1, <3>2 DEF ElfIndexed, SectionName
  <2> QED
    BY <2>2, <2>3, <2>4, <2>5
<1>3. CASE ElfNext /\ pc \in {"tables", "emit"}
  <2>1. /\ UNCHANGED <<file, q, index>> /\ pc' \in {"tables", "emit", "done"}
    BY <1>3 DEF ElfNext, ElfNextName, ElfFindSection, NextTable, NextSymbol
  <2> QED
    BY <1>3, <1>a, <2>1 DEF ElfIndexed
<1>4. CASE UNCHANGED elfVars
  <2>1. UNCHANGED <<file, q, pc, i, index>>
    BY <1>4 DEF elfVars
  <2> QED
    BY <1>a, <2>1 DEF ElfIndexed, SectionName
<1>5. ElfNext => ElfNextName \/ ElfFindSection \/ pc \in {"tables", "emit"}
  BY DEF ElfNext, NextTable, NextSymbol
<1> QED
  BY <1>1, <1>2, <1>3, <1>4, <1>5

(* A header that is of that type and has that name becomes the last one.   *)
LEMMA LastOfNext ==
    ASSUME NEW n \in Nat, NEW x, NEW type, NEW name, LastOf(x, n, type, name)
    PROVE  /\ Match(n + 1, type, name) => LastOf(n + 1, n + 1, type, name)
           /\ ~Match(n + 1, type, name) => LastOf(x, n + 1, type, name)
<1>1. \A k \in 1 .. n + 1 : k \in 1 .. n \/ k = n + 1
  OBVIOUS
<1>2. \A k \in n + 1 + 1 .. n + 1 : FALSE
  OBVIOUS
<1>3. x \in 1 .. n => x \in 1 .. n + 1 /\ \A k \in x + 1 .. n + 1 : k \in x + 1 .. n \/ k = n + 1
  OBVIOUS
<1> QED
  BY <1>1, <1>2, <1>3 DEF LastOf

LEMMA ElfNextFound ==
    ASSUME ElfTypes, ElfNames, ElfFound, [ElfNext]_elfVars
    PROVE  ElfFound'
<1>a. ASSUME UNCHANGED file, NEW n, NEW x, NEW type, NEW name
      PROVE  LastOf(x, n, type, name)' <=> LastOf(x, n, type, name)
  BY <1>a DEF LastOf, Match, SectionName
<1>b. ASSUME UNCHANGED <<file, tabs>>, NEW n
      PROVE  Found(n)' <=> Found(n)
  BY <1>b DEF Found, LastOf, Match, SectionName
<1>c. Shnum \in Nat /\ i \in Nat
  BY ElfTables DEF ElfTypes
<1>d. ASSUME UNCHANGED file PROVE Shnum' = Shnum
  BY <1>d DEF Shnum
<1>1. CASE ElfNextName
  <2>1. pc' \in {"names", "done"} /\ q' = q /\ q.op = "sections"
    BY <1>1 DEF ElfNextName, ElfNames
  <2> QED
    BY <2>1 DEF ElfFound
<1>2. CASE ElfFindSection
  <2>1. /\ pc = "find" /\ UNCHANGED <<file, tabs>> /\ tabs = None
        /\ pc' \in {"find", "thrown"} \/ (pc' = "tables" /\ i' = 0)
    BY <1>2 DEF ElfFindSection, ElfFound
  <2>2. None' = None
    BY DEF None
  <2>3. Found(0)
    BY <2>1 DEF Found, LastOf, None
  <2> QED
    BY <1>b, <2>1, <2>2, <2>3 DEF ElfFound
<1>3. CASE NextTable
  <2>1. pc = "tables" /\ UNCHANGED <<file, q>> /\ Found(i) /\ i =< Shnum
    BY <1>3 DEF NextTable, ElfFound, ElfTypes
  <2>2. CASE i < Shnum
    <3>1. i' = i + 1 /\ pc' = "tables" /\ tabs' = Remember(Section(i))
      BY <1>3, <2>1, <2>2 DEF NextTable
    <3>2. Section(i) = file.sections[i + 1]
      BY DEF Section
    <3> DEFINE m(type, name) == Match(i + 1, type, name)
    <3>3. tabs' = IF m("SYMTAB", SymtabName) THEN [tabs EXCEPT !.symtab = i + 1]
                  ELSE IF m("STRTAB", DynstrName) THEN [tabs EXCEPT !.dynstr = i + 1]
                  ELSE IF m("STRTAB", StrtabName) THEN [tabs EXCEPT !.strtab = i + 1]
                  ELSE IF m("DYNSYM", DynsymName) THEN [tabs EXCEPT !.dynsym = i + 1]
                  ELSE tabs
      BY <3>1, <3>2 DEF Remember, Match
    <3>4. /\ m("SYMTAB", SymtabName) => /\ ~m("STRTAB", DynstrName)
                                        /\ ~m("STRTAB", StrtabName)
                                        /\ ~m("DYNSYM", DynsymName)
          /\ m("STRTAB", DynstrName) => ~m("STRTAB", StrtabName) /\ ~m("DYNSYM", DynsymName)
          /\ m("STRTAB", StrtabName) => ~m("DYNSYM", DynsymName)
      BY ElfAssumption DEF Match
    <3> HIDE DEF m
    <3>5. /\ tabs'.symtab = IF m("SYMTAB", SymtabName) THEN i + 1 ELSE tabs.symtab
          /\ tabs'.strtab = IF m("STRTAB", StrtabName) THEN i + 1 ELSE tabs.strtab
          /\ tabs'.dynsym = IF m("DYNSYM", DynsymName) THEN i + 1 ELSE tabs.dynsym
          /\ tabs'.dynstr = IF m("STRTAB", DynstrName) THEN i + 1 ELSE tabs.dynstr
      BY <3>3, <3>4 DEF ElfTypes, Tabs
    <3>6. \A x, type, name : LastOf(x, i, type, name) =>
              LastOf(IF m(type, name) THEN i + 1 ELSE x, i + 1, type, name)
      BY <1>c, LastOfNext DEF m
    <3>7. /\ LastOf(tabs'.symtab, i + 1, "SYMTAB", SymtabName)
          /\ LastOf(tabs'.strtab, i + 1, "STRTAB", StrtabName)
          /\ LastOf(tabs'.dynsym, i + 1, "DYNSYM", DynsymName)
          /\ LastOf(tabs'.dynstr, i + 1, "STRTAB", DynstrName)
      BY <2>1, <3>5, <3>6 DEF Found
    <3>8. Found(i)'
      BY <2>1, <3>1, <3>7 DEF Found, LastOf, Match, SectionName
    <3> QED
      BY <3>1, <3>8 DEF ElfFound
  <2>3. CASE ~(i < Shnum)
    <3>1. pc' \in {"done", "emit"} /\ UNCHANGED <<file, tabs>>
      BY <1>3, <2>3 DEF NextTable
    <3>2. i = Shnum
      BY <1>c, <2>1, <2>3
    <3> QED
      BY <1>b, <1>d, <2>1, <3>1, <3>2 DEF ElfFound
  <2> QED
    BY <2>2, <2>3
<1>4. CASE NextSymbol
  <2>1. pc = "emit" /\ pc' \in {"emit", "done"} /\ UNCHANGED <<file, q, tabs>>
    BY <1>4 DEF NextSymbol
  <2>2. Found(Shnum)
    BY <2>1 DEF ElfFound, ElfNames
  <2> QED
    BY <1>b, <1>d, <2>1, <2>2 DEF ElfFound
<1>5. CASE UNCHANGED elfVars
  <2>1. UNCHANGED <<file, q, pc, i, tabs>>
    BY <1>5 DEF elfVars
  <2>2. None' = None
    BY DEF None
  <2> QED
    BY <1>b, <1>d, <2>1, <2>2 DEF ElfFound
<1> QED
  BY <1>1, <1>2, <1>3, <1>4, <1>5 DEF ElfNext

(* The tables that were chosen, and their symbols. *)
LEMMA TheTables ==
    ASSUME ElfTypes, Found(Shnum)
    PROVE  /\ Len(TheSymbols) \in Nat /\ DOMAIN TheSymbols = 1 .. Len(TheSymbols)
           /\ IsSeq(TheStrings)
           /\ \A k \in 1 .. Len(TheSymbols) :
                 /\ TheSymbols[k].name \in Nat /\ TheSymbols[k].shndx \in Nat
                 /\ SectionsApart => TheSymbols[k].shndx # Shnum
<1> DEFINE x == Chosen.symbols
<1>1. /\ Len(TheSymbols) \in Nat /\ DOMAIN TheSymbols = 1 .. Len(TheSymbols)
      /\ IsSeq(TheStrings) /\ x \in 0 .. Shnum /\ Shnum \in Nat
      /\ DOMAIN file.sections = 1 .. Shnum
  BY ElfTables, ChosenTables DEF TheSymbols, TheStrings, ElfTypes
<1>2. x = tabs.symtab \/ x = tabs.dynsym
  BY DEF Chosen
<1>3. x # 0 => x \in 1 .. Shnum /\ file.sections[x].type \in {"SYMTAB", "DYNSYM"}
  BY <1>2 DEF Found, LastOf, Match
<1>4. TheSymbols = IF x = 0 THEN <<>> ELSE file.sections[x].body
  BY DEF TheSymbols, Body
<1> HIDE DEF x
<1>5. ASSUME NEW k \in 1 .. Len(TheSymbols)
      PROVE  /\ TheSymbols[k].name \in Nat /\ TheSymbols[k].shndx \in Nat
             /\ SectionsApart => TheSymbols[k].shndx # Shnum
  <2>1. x # 0
    BY <1>4, <1>5
  <2>2. /\ x \in DOMAIN file.sections /\ file.sections[x].type \in {"SYMTAB", "DYNSYM"}
        /\ TheSymbols = file.sections[x].body /\ k \in DOMAIN file.sections[x].body
        /\ file \in ElfFiles
    BY <1>1, <1>3, <1>4, <1>5, <2>1 DEF ElfTypes
  <2>3. TheSymbols[k].name \in Nat /\ TheSymbols[k].shndx \in Nat
    BY <2>2, ElfAssumption DEF FilesAreTables
  <2>4. SectionsApart => TheSymbols[k].shndx # Shnum
    BY <2>2 DEF SectionsApart, Shnum
  <2> QED
    BY <2>3, <2>4
<1> QED
  BY <1>1, <1>5

LEMMA ElfNextShown ==
    ASSUME ElfTypes, ElfNames, ElfFound, ElfShown, [ElfNext]_elfVars
    PROVE  ElfShown'
<1>a. ASSUME UNCHANGED <<file, q, index, tabs>>
      PROVE  /\ Usable' <=> Usable
             /\ TheSymbols' = TheSymbols /\ TheStrings' = TheStrings
             /\ \A n : ShownNames(n)' = ShownNames(n)
  BY <1>a DEF Usable, ShownNames, Shown, HasName, TheSymbols, TheStrings, Chosen, Empty, Body
<1>1. CASE ElfNextName
  <2>1. pc' \in {"names", "done"} /\ q' = q /\ q.op = "sections"
    BY <1>1 DEF ElfNextName, ElfNames
  <2> QED
    BY <2>1 DEF ElfShown
<1>2. CASE ElfFindSection
  <2>1. ret' = <<>> /\ pc' \in {"find", "tables", "thrown"}
    BY <1>2 DEF ElfFindSection, ElfShown
  <2> QED
    BY <2>1 DEF ElfShown
<1>3. CASE NextTable
  <2>1. pc = "tables" /\ UNCHANGED <<file, q, index, ret>> /\ ret = <<>>
    BY <1>3 DEF NextTable, ElfShown
  <2>2. CASE i < Shnum
    BY <1>3, <2>1, <2>2 DEF NextTable, ElfShown
  <2>3. CASE ~(i < Shnum)
    <3>1. /\ pc' = IF Usable THEN "emit" ELSE "done"
          /\ i' = 0 /\ UNCHANGED tabs
      BY <1>3, <2>1, <2>3 DEF NextTable, Usable
    <3>2. ToSet(ret) = {} /\ ShownNames(0) = {}
      BY <2>1 DEF ToSet, ShownNames
    <3>3. ToSet(ret)' = {} /\ ShownNames(i)' = {}
      BY <1>a, <2>1, <3>1, <3>2
    <3> QED
      BY <1>a, <2>1, <3>1, <3>3 DEF ElfShown
  <2> QED
    BY <2>2, <2>3
<1>4. CASE NextSymbol
  <2> DEFINE y == TheSymbols[i + 1]
             name == NameAt(TheStrings, y.name)
             n == Len(TheSymbols)
  <2>1. /\ pc = "emit" /\ UNCHANGED <<file, q, index, tabs>> /\ i' = i + 1
        /\ ret' = IF Shown(y) THEN Append(ret, name) ELSE ret
        /\ pc' = IF i' = n THEN "done" ELSE "emit"
    BY <1>4 DEF NextSymbol, Shown, HasName, TheSymbols, TheStrings
  <2>2. Usable /\ ToSet(ret) = ShownNames(i)
    BY <2>1 DEF ElfShown
  <2>3. ToSet(ret') = IF Shown(y) THEN ToSet(ret) \cup {name} ELSE ToSet(ret)
    BY <2>1, AppendElements DEF ElfTypes
  <2>4. ShownNames(i + 1) = IF Shown(y) THEN ShownNames(i) \cup {name} ELSE ShownNames(i)
    <3>1. i \in Nat /\ 1 .. i + 1 = (1 .. i) \cup {i + 1}
      BY DEF ElfTypes
    <3> QED
      BY <3>1 DEF ShownNames
  <2>5. ToSet(ret)' = ShownNames(i)'
    BY <1>a, <2>1, <2>2, <2>3, <2>4
  <2>6. n' = n
    BY <1>a, <2>1
  <2>7. CASE i' = n
    BY <1>a, <2>1, <2>2, <2>5, <2>6, <2>7 DEF ElfShown
  <2>8. CASE i' # n
    BY <1>a, <2>1, <2>2, <2>5, <2>8 DEF ElfShown
  <2> QED
    BY <2>7, <2>8
<1>5. CASE UNCHANGED elfVars
  <2>1. UNCHANGED <<file, q, pc, i, index, tabs, ret>>
    BY <1>5 DEF elfVars
  <2>2. /\ Len(TheSymbols)' = Len(TheSymbols) /\ ToSet(ret)' = ToSet(ret)
        /\ ShownNames(i)' = ShownNames(i)
        /\ ShownNames(Len(TheSymbols))' = ShownNames(Len(TheSymbols))
    BY <1>a, <2>1
  <2> QED
    BY <1>a, <2>1, <2>2 DEF ElfShown
<1> QED
  BY <1>1, <1>2, <1>3, <1>4, <1>5 DEF ElfNext

LEMMA SameLast ==
    ASSUME Shnum \in Nat, NEW x, NEW type, NEW name, LastOf(x, Shnum, type, name)
    PROVE  Named(type, name) = x
<1> DEFINE I == {k \in 1 .. Shnum : Match(k, type, name)}
<1>1. Named(type, name) = IF I # {} THEN Max(I) ELSE 0
  BY DEF Named, SelectLastInSeq, Match, Shnum
<1>2. CASE x = 0 /\ I = {}
  BY <1>1, <1>2
<1>3. CASE x \in I /\ \A k \in x + 1 .. Shnum : ~Match(k, type, name)
  <2>1. Max(I) \in I /\ \A k \in I : Max(I) >= k
    BY <1>3, MaxOf
  <2> DEFINE m == Max(I)
  <2>2. m \in I /\ m >= x
    BY <1>3, <2>1
  <2> HIDE DEF m
  <2>3. m = x
    BY <1>3, <2>2
  <2> QED
    BY <1>1, <1>3, <2>3 DEF m
<1>4. (x = 0 /\ I = {}) \/ (x \in I /\ \A k \in x + 1 .. Shnum : ~Match(k, type, name))
  BY DEF LastOf
<1> QED
  BY <1>2, <1>3, <1>4

(* The symbols that are listed are those of the chosen table.              *)
LEMMA ListedSymbols ==
    ASSUME ElfTypes, Found(Shnum)
    PROVE  /\ ElfContent.sections = [k \in DOMAIN file.sections |->
                                        SectionName(file.sections[k])]
           /\ ~Usable => ElfContent.symbols = {}
           /\ Usable => ElfContent.symbols =
                 {[name     |-> NameAt(TheStrings, TheSymbols[k].name),
                   exported |-> Visible(TheSymbols[k]),
                   section  |-> TheSymbols[k].shndx + 1] :
                     k \in {m \in 1 .. Len(TheSymbols) : HasName(TheSymbols[m])}}
<1> DEFINE static  == [symbols |-> tabs.symtab, text |-> tabs.strtab]
           dynamic == [symbols |-> tabs.dynsym, text |-> tabs.dynstr]
           usable(t) == ~Empty(t.symbols) /\ ~Empty(t.text)
           table == IF usable(static) THEN static ELSE dynamic
           listed == IF ~usable(table) THEN {} ELSE {y \in ToSet(Body(table.symbols)) :
                        /\ InTable(Body(table.text), y.name)
                        /\ NameAt(Body(table.text), y.name) # <<>>}
<1>1. Shnum \in Nat
  BY ElfTables DEF ElfTypes
<1>2. /\ Named("SYMTAB", SymtabName) = tabs.symtab
      /\ Named("STRTAB", StrtabName) = tabs.strtab
      /\ Named("DYNSYM", DynsymName) = tabs.dynsym
      /\ Named("STRTAB", DynstrName) = tabs.dynstr
  BY <1>1, SameLast DEF Found
<1>3. ElfContent = [sections |-> [k \in DOMAIN file.sections |->
                                     SectionName(file.sections[k])],
                    symbols  |-> {[name     |-> NameAt(Body(table.text), y.name),
                                   exported |-> Visible(y),
                                   section  |-> y.shndx + 1] : y \in listed}]
  BY <1>2 DEF ElfContent
<1>4. table = Chosen
  BY DEF Chosen
<1>5. usable(table) <=> Usable
  BY <1>4 DEF Usable
<1>6. listed = IF ~Usable THEN {} ELSE {y \in ToSet(TheSymbols) : HasName(y)}
  BY <1>4, <1>5 DEF HasName, TheSymbols, TheStrings
<1> HIDE DEF table, listed, usable
<1>7. ToSet(TheSymbols) = {TheSymbols[k] : k \in 1 .. Len(TheSymbols)}
  BY TheTables DEF ToSet
<1>8. ElfContent.symbols = {[name     |-> NameAt(TheStrings, y.name),
                             exported |-> Visible(y),
                             section  |-> y.shndx + 1] : y \in listed}
  BY <1>3, <1>4 DEF TheStrings
<1> QED
  BY <1>3, <1>6, <1>7, <1>8

LEMMA ElfShownImply ==
    ASSUME SectionsApart, ElfTypes, ElfIndexed, ElfFound, ElfShown
    PROVE  SymbolsListed
<1> SUFFICES ASSUME pc = "done", q.op # "sections"
             PROVE  ToSet(ret) = Answer(ElfContent)
  BY DEF SymbolsListed
<1> DEFINE n == Len(TheSymbols)
           Y(k) == TheSymbols[k]
           name(k) == NameAt(TheStrings, Y(k).name)
           at(s) == SectionName(file.sections[s])
           symbol(k) == [name |-> name(k), exported |-> Visible(Y(k)),
                         section |-> Y(k).shndx + 1]
<1>1. /\ Found(Shnum)
      /\ ToSet(ret) = IF Usable THEN ShownNames(n) ELSE {}
  BY DEF ElfFound, ElfShown
<1>2. /\ n \in Nat /\ Shnum \in Nat /\ DOMAIN file.sections = 1 .. Shnum
      /\ \A k \in 1 .. n : Y(k).shndx \in Nat /\ Y(k).shndx # Shnum
  BY <1>1, TheTables, ElfTables DEF ElfTypes
<1>3. /\ ElfContent.sections = [s \in 1 .. Shnum |-> at(s)]
      /\ ~Usable => ElfContent.symbols = {}
      /\ Usable => ElfContent.symbols =
            {symbol(k) : k \in {m \in 1 .. n : HasName(Y(m))}}
  BY <1>1, <1>2, ListedSymbols
<1>4. q.op \in {"symbols", "symbols_in"}
  BY QuestionsAssumption DEF ElfTypes
<1>s. \A k : /\ symbol(k).name = name(k)
             /\ symbol(k).exported <=> Visible(Y(k))
             /\ symbol(k).section = Y(k).shndx + 1
  OBVIOUS
<1> HIDE DEF n, Y, name, at, symbol
<1>5. CASE ~Usable
  BY <1>1, <1>3, <1>4, <1>5 DEF Answer, Symbols, SymbolsIn
<1>6. CASE Usable /\ q.op = "symbols"
  <2>1. ShownNames(n) = {name(k) : k \in {m \in 1 .. n : HasName(Y(m)) /\ Visible(Y(m))}}
    BY <1>6 DEF ShownNames, Shown, Y, name
  <2>2. Symbols(ElfContent) =
            {name(k) : k \in {m \in 1 .. n : HasName(Y(m)) /\ Visible(Y(m))}}
    <3> DEFINE S == {m \in 1 .. n : HasName(Y(m))}
               C == ElfContent.symbols
    <3>1. C = {symbol(k) : k \in S}
      BY <1>3, <1>6
    <3>2. Symbols(ElfContent) = {r.name : r \in {s \in C : s.exported}}
      BY DEF Symbols
    <3> HIDE DEF C
    <3>3. \A x : x \in Symbols(ElfContent) <=> \E r \in C : r.exported /\ x = r.name
      BY <3>2
    <3>4. \A x : x \in Symbols(ElfContent)
                   <=> \E k \in S : symbol(k).exported /\ x = symbol(k).name
      BY <3>1, <3>3
    <3>5. \A x : x \in Symbols(ElfContent) <=> \E k \in S : Visible(Y(k)) /\ x = name(k)
      BY <3>4, <1>s, Zenon
    <3> QED
      BY <3>5
  <2> QED
    BY <1>1, <1>6, <2>1, <2>2 DEF Answer
<1>7. CASE Usable /\ q.op = "symbols_in"
  <2>1. ASSUME NEW k \in 1 .. n
        PROVE  Y(k).shndx = index <=> /\ Y(k).shndx + 1 \in 1 .. Shnum
                                      /\ at(Y(k).shndx + 1) = q.wanted
    <3>1. Y(k).shndx \in Nat /\ Y(k).shndx # Shnum
      BY <1>2
    <3>2. \/ index \in 0 .. Shnum - 1 /\ at(index + 1) = q.wanted
          \/ index = Shnum /\ \A s \in 1 .. Shnum : at(s) # q.wanted
      BY <1>7 DEF ElfIndexed, IndexRight, Section, at
    <3>3. \A s, t \in 1 .. Shnum : at(s) = q.wanted /\ at(t) = q.wanted => s = t
      BY <1>2, <1>7 DEF SectionsApart, ElfTypes, at, SectionName
    <3> DEFINE x == Y(k).shndx
    <3> HIDE DEF x
    <3>4. x \in Nat /\ x # Shnum
      BY <3>1 DEF x
    <3>5. CASE index \in 0 .. Shnum - 1 /\ at(index + 1) = q.wanted
      <4>1. x + 1 \in 1 .. Shnum /\ at(x + 1) = q.wanted => x = index
        BY <1>2, <3>3, <3>4, <3>5
      <4> QED
        BY <1>2, <3>4, <3>5, <4>1 DEF x
    <3>6. CASE index = Shnum /\ \A s \in 1 .. Shnum : at(s) # q.wanted
      BY <3>4, <3>6 DEF x
    <3> QED
      BY <3>2, <3>5, <3>6
  <2> DEFINE Here(k) == HasName(Y(k)) /\ Visible(Y(k)) /\ Y(k).shndx = index
  <2>2. ShownNames(n) = {name(k) : k \in {m \in 1 .. n : Here(m)}}
    BY <1>7 DEF ShownNames, Shown, Y, name
  <2>3. SymbolsIn(ElfContent, q.wanted) =
            {name(k) : k \in {m \in 1 .. n : Here(m)}}
    <3>1. DOMAIN ElfContent.sections = 1 .. Shnum
      BY <1>3
    <3>2. \A s \in 1 .. Shnum : ElfContent.sections[s] = at(s)
      BY <1>3
    <3>3. SymbolsIn(ElfContent, q.wanted) = {name(k) : k \in {m \in 1 .. n :
              /\ HasName(Y(m)) /\ Visible(Y(m)) /\ Y(m).shndx + 1 \in 1 .. Shnum
              /\ ElfContent.sections[Y(m).shndx + 1] = q.wanted}}
      <4> DEFINE S == {m \in 1 .. n : HasName(Y(m))}
                 C == ElfContent.symbols
                 at2(s) == ElfContent.sections[s]
      <4>1. C = {symbol(k) : k \in S}
        BY <1>3, <1>7
      <4>2. SymbolsIn(ElfContent, q.wanted) =
                {r.name : r \in {s \in C : /\ s.exported /\ s.section \in 1 .. Shnum
                                           /\ at2(s.section) = q.wanted}}
        BY <3>1 DEF SymbolsIn
      <4> HIDE DEF C, at2
      <4>3. \A x : x \in SymbolsIn(ElfContent, q.wanted)
               <=> \E r \in C : /\ r.exported /\ r.section \in 1 .. Shnum
                                /\ at2(r.section) = q.wanted /\ x = r.name
        BY <4>2
      <4>4. \A x : x \in SymbolsIn(ElfContent, q.wanted)
               <=> \E k \in S : /\ symbol(k).exported /\ symbol(k).section \in 1 .. Shnum
                                /\ at2(symbol(k).section) = q.wanted /\ x = symbol(k).name
        BY <4>1, <4>3
      <4>5. \A x : x \in SymbolsIn(ElfContent, q.wanted)
               <=> \E k \in S : /\ Visible(Y(k)) /\ Y(k).shndx + 1 \in 1 .. Shnum
                                /\ at2(Y(k).shndx + 1) = q.wanted /\ x = name(k)
        <5> DEFINE inSymbols(k) == /\ symbol(k).exported /\ symbol(k).section \in 1 .. Shnum
                                   /\ at2(symbol(k).section) = q.wanted
                   inTable(k) == /\ Visible(Y(k)) /\ Y(k).shndx + 1 \in 1 .. Shnum
                                 /\ at2(Y(k).shndx + 1) = q.wanted
        <5>1. ASSUME NEW k PROVE inSymbols(k) <=> inTable(k)
          <6>1. symbol(k).section = Y(k).shndx + 1
            BY <1>s
          <6>2. symbol(k).exported <=> Visible(Y(k))
            BY <1>s
          <6> QED
            BY <6>1, <6>2, Zenon
        <5>2. \A x : x \in SymbolsIn(ElfContent, q.wanted)
                       <=> \E k \in S : inSymbols(k) /\ x = symbol(k).name
          BY <4>4
        <5> HIDE DEF inSymbols, inTable
        <5>3. \A x : x \in SymbolsIn(ElfContent, q.wanted)
                       <=> \E k \in S : inTable(k) /\ x = name(k)
          BY <5>1, <5>2, <1>s, Zenon
        <5> QED
          BY <5>3 DEF inTable
      <4> QED
        BY <4>5 DEF at2
    <3> QED
      BY <2>1, <3>2, <3>3
  <2> QED
    BY <1>1, <1>7, <2>2, <2>3 DEF Answer
<1> QED
  BY <1>4, <1>5, <1>6, <1>7

(* symbols() lists the exportable names of the file, and symbols(section)  *)
(* those of the one section of that name: of ".symtab" with its strings,   *)
(* or of ".dynsym" with its own if either is missing or empty, in whatever *)
(* order the headers come and whatever else is in between; of files in     *)
(* which a name that is asked for is that of one section only, and e_shnum *)
(* is not given as a symbol's section.                                     *)
THEOREM SymbolsListedCorrect ==
    ASSUME SectionsApart
    PROVE  ElfSpec => []SymbolsListed
<1> DEFINE Inv == ElfTypes /\ ElfNames /\ ElfIndexed /\ ElfFound /\ ElfShown
<1>1. ASSUME ElfInit PROVE Inv
  <2>1. /\ i = 0 /\ tabs = None /\ ret = <<>>
        /\ \/ pc = "names" /\ q.op = "sections"
           \/ pc = "tables" /\ q.op = "symbols"
           \/ pc = "find" /\ q.op = "symbols_in"
    BY <1>1, QuestionsAssumption DEF ElfInit
  <2>2. ElfNames
    BY <2>1 DEF ElfNames, Starts
  <2>3. Found(0)
    BY <2>1 DEF Found, LastOf, None
  <2> QED
    BY <1>1, <2>1, <2>2, <2>3, ElfInitTypes DEF ElfIndexed, ElfFound, ElfShown
<1>2. Inv /\ [ElfNext]_elfVars => Inv'
  BY ElfNextTypes, ElfNextNames, ElfNextIndexed, ElfNextFound, ElfNextShown
<1>3. Inv => SymbolsListed
  BY ElfShownImply
<1> QED
  BY <1>1, <1>2, <1>3, PTL DEF ElfSpec

-----------------------------------------------------------------------------
(* PE.                                                                     *)

SectionOf(k) == file.sections[k]
FromSection(k) ==
    /\ SectionOf(k).name = q.wanted
    /\ range = [begin |-> SectionOf(k).raw, end |-> SectionOf(k).raw + SectionOf(k).rawsize]

(* The loops' counters, each within what it counts, and a range that is    *)
(* that of the section asked for.                                          *)
PeTypes ==
    /\ file \in PeFiles /\ q \in Questions
    /\ pc \in {"sections", "symbols", "find", "scan", "done", "thrown"}
    /\ i \in Nat
    /\ ret \in Seq(ToSet(ret))
    /\ range \in [begin : Nat, end : Nat] /\ range.begin =< range.end
    /\ range = Nowhere \/ \E k \in 1 .. NumberOfSections : FromSection(k)
    /\ pc = "sections" => q.op = "sections" /\ i =< NumberOfSections
    /\ pc = "symbols" => q.op = "symbols" /\ i =< NumberOfNames
    /\ pc = "find" => q.op = "symbols_in" /\ i =< NumberOfSections
    /\ pc = "scan" => q.op = "symbols_in" /\ i =< NumberOfFunctions
    /\ pc \in {"done", "thrown"} => \/ i =< NumberOfSections
                                   \/ i =< NumberOfNames
                                   \/ i =< NumberOfFunctions

LEMMA PeTables ==
    ASSUME file \in PeFiles
    PROVE  /\ NumberOfSections \in Nat /\ DOMAIN file.sections = 1 .. NumberOfSections
           /\ NumberOfNames \in Nat /\ DOMAIN file.names = 1 .. NumberOfNames
           /\ NumberOfFunctions \in Nat /\ DOMAIN file.functions = 1 .. NumberOfFunctions
           /\ Len(file.ordinals) = NumberOfNames /\ Len(file.behind) \in Nat
           /\ \A k \in 1 .. Len(file.behind) : file.behind[k] \in Nat
           /\ \A k \in 1 .. NumberOfNames : file.ordinals[k] \in Nat
           /\ \A k \in 1 .. NumberOfFunctions : file.functions[k] \in Nat
           /\ \A k \in 1 .. NumberOfSections :
                 /\ SectionOf(k).va \in Nat /\ SectionOf(k).vsize \in Nat
                 /\ SectionOf(k).raw \in Nat /\ SectionOf(k).rawsize \in Nat
<1>1. /\ IsSeq(file.sections) /\ IsSeq(file.names)
      /\ IsSeq(file.ordinals) /\ IsSeq(file.functions)
      /\ Len(file.ordinals) = Len(file.names)
      /\ IsSeq(file.behind) /\ ToSet(file.behind) \subseteq Nat
      /\ ToSet(file.ordinals) \subseteq Nat /\ ToSet(file.functions) \subseteq Nat
      /\ \A k \in DOMAIN file.sections :
            /\ SectionOf(k).va \in Nat /\ SectionOf(k).vsize \in Nat
            /\ SectionOf(k).raw \in Nat /\ SectionOf(k).rawsize \in Nat
  BY PeAssumption DEF SectionOf
<1>2. \A s : IsSeq(s) => Len(s) \in Nat /\ DOMAIN s = 1 .. Len(s)
  BY DEF IsSeq
<1>3. /\ \A k \in DOMAIN file.ordinals : file.ordinals[k] \in Nat
      /\ \A k \in DOMAIN file.behind : file.behind[k] \in Nat
      /\ \A k \in DOMAIN file.functions : file.functions[k] \in Nat
  BY <1>1 DEF ToSet
<1> QED
  BY <1>1, <1>2, <1>3 DEF NumberOfSections, NumberOfNames, NumberOfFunctions

LEMMA PeInitTypes ==
    ASSUME PeInit
    PROVE  PeTypes
<1>1. /\ file \in PeFiles /\ q \in Questions /\ i = 0 /\ range = Nowhere /\ ret = <<>>
      /\ \/ pc = "sections" /\ q.op = "sections"
         \/ pc = "symbols" /\ q.op = "symbols"
         \/ pc = "find" /\ q.op = "symbols_in"
  BY QuestionsAssumption DEF PeInit
<1> QED
  BY <1>1, PeTables DEF PeTypes, Nowhere

LEMMA PeNextTypes ==
    ASSUME PeTypes, [PeNext]_peVars
    PROVE  PeTypes'
<1> USE DEF PeTypes
<1>a. /\ NumberOfSections \in Nat /\ NumberOfNames \in Nat /\ NumberOfFunctions \in Nat
      /\ \A k \in 1 .. NumberOfSections : SectionOf(k).raw \in Nat /\ SectionOf(k).rawsize \in Nat
  BY PeTables
<1>b. ASSUME UNCHANGED file
      PROVE  /\ NumberOfSections' = NumberOfSections /\ NumberOfNames' = NumberOfNames
             /\ NumberOfFunctions' = NumberOfFunctions
  BY <1>b DEF NumberOfSections, NumberOfNames, NumberOfFunctions
<1>c. ASSUME UNCHANGED <<file, q, range>>
      PROVE  \A k : FromSection(k)' <=> FromSection(k)
  BY <1>c DEF FromSection, SectionOf
<1>d. Nowhere' = Nowhere
  BY DEF Nowhere
<1>e. \A x : Append(ret, x) \in Seq(ToSet(Append(ret, x)))
  BY AppendElements
<1>1. CASE NextSection \/ PeNextName \/ NextFunction
  <2> DEFINE n == IF pc = "sections" THEN NumberOfSections
                  ELSE IF pc = "symbols" THEN NumberOfNames ELSE NumberOfFunctions
  <2>1. /\ UNCHANGED <<file, q, range>> /\ pc \in {"sections", "symbols", "scan"} /\ i =< n
        /\ \/ i < n /\ i' = i + 1 /\ pc' = pc /\ (ret' = ret \/ \E x : ret' = Append(ret, x))
           \/ i' = i /\ pc' \in {"done", "thrown"} /\ ret' = ret
    BY <1>1 DEF NextSection, PeNextName, NextFunction
  <2>2. n \in Nat
    BY <1>a
  <2>3. ret' \in Seq(ToSet(ret'))
    BY <1>e, <2>1
  <2>4. PICK p \in Nat : i' = p /\ p =< n
    <3> HIDE DEF n
    <3> QED
      BY <2>1, <2>2
  <2> QED
    BY <1>a, <1>b, <1>c, <1>d, <2>1, <2>3, <2>4
<1>2. CASE PeFindSection
  <2>1. pc = "find" /\ UNCHANGED <<file, q, ret>> /\ i =< NumberOfSections
    BY <1>2 DEF PeFindSection
  <2>2. CASE i < NumberOfSections
    <3> DEFINE s == SectionOf(i + 1)
    <3>1. /\ range' = IF s.name = q.wanted
                      THEN [begin |-> s.raw, end |-> s.raw + s.rawsize] ELSE range
          /\ i' = i + 1 /\ pc' = "find"
      BY <1>2, <2>1, <2>2 DEF PeFindSection, SectionOf
    <3>2. PICK p \in 1 .. NumberOfSections : p = i + 1
      BY <1>a, <2>2
    <3>3. s.raw \in Nat /\ s.rawsize \in Nat
      BY <1>a, <3>2
    <3>4. CASE s.name = q.wanted
      <4>1. range' = [begin |-> s.raw, end |-> s.raw + s.rawsize]
        BY <3>1, <3>4
      <4>2. FromSection(p)'
        BY <2>1, <3>2, <3>4, <4>1 DEF FromSection, SectionOf
      <4>3. range' \in [begin : Nat, end : Nat] /\ range'.begin =< range'.end
        BY <3>3, <4>1
      <4> QED
        BY <1>b, <2>1, <3>1, <3>2, <4>2, <4>3
    <3>5. CASE s.name # q.wanted
      BY <1>b, <1>c, <1>d, <2>1, <3>1, <3>2, <3>5
    <3> QED
      BY <3>4, <3>5
  <2>3. CASE ~(i < NumberOfSections)
    <3>1. i' = 0 /\ pc' \in {"done", "scan"} /\ UNCHANGED range
      BY <1>2, <2>3 DEF PeFindSection
    <3> QED
      BY <1>a, <1>b, <1>c, <1>d, <2>1, <3>1
  <2> QED
    BY <2>2, <2>3
<1>3. CASE UNCHANGED peVars
  <2>1. UNCHANGED <<file, q, pc, i, range, ret>>
    BY <1>3 DEF peVars
  <2> QED
    BY <1>b, <1>c, <1>d, <2>1
<1> QED
  BY <1>1, <1>2, <1>3 DEF PeNext

LEMMA PeTypesImply ==
    ASSUME PeTypes
    PROVE  PeTypeOK
<1>1. /\ NumberOfSections \in Nat /\ NumberOfNames \in Nat /\ NumberOfFunctions \in Nat
      /\ DOMAIN file.sections = 1 .. NumberOfSections
  BY PeTables DEF PeTypes
<1>2. i \in 0 .. NumberOfSections + NumberOfNames + NumberOfFunctions
  BY <1>1 DEF PeTypes
<1> QED
  BY <1>1, <1>2 DEF PeTypes, PeTypeOK, FromSection, SectionOf

(* The section that the k-th name's function is in.                        *)
Address(k) == FunctionEntry(file.ordinals[k])
Home(k) == SectionAt(Address(k))
InWanted(k) == Home(k) \in 1 .. NumberOfSections /\ SectionOf(Home(k)).name = q.wanted

LEMMA OnlyOne ==
    ASSUME NEW n \in Nat, NEW S, S \subseteq 1 .. n, NEW m \in S, \A k \in S : k = m
    PROVE  S # {} /\ Min(S) = m
<1>1. S \subseteq Nat /\ S # {}
  OBVIOUS
<1> QED
  BY <1>1, MinOf

(* It is found both in memory and in the file.                             *)
LEMMA HomeStored ==
    ASSUME file \in PeFiles, PeSectionsApart, ExportsStored, NEW k \in 1 .. NumberOfNames
    PROVE  /\ file.ordinals[k] \in 0 .. NumberOfFunctions - 1
           /\ Home(k) \in 1 .. NumberOfSections
           /\ SectionOf(Home(k)).va =< Address(k)
           /\ Address(k) < SectionOf(Home(k)).va + SectionOf(Home(k)).rawsize
           /\ FileOffset(Address(k)) =
                 SectionOf(Home(k)).raw + Address(k) - SectionOf(Home(k)).va
           /\ Address(k) \in Nat
<1> DEFINE a == Address(k)
           ns == NumberOfSections
           V == {n \in 1 .. ns : a >= SectionOf(n).va /\ a < SectionOf(n).va + SectionOf(n).vsize}
           R == {n \in 1 .. ns : a >= SectionOf(n).va /\ a < SectionOf(n).va + SectionOf(n).rawsize}
<1>1. /\ ns \in Nat /\ DOMAIN file.sections = 1 .. ns /\ k \in DOMAIN file.names
      /\ NumberOfFunctions \in Nat /\ file.ordinals[k] \in Nat
      /\ \A n \in 1 .. NumberOfFunctions : file.functions[n] \in Nat
      /\ \A n \in 1 .. ns :
            /\ SectionOf(n).va \in Nat /\ SectionOf(n).vsize \in Nat
            /\ SectionOf(n).raw \in Nat /\ SectionOf(n).rawsize \in Nat
  BY PeTables
<1>2. file.ordinals[k] \in 0 .. NumberOfFunctions - 1
  BY <1>1 DEF ExportsStored, NumberOfFunctions
<1>3. a = file.functions[file.ordinals[k] + 1] /\ a \in Nat
  <2>1. file.ordinals[k] + 1 \in 1 .. NumberOfFunctions
    BY <1>1, <1>2
  <2> QED
    BY <1>1, <2>1 DEF Address, FunctionEntry
<1> HIDE DEF a
<1>4. PICK m \in 1 .. ns : /\ SectionOf(m).va =< a /\ a < SectionOf(m).va + SectionOf(m).vsize
                           /\ a < SectionOf(m).va + SectionOf(m).rawsize
  BY <1>1, <1>3 DEF ExportsStored, SectionOf
<1>5. ASSUME NEW n \in 1 .. ns, n # m
      PROVE  ~(a >= SectionOf(n).va /\ (a < SectionOf(n).va + SectionOf(n).vsize
                                          \/ a < SectionOf(n).va + SectionOf(n).rawsize))
  <2> DEFINE s == SectionOf(m)
             t == SectionOf(n)
  <2>1. \/ s.va + s.vsize =< t.va /\ s.va + s.rawsize =< t.va
        \/ t.va + t.vsize =< s.va /\ t.va + t.rawsize =< s.va
    BY <1>1, <1>5 DEF PeSectionsApart, SectionOf
  <2>2. /\ s.va \in Nat /\ s.vsize \in Nat /\ s.rawsize \in Nat
        /\ t.va \in Nat /\ t.vsize \in Nat /\ t.rawsize \in Nat
    BY <1>1
  <2>3. s.va =< a /\ a < s.va + s.vsize /\ a < s.va + s.rawsize
    BY <1>4
  <2> HIDE DEF s, t
  <2>4. ~(a >= t.va /\ (a < t.va + t.vsize \/ a < t.va + t.rawsize))
    BY <1>3, <2>1, <2>2, <2>3
  <2> QED
    BY <2>4 DEF t
<1> HIDE DEF ns
<1>6. V # {} /\ Min(V) = m
  <2>1. V \subseteq 1 .. ns /\ m \in V /\ \A n \in V : n = m
    BY <1>1, <1>3, <1>4, <1>5
  <2> HIDE DEF V
  <2> QED
    BY <1>1, <2>1, OnlyOne
<1>7. R # {} /\ Min(R) = m
  <2>1. R \subseteq 1 .. ns /\ m \in R /\ \A n \in R : n = m
    BY <1>1, <1>3, <1>4, <1>5
  <2> HIDE DEF R
  <2> QED
    BY <1>1, <2>1, OnlyOne
<1>8. Home(k) = m
  <2>1. Home(k) = IF V # {} THEN Min(V) ELSE 0
    BY DEF Home, SectionAt, SelectInSeq, SectionOf, a, ns, NumberOfSections
  <2> QED
    BY <1>6, <2>1
<1>9. FileOffset(a) = SectionOf(m).raw + a - SectionOf(m).va
  <2> DEFINE p == IF R # {} THEN Min(R) ELSE 0
  <2>1. FileOffset(a) = IF p = 0 THEN 0 ELSE file.sections[p].raw + a - file.sections[p].va
    BY DEF FileOffset, SelectInSeq, SectionOf, ns, NumberOfSections
  <2>2. p = m /\ m # 0
    BY <1>1, <1>7
  <2> QED
    BY <2>1, <2>2 DEF SectionOf
<1> QED
  BY <1>2, <1>3, <1>4, <1>8, <1>9 DEF a, ns

(* The range that was found, by the first n headers.                       *)
Ranged(n) ==
    \/ range = Nowhere /\ \A k \in 1 .. n : SectionOf(k).name # q.wanted
    \/ \E k \in 1 .. n : FromSection(k)

(* Being in the range is being in the section that was asked for.          *)
LEMMA RangeIsSection ==
    ASSUME PeTypes, q.op = "symbols_in", PeSectionsApart, ExportsStored,
           Ranged(NumberOfSections), NEW k \in 1 .. NumberOfNames
    PROVE  /\ FileOffset(Address(k)) \in range.begin .. range.end - 1 <=> InWanted(k)
           /\ range.begin = 0 \/ range.end = 0 => ~InWanted(k)
<1> DEFINE h == Home(k)
           s == SectionOf(h)
           o == FileOffset(Address(k))
<1>1. /\ h \in 1 .. NumberOfSections /\ s.va =< Address(k) /\ Address(k) < s.va + s.rawsize
      /\ o = s.raw + Address(k) - s.va /\ Address(k) \in Nat
  BY HomeStored DEF PeTypes
<1>2. /\ NumberOfSections \in Nat /\ DOMAIN file.sections = 1 .. NumberOfSections
      /\ \A n \in 1 .. NumberOfSections :
            SectionOf(n).va \in Nat /\ SectionOf(n).raw \in Nat /\ SectionOf(n).rawsize \in Nat
  BY PeTables DEF PeTypes
<1>3. o \in s.raw .. s.raw + s.rawsize - 1 /\ s.rawsize > 0
  <2>1. s.va \in Nat /\ s.raw \in Nat /\ s.rawsize \in Nat
    BY <1>1, <1>2
  <2> HIDE DEF s, o
  <2> QED
    BY <1>1, <2>1
<1>4. InWanted(k) <=> s.name = q.wanted
  BY <1>1 DEF InWanted
<1>5. s.rawsize > 0 => s.raw > 0
  BY <1>1, <1>2 DEF PeSectionsApart, SectionOf, PeTypes
<1> HIDE DEF o
<1>6. CASE range = Nowhere /\ \A n \in 1 .. NumberOfSections : SectionOf(n).name # q.wanted
  <2>1. range.begin = 0 /\ range.end = 0
    BY <1>6 DEF Nowhere
  <2>2. ~(o \in range.begin .. range.end - 1)
    BY <2>1
  <2> QED
    BY <1>1, <1>4, <1>6, <2>2 DEF o
<1>7. ASSUME NEW m \in 1 .. NumberOfSections, FromSection(m)
      PROVE  /\ o \in range.begin .. range.end - 1 <=> InWanted(k)
             /\ range.begin = 0 \/ range.end = 0 => ~InWanted(k)
  <2> DEFINE t == SectionOf(m)
  <2>1. t.name = q.wanted /\ range.begin = t.raw /\ range.end = t.raw + t.rawsize
    BY <1>7 DEF FromSection
  <2>2. CASE m = h
    <3>1. t = s
      BY <2>2
    <3>2. s.raw > 0 /\ s.raw + s.rawsize # 0 /\ s.name = q.wanted
      BY <1>1, <1>2, <1>3, <1>5, <2>1, <3>1
    <3>3. range.begin = s.raw /\ range.end = s.raw + s.rawsize
      BY <2>1, <3>1
    <3>4. InWanted(k)
      BY <1>4, <3>2
    <3>5. s.raw \in Nat /\ s.rawsize \in Nat
      BY <1>1, <1>2
    <3> HIDE DEF s, t
    <3>6. o \in range.begin .. range.end - 1 /\ range.begin # 0 /\ range.end # 0
      BY <1>3, <3>2, <3>3, <3>5
    <3> QED
      BY <3>4, <3>6
  <2>3. CASE m # h
    <3>1. /\ ~(s.name = q.wanted /\ t.name = q.wanted)
          /\ s.raw + s.rawsize =< t.raw \/ t.raw + t.rawsize =< s.raw
      BY <1>1, <1>2, <2>3 DEF PeSectionsApart, SectionOf, PeTypes
    <3>2. s.raw \in Nat /\ s.rawsize \in Nat /\ t.raw \in Nat /\ t.rawsize \in Nat
      BY <1>1, <1>2
    <3>3. ~InWanted(k)
      BY <1>4, <2>1, <3>1
    <3> HIDE DEF s, t
    <3>4. ~(o \in range.begin .. range.end - 1)
      BY <1>3, <2>1, <3>1, <3>2
    <3> QED
      BY <3>3, <3>4
  <2> QED
    BY <2>2, <2>3
<1> QED
  BY <1>6, <1>7 DEF Ranged, o

(* What is shown of the first n names, sections or functions.              *)
PeShown(n) == {file.names[k] : k \in {m \in 1 .. NumberOfNames : m =< n /\ InWanted(m)}}

(* S was read, and a name that is none if something went astray.           *)
PeRead(S) == ToSet(ret) = S \/ (Astray /\ ToSet(ret) = S \cup {Garbage})

(* What went astray once stays so.                                         *)
LEMMA AstrayStays ==
    ASSUME PeTypes, UNCHANGED <<file, q>>, i' \in Nat, i =< i'
    PROVE  Astray => Astray'
<1>1. ASSUME NEW k PROVE Stray(k)' <=> Stray(k)
  BY DEF Stray, HasOrdinal, OrdinalEntry, NumberOfNames, NumberOfFunctions
<1>2. \A k \in 0 .. i : k \in 0 .. i'
  BY DEF PeTypes
<1> QED
  BY <1>1, <1>2 DEF Astray

(* The range and the names that were found so far.                         *)
PeListed ==
    /\ pc = "sections" => ToSet(ret) = {SectionOf(k).name : k \in 1 .. i}
    /\ pc = "symbols" => ToSet(ret) = {file.names[k] : k \in 1 .. i}
    /\ pc = "find" => ret = <<>> /\ Ranged(i)
    /\ pc = "scan" => Ranged(NumberOfSections) /\ PeRead(PeShown(i))
    /\ PeAnswered

LEMMA PeAnswers ==
    ASSUME PeTypes
    PROVE  /\ q.op = "sections" =>
                 Answer(PeContent) = {SectionOf(k).name : k \in 1 .. NumberOfSections}
           /\ q.op = "symbols" =>
                 Answer(PeContent) = {file.names[k] : k \in 1 .. NumberOfNames}
           /\ q.op = "symbols_in" => Answer(PeContent) = PeShown(NumberOfNames)
<1> DEFINE symbol(k) == [name |-> file.names[k], exported |-> TRUE, section |-> Home(k)]
           ns == NumberOfSections
           nn == NumberOfNames
<1>1. /\ ns \in Nat /\ DOMAIN file.sections = 1 .. ns
      /\ nn \in Nat /\ DOMAIN file.names = 1 .. nn
  BY PeTables DEF PeTypes
<1>2. /\ PeContent.sections = [k \in 1 .. ns |-> SectionOf(k).name]
      /\ PeContent.symbols = {symbol(k) : k \in 1 .. nn}
  BY <1>1 DEF PeContent, SectionOf, Home, Address
<1>3. \A k : symbol(k).name = file.names[k] /\ symbol(k).exported /\ symbol(k).section = Home(k)
  OBVIOUS
<1>4. Sections(PeContent) = {SectionOf(k).name : k \in 1 .. ns}
  BY <1>2 DEF Sections, ToSet
<1> DEFINE C == PeContent.symbols
           at(n) == PeContent.sections[n]
<1>d. DOMAIN PeContent.sections = 1 .. ns /\ \A n \in 1 .. ns : at(n) = SectionOf(n).name
  BY <1>2
<1>c. C = {symbol(k) : k \in 1 .. nn}
  BY <1>2
<1>5. Symbols(PeContent) = {r.name : r \in {s \in C : s.exported}}
  BY DEF Symbols
<1>6. SymbolsIn(PeContent, q.wanted) = {r.name : r \in {s \in C :
          s.exported /\ s.section \in 1 .. ns /\ at(s.section) = q.wanted}}
  BY <1>d DEF SymbolsIn
<1> HIDE DEF symbol, ns, nn, C, at
<1>7. Symbols(PeContent) = {file.names[k] : k \in 1 .. nn}
  <2>1. \A x : x \in Symbols(PeContent) <=> \E r \in C : r.exported /\ x = r.name
    BY <1>5
  <2>2. \A x : x \in Symbols(PeContent)
                 <=> \E k \in 1 .. nn : symbol(k).exported /\ x = symbol(k).name
    BY <1>c, <2>1
  <2>3. \A x : x \in Symbols(PeContent) <=> \E k \in 1 .. nn : x = file.names[k]
    BY <1>3, <2>2, ZenonT(60)
  <2> QED
    BY <2>3
<1>8. SymbolsIn(PeContent, q.wanted) = PeShown(nn)
  <2> DEFINE inSymbols(k) == /\ symbol(k).exported /\ symbol(k).section \in 1 .. ns
                             /\ at(symbol(k).section) = q.wanted
  <2>1. \A x : x \in SymbolsIn(PeContent, q.wanted)
                 <=> \E r \in C : /\ r.exported /\ r.section \in 1 .. ns
                                  /\ at(r.section) = q.wanted /\ x = r.name
    BY <1>6
  <2>2. \A x : x \in SymbolsIn(PeContent, q.wanted)
                 <=> \E k \in 1 .. nn : inSymbols(k) /\ x = symbol(k).name
    BY <1>c, <2>1
  <2>3. ASSUME NEW k \in 1 .. nn PROVE inSymbols(k) <=> InWanted(k)
    <3>1. symbol(k).section = Home(k) /\ symbol(k).exported
      BY <1>3
    <3> QED
      BY <3>1, <1>d DEF InWanted, ns
  <2> HIDE DEF inSymbols
  <2>e. ASSUME NEW k \in 1 .. nn, NEW x
        PROVE  inSymbols(k) /\ x = symbol(k).name <=> InWanted(k) /\ x = file.names[k]
    BY <2>3, <1>3
  <2>4. \A x : x \in SymbolsIn(PeContent, q.wanted)
                 <=> \E k \in 1 .. nn : InWanted(k) /\ x = file.names[k]
    BY <2>2, <2>e, ZenonT(60)
  <2>5. \A k \in 1 .. nn : k =< nn
    BY <1>1
  <2>6. PeShown(nn) = {file.names[k] : k \in {m \in 1 .. nn : m =< nn /\ InWanted(m)}}
    BY DEF PeShown, nn
  <2> QED
    BY <2>4, <2>5, <2>6
<1> QED
  BY <1>4, <1>7, <1>8 DEF Answer, ns, nn

LEMMA PeNextListed ==
    ASSUME PeSectionsApart, ExportsStored, PeTypes, PeListed, [PeNext]_peVars
    PROVE  PeListed'
<1>a. /\ NumberOfSections \in Nat /\ NumberOfNames \in Nat /\ NumberOfFunctions \in Nat
      /\ i \in Nat /\ Len(file.ordinals) = NumberOfNames
  BY PeTables DEF PeTypes
<1>b. ASSUME UNCHANGED <<file, q>>
      PROVE  /\ Answer(PeContent)' = Answer(PeContent)
             /\ NumberOfSections' = NumberOfSections
             /\ \A n : PeShown(n)' = PeShown(n)
  <2>0. /\ \A a : SectionAt(a)' = SectionAt(a)
        /\ \A a : FunctionEntry(a)' = FunctionEntry(a)
    BY <1>b DEF SectionAt, SelectInSeq, FunctionEntry
  <2>1. PeContent' = PeContent
    BY <1>b, <2>0 DEF PeContent
  <2>2. \A n : PeShown(n)' = PeShown(n)
    <3>1. /\ \A k : Home(k)' = Home(k) /\ SectionOf(k)' = SectionOf(k)
          /\ NumberOfNames' = NumberOfNames /\ NumberOfSections' = NumberOfSections
      BY <1>b, <2>0 DEF Home, Address, SectionOf, NumberOfNames, NumberOfSections
    <3>2. \A k : InWanted(k)' <=> InWanted(k)
      BY <1>b, <3>1 DEF InWanted
    <3> QED
      BY <1>b, <3>1, <3>2 DEF PeShown
  <2> QED
    BY <1>b, <2>1, <2>2 DEF Answer, Sections, Symbols, SymbolsIn, NumberOfSections
<1>c. ASSUME UNCHANGED <<file, q, range>>
      PROVE  \A n : Ranged(n)' <=> Ranged(n)
  BY <1>c DEF Ranged, FromSection, SectionOf, Nowhere
<1>d. \A x : ToSet(Append(ret, x)) = ToSet(ret) \cup {x}
  BY AppendElements DEF PeTypes
<1>1. CASE NextSection
  <2>1. /\ pc = "sections" /\ q.op = "sections" /\ i =< NumberOfSections
        /\ UNCHANGED <<file, q, range>>
        /\ ToSet(ret) = {SectionOf(k).name : k \in 1 .. i}
    BY <1>1 DEF NextSection, PeTypes, PeListed
  <2>2. CASE i < NumberOfSections
    <3>1. ret' = Append(ret, SectionOf(i + 1).name) /\ i' = i + 1 /\ pc' = pc
      BY <1>1, <2>2 DEF NextSection, SectionOf
    <3>2. 1 .. i + 1 = (1 .. i) \cup {i + 1}
      BY <1>a
    <3>3. ToSet(ret') = {SectionOf(k).name : k \in 1 .. i + 1}
      BY <1>d, <2>1, <3>1, <3>2
    <3> QED
      BY <2>1, <3>1, <3>3 DEF PeListed, PeAnswered, SectionOf
  <2>3. CASE ~(i < NumberOfSections)
    <3>1. pc' = "done" /\ ret' = ret /\ i = NumberOfSections
      BY <1>1, <1>a, <2>1, <2>3 DEF NextSection
    <3>2. ToSet(ret) = Answer(PeContent)
      BY <2>1, <3>1, PeAnswers
    <3> QED
      BY <1>b, <2>1, <3>1, <3>2 DEF PeListed, PeAnswered
  <2> QED
    BY <2>2, <2>3
<1>2. CASE PeNextName
  <2>1. /\ pc = "symbols" /\ q.op = "symbols" /\ i =< NumberOfNames
        /\ UNCHANGED <<file, q, range>>
        /\ ToSet(ret) = {file.names[k] : k \in 1 .. i}
    BY <1>2 DEF PeNextName, PeTypes, PeListed
  <2>2. CASE i < NumberOfNames
    <3>1. ret' = Append(ret, file.names[i + 1]) /\ i' = i + 1 /\ pc' = pc
      BY <1>2, <2>2 DEF PeNextName, NameEntry
    <3>2. 1 .. i + 1 = (1 .. i) \cup {i + 1}
      BY <1>a
    <3>3. ToSet(ret') = {file.names[k] : k \in 1 .. i + 1}
      BY <1>d, <2>1, <3>1, <3>2
    <3> QED
      BY <2>1, <3>1, <3>3 DEF PeListed, PeAnswered
  <2>3. CASE ~(i < NumberOfNames)
    <3>1. pc' = "done" /\ ret' = ret /\ i = NumberOfNames
      BY <1>2, <1>a, <2>1, <2>3 DEF PeNextName
    <3>2. ToSet(ret) = Answer(PeContent)
      BY <2>1, <3>1, PeAnswers
    <3> QED
      BY <1>b, <2>1, <3>1, <3>2 DEF PeListed, PeAnswered
  <2> QED
    BY <2>2, <2>3
<1>3. CASE PeFindSection
  <2>1. /\ pc = "find" /\ q.op = "symbols_in" /\ i =< NumberOfSections
        /\ UNCHANGED <<file, q, ret>> /\ ret = <<>> /\ Ranged(i)
    BY <1>3 DEF PeFindSection, PeTypes, PeListed
  <2>2. CASE i < NumberOfSections
    <3> DEFINE s == SectionOf(i + 1)
    <3>1. /\ range' = IF s.name = q.wanted
                      THEN [begin |-> s.raw, end |-> s.raw + s.rawsize] ELSE range
          /\ i' = i + 1 /\ pc' = "find"
      BY <1>3, <2>1, <2>2 DEF PeFindSection, SectionOf
    <3>2. PICK p \in Nat : /\ p = i + 1 /\ p \in 1 .. p /\ 1 .. i \subseteq 1 .. p
                          /\ \A k \in 1 .. p : k \in 1 .. i \/ k = p
      BY <1>a
    <3>3. CASE s.name = q.wanted
      <4>1. FromSection(p)'
        BY <2>1, <3>1, <3>2, <3>3 DEF FromSection, SectionOf
      <4> QED
        BY <2>1, <3>1, <3>2, <4>1 DEF PeListed, PeAnswered, Ranged
    <3>4. CASE s.name # q.wanted
      <4>1. Ranged(p) /\ UNCHANGED range
        BY <2>1, <3>1, <3>2, <3>4 DEF Ranged
      <4>2. Ranged(p)'
        BY <1>c, <2>1, <4>1
      <4> QED
        BY <2>1, <3>1, <3>2, <4>2 DEF PeListed, PeAnswered, Ranged
    <3> QED
      BY <3>3, <3>4
  <2>3. CASE ~(i < NumberOfSections)
    <3>1. i' = 0 /\ UNCHANGED range /\ i = NumberOfSections
          /\ pc' = IF range.begin = 0 \/ range.end = 0 THEN "done" ELSE "scan"
      BY <1>3, <1>a, <2>1, <2>3 DEF PeFindSection
    <3>2. ToSet(ret) = {} /\ ToSet(ret') = {}
      BY <2>1 DEF ToSet
    <3>3. CASE range.begin = 0 \/ range.end = 0
      <4>1. \A k \in 1 .. NumberOfNames : ~InWanted(k)
        BY <2>1, <3>1, <3>3, RangeIsSection
      <4>2. PeShown(NumberOfNames) = {}
        BY <4>1 DEF PeShown
      <4>3. ToSet(ret) = Answer(PeContent)
        BY <2>1, <3>2, <4>2, PeAnswers
      <4> QED
        BY <1>b, <2>1, <3>1, <3>3, <4>3 DEF PeListed, PeAnswered
    <3>4. CASE ~(range.begin = 0 \/ range.end = 0)
      <4>1. PeShown(0) = {}
        BY DEF PeShown
      <4>2. PeShown(i)' = {}
        BY <1>b, <2>1, <3>1, <4>1
      <4>3. Ranged(NumberOfSections)'
        BY <1>b, <1>c, <2>1, <3>1
      <4>4. PeRead(PeShown(i))'
        BY <3>2, <4>2 DEF PeRead
      <4> QED
        BY <3>1, <3>4, <4>3, <4>4 DEF PeListed, PeAnswered
    <3> QED
      BY <3>3, <3>4
  <2> QED
    BY <2>2, <2>3
<1>4. CASE NextFunction
  <2>1. /\ pc = "scan" /\ q.op = "symbols_in" /\ i =< NumberOfFunctions
        /\ UNCHANGED <<file, q, range>>
        /\ Ranged(NumberOfSections) /\ PeRead(PeShown(i))
    BY <1>4 DEF NextFunction, PeTypes, PeListed
  <2>2. NumberOfNames =< NumberOfFunctions
    BY DEF ExportsStored, PeTypes, NumberOfNames, NumberOfFunctions
  <2>s. ASSUME i < NumberOfFunctions, i >= NumberOfNames,
               HasOrdinal(i) => OrdinalEntry(i) < NumberOfFunctions
        PROVE  Astray
    <3>1. i \in NumberOfNames .. NumberOfFunctions - 1 /\ i \in 0 .. i
      BY <1>a, <2>s
    <3> QED
      BY <2>1, <2>s, <3>1 DEF Astray, Stray
  <2>3. CASE i < NumberOfFunctions /\ HasOrdinal(i) /\ pc' = "scan"
    <3>1. /\ ret' = IF FunctionInRange(i) THEN Append(ret, NameEntry(i)) ELSE ret
          /\ i' = i + 1
      BY <1>4, <2>1, <2>3 DEF NextFunction
    <3>a. Astray => Astray'
      BY <1>a, <2>1, <3>1, AstrayStays
    <3>2. ToSet(ret') = PeShown(i + 1) \/ (Astray /\ ToSet(ret') = PeShown(i + 1) \cup {Garbage})
      <4>1. CASE i < NumberOfNames
        <5>1. i + 1 \in 1 .. NumberOfNames
          BY <1>a, <4>1
        <5>2. OrdinalEntry(i) = file.ordinals[i + 1] /\ NameEntry(i) = file.names[i + 1]
          BY <1>a, <4>1 DEF OrdinalEntry, NameEntry
        <5>3. file.ordinals[i + 1] \in 0 .. NumberOfFunctions - 1
          BY <5>1, HomeStored DEF PeTypes
        <5>4. FileOffset(Address(i + 1)) \in range.begin .. range.end - 1
                <=> InWanted(i + 1)
          BY <2>1, <5>1, RangeIsSection
        <5>5. FunctionInRange(i) <=> InWanted(i + 1)
          <6>1. file.ordinals[i + 1] < NumberOfFunctions
            BY <1>a, <5>3
          <6> QED
            BY <5>2, <5>4, <6>1 DEF Address, FunctionInRange
        <5>6. ToSet(ret') = IF InWanted(i + 1) THEN ToSet(ret) \cup {file.names[i + 1]}
                                               ELSE ToSet(ret)
          BY <1>d, <3>1, <5>2, <5>5
        <5>7. \A m \in 1 .. NumberOfNames : m =< i + 1 <=> m =< i \/ m = i + 1
          BY <1>a
        <5>8. PeShown(i + 1) = IF InWanted(i + 1) THEN PeShown(i) \cup {file.names[i + 1]}
                                                  ELSE PeShown(i)
          BY <5>1, <5>7 DEF PeShown
        <5> QED
          BY <2>1, <5>6, <5>8 DEF PeRead
      <4>2. CASE ~(i < NumberOfNames)
        <5>1. \A m \in 1 .. NumberOfNames : m =< i + 1 <=> m =< i
          BY <1>a, <4>2
        <5>2. PeShown(i + 1) = PeShown(i)
          BY <5>1 DEF PeShown
        <5>3. CASE FunctionInRange(i)
          <6>1. Astray
            BY <1>a, <2>3, <2>s, <4>2, <5>3 DEF FunctionInRange
          <6>2. ToSet(ret') = ToSet(ret) \cup {Garbage}
            BY <1>d, <3>1, <4>2, <5>3 DEF NameEntry
          <6> QED
            BY <2>1, <5>2, <6>1, <6>2 DEF PeRead
        <5>4. CASE ~FunctionInRange(i)
          BY <2>1, <3>1, <5>2, <5>4 DEF PeRead
        <5> QED
          BY <5>3, <5>4
      <4> QED
        BY <4>1, <4>2
    <3>3. PeShown(i)' = PeShown(i + 1)
      BY <1>b, <2>1, <3>1
    <3>4. PeRead(PeShown(i))'
      BY <3>2, <3>3, <3>a DEF PeRead
    <3>5. Ranged(NumberOfSections)'
      BY <1>b, <1>c, <2>1
    <3> QED
      BY <2>3, <3>4, <3>5 DEF PeListed, PeAnswered
  <2>4. CASE pc' = "thrown"
    <3>1. /\ i < NumberOfFunctions /\ UNCHANGED <<ret, i>>
          /\ HasOrdinal(i) => i >= NumberOfNames /\ FunctionInRange(i)
      BY <1>4, <2>1, <2>4 DEF NextFunction
    <3>2. i >= NumberOfNames
      <4>1. Len(file.behind) \in Nat
        BY PeTables DEF PeTypes
      <4> QED
        BY <1>a, <3>1, <4>1 DEF HasOrdinal
    <3>3. Astray
      BY <2>s, <3>1, <3>2 DEF FunctionInRange
    <3>4. Astray'
      BY <1>a, <2>1, <3>1, <3>3, AstrayStays
    <3> QED
      BY <2>4, <3>4 DEF PeListed, PeAnswered
  <2>5. CASE i >= NumberOfFunctions /\ pc' = "done"
    <3>1. UNCHANGED <<ret, i>>
      BY <1>4, <2>1, <2>5 DEF NextFunction
    <3>2. \A m \in 1 .. NumberOfNames : m =< i /\ m =< NumberOfNames
      BY <1>a, <2>2, <2>5
    <3>3. PeShown(i) = PeShown(NumberOfNames)
      BY <3>2 DEF PeShown
    <3>4. PeRead(Answer(PeContent))
      BY <2>1, <3>3, PeAnswers
    <3>5. Astray => Astray'
      BY <1>a, <2>1, <3>1, AstrayStays
    <3> QED
      BY <1>b, <2>1, <2>5, <3>1, <3>4, <3>5 DEF PeListed, PeAnswered, PeRead
  <2> QED
    BY <1>4, <2>1, <2>3, <2>4, <2>5 DEF NextFunction
<1>5. CASE UNCHANGED peVars
  <2>1. UNCHANGED <<file, q, pc, i, range, ret>>
    BY <1>5 DEF peVars
  <2>2. /\ Ranged(i)' <=> Ranged(i) /\ PeShown(i)' = PeShown(i)
        /\ Ranged(NumberOfSections)' <=> Ranged(NumberOfSections)
    BY <1>b, <1>c, <2>1
  <2>3. \A k : SectionOf(k)' = SectionOf(k)
    BY <2>1 DEF SectionOf
  <2>4. Astray => Astray'
    BY <1>a, <2>1, AstrayStays
  <2> QED
    BY <1>b, <2>1, <2>2, <2>3, <2>4 DEF PeListed, PeAnswered, PeRead
<1> QED
  BY <1>1, <1>2, <1>3, <1>4, <1>5 DEF PeNext

(* Every call to a PE file's parser answers what library_info promises, of *)
(* files whose named functions are in the stored contents of sections that *)
(* do not overlap, and that have no more names than functions, whatever    *)
(* words lie behind the ordinals: one of them that is a function's number  *)
(* adds a name that is none or ends the call with an exception, and there  *)
(* is no other error.  Of other files it does not:                         *)
(* PeInfo_divergences.cfg is the counterexample.                           *)
THEOREM PeInvCorrect ==
    ASSUME PeSectionsApart, ExportsStored
    PROVE  PeSpec => []PeInv
<1> DEFINE Inv == PeTypes /\ PeListed
<1>1. ASSUME PeInit PROVE Inv
  <2>1. /\ i = 0 /\ range = Nowhere /\ ret = <<>> /\ pc \in {"sections", "symbols", "find"}
    BY <1>1, QuestionsAssumption DEF PeInit
  <2>2. ToSet(ret) = {} /\ 1 .. i = {}
    BY <2>1 DEF ToSet
  <2> QED
    BY <1>1, <2>1, <2>2, PeInitTypes DEF PeListed, Ranged, PeAnswered
<1>2. Inv /\ [PeNext]_peVars => Inv'
  BY PeNextTypes, PeNextListed
<1>3. Inv => PeInv
  BY PeTypesImply DEF PeInv, PeListed
<1> QED
  BY <1>1, <1>2, <1>3, PTL DEF PeSpec

-----------------------------------------------------------------------------
(* Mach-O.                                                                 *)

LEMMA ConcatOne ==
    ASSUME NEW S, NEW s \in Seq(S), NEW x \in S
    PROVE  s \o <<x>> = Append(s, x)
OBVIOUS

LEMMA SeqOfLen ==
    ASSUME NEW S, NEW n \in Nat, NEW s \in [1 .. n -> S]
    PROVE  s \in Seq(S) /\ Len(s) = n
OBVIOUS

LEMMA ConcatNone ==
    ASSUME NEW S, NEW s \in Seq(S)
    PROVE  s \o <<>> = s /\ <<>> \o s = s
BY ConcatEmptySeq

(* g[k] is the first k sequences of s in a row. *)
IsFlat(g, s, n) == g = [k \in 1 .. n |-> IF k = 1 THEN s[k] ELSE g[k - 1] \o s[k]]

LEMMA FlatAt ==
    ASSUME NEW n \in Nat, NEW s, NEW g, IsFlat(g, s, n), NEW k \in 1 .. n
    PROVE  g[k] = IF k = 1 THEN s[k] ELSE g[k - 1] \o s[k]
BY DEF IsFlat

LEMMA FlatExists ==
    ASSUME NEW n \in Nat, NEW s
    PROVE  \E g : IsFlat(g, s, n)
<1> DEFINE Bad == {m \in 0 .. n : ~ \E g : IsFlat(g, s, m)}
<1>1. SUFFICES ASSUME Bad # {} PROVE FALSE
  OBVIOUS
<1>2. PICK m : m \in 0 .. n /\ m \in Bad /\ \A y \in Bad : m =< y
  <2>1. Bad \subseteq Nat
    OBVIOUS
  <2> HIDE DEF Bad
  <2>2. Min(Bad) \in Bad /\ \A y \in Bad : Min(Bad) =< y
    BY <1>1, <2>1, MinOf
  <2> QED
    BY <2>2 DEF Bad
<1>3. m # 0
  <2>1. IsFlat([k \in 1 .. 0 |-> 0], s, 0)
    BY DEF IsFlat
  <2> QED
    BY <1>2, <2>1
<1>4. PICK g : IsFlat(g, s, m - 1)
  <2>1. m - 1 \in 0 .. n /\ ~(m =< m - 1)
    BY <1>2, <1>3
  <2> QED
    BY <1>2, <2>1
<1> DEFINE h == [k \in 1 .. m |-> IF k = 1 THEN s[k]
                                  ELSE IF k < m THEN g[k] ELSE g[k - 1] \o s[k]]
<1>5. ASSUME NEW k \in 1 .. m, k # 1 PROVE h[k] = h[k - 1] \o s[k]
  <2>1. k - 1 \in 1 .. m - 1 /\ k - 1 \in 1 .. m /\ k - 1 < m
    BY <1>2, <1>5
  <2>2. g[k - 1] = IF k - 1 = 1 THEN s[k - 1] ELSE g[k - 1 - 1] \o s[k - 1]
    BY <1>4, <2>1 DEF IsFlat
  <2>3. h[k - 1] = g[k - 1]
    BY <2>1, <2>2
  <2>4. CASE k < m
    <3>1. k \in 1 .. m - 1
      BY <1>2, <2>4
    <3>2. g[k] = g[k - 1] \o s[k]
      BY <1>4, <1>5, <3>1 DEF IsFlat
    <3> QED
      BY <1>5, <2>3, <2>4, <3>2
  <2>5. CASE ~(k < m)
    BY <1>5, <2>3, <2>5
  <2> QED
    BY <2>4, <2>5
<1>6. IsFlat(h, s, m)
  <2>1. h = [k \in 1 .. m |-> IF k = 1 THEN s[k] ELSE h[k - 1] \o s[k]]
    <3>1. \A k \in 1 .. m : h[k] = IF k = 1 THEN s[k] ELSE h[k - 1] \o s[k]
      BY <1>5
    <3>2. h = [k \in 1 .. m |-> h[k]]
      OBVIOUS
    <3> HIDE DEF h
    <3> QED
      BY <3>1, <3>2
  <2> QED
    BY <2>1 DEF IsFlat
<1> QED
  BY <1>2, <1>6

LEMMA Flattened ==
    ASSUME NEW s, Len(s) \in Nat \ {0}
    PROVE  \E g : IsFlat(g, s, Len(s)) /\ FlattenSeq(s) = g[Len(s)]
<1> DEFINE f == CHOOSE g : IsFlat(g, s, Len(s))
<1>1. IsFlat(f, s, Len(s))
  BY FlatExists
<1>2. FlattenSeq(s) = f[Len(s)]
  BY DEF FlattenSeq, IsFlat
<1> QED
  BY <1>1, <1>2

(* The sections of the first n load commands.                              *)
Layers == [k \in DOMAIN file |-> file[k].sections]
Flat == CHOOSE g : IsFlat(g, Layers, Len(Layers)) /\ FlattenSeq(Layers) = g[Len(Layers)]
UpTo(n) == IF n = 0 THEN <<>> ELSE Flat[n]
SectionNames == UNION {ToSet(file[k].sections) : k \in DOMAIN file}

LEMMA MachoTables ==
    ASSUME file \in MachoFiles
    PROVE  /\ Ncmds \in Nat /\ DOMAIN file = 1 .. Ncmds
           /\ \A k \in 1 .. Ncmds :
                 /\ Len(file[k].sections) \in Nat /\ Len(file[k].symbols) \in Nat
                 /\ file[k].sections \in Seq(SectionNames)
                 /\ DOMAIN file[k].symbols = 1 .. Len(file[k].symbols)
                 /\ file[k].cmd # "SEGMENT" => Len(file[k].sections) = 0
                 /\ file[k].cmd # "SYMTAB" => Len(file[k].symbols) = 0
<1>1. IsSeq(file)
  BY MachoAssumption
<1>2. \A s : IsSeq(s) => Len(s) \in Nat /\ DOMAIN s = 1 .. Len(s) /\ s \in Seq(ToSet(s))
  BY DEF IsSeq, ToSet
<1>3. Ncmds \in Nat /\ DOMAIN file = 1 .. Ncmds
  BY <1>1, <1>2 DEF Ncmds
<1>4. ASSUME NEW k \in 1 .. Ncmds
      PROVE  /\ IsSeq(file[k].sections) /\ IsSeq(file[k].symbols)
             /\ file[k].cmd # "SEGMENT" => file[k].sections = <<>>
             /\ file[k].cmd # "SYMTAB" => file[k].symbols = <<>>
  BY <1>3, MachoAssumption
<1>5. ASSUME NEW k \in 1 .. Ncmds PROVE file[k].sections \in Seq(SectionNames)
  <2>1. file[k].sections \in Seq(ToSet(file[k].sections))
    BY <1>2, <1>4
  <2>2. ToSet(file[k].sections) \subseteq SectionNames
    BY <1>3 DEF SectionNames
  <2> QED
    BY <2>1, <2>2, SeqMonotonic
<1>6. Len(<<>>) = 0
  OBVIOUS
<1> QED
  BY <1>2, <1>3, <1>4, <1>5, <1>6

LEMMA MachoPrefixes ==
    ASSUME file \in MachoFiles
    PROVE  /\ UpTo(0) = <<>>
           /\ \A n \in 0 .. Ncmds - 1 : UpTo(n + 1) = UpTo(n) \o file[n + 1].sections
           /\ \A n \in 0 .. Ncmds : UpTo(n) \in Seq(SectionNames)
           /\ AllSections(file) = UpTo(Ncmds)
<1>1. /\ Ncmds \in Nat /\ DOMAIN file = 1 .. Ncmds
      /\ \A k \in 1 .. Ncmds : file[k].sections \in Seq(SectionNames)
  BY MachoTables
<1>2. Layers \in Seq(Seq(SectionNames)) /\ Len(Layers) = Ncmds
  <2>1. Layers \in [1 .. Ncmds -> Seq(SectionNames)]
    BY <1>1 DEF Layers
  <2> QED
    BY <1>1, <2>1, SeqOfLen
<1>3. Ncmds # 0 => /\ IsFlat(Flat, Layers, Ncmds) /\ FlattenSeq(Layers) = Flat[Ncmds]
  <2>1. Ncmds # 0 => \E g : IsFlat(g, Layers, Len(Layers)) /\ FlattenSeq(Layers) = g[Len(Layers)]
    BY <1>1, <1>2, Flattened
  <2>2. Ncmds # 0 => IsFlat(Flat, Layers, Len(Layers)) /\ FlattenSeq(Layers) = Flat[Len(Layers)]
    BY <2>1, Zenon DEF Flat
  <2> QED
    BY <1>2, <2>2
<1>4. UpTo(0) = <<>>
  BY DEF UpTo
<1>5. ASSUME NEW n \in 0 .. Ncmds - 1
      PROVE  UpTo(n + 1) = UpTo(n) \o file[n + 1].sections
  <2>1. n + 1 \in 1 .. Ncmds /\ n + 1 # 0 /\ Ncmds # 0 /\ n + 1 - 1 = n
    BY <1>1
  <2>2. Flat[n + 1] = IF n + 1 = 1 THEN Layers[n + 1] ELSE Flat[n] \o Layers[n + 1]
    <3>1. PICK k \in 1 .. Ncmds : k = n + 1
      BY <2>1
    <3>2. Flat[k] = IF k = 1 THEN Layers[k] ELSE Flat[k - 1] \o Layers[k]
      BY <1>1, <1>3, <2>1, FlatAt
    <3> QED
      BY <2>1, <3>1, <3>2
  <2>3. Layers[n + 1] = file[n + 1].sections /\ file[n + 1].sections \in Seq(SectionNames)
    BY <1>1, <2>1 DEF Layers
  <2>4. CASE n = 0
    <3>1. <<>> \o file[n + 1].sections = file[n + 1].sections
      BY <2>3, ConcatNone
    <3> QED
      BY <2>1, <2>2, <2>3, <2>4, <3>1 DEF UpTo
  <2>5. CASE n # 0
    <3>1. n + 1 # 1
      BY <2>5
    <3>2. Flat[n + 1] = Flat[n] \o file[n + 1].sections
      BY <2>2, <2>3, <3>1
    <3> QED
      BY <2>1, <2>5, <3>2, Zenon DEF UpTo
  <2> QED
    BY <2>4, <2>5
<1>6. \A n \in 0 .. Ncmds : UpTo(n) \in Seq(SectionNames)
  <2> DEFINE Bad == {n \in 0 .. Ncmds : UpTo(n) \notin Seq(SectionNames)}
  <2>1. SUFFICES ASSUME Bad # {} PROVE FALSE
    OBVIOUS
  <2>2. PICK m : m \in 0 .. Ncmds /\ UpTo(m) \notin Seq(SectionNames) /\ \A y \in Bad : m =< y
    <3>1. Bad \subseteq Nat
      OBVIOUS
    <3> HIDE DEF Bad
    <3>2. Min(Bad) \in Bad /\ \A y \in Bad : Min(Bad) =< y
      BY <2>1, <3>1, MinOf
    <3> QED
      BY <3>2 DEF Bad
  <2> HIDE DEF Bad
  <2>3. m # 0
    <3>1. UpTo(0) \in Seq(SectionNames)
      BY <1>4, EmptySeq
    <3>2. UpTo(m) \notin Seq(SectionNames)
      BY <2>2
    <3> QED
      BY <3>1, <3>2
  <2>4. /\ m - 1 \in 0 .. Ncmds /\ m - 1 \in 0 .. Ncmds - 1 /\ ~(m =< m - 1)
        /\ m - 1 + 1 = m /\ m \in 1 .. Ncmds
    <3>1. m \in 0 .. Ncmds
      BY <2>2
    <3> QED
      BY <1>1, <2>3, <3>1
  <2>5. UpTo(m - 1) \in Seq(SectionNames)
    <3>1. m - 1 \notin Bad
      BY <2>2, <2>4
    <3> QED
      BY <2>4, <3>1 DEF Bad
  <2>6. UpTo(m) = UpTo(m - 1) \o file[m].sections
    <3>1. PICK n \in 0 .. Ncmds - 1 : n = m - 1 /\ n + 1 = m
      BY <2>4
    <3> QED
      BY <1>5, <3>1
  <2>7. file[m].sections \in Seq(SectionNames)
    BY <1>1, <2>4
  <2> QED
    BY <2>2, <2>5, <2>6, <2>7, ConcatProperties
<1>7. AllSections(file) = UpTo(Ncmds)
  <2>1. CASE Ncmds = 0
    <3>1. FlattenSeq(Layers) = Layers
      BY <1>2, <2>1 DEF FlattenSeq
    <3>2. Layers = <<>>
      BY <1>2, <2>1, EmptySeq
    <3> QED
      BY <1>4, <2>1, <3>1, <3>2 DEF AllSections, Layers
  <2>2. CASE Ncmds # 0
    BY <1>3, <2>2 DEF AllSections, Layers, UpTo
  <2> QED
    BY <2>1, <2>2
<1> QED
  BY <1>4, <1>5, <1>6, <1>7

(* The loops' counters, each within what it counts.                        *)
MachoTypes ==
    /\ file \in MachoFiles /\ q \in Questions
    /\ pc \in {"SEGMENT", "SYMTAB", "done"}
    /\ i \in 0 .. Ncmds /\ j \in Nat
    /\ i = Ncmds => j = 0
    /\ pc = "SEGMENT" => /\ q.op # "symbols" /\ section_index = 0
                         /\ i < Ncmds => j =< Len(file[i + 1].sections)
    /\ pc = "SYMTAB" => /\ q.op # "sections"
                        /\ i < Ncmds => j =< Len(file[i + 1].symbols)
    /\ ret \in Seq(ToSet(ret))

(* What command_finder does: the next entry of the next command, or the    *)
(* next command when all the entries of this one are done.                 *)
LEMMA NextSegmentStep ==
    ASSUME MachoTypes, NextSegment
    PROVE  LET entries == file[i + 1].sections
           IN  /\ pc = "SEGMENT" /\ i < Ncmds /\ i + 1 \in 1 .. Ncmds
               /\ UNCHANGED <<file, q, pc, section_index>>
               /\ \/ /\ j < Len(entries) /\ j' = j + 1 /\ i' = i
                     /\ ret' = ret \o SectionShown(entries[j + 1])
                  \/ j = Len(entries) /\ j' = 0 /\ i' = i + 1 /\ ret' = ret
<1> DEFINE entries == file[i + 1].sections
<1>1. /\ pc = "SEGMENT" /\ i < Ncmds /\ UNCHANGED <<file, q, pc, section_index>>
      /\ IF file[i + 1].cmd = "SEGMENT" /\ j < Len(entries)
         THEN ret' = ret \o SectionShown(entries[j + 1]) /\ j' = j + 1 /\ UNCHANGED i
         ELSE i' = i + 1 /\ j' = 0 /\ UNCHANGED ret
  BY DEF NextSegment, NextEntry
<1>2. i + 1 \in 1 .. Ncmds /\ j \in Nat /\ j =< Len(entries)
  BY <1>1, MachoTables DEF MachoTypes
<1>3. Len(entries) \in Nat /\ (file[i + 1].cmd # "SEGMENT" => Len(entries) = 0)
  BY <1>2, MachoTables DEF MachoTypes
<1> HIDE DEF entries
<1>4. ~(file[i + 1].cmd = "SEGMENT" /\ j < Len(entries)) => j = Len(entries)
  BY <1>2, <1>3
<1> QED
  BY <1>1, <1>2, <1>4 DEF entries

LEMMA NextSymtabStep ==
    ASSUME MachoTypes, NextSymtab
    PROVE  LET entries == file[i + 1].symbols
           IN  /\ pc = "SYMTAB" /\ i < Ncmds /\ i + 1 \in 1 .. Ncmds
               /\ UNCHANGED <<file, q, pc, section_index>>
               /\ \/ /\ j < Len(entries) /\ j' = j + 1 /\ i' = i
                     /\ ret' = ret \o SymbolShown(entries[j + 1])
                  \/ j = Len(entries) /\ j' = 0 /\ i' = i + 1 /\ ret' = ret
<1> DEFINE entries == file[i + 1].symbols
<1>1. /\ pc = "SYMTAB" /\ i < Ncmds /\ UNCHANGED <<file, q, pc, section_index>>
      /\ IF file[i + 1].cmd = "SYMTAB" /\ j < Len(entries)
         THEN ret' = ret \o SymbolShown(entries[j + 1]) /\ j' = j + 1 /\ UNCHANGED i
         ELSE i' = i + 1 /\ j' = 0 /\ UNCHANGED ret
  BY DEF NextSymtab, NextEntry
<1>2. i + 1 \in 1 .. Ncmds /\ j \in Nat /\ j =< Len(entries)
  BY <1>1, MachoTables DEF MachoTypes
<1>3. Len(entries) \in Nat /\ (file[i + 1].cmd # "SYMTAB" => Len(entries) = 0)
  BY <1>2, MachoTables DEF MachoTypes
<1> HIDE DEF entries
<1>4. ~(file[i + 1].cmd = "SYMTAB" /\ j < Len(entries)) => j = Len(entries)
  BY <1>2, <1>3
<1> QED
  BY <1>1, <1>2, <1>4 DEF entries

LEMMA MachoNextTypes ==
    ASSUME MachoTypes, [MachoNext]_machoVars
    PROVE  MachoTypes'
<1> USE DEF MachoTypes
<1>a. /\ Ncmds \in Nat
      /\ \A k \in 1 .. Ncmds : Len(file[k].sections) \in Nat /\ Len(file[k].symbols) \in Nat
  BY MachoTables
<1>b. ASSUME UNCHANGED file PROVE Ncmds' = Ncmds
  BY <1>b DEF Ncmds
<1>c. \A x : /\ ret \o <<>> = ret
             /\ ret \o <<x>> \in Seq(ToSet(ret \o <<x>>))
  <2> TAKE x
  <2>1. Append(ret, x) \in Seq(ToSet(Append(ret, x)))
    BY AppendElements
  <2>2. ret \in Seq(ToSet(ret) \cup {x}) /\ x \in ToSet(ret) \cup {x}
    BY SeqMonotonic
  <2>3. ret \o <<x>> = Append(ret, x)
    BY <2>2, ConcatOne
  <2> QED
    BY <2>1, <2>3, ConcatNone
<1>1. CASE NextSegment
  <2> DEFINE L == Len(file[i + 1].sections)
  <2>1. /\ pc = "SEGMENT" /\ i < Ncmds /\ i + 1 \in 1 .. Ncmds
        /\ UNCHANGED <<file, q, pc, section_index>>
        /\ \/ j < L /\ j' = j + 1 /\ i' = i /\ \E x : ret' = ret \o <<>> \/ ret' = ret \o <<x>>
           \/ j = L /\ j' = 0 /\ i' = i + 1 /\ ret' = ret
    BY <1>1, NextSegmentStep DEF SectionShown
  <2>2. ret' \in Seq(ToSet(ret'))
    BY <1>c, <2>1
  <2>3. CASE j < L /\ j' = j + 1 /\ i' = i
    <3>1. PICK m \in Nat : j' = m /\ m =< L
      BY <1>a, <2>1, <2>3
    <3> QED
      BY <1>b, <2>1, <2>2, <2>3, <3>1
  <2>4. CASE j' = 0 /\ i' = i + 1
    <3>1. PICK n \in 0 .. Ncmds : i' = n
      BY <1>a, <2>1, <2>4
    <3>2. n < Ncmds => 0 =< Len(file[n + 1].sections)
      BY <1>a
    <3> QED
      BY <1>b, <2>1, <2>2, <2>4, <3>1, <3>2
  <2> QED
    BY <2>1, <2>3, <2>4
<1>2. CASE NextSymtab
  <2> DEFINE L == Len(file[i + 1].symbols)
  <2>1. /\ pc = "SYMTAB" /\ i < Ncmds /\ i + 1 \in 1 .. Ncmds
        /\ UNCHANGED <<file, q, pc, section_index>>
        /\ \/ j < L /\ j' = j + 1 /\ i' = i /\ \E x : ret' = ret \o <<>> \/ ret' = ret \o <<x>>
           \/ j = L /\ j' = 0 /\ i' = i + 1 /\ ret' = ret
    BY <1>2, NextSymtabStep DEF SymbolShown
  <2>2. ret' \in Seq(ToSet(ret'))
    BY <1>c, <2>1
  <2>3. CASE j < L /\ j' = j + 1 /\ i' = i
    <3>1. PICK m \in Nat : j' = m /\ m =< L
      BY <1>a, <2>1, <2>3
    <3> QED
      BY <1>b, <2>1, <2>2, <2>3, <3>1
  <2>4. CASE j' = 0 /\ i' = i + 1
    <3>1. PICK n \in 0 .. Ncmds : i' = n
      BY <1>a, <2>1, <2>4
    <3>2. n < Ncmds => 0 =< Len(file[n + 1].symbols)
      BY <1>a
    <3> QED
      BY <1>b, <2>1, <2>2, <2>4, <3>1, <3>2
  <2> QED
    BY <2>1, <2>3, <2>4
<1>3. CASE MachoFindSection
  <2>1. /\ pc = "SEGMENT" /\ i = Ncmds /\ q.op = "symbols_in" /\ j = 0
        /\ pc' \in {"SYMTAB", "done"} /\ i' = 0 /\ ret' = <<>> /\ UNCHANGED <<file, q, j>>
    BY <1>3 DEF MachoFindSection
  <2>2. 0 < Ncmds => 0 =< Len(file[0 + 1].symbols)
    BY <1>a
  <2> QED
    BY <1>a, <1>b, <2>1, <2>2
<1>4. CASE Return
  <2>1. pc' = "done" /\ UNCHANGED <<file, q, i, j, section_index, ret>>
    BY <1>4 DEF Return
  <2> QED
    BY <1>b, <2>1
<1>5. CASE UNCHANGED machoVars
  <2>1. UNCHANGED <<file, q, pc, i, j, section_index, ret>>
    BY <1>5 DEF machoVars
  <2> QED
    BY <1>b, <2>1
<1> QED
  BY <1>1, <1>2, <1>3, <1>4, <1>5 DEF MachoNext

(* The names of the sections that the loop has come by.                    *)
SoFar ==
    UpTo(i) \o (IF i < Ncmds THEN SubSeq(file[i + 1].sections, 1, j) ELSE <<>>)

(* x is shown for one of the symbols of the first n commands, or of the    *)
(* first m symbols of the next one.                                        *)
ShownFor(x, k, l) ==
    Wanted(file[k].symbols[l]) /\ x = Unprefixed(file[k].symbols[l].name)
ListedBy(x, n, m) ==
    \E k \in 1 .. Ncmds : \E l \in 1 .. Len(file[k].symbols) :
        (k =< n \/ (k = n + 1 /\ l =< m)) /\ ShownFor(x, k, l)

MachoListed ==
    /\ pc = "SEGMENT" => ret = SoFar
    /\ pc = "SYMTAB" =>
          /\ q.op = "symbols" => section_index = 0
          /\ q.op = "symbols_in" => section_index # 0
          /\ \A x : x \in ToSet(ret) <=> ListedBy(x, i, j)
    /\ section_index # 0 => /\ section_index \in 1 .. Len(AllSections(file))
                            /\ AllSections(file)[section_index] = q.wanted
    /\ MachoAnswered

LEMMA OneMore ==
    ASSUME NEW S, NEW u \in Seq(S), NEW s \in Seq(S), NEW n \in 0 .. Len(s) - 1
    PROVE  (u \o SubSeq(s, 1, n)) \o <<s[n + 1]>> = u \o SubSeq(s, 1, n + 1)
<1>1. n + 1 \in 1 .. Len(s) /\ n + 1 - 1 = n
  OBVIOUS
<1>2. SubSeq(s, 1, n) \in Seq(S) /\ <<s[n + 1]>> \in Seq(S)
  BY <1>1
<1>3. SubSeq(s, 1, n) \o <<s[n + 1]>> = SubSeq(s, 1, n + 1)
  BY <1>1, SubSeqRecursiveSecond
<1>4. \A a, b \in Seq(S) : (u \o a) \o b = u \o (a \o b)
  BY ConcatAssociative
<1>5. (u \o SubSeq(s, 1, n)) \o <<s[n + 1]>> = u \o (SubSeq(s, 1, n) \o <<s[n + 1]>>)
  BY <1>2, <1>4, Zenon
<1> QED
  BY <1>3, <1>5, Zenon

LEMMA SoFarAll ==
    ASSUME file \in MachoFiles, i = Ncmds
    PROVE  SoFar = AllSections(file)
<1>1. Ncmds \in Nat
  BY MachoTables
<1>2. AllSections(file) = UpTo(i) /\ UpTo(i) \in Seq(SectionNames)
  BY <1>1, MachoPrefixes
<1>3. SoFar = UpTo(i) \o <<>>
  <2>1. ~(i < Ncmds)
    BY <1>1
  <2> QED
    BY <2>1, Zenon DEF SoFar
<1> QED
  BY <1>2, <1>3, ConcatNone

LEMMA SoFarMoves ==
    ASSUME file \in MachoFiles, NEW n \in 0 .. Ncmds - 1
    PROVE  LET s == file[n + 1].sections
           IN  /\ UpTo(n) \o SubSeq(s, 1, Len(s)) = UpTo(n + 1)
               /\ \A m \in 0 .. Len(s) - 1 :
                     (UpTo(n) \o SubSeq(s, 1, m)) \o <<s[m + 1]>> = UpTo(n) \o SubSeq(s, 1, m + 1)
<1> DEFINE s == file[n + 1].sections
<1>1. /\ n + 1 \in 1 .. Ncmds /\ n \in 0 .. Ncmds
  BY MachoTables
<1>2. s \in Seq(SectionNames) /\ UpTo(n) \in Seq(SectionNames)
  BY <1>1, MachoTables, MachoPrefixes
<1>3. UpTo(n + 1) = UpTo(n) \o s
  BY MachoPrefixes
<1> HIDE DEF s
<1>4. SubSeq(s, 1, Len(s)) = s
  BY <1>2, SubSeqFull
<1>5. \A m \in 0 .. Len(s) - 1 :
          (UpTo(n) \o SubSeq(s, 1, m)) \o <<s[m + 1]>> = UpTo(n) \o SubSeq(s, 1, m + 1)
  BY <1>2, OneMore
<1> QED
  BY <1>3, <1>4, <1>5 DEF s

LEMMA ListedMoves ==
    ASSUME file \in MachoFiles, NEW n \in 0 .. Ncmds - 1, NEW x
    PROVE  /\ \A m \in 0 .. Len(file[n + 1].symbols) - 1 :
                  ListedBy(x, n, m + 1) <=> ListedBy(x, n, m) \/ ShownFor(x, n + 1, m + 1)
           /\ ListedBy(x, n + 1, 0) <=> ListedBy(x, n, Len(file[n + 1].symbols))
<1>1. /\ n + 1 \in 1 .. Ncmds /\ Ncmds \in Nat
      /\ \A k \in 1 .. Ncmds : Len(file[k].symbols) \in Nat
  BY MachoTables
<1>2. ASSUME NEW m \in 0 .. Len(file[n + 1].symbols) - 1
      PROVE  ListedBy(x, n, m + 1) <=> ListedBy(x, n, m) \/ ShownFor(x, n + 1, m + 1)
  <2>1. m + 1 \in 1 .. Len(file[n + 1].symbols) /\ m \in Nat /\ n \in Nat
    BY <1>1
  <2>2. \A l \in Nat : l =< m + 1 <=> l =< m \/ l = m + 1
    BY <2>1
  <2> QED
    BY <1>1, <2>1, <2>2 DEF ListedBy
<1>3. ListedBy(x, n + 1, 0) <=> ListedBy(x, n, Len(file[n + 1].symbols))
  <2>1. ASSUME NEW k \in 1 .. Ncmds, NEW l \in 1 .. Len(file[k].symbols)
        PROVE  (k =< n + 1 \/ (k = n + 1 + 1 /\ l =< 0))
                 <=> (k =< n \/ (k = n + 1 /\ l =< Len(file[n + 1].symbols)))
    BY <1>1
  <2> QED
    BY <2>1 DEF ListedBy
<1> QED
  BY <1>2, <1>3

LEMMA MachoAnswers ==
    ASSUME MachoTypes, MachoListed, SymbolsExternal, MachoSectionsApart
    PROVE  /\ q.op = "sections" => Answer(MachoContent) = ToSet(AllSections(file))
           /\ q.op = "symbols" /\ section_index = 0 =>
                 \A x : x \in Answer(MachoContent) <=> ListedBy(x, Ncmds, 0)
           /\ q.op = "symbols_in" /\ section_index # 0 =>
                 \A x : x \in Answer(MachoContent) <=> ListedBy(x, Ncmds, 0)
           /\ q.op = "symbols_in" /\ q.wanted \notin ToSet(AllSections(file)) =>
                 Answer(MachoContent) = {}
<1> DEFINE Y == UNION {{y \in ToSet(file[k].symbols) : y.name # <<>>} : k \in DOMAIN file}
           symbol(y) == [name     |-> Unprefixed(y.name),
                         exported |-> y.external /\ y.type = "SECT",
                         section  |-> IF y.type = "SECT" THEN y.sect ELSE 0]
           A == AllSections(file)
           C == MachoContent.symbols
<1>1. /\ Ncmds \in Nat /\ DOMAIN file = 1 .. Ncmds
      /\ \A k \in 1 .. Ncmds : DOMAIN file[k].symbols = 1 .. Len(file[k].symbols)
  BY MachoTables DEF MachoTypes
<1>2. A \in Seq(SectionNames) /\ DOMAIN A = 1 .. Len(A) /\ Len(A) \in Nat
  <2>1. A \in Seq(SectionNames)
    BY <1>1, MachoPrefixes DEF MachoTypes
  <2> HIDE DEF A
  <2> QED
    BY <2>1
<1>3. MachoContent.sections = A /\ C = {symbol(y) : y \in Y}
  BY DEF MachoContent
<1>4. /\ Sections(MachoContent) = ToSet(A)
      /\ Symbols(MachoContent) = {r.name : r \in {s \in C : s.exported}}
      /\ SymbolsIn(MachoContent, q.wanted) = {r.name : r \in {s \in C :
            s.exported /\ s.section \in 1 .. Len(A) /\ A[s.section] = q.wanted}}
  BY <1>2, <1>3 DEF Sections, Symbols, SymbolsIn
<1>5. /\ q.op = "sections" => Answer(MachoContent) = Sections(MachoContent)
      /\ q.op = "symbols" => Answer(MachoContent) = Symbols(MachoContent)
      /\ q.op = "symbols_in" => Answer(MachoContent) = SymbolsIn(MachoContent, q.wanted)
  BY DEF Answer
<1>6. \A y : /\ symbol(y).name = Unprefixed(y.name)
             /\ symbol(y).exported <=> y.external /\ y.type = "SECT"
             /\ y.type = "SECT" => symbol(y).section = y.sect
  OBVIOUS
<1>7. \A y : y \in Y <=> /\ y.name # <<>>
                         /\ \E k \in 1 .. Ncmds : \E l \in 1 .. Len(file[k].symbols) :
                               y = file[k].symbols[l]
  BY <1>1 DEF ToSet
<1>8. ASSUME NEW y \in Y, y.type = "SECT" PROVE y.external /\ y.sect # 0
  BY <1>8 DEF SymbolsExternal, MachoTypes
<1> DEFINE shown(x) == \E y \in Y : Wanted(y) /\ x = Unprefixed(y.name)
<1> HIDE DEF symbol, Y, C, A
<1>9. ASSUME NEW x PROVE ListedBy(x, Ncmds, 0) <=> shown(x)
  <2>1. ASSUME ListedBy(x, Ncmds, 0) PROVE shown(x)
    <3>1. PICK k \in 1 .. Ncmds : \E l \in 1 .. Len(file[k].symbols) : ShownFor(x, k, l)
      BY <2>1 DEF ListedBy
    <3>2. PICK l \in 1 .. Len(file[k].symbols) : ShownFor(x, k, l)
      BY <3>1
    <3> DEFINE y == file[k].symbols[l]
    <3>3. Wanted(y) /\ x = Unprefixed(y.name)
      BY <3>2 DEF ShownFor
    <3>4. y \in Y
      BY <1>7, <3>3 DEF Wanted
    <3> QED
      BY <3>3, <3>4
  <2>2. ASSUME NEW y \in Y, Wanted(y), x = Unprefixed(y.name)
        PROVE  ListedBy(x, Ncmds, 0)
    <3>1. PICK k \in 1 .. Ncmds : \E l \in 1 .. Len(file[k].symbols) : y = file[k].symbols[l]
      BY <1>7
    <3>2. PICK l \in 1 .. Len(file[k].symbols) : y = file[k].symbols[l]
      BY <3>1
    <3>3. ShownFor(x, k, l) /\ k =< Ncmds
      BY <1>1, <2>2, <3>2 DEF ShownFor
    <3> QED
      BY <3>3 DEF ListedBy
  <2> QED
    BY <2>1, <2>2
<1>n. \A x, y : x = symbol(y).name <=> x = Unprefixed(y.name)
  BY <1>6
<1>10. ASSUME section_index = 0
       PROVE  \A x : x \in Symbols(MachoContent) <=> ListedBy(x, Ncmds, 0)
  <2> DEFINE inSymbols(y) == symbol(y).exported
  <2>1. \A x : x \in Symbols(MachoContent) <=> \E r \in C : r.exported /\ x = r.name
    BY <1>4
  <2>2. \A x : x \in Symbols(MachoContent)
                 <=> \E y \in Y : inSymbols(y) /\ x = symbol(y).name
    BY <1>3, <2>1
  <2>3. ASSUME NEW y \in Y PROVE inSymbols(y) <=> Wanted(y)
    <3>1. symbol(y).exported <=> y.type = "SECT"
      BY <1>6, <1>8, Zenon
    <3>2. Wanted(y) <=> y.type = "SECT"
      BY <1>7, <1>8, <1>10 DEF Wanted
    <3> QED
      BY <3>1, <3>2
  <2> HIDE DEF inSymbols
  <2>4. \A x : x \in Symbols(MachoContent) <=> shown(x)
    BY <2>2, <2>3, <1>n, Zenon
  <2> QED
    BY <1>9, <2>4
<1>11. ASSUME q.op = "symbols_in"
       PROVE  /\ section_index # 0 =>
                    \A x : x \in SymbolsIn(MachoContent, q.wanted) <=> ListedBy(x, Ncmds, 0)
              /\ q.wanted \notin ToSet(A) => SymbolsIn(MachoContent, q.wanted) = {}
  <2> DEFINE inSymbols(y) == /\ symbol(y).exported /\ symbol(y).section \in 1 .. Len(A)
                             /\ A[symbol(y).section] = q.wanted
  <2>1. \A x : x \in SymbolsIn(MachoContent, q.wanted)
                 <=> \E r \in C : /\ r.exported /\ r.section \in 1 .. Len(A)
                                  /\ A[r.section] = q.wanted /\ x = r.name
    BY <1>4
  <2>2. \A x : x \in SymbolsIn(MachoContent, q.wanted)
                 <=> \E y \in Y : inSymbols(y) /\ x = symbol(y).name
    BY <1>3, <2>1
  <2>3. ASSUME NEW y \in Y
        PROVE  inSymbols(y) <=> /\ y.type = "SECT" /\ y.sect \in 1 .. Len(A)
                                /\ A[y.sect] = q.wanted
    <3>1. symbol(y).exported <=> y.type = "SECT"
      BY <1>6, <1>8, Zenon
    <3>2. y.type = "SECT" => symbol(y).section = y.sect
      BY <1>6
    <3> QED
      BY <3>1, <3>2, Zenon
  <2>4. ASSUME section_index # 0
        PROVE  \A x : x \in SymbolsIn(MachoContent, q.wanted) <=> ListedBy(x, Ncmds, 0)
    <3>1. section_index \in 1 .. Len(A) /\ A[section_index] = q.wanted
      BY <2>4 DEF MachoListed, A
    <3>2. \A m, n \in 1 .. Len(A) : A[m] = q.wanted /\ A[n] = q.wanted => m = n
      BY <1>2, <1>11 DEF MachoSectionsApart, MachoTypes, A
    <3>3. ASSUME NEW y \in Y PROVE inSymbols(y) <=> Wanted(y)
      <4>1. y.sect \in 1 .. Len(A) /\ A[y.sect] = q.wanted <=> y.sect = section_index
        BY <3>1, <3>2
      <4>2. y.name # <<>> /\ (y.type = "SECT" => y.sect # 0)
        BY <1>7, <1>8
      <4>3. Wanted(y) <=> y.type = "SECT" /\ y.sect = section_index
        BY <4>2, <2>4 DEF Wanted
      <4> QED
        BY <2>3, <4>1, <4>3
    <3> HIDE DEF inSymbols
    <3>4. \A x : x \in SymbolsIn(MachoContent, q.wanted) <=> shown(x)
      BY <2>2, <3>3, <1>n, Zenon
    <3> QED
      BY <1>9, <3>4
  <2>5. ASSUME q.wanted \notin ToSet(A) PROVE SymbolsIn(MachoContent, q.wanted) = {}
    <3>1. \A n \in 1 .. Len(A) : A[n] # q.wanted
      BY <1>2, <2>5 DEF ToSet
    <3>2. \A y \in Y : ~inSymbols(y)
      BY <2>3, <3>1
    <3> HIDE DEF inSymbols
    <3> QED
      BY <2>2, <3>2
  <2> QED
    BY <2>4, <2>5
<1> QED
  BY <1>4, <1>5, <1>10, <1>11 DEF A

LEMMA MachoNextListed ==
    ASSUME MachoSectionsApart, SymbolsExternal, MachoTypes, MachoListed,
           [MachoNext]_machoVars
    PROVE  MachoListed'
<1>a. /\ Ncmds \in Nat /\ DOMAIN file = 1 .. Ncmds /\ file \in MachoFiles
      /\ \A k \in 1 .. Ncmds : /\ Len(file[k].sections) \in Nat
                               /\ Len(file[k].symbols) \in Nat
                               /\ file[k].sections \in Seq(SectionNames)
                               /\ DOMAIN file[k].symbols = 1 .. Len(file[k].symbols)
  BY MachoTables DEF MachoTypes
<1>b. ASSUME UNCHANGED file
      PROVE  /\ Ncmds' = Ncmds /\ AllSections(file)' = AllSections(file)
             /\ \A n : UpTo(n)' = UpTo(n)
  BY <1>b DEF Ncmds, AllSections, UpTo, Flat, Layers, IsFlat
<1>c. ASSUME UNCHANGED <<file, q>>
      PROVE  Answer(MachoContent)' = Answer(MachoContent)
  <2>1. MachoContent' = MachoContent
    BY <1>c DEF MachoContent
  <2> QED
    BY <1>c, <2>1 DEF Answer, Sections, Symbols, SymbolsIn
<1>d. ASSUME UNCHANGED <<file, section_index>>
      PROVE  \A x, n, m : ListedBy(x, n, m)' <=> ListedBy(x, n, m)
  BY <1>d DEF ListedBy, ShownFor, Wanted, Ncmds
<1>e. \A x : /\ ToSet(ret \o <<>>) = ToSet(ret)
             /\ ToSet(ret \o <<x>>) = ToSet(ret) \cup {x}
  <2> TAKE x
  <2>1. ToSet(Append(ret, x)) = ToSet(ret) \cup {x}
    BY AppendElements DEF MachoTypes
  <2>2. ret \in Seq(ToSet(ret) \cup {x}) /\ x \in ToSet(ret) \cup {x}
    BY SeqMonotonic DEF MachoTypes
  <2>3. ret \o <<x>> = Append(ret, x) /\ ret \o <<>> = ret
    BY <2>2, ConcatOne, ConcatNone
  <2> QED
    BY <2>1, <2>3
<1>1. CASE NextSegment
  <2> DEFINE s == file[i + 1].sections
  <2>1. /\ pc = "SEGMENT" /\ i < Ncmds /\ i + 1 \in 1 .. Ncmds
        /\ UNCHANGED <<file, q, pc, section_index>>
        /\ \/ /\ j < Len(s) /\ j' = j + 1 /\ i' = i
              /\ ret' = ret \o SectionShown(s[j + 1])
           \/ j = Len(s) /\ j' = 0 /\ i' = i + 1 /\ ret' = ret
    BY <1>1, NextSegmentStep
  <2>2. /\ ret = UpTo(i) \o SubSeq(s, 1, j) /\ i \in 0 .. Ncmds - 1
        /\ Len(s) \in Nat /\ j \in Nat
    BY <1>a, <2>1 DEF MachoListed, SoFar, MachoTypes
  <2>3. ASSUME ret' = SoFar' PROVE MachoListed'
    BY <1>b, <2>1, <2>3 DEF MachoListed, MachoAnswered
  <2>4. CASE j < Len(s) /\ j' = j + 1 /\ i' = i /\ ret' = ret \o SectionShown(s[j + 1])
    <3>1. j \in 0 .. Len(s) - 1 /\ j + 1 \in 1 .. Len(s)
      BY <2>2, <2>4
    <3>2. s[j + 1] # <<>>
      <4>1. <<>> \notin ToSet(s)
        BY <1>a, <2>1 DEF MachoSectionsApart
      <4>2. DOMAIN s = 1 .. Len(s)
        BY <1>a, <2>1
      <4> QED
        BY <3>1, <4>1, <4>2 DEF ToSet
    <3>3. ret' = ret \o <<s[j + 1]>>
      BY <2>4, <3>2 DEF SectionShown
    <3>4. ret' = UpTo(i) \o SubSeq(s, 1, j + 1)
      BY <1>a, <2>2, <3>1, <3>3, SoFarMoves
    <3>5. SoFar' = UpTo(i) \o SubSeq(s, 1, j + 1)
      BY <1>b, <2>1, <2>4 DEF SoFar
    <3> QED
      BY <2>3, <3>4, <3>5
  <2>5. CASE j = Len(s) /\ j' = 0 /\ i' = i + 1 /\ ret' = ret
    <3>1. PICK n \in 0 .. Ncmds : i' = n /\ n = i + 1
      BY <1>a, <2>1, <2>5
    <3>2. ret' = UpTo(n)
      BY <1>a, <2>2, <2>5, <3>1, SoFarMoves
    <3>3. UpTo(n) \in Seq(SectionNames)
      BY <1>a, MachoPrefixes
    <3>4. SubSeq(file[n + 1].sections, 1, 0) = <<>>
      BY SubSeqEmpty
    <3>5. SoFar' = UpTo(n) \o <<>>
      BY <1>b, <2>1, <2>5, <3>1, <3>4 DEF SoFar
    <3>6. UpTo(n) \o <<>> = UpTo(n)
      BY <3>3, ConcatNone
    <3> QED
      BY <2>3, <3>2, <3>5, <3>6
  <2> QED
    BY <2>1, <2>4, <2>5
<1>2. CASE MachoFindSection
  <2> DEFINE A == AllSections(file)
             I == {n \in 1 .. Len(A) : A[n] = q.wanted}
  <2>1. /\ pc = "SEGMENT" /\ i = Ncmds /\ q.op = "symbols_in" /\ j = 0
        /\ section_index' = SelectInSeq(ret, LAMBDA name : name = q.wanted)
        /\ pc' = IF section_index' = 0 THEN "done" ELSE "SYMTAB"
        /\ i' = 0 /\ ret' = <<>> /\ UNCHANGED <<file, q, j>>
    BY <1>2 DEF MachoFindSection, MachoTypes
  <2>2. ret = A /\ A \in Seq(SectionNames) /\ Len(A) \in Nat /\ DOMAIN A = 1 .. Len(A)
    <3>1. A = UpTo(Ncmds) /\ UpTo(Ncmds) \in Seq(SectionNames)
      BY <1>a, MachoPrefixes
    <3>2. ret = A
      BY <1>a, <2>1, SoFarAll DEF MachoListed
    <3> HIDE DEF A
    <3> QED
      BY <3>1, <3>2
  <2>3. section_index' = IF I # {} THEN Min(I) ELSE 0
    BY <2>1, <2>2 DEF SelectInSeq
  <2>4. /\ section_index' # 0 => /\ section_index' \in 1 .. Len(A)
                                 /\ A[section_index'] = q.wanted
        /\ section_index' = 0 => q.wanted \notin ToSet(A)
    <3>1. CASE I = {}
      BY <2>2, <2>3, <3>1 DEF ToSet
    <3>2. CASE I # {}
      <4>1. I \subseteq Nat
        OBVIOUS
      <4>2. Min(I) \in I
        BY <3>2, <4>1, MinOf
      <4> DEFINE m == Min(I)
      <4>3. section_index' = m /\ m \in I
        BY <2>3, <3>2, <4>2
      <4> HIDE DEF m
      <4> QED
        BY <4>3
    <3> QED
      BY <3>1, <3>2
  <2>5. ToSet(ret') = {}
    BY <2>1 DEF ToSet
  <2> HIDE DEF A, I
  <2>6. CASE section_index' = 0
    <3>1. Answer(MachoContent) = {}
      BY <2>1, <2>4, <2>6, MachoAnswers DEF A
    <3> QED
      BY <1>c, <2>1, <2>5, <2>6, <3>1 DEF MachoListed, MachoAnswered
  <2>7. CASE section_index' # 0
    <3>1. ASSUME NEW x PROVE ~ListedBy(x, 0, 0)'
      <4>1. ASSUME NEW k \in 1 .. Ncmds, NEW l \in 1 .. Len(file[k].symbols)
            PROVE  ~(k =< 0 \/ (k = 0 + 1 /\ l =< 0))
        OBVIOUS
      <4> QED
        BY <1>b, <2>1, <4>1 DEF ListedBy
    <3>2. \A x : x \in ToSet(ret') <=> ListedBy(x, i, j)'
      BY <2>1, <2>5, <3>1
    <3> QED
      BY <1>b, <2>1, <2>4, <2>7, <3>2 DEF MachoListed, MachoAnswered, A
  <2> QED
    BY <2>6, <2>7
<1>3. CASE NextSymtab
  <2> DEFINE s == file[i + 1].symbols
  <2>1. /\ pc = "SYMTAB" /\ i < Ncmds /\ i + 1 \in 1 .. Ncmds
        /\ UNCHANGED <<file, q, pc, section_index>>
        /\ \/ /\ j < Len(s) /\ j' = j + 1 /\ i' = i
              /\ ret' = ret \o SymbolShown(s[j + 1])
           \/ j = Len(s) /\ j' = 0 /\ i' = i + 1 /\ ret' = ret
    BY <1>3, NextSymtabStep
  <2>2. /\ \A x : x \in ToSet(ret) <=> ListedBy(x, i, j)
        /\ i \in 0 .. Ncmds - 1 /\ Len(s) \in Nat /\ j \in Nat
    BY <1>a, <2>1 DEF MachoListed, MachoTypes
  <2>3. ASSUME \A x : x \in ToSet(ret') <=> ListedBy(x, i, j)' PROVE MachoListed'
    BY <1>b, <2>1, <2>3 DEF MachoListed, MachoAnswered
  <2>4. CASE j < Len(s) /\ j' = j + 1 /\ i' = i /\ ret' = ret \o SymbolShown(s[j + 1])
    <3>1. PICK m \in 0 .. Len(s) - 1 : m = j
      BY <2>2, <2>4
    <3>2. \A x : x \in ToSet(ret') <=> x \in ToSet(ret) \/ ShownFor(x, i + 1, m + 1)
      BY <1>e, <2>4, <3>1 DEF SymbolShown, ShownFor
    <3>3. \A x : ListedBy(x, i, m + 1) <=> ListedBy(x, i, m) \/ ShownFor(x, i + 1, m + 1)
      BY <1>a, <2>2, ListedMoves
    <3>4. \A x : x \in ToSet(ret') <=> ListedBy(x, i, m + 1)
      BY <2>2, <3>1, <3>2, <3>3
    <3>5. \A x : ListedBy(x, i, j)' <=> ListedBy(x, i, m + 1)
      BY <1>d, <2>1, <2>4, <3>1
    <3> QED
      BY <2>3, <3>4, <3>5
  <2>5. CASE j = Len(s) /\ j' = 0 /\ i' = i + 1 /\ ret' = ret
    <3>1. \A x : ListedBy(x, i + 1, 0) <=> ListedBy(x, i, Len(s))
      BY <1>a, <2>2, ListedMoves
    <3>2. \A x : ListedBy(x, i, j)' <=> ListedBy(x, i + 1, 0)
      BY <1>d, <2>1, <2>5
    <3>3. \A x : x \in ToSet(ret') <=> ListedBy(x, i, Len(s))
      BY <2>2, <2>5
    <3> QED
      BY <2>3, <3>1, <3>2, <3>3
  <2> QED
    BY <2>1, <2>4, <2>5
<1>4. CASE Return
  <2>1. /\ i = Ncmds /\ j = 0
        /\ pc = "SYMTAB" \/ (pc = "SEGMENT" /\ q.op = "sections")
        /\ pc' = "done" /\ UNCHANGED <<file, q, i, j, section_index, ret>>
    BY <1>4 DEF Return, MachoTypes
  <2>2. ToSet(ret) = Answer(MachoContent)
    <3>1. CASE pc = "SEGMENT"
      <4>1. ret = AllSections(file)
        BY <1>a, <2>1, <3>1, SoFarAll DEF MachoListed
      <4> QED
        BY <2>1, <3>1, <4>1, MachoAnswers
    <3>2. CASE pc = "SYMTAB"
      <4>1. /\ q.op = "symbols" => section_index = 0
            /\ q.op = "symbols_in" => section_index # 0
            /\ \A x : x \in ToSet(ret) <=> ListedBy(x, Ncmds, 0)
        BY <2>1, <3>2 DEF MachoListed
      <4>2. q.op \in {"symbols", "symbols_in"}
        BY <3>2, QuestionsAssumption DEF MachoTypes
      <4>3. \A x : x \in Answer(MachoContent) <=> ListedBy(x, Ncmds, 0)
        BY <4>1, <4>2, MachoAnswers
      <4> QED
        BY <4>1, <4>3
    <3> QED
      BY <2>1, <3>1, <3>2
  <2> QED
    BY <1>b, <1>c, <2>1, <2>2 DEF MachoListed, MachoAnswered
<1>5. CASE UNCHANGED machoVars
  <2>1. UNCHANGED <<file, q, pc, i, j, section_index, ret>>
    BY <1>5 DEF machoVars
  <2>2. SoFar' = SoFar
    BY <1>b, <2>1 DEF SoFar
  <2>3. \A x : ListedBy(x, i, j)' <=> ListedBy(x, i, j)
    BY <1>d, <2>1
  <2> QED
    BY <1>b, <1>c, <2>1, <2>2, <2>3 DEF MachoListed, MachoAnswered
<1> QED
  BY <1>1, <1>2, <1>3, <1>4, <1>5 DEF MachoNext

(* Every call to a Mach-O file's parser answers what library_info          *)
(* promises, however many segments there are, in whatever order the load   *)
(* commands come, of files whose sections have names, one of each that is  *)
(* asked for, and in which only external symbols are in a section; of      *)
(* others it does not: MachoInfo_divergences.cfg is the counterexample.    *)
THEOREM MachoInvCorrect ==
    ASSUME MachoSectionsApart, SymbolsExternal
    PROVE  MachoSpec => []MachoInv
<1> DEFINE Inv == MachoTypes /\ MachoListed
<1>1. ASSUME MachoInit PROVE Inv
  <2>1. /\ file \in MachoFiles /\ q \in Questions /\ i = 0 /\ j = 0
        /\ section_index = 0 /\ ret = <<>>
        /\ pc = IF q.op = "symbols" THEN "SYMTAB" ELSE "SEGMENT"
    BY <1>1 DEF MachoInit
  <2>2. /\ Ncmds \in Nat
        /\ \A k \in 1 .. Ncmds : /\ Len(file[k].sections) \in Nat
                                 /\ Len(file[k].symbols) \in Nat
    BY <2>1, MachoTables
  <2>3. MachoTypes
    <3>1. 0 < Ncmds => 0 =< Len(file[0 + 1].sections) /\ 0 =< Len(file[0 + 1].symbols)
      BY <2>2
    <3> QED
      BY <2>1, <2>2, <3>1, QuestionsAssumption DEF MachoTypes
  <2>4. SoFar = <<>>
    <3>1. UpTo(0) = <<>> /\ SubSeq(file[0 + 1].sections, 1, 0) = <<>>
      BY <2>1, MachoPrefixes, SubSeqEmpty
    <3>2. <<>> \o <<>> = <<>>
      OBVIOUS
    <3> QED
      BY <2>1, <3>1, <3>2 DEF SoFar
  <2>5. ASSUME NEW x PROVE x \in ToSet(ret) <=> ListedBy(x, i, j)
    <3>1. ASSUME NEW k \in 1 .. Ncmds, NEW l \in 1 .. Len(file[k].symbols)
          PROVE  ~(k =< 0 \/ (k = 0 + 1 /\ l =< 0))
      OBVIOUS
    <3> QED
      BY <2>1, <3>1 DEF ListedBy, ToSet
  <2> QED
    BY <2>1, <2>3, <2>4, <2>5 DEF MachoListed, MachoAnswered
<1>2. Inv /\ [MachoNext]_machoVars => Inv'
  BY MachoNextTypes, MachoNextListed
<1>3. Inv => MachoInv
  <2>1. Inv => AllSections(file) \in Seq(SectionNames)
    BY MachoTables, MachoPrefixes DEF MachoTypes
  <2>2. Inv => Len(AllSections(file)) \in Nat /\ MachoContent.sections = AllSections(file)
    BY <2>1 DEF MachoContent
  <2> QED
    BY <2>2 DEF MachoTypes, MachoListed, MachoInv, MachoTypeOK
<1> QED
  BY <1>1, <1>2, <1>3, PTL DEF MachoSpec
=============================================================================
