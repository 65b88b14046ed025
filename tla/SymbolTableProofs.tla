-------------------------- MODULE SymbolTableProofs --------------------------
(***************************************************************************)
(* From the file to the table of its names, on every platform and for      *)
(* every set of files: library_info takes a file for what it is, and the   *)
(* storage that is filled from it goes with the library, takes sequences   *)
(* of overloads apart as import_mangled promises, and finds by a name of   *)
(* the Itanium ABI what has that name and nothing else.                    *)
(***************************************************************************)
EXTENDS LibraryInfo, MangledStorage, FiniteSetTheorems, SequenceTheorems,
        WellFoundedInduction, TLAPS

-----------------------------------------------------------------------------
(* library_info.  The order of the six tests matters: what is known when a *)
(* test is reached is what the earlier ones have ruled out.                *)

LEMMA FormatsFacts ==
    /\ DOMAIN Formats = 1 .. 6 /\ Len(Formats) = 6
    /\ Formats[1] = "elf32" /\ Formats[2] = "elf64" /\ Formats[3] = "pe32"
    /\ Formats[4] = "pe64" /\ Formats[5] = "macho32" /\ Formats[6] = "macho64"
    /\ KnownFormats = {"elf32", "elf64", "pe32", "pe64", "macho32", "macho64"}
<1>1. /\ DOMAIN Formats = 1 .. 6 /\ Len(Formats) = 6
      /\ Formats[1] = "elf32" /\ Formats[2] = "elf64" /\ Formats[3] = "pe32"
      /\ Formats[4] = "pe64" /\ Formats[5] = "macho32" /\ Formats[6] = "macho64"
  BY DEF Formats
<1>2. 1 .. 6 = {1, 2, 3, 4, 5, 6}
  OBVIOUS
<1> QED
  BY <1>1, <1>2 DEF KnownFormats

LEMMA FormatsDiffer ==
    \A j, k \in 1 .. 6 : Formats[j] = Formats[k] => j = k
<1> SUFFICES ASSUME NEW j \in 1 .. 6, NEW k \in 1 .. 6, Formats[j] = Formats[k]
             PROVE  j = k
  OBVIOUS
<1>1. j \in {1, 2, 3, 4, 5, 6} /\ k \in {1, 2, 3, 4, 5, 6}
  OBVIOUS
<1> QED
  BY <1>1, FormatsFacts

(* A format that is not foreign is one the platform loads, and the other   *)
(* way round: the tests exclude, Loadable says what is left.               *)
LEMMA NotForeignIsLoadable ==
    ASSUME platform \in Platforms, NEW format \in KnownFormats
    PROVE  Foreign(format) <=> ~Loadable(format)
<1>1. /\ platform.os \in {"windows", "macos", "linux"}
      /\ platform.is32bit \in BOOLEAN
  BY InfoAssumption
<1>2. format \in {"elf32", "elf64", "pe32", "pe64", "macho32", "macho64"}
  BY FormatsFacts
<1>3. CASE platform.os = "windows"
  BY <1>1, <1>2, <1>3 DEF Foreign, Loadable, Elf, Pe, Macho
<1>4. CASE platform.os = "macos"
  BY <1>1, <1>2, <1>4 DEF Foreign, Loadable, Elf, Pe, Macho
<1>5. CASE platform.os = "linux"
  BY <1>1, <1>2, <1>5 DEF Foreign, Loadable, Elf, Pe, Macho
<1> QED
  BY <1>1, <1>3, <1>4, <1>5

-----------------------------------------------------------------------------
(* When a format is to be tried, the file has none of the earlier ones.    *)
RuledOut == \A k \in DOMAIN Formats : pc = Formats[k] =>
               \A j \in 1 .. k - 1 : file.magic # Formats[j]

IInv == /\ platform \in Platforms /\ file \in Files
        /\ InfoTypeOK /\ AnswersAreWhole /\ RefusedForCause
        /\ OpenedAsWhatItIs /\ RuledOut

LEMMA InitIInv == Init => IInv
<1> SUFFICES ASSUME Init PROVE IInv
  OBVIOUS
<1>1. "open" \notin KnownFormats /\ "none" \notin KnownFormats
  BY FormatsFacts
<1>2. RuledOut
  BY <1>1 DEF Init, RuledOut, KnownFormats
<1>3. RefusedForCause
  BY DEF Init, RefusedForCause
<1> QED
  BY <1>1, <1>2, <1>3
     DEF Init, IInv, InfoTypeOK, AnswersAreWhole, OpenedAsWhatItIs, Thrown

LEMMA OpenKeepsIInv ==
    ASSUME IInv, Open PROVE IInv'
<1>1. UNCHANGED <<platform, file, native, fmt, stream, ret>> /\ pc = "open"
  BY DEF Open
<1>2. pc' \in {"no_file", "elf32"}
  BY DEF Open, Formats
<1>3. /\ fmt = "none" /\ stream = "good" /\ ret.by = "none"
      /\ ret.call = "none"
  BY <1>1 DEF IInv, InfoTypeOK
<1>4. RuledOut'
  <2> SUFFICES ASSUME NEW k \in DOMAIN Formats, pc' = Formats[k]
               PROVE  \A j \in 1 .. k - 1 : file'.magic # Formats[j]
    BY DEF RuledOut
  <2>1. k = 1
    BY <1>2, FormatsFacts
  <2> QED
    BY <2>1
<1> QED
  BY <1>1, <1>2, <1>3, <1>4, FormatsFacts
     DEF IInv, InfoTypeOK, AnswersAreWhole, RefusedForCause, OpenedAsWhatItIs, Thrown

LEMMA ProbeKeepsIInv ==
    ASSUME IInv, NEW k \in DOMAIN Formats, Probe(k) PROVE IInv'
<1> DEFINE format == Formats[k]
<1>1. /\ UNCHANGED <<platform, file, native, stream, ret>> /\ pc = format
      /\ format \in KnownFormats /\ k \in 1 .. 6
  BY FormatsFacts DEF Probe, KnownFormats
<1>2. /\ fmt = "none" /\ stream = "good" /\ ret.by = "none"
      /\ ret.call = "none" /\ pc # "ready"
  BY <1>1, FormatsFacts DEF IInv, InfoTypeOK
<1>3. \A j \in 1 .. k - 1 : file.magic # Formats[j]
  BY <1>1 DEF IInv, RuledOut
<1>4. ASSUME pc' \notin KnownFormats PROVE RuledOut'
  BY <1>4 DEF RuledOut, KnownFormats
<1>5. CASE pc' = "stream_failure" /\ UNCHANGED fmt
  BY <1>1, <1>2, <1>4, <1>5, FormatsFacts
     DEF IInv, InfoTypeOK, AnswersAreWhole, RefusedForCause, OpenedAsWhatItIs, Thrown
<1>6. CASE /\ file.magic = format /\ native /\ Foreign(format)
           /\ pc' = "not_native" /\ UNCHANGED fmt
  <2>1. ~Loadable(format)' /\ platform' = platform
    BY <1>1, <1>6, NotForeignIsLoadable DEF IInv, Loadable
  <2>2. OpenedAsWhatItIs'
    BY <1>1, <1>6, <2>1 DEF OpenedAsWhatItIs, Loadable
  <2> QED
    BY <1>1, <1>2, <1>4, <1>6, <2>2, FormatsFacts
       DEF IInv, InfoTypeOK, AnswersAreWhole, RefusedForCause, Thrown
<1>7. CASE /\ file.magic = format /\ ~(native /\ Foreign(format))
           /\ pc' = "ready" /\ fmt' = format
  <2>1. native => Loadable(format)'
    BY <1>1, <1>7, NotForeignIsLoadable DEF IInv, Loadable
  <2>2. OpenedAsWhatItIs'
    BY <1>1, <1>7, <2>1 DEF OpenedAsWhatItIs, Loadable
  <2>3. format # "none"
    BY <1>1, FormatsFacts
  <2> HIDE DEF format
  <2> QED
    BY <1>1, <1>2, <1>4, <1>7, <2>2, <2>3, FormatsFacts
       DEF IInv, InfoTypeOK, AnswersAreWhole, RefusedForCause
<1>8. CASE /\ file.magic # format /\ UNCHANGED fmt
           /\ pc' = IF k = Len(Formats) THEN "unsupported" ELSE Formats[k + 1]
  <2>1. \A j \in 1 .. k : file.magic # Formats[j]
    BY <1>1, <1>3, <1>8
  <2>2. CASE k = 6
    <3>1. /\ pc' = "unsupported" /\ file.magic \notin KnownFormats
          /\ UNCHANGED fmt
      BY <1>8, <2>1, <2>2, FormatsFacts DEF KnownFormats
    <3> QED
      BY <1>1, <1>2, <1>4, <3>1, FormatsFacts
         DEF IInv, InfoTypeOK, AnswersAreWhole, RefusedForCause, OpenedAsWhatItIs, Thrown
  <2>3. CASE k # 6
    <3>1. /\ k + 1 \in 1 .. 6 /\ pc' = Formats[k + 1] /\ pc' \in KnownFormats
          /\ UNCHANGED fmt
      BY <1>1, <1>8, <2>3, FormatsFacts DEF KnownFormats
    <3>2. RuledOut'
      <4> SUFFICES ASSUME NEW m \in DOMAIN Formats, pc' = Formats[m]
                   PROVE  \A j \in 1 .. m - 1 : file'.magic # Formats[j]
        BY DEF RuledOut
      <4>1. m = k + 1
        BY <3>1, FormatsDiffer, FormatsFacts
      <4> QED
        BY <1>1, <2>1, <4>1
    <3> QED
      BY <1>1, <1>2, <3>1, <3>2, FormatsFacts
         DEF IInv, InfoTypeOK, AnswersAreWhole, RefusedForCause, OpenedAsWhatItIs, Thrown
  <2> QED
    BY <2>2, <2>3
<1> QED
  BY <1>5, <1>6, <1>7, <1>8 DEF Probe, ParsingSupported

(* What a call leaves the stream in says how it was damaged.               *)
LEMMA LeftSays ==
    ASSUME file \in Files, NEW call \in DOMAIN file.damaged
    PROVE  /\ Left(file.damaged[call]) \in {"good", "eof", "failed"}
           /\ Left(file.damaged[call]) = "failed" => file.damaged[call] = "read"
<1>1. file.damaged[call] \in {"read", "name", "other"}
  BY InfoAssumption
<1> QED
  BY <1>1 DEF Left

LEMMA AskKeepsIInv ==
    ASSUME IInv, NEW call \in Calls, Ask(call) PROVE IInv'
<1>1. /\ UNCHANGED <<platform, file, native, pc, fmt>> /\ pc = "ready"
      /\ fmt = file.magic /\ fmt # "none" /\ stream \in {"good", "eof", "failed"}
  BY DEF Ask, IInv, InfoTypeOK, OpenedAsWhatItIs
<1>2. RuledOut' /\ OpenedAsWhatItIs'
  BY <1>1 DEF IInv, RuledOut, OpenedAsWhatItIs, Loadable
<1>3. /\ stream' \in {"good", "eof", "failed"} /\ ret'.by \in {"thrown", fmt}
      /\ AnswersAreWhole' /\ RefusedForCause'
  <2>1. CASE /\ stream # "failed" /\ call \notin DOMAIN file.damaged
             /\ ret' = [call |-> call, by |-> fmt] /\ stream' = "good"
    <3>1. fmt # "thrown"
      BY <1>1, FormatsFacts DEF IInv, InfoTypeOK
    <3> QED
      BY <1>1, <2>1, <3>1 DEF AnswersAreWhole, RefusedForCause
  <2>2. CASE /\ stream # "failed" /\ call \in DOMAIN file.damaged
             /\ ret' = [call |-> call, by |-> "thrown"]
             /\ stream' = Left(file.damaged[call])
    BY <1>1, <2>2, LeftSays DEF IInv, AnswersAreWhole, RefusedForCause
  <2>3. CASE /\ stream = "failed"
             /\ ret' = [call |-> call, by |-> "thrown"] /\ UNCHANGED stream
    BY <1>1, <2>3 DEF IInv, AnswersAreWhole, RefusedForCause
  <2> QED
    BY <2>1, <2>2, <2>3 DEF Ask
<1> QED
  BY <1>1, <1>2, <1>3 DEF IInv, InfoTypeOK

LEMMA NextIInv == IInv /\ [Next]_infoVars => IInv'
<1> SUFFICES ASSUME IInv, [Next]_infoVars PROVE IInv'
  OBVIOUS
<1>1. CASE UNCHANGED infoVars
  BY <1>1 DEF infoVars, IInv, InfoTypeOK, AnswersAreWhole, RefusedForCause, OpenedAsWhatItIs,
              RuledOut, Loadable
<1> QED
  BY <1>1, OpenKeepsIInv, ProbeKeepsIInv, AskKeepsIInv DEF Next

(* The object's states have their types, an answer is that of the file's   *)
(* own parser, which had all of the bytes, and a call that was not damaged *)
(* is answered unless an earlier one was cut off within a structure.       *)
THEOREM InfoInvCorrect == Spec => []InfoInv
<1>1. IInv => InfoInv
  BY DEF IInv, InfoInv
<1> QED
  BY <1>1, InitIInv, NextIInv, PTL DEF Spec

(* No file is taken for another format than its own, no foreign one is     *)
(* accepted and no native one refused: for every platform and every file.  *)
THEOREM OpenedAsWhatItIsCorrect == Spec => []OpenedAsWhatItIs
<1>1. IInv => OpenedAsWhatItIs
  BY DEF IInv
<1> QED
  BY <1>1, InitIInv, NextIInv, PTL DEF Spec
-----------------------------------------------------------------------------
(* The table goes with the library it was filled from.                     *)

(* What a program for these names stores of a library.                     *)
Stored(names, e) ==
    [mangled |-> e, demangled |-> IF names = "msvc" THEN Undecorated(e)
                                  ELSE IF Demangled(e) = <<>> THEN <<e.name>>
                                  ELSE Demangled(e)]
TableOf(names, library) ==
    <<>> \o [k \in DOMAIN library |-> Stored(names, library[k])]

AliasesRight(aliases) ==
    \A t \in DOMAIN aliases : [type |-> t, name |-> aliases[t]] \in Aliases

Tables ==
    /\ abi \in {"itanium", "msvc"}
    /\ shown \in [Storages -> Libraries[abi] \cup {<<>>}]
    /\ storage_ = [o \in Storages |-> TableOf(abi, shown[o])]
    /\ aliases_ = [o \in Storages |-> aliases_[o]]
    /\ \A o \in Storages : AliasesRight(aliases_[o])

LEMMA EmptyTable ==
    ASSUME NEW names
    PROVE  TableOf(names, <<>>) = <<>>
<1> DEFINE t == [k \in DOMAIN <<>> |-> Stored(names, <<>>[k])]
<1>1. t = [k \in 1 .. 0 |-> Stored(names, <<>>[k])]
  OBVIOUS
<1>2. t \in Seq({}) /\ Len(t) = 0
  BY <1>1
<1>3. t = <<>>
  BY <1>2
<1> HIDE DEF t
<1>4. <<>> \o t = <<>>
  BY <1>3
<1> QED
  BY <1>4 DEF TableOf, t

LEMMA NoAliases == AliasesRight(<<>>)
BY DEF AliasesRight

LEMMA StorageInitTables ==
    ASSUME StorageInit
    PROVE  Tables
<1>1. /\ abi \in {"itanium", "msvc"}
      /\ shown \in [Storages -> Libraries[abi] \cup {<<>>}]
      /\ aliases_ = [o \in Storages |-> aliases_[o]]
  BY DEF StorageInit
<1>2. storage_ = [o \in Storages |-> TableOf(abi, shown[o])]
  BY EmptyTable DEF StorageInit
<1>3. \A o \in Storages : AliasesRight(aliases_[o])
  BY NoAliases DEF StorageInit
<1> QED
  BY <1>1, <1>2, <1>3 DEF Tables

(* A step that gives o another library, with its table, and its aliases.   *)
LEMMA Given ==
    ASSUME Tables, abi' = abi, NEW o \in Storages,
           NEW library \in Libraries[abi] \cup {<<>>}, NEW aliases, AliasesRight(aliases),
           storage_' = [storage_ EXCEPT ![o] = TableOf(abi, library)],
           shown' = [shown EXCEPT ![o] = library],
           aliases_' = [aliases_ EXCEPT ![o] = aliases]
    PROVE  Tables'
<1>1. shown' \in [Storages -> Libraries[abi] \cup {<<>>}]
  BY DEF Tables
<1>2. storage_' = [p \in Storages |-> TableOf(abi, shown'[p])]
  BY DEF Tables
<1>3. /\ aliases_' = [p \in Storages |-> aliases_'[p]]
      /\ \A p \in Storages : AliasesRight(aliases_'[p])
  BY DEF Tables
<1> QED
  BY <1>1, <1>2, <1>3 DEF Tables, AliasesRight

LEMMA NextTables ==
    ASSUME Tables, [StorageNext]_storageVars
    PROVE  Tables'
<1>1. CASE UNCHANGED storageVars
  BY <1>1 DEF Tables, storageVars, AliasesRight
<1>2. ASSUME NEW o \in Storages, NEW library \in Libraries[abi], Load(o, library)
      PROVE  Tables'
  <2>1. AddSymbols(<<>>, library) = TableOf(abi, library)
    BY DEF AddSymbols, TableOf, Entry, Stored
  <2>2. aliases_' = [aliases_ EXCEPT ![o] = aliases_[o]]
    BY <1>2 DEF Load, Tables
  <2> QED
    BY <1>2, <2>1, <2>2, Given DEF Load, Tables
<1>3. ASSUME NEW o \in Storages, LoadThrows(o) PROVE Tables'
  <2>1. aliases_' = [aliases_ EXCEPT ![o] = aliases_[o]]
    BY <1>3 DEF LoadThrows, Tables
  <2> QED
    BY <1>3, <2>1, Given, EmptyTable DEF LoadThrows, Tables
<1>4. ASSUME NEW o \in Storages, NEW a \in Aliases, AddAlias(o, a) PROVE Tables'
  <2> DEFINE old == aliases_[o]
             new == IF a.type \in DOMAIN old THEN old
                    ELSE [t \in DOMAIN old \cup {a.type} |->
                             IF t = a.type THEN a.name ELSE old[t]]
  <2>1. AliasesRight(old)
    BY DEF Tables
  <2>2. AliasesRight(new)
    BY <2>1, StorageAssumption DEF AliasesRight
  <2>3. aliases_' = [aliases_ EXCEPT ![o] = new]
    BY <1>4 DEF AddAlias
  <2>4. /\ storage_' = [storage_ EXCEPT ![o] = TableOf(abi, shown[o])]
        /\ shown' = [shown EXCEPT ![o] = shown[o]]
        /\ abi' = abi /\ shown[o] \in Libraries[abi] \cup {<<>>}
    BY <1>4 DEF AddAlias, Tables
  <2> HIDE DEF new
  <2> QED
    BY <2>2, <2>3, <2>4, Given
<1>5. ASSUME NEW o \in Storages, Clear(o) PROVE Tables'
  BY <1>5, Given, EmptyTable, NoAliases DEF Clear
<1>6. ASSUME NEW o \in Storages, NEW p \in Storages, Assign(o, p) PROVE Tables'
  <2>1. /\ storage_[p] = TableOf(abi, shown[p]) /\ AliasesRight(aliases_[p])
        /\ shown[p] \in Libraries[abi] \cup {<<>>}
    BY DEF Tables
  <2> QED
    BY <1>6, <2>1, Given DEF Assign
<1>7. ASSUME NEW o \in Storages, NEW p \in Storages, Swap(o, p) PROVE Tables'
  <2>1. shown' \in [Storages -> Libraries[abi] \cup {<<>>}]
    BY <1>7 DEF Tables, Swap
  <2>2. storage_' = [r \in Storages |-> TableOf(abi, shown'[r])]
    BY <1>7 DEF Tables, Swap
  <2>3. /\ aliases_' = [r \in Storages |-> aliases_'[r]]
        /\ \A r \in Storages : AliasesRight(aliases_'[r])
    BY <1>7 DEF Tables, Swap
  <2>4. abi' = abi
    BY <1>7 DEF Swap
  <2> QED
    BY <2>1, <2>2, <2>3, <2>4 DEF Tables, AliasesRight
<1> QED
  BY <1>1, <1>2, <1>3, <1>4, <1>5, <1>6, <1>7 DEF StorageNext

LEMMA TablesImply ==
    ASSUME Tables
    PROVE  StorageTypeOK
<1>1. ASSUME NEW o \in Storages PROVE storage_[o] = AddSymbols(<<>>, shown[o])
  <2>1. AddSymbols(<<>>, shown[o]) = TableOf(abi, shown[o])
    BY DEF AddSymbols, TableOf, Entry, Stored
  <2> QED
    BY <2>1 DEF Tables
<1> QED
  BY <1>1 DEF StorageTypeOK, Tables, AliasesRight

-----------------------------------------------------------------------------
(* What make_mem_fn_seq makes of a sequence of types.                      *)

LEMMA LeastOf ==
    ASSUME NEW S, S \subseteq Nat, S # {}
    PROVE  \E x \in S : \A y \in S : x =< y
<1> DEFINE Less == {ss \in Nat \X Nat : ss[1] < ss[2]}
<1>1. IsWellFoundedOn(Less, Nat)
  BY NatLessThanWellFounded DEF OpToRel
<1> HIDE DEF Less
<1>2. PICK x \in S : \A y \in S : ~(<<y, x>> \in Less)
  BY <1>1, WFMin
<1>3. ASSUME NEW y \in S PROVE x =< y
  <2>1. y < x => <<y, x>> \in Less
    BY DEF Less
  <2> QED
    BY <1>2, <2>1
<1> QED
  BY <1>3

(* One step of the template, and a function that is such a step for every  *)
(* number of types that are left.                                          *)
Row(f, seq, left) ==
    [c \in DOMAIN seq |->
        LET k == Len(seq) - left + 1
        IN  IF left = 0 THEN <<>>
            ELSE IF left = 1 THEN <<MemFnDef(seq[c], seq[k])>>
            ELSE IF UnqualifiedIsSame(seq[c], seq[k])
            THEN <<MemFnDef(seq[k], seq[k + 1])>> \o f[left - 2][k]
            ELSE <<MemFnDef(seq[c], seq[k])>> \o f[left - 1][c]]
IsMake(f, seq, n) == f = [left \in 0 .. n |-> Row(f, seq, left)]

LEMMA RowDepends ==
    ASSUME NEW f, NEW g, NEW seq, NEW left \in Nat,
           \A m \in 0 .. left - 1 : f[m] = g[m]
    PROVE  Row(f, seq, left) = Row(g, seq, left)
<1>1. left # 0 => f[left - 1] = g[left - 1]
  OBVIOUS
<1>2. left # 0 /\ left # 1 => f[left - 2] = g[left - 2]
  OBVIOUS
<1> QED
  BY <1>1, <1>2 DEF Row

LEMMA MakeExists ==
    ASSUME NEW seq, NEW n \in Nat
    PROVE  \E f : IsMake(f, seq, n)
<1> DEFINE Bad == {m \in 0 .. n : ~ \E f : IsMake(f, seq, m)}
<1>1. SUFFICES ASSUME Bad # {} PROVE FALSE
  OBVIOUS
<1>2. PICK m \in Bad : \A y \in Bad : m =< y
  <2>1. Bad \subseteq Nat
    OBVIOUS
  <2> HIDE DEF Bad
  <2> QED
    BY <1>1, <2>1, LeastOf
<1>3. m \in 0 .. n /\ ~ \E f : IsMake(f, seq, m)
  BY <1>2
<1>4. ASSUME NEW g, \A left \in 0 .. m - 1 : g[left] = Row(g, seq, left)
      PROVE  FALSE
  <2> DEFINE h == [left \in 0 .. m |-> IF left = m THEN Row(g, seq, m) ELSE g[left]]
  <2>1. ASSUME NEW left \in 0 .. m PROVE h[left] = Row(h, seq, left)
    <3>1. \A k \in 0 .. left - 1 : h[k] = g[k]
      BY <1>3
    <3>2. h[left] = Row(g, seq, left)
      BY <1>3, <1>4
    <3> HIDE DEF h
    <3>3. left \in Nat
      BY <1>3
    <3> QED
      BY <3>1, <3>2, <3>3, RowDepends
  <2>2. h = [left \in 0 .. m |-> h[left]]
    OBVIOUS
  <2> HIDE DEF h
  <2>3. IsMake(h, seq, m)
    BY <2>1, <2>2 DEF IsMake
  <2> QED
    BY <1>3, <2>3
<1>5. CASE m = 0
  <2>1. \A left \in 0 .. m - 1 : <<>>[left] = Row(<<>>, seq, left)
    BY <1>5
  <2> QED
    BY <2>1, <1>4
<1>6. CASE m # 0
  <2>1. m - 1 \in 0 .. n /\ ~(m =< m - 1)
    BY <1>3, <1>6
  <2>2. PICK g : IsMake(g, seq, m - 1)
    BY <1>2, <2>1
  <2>3. \A left \in 0 .. m - 1 : g[left] = Row(g, seq, left)
    BY <2>2 DEF IsMake
  <2> QED
    BY <2>3, <1>4
<1> QED
  BY <1>5, <1>6

LEMMA MakeSteps ==
    ASSUME NEW seq, Len(seq) \in Nat \ {0}
    PROVE  \E f : /\ \A left \in 0 .. Len(seq) - 1 : f[left] = Row(f, seq, left)
                  /\ MakeMemFnSeq(seq) = f[Len(seq) - 1][1]
<1> DEFINE f == CHOOSE g : IsMake(g, seq, Len(seq) - 1)
<1>1. IsMake(f, seq, Len(seq) - 1)
  BY MakeExists
<1>2. MakeMemFnSeq(seq) = f[Len(seq) - 1][1]
  BY DEF MakeMemFnSeq, IsMake, Row
<1> HIDE DEF f
<1>3. \A left \in 0 .. Len(seq) - 1 : f[left] = Row(f, seq, left)
  BY <1>1 DEF IsMake
<1> QED
  BY <1>2, <1>3

(* The sequences that import_mangled accepts and the k-th type's class.    *)
Accepted(seq) ==
    /\ seq \in Seq({seq[k] : k \in DOMAIN seq})
    /\ IsMemFnSeq(seq)
    /\ \A k \in DOMAIN seq : IsObject(seq[k]) => IsFunction(seq[k + 1])
ClassOf(seq, k) ==
    CHOOSE j \in 1 .. k : IsObject(seq[j]) /\ \A i \in j + 1 .. k : IsFunction(seq[i])

LEMMA AcceptedTypes ==
    ASSUME NEW seq, Accepted(seq)
    PROVE  /\ Len(seq) \in Nat /\ Len(seq) >= 2 /\ DOMAIN seq = 1 .. Len(seq)
           /\ IsObject(seq[1]) /\ IsFunction(seq[Len(seq)])
           /\ \A k \in 1 .. Len(seq) : IsFunction(seq[k]) <=> ~IsObject(seq[k])
           /\ \A c, k \in 1 .. Len(seq) :
                 UnqualifiedIsSame(seq[c], seq[k]) <=> IsObject(seq[c]) /\ IsObject(seq[k])
           /\ \A k \in 1 .. Len(seq) : IsObject(seq[k]) => k + 1 \in 1 .. Len(seq)
                                                           /\ IsFunction(seq[k + 1])
<1>1. Len(seq) \in Nat /\ Len(seq) >= 2 /\ DOMAIN seq = 1 .. Len(seq)
  BY DEF Accepted, IsMemFnSeq
<1>2. IsObject(seq[1]) /\ IsFunction(seq[2]) /\ IsFunction(seq[Len(seq)])
  BY DEF Accepted, IsMemFnSeq, Last
<1>3. \A k \in 1 .. Len(seq) : k \in {1, 2} \/ k \in 3 .. Len(seq)
  BY <1>1
<1>4. \A k \in 1 .. Len(seq) : IsFunction(seq[k]) \/ UnqualifiedIsSame(seq[1], seq[k])
  BY <1>2, <1>3 DEF Accepted, IsMemFnSeq, UnqualifiedIsSame
<1>5. \A t : IsFunction(t) => ~IsObject(t)
  BY DEF IsFunction, IsObject
<1>6. \A k \in 1 .. Len(seq) : IsFunction(seq[k]) <=> ~IsObject(seq[k])
  BY <1>4, <1>5 DEF UnqualifiedIsSame
<1>7. \A k \in 1 .. Len(seq) : IsObject(seq[k]) => seq[k].type = seq[1].type
  BY <1>4, <1>5 DEF UnqualifiedIsSame
<1>8. \A c, k \in 1 .. Len(seq) :
          UnqualifiedIsSame(seq[c], seq[k]) <=> IsObject(seq[c]) /\ IsObject(seq[k])
  BY <1>7 DEF UnqualifiedIsSame
<1>9. ASSUME NEW k \in 1 .. Len(seq), IsObject(seq[k])
      PROVE  k + 1 \in 1 .. Len(seq) /\ IsFunction(seq[k + 1])
  <2>1. k # Len(seq)
    BY <1>2, <1>5, <1>9
  <2>2. IsFunction(seq[k + 1])
    BY <1>1, <1>9 DEF Accepted
  <2>3. Len(seq) \in Nat
    BY <1>1
  <2>4. k + 1 \in 1 .. Len(seq)
    BY <2>1, <2>3
  <2> QED
    BY <2>2, <2>4
<1> QED
  BY <1>1, <1>2, <1>6, <1>8, <1>9

LEMMA ClassIs ==
    ASSUME NEW seq, Accepted(seq), NEW k \in 1 .. Len(seq), NEW c \in 1 .. k,
           IsObject(seq[c]), \A i \in c + 1 .. k : IsFunction(seq[i])
    PROVE  ClassOf(seq, k) = c
<1>1. /\ ClassOf(seq, k) \in 1 .. k /\ IsObject(seq[ClassOf(seq, k)])
      /\ \A i \in ClassOf(seq, k) + 1 .. k : IsFunction(seq[i])
  BY DEF ClassOf
<1>2. \A i \in 1 .. k : IsFunction(seq[i]) <=> ~IsObject(seq[i])
  BY AcceptedTypes
<1>3. ~(c \in ClassOf(seq, k) + 1 .. k) /\ ~(ClassOf(seq, k) \in c + 1 .. k)
  BY <1>1, <1>2
<1> QED
  BY <1>1, <1>3

(* How many of the types from k to p are functions.                        *)
FunctionsIn(seq, k, p) == {j \in k .. p : IsFunction(seq[j])}
Count(seq, k, p) == Cardinality(FunctionsIn(seq, k, p))

LEMMA CountNext ==
    ASSUME NEW seq, NEW k \in Int, NEW p \in Int
    PROVE  /\ Count(seq, k, p) \in Nat
           /\ p < k => Count(seq, k, p) = 0
           /\ k =< p => Count(seq, k, p) = IF IsFunction(seq[k]) THEN Count(seq, k + 1, p) + 1
                                           ELSE Count(seq, k + 1, p)
<1>1. ASSUME NEW m \in Int PROVE IsFiniteSet(FunctionsIn(seq, m, p))
  <2>1. IsFiniteSet(m .. p) /\ FunctionsIn(seq, m, p) \in SUBSET (m .. p)
    BY FS_Interval DEF FunctionsIn
  <2> QED
    BY <2>1, FS_Subset
<1>2. Count(seq, k, p) \in Nat
  BY <1>1, FS_CardinalityType DEF Count
<1>3. p < k => Count(seq, k, p) = 0
  <2>1. p < k => FunctionsIn(seq, k, p) = {}
    BY DEF FunctionsIn
  <2> QED
    BY <2>1, FS_EmptySet DEF Count
<1>4. ASSUME k =< p, IsFunction(seq[k])
      PROVE  Count(seq, k, p) = Count(seq, k + 1, p) + 1
  <2>1. /\ FunctionsIn(seq, k, p) = FunctionsIn(seq, k + 1, p) \cup {k}
        /\ k \notin FunctionsIn(seq, k + 1, p)
    BY <1>4 DEF FunctionsIn
  <2>2. IsFiniteSet(FunctionsIn(seq, k + 1, p))
    BY <1>1
  <2> QED
    BY <2>1, <2>2, FS_AddElement DEF Count
<1>5. ASSUME k =< p, ~IsFunction(seq[k])
      PROVE  Count(seq, k, p) = Count(seq, k + 1, p)
  <2>1. FunctionsIn(seq, k, p) = FunctionsIn(seq, k + 1, p)
    BY <1>5 DEF FunctionsIn
  <2> QED
    BY <2>1 DEF Count
<1> QED
  BY <1>2, <1>3, <1>4, <1>5

(* What the sequence r has of the functions from the k-th type on.         *)
Defs(seq) == {MemFnDef(seq[c], seq[k]) : c, k \in DOMAIN seq}
Paired(r, seq, k) ==
    /\ r \in Seq(Defs(seq)) /\ Len(r) = Count(seq, k, Len(seq))
    /\ \A p \in k .. Len(seq) : IsFunction(seq[p]) =>
          /\ Count(seq, k, p) \in 1 .. Len(r)
          /\ r[Count(seq, k, p)] = MemFnDef(seq[ClassOf(seq, p)], seq[p])

LEMMA NonePaired ==
    ASSUME NEW seq, Accepted(seq)
    PROVE  Paired(<<>>, seq, Len(seq) + 1)
<1>1. Len(seq) \in Nat
  BY AcceptedTypes
<1>2. Count(seq, Len(seq) + 1, Len(seq)) = 0
  BY <1>1, CountNext
<1>3. Len(seq) + 1 .. Len(seq) = {}
  BY <1>1
<1>4. <<>> \in Seq(Defs(seq)) /\ Len(<<>>) = 0
  OBVIOUS
<1> QED
  BY <1>2, <1>3, <1>4 DEF Paired

LEMMA FirstPaired ==
    ASSUME NEW seq, Accepted(seq), NEW k \in 1 .. Len(seq), IsFunction(seq[k]),
           NEW c \in 1 .. k, ClassOf(seq, k) = c, NEW r, Paired(r, seq, k + 1)
    PROVE  Paired(<<MemFnDef(seq[c], seq[k])>> \o r, seq, k)
<1> DEFINE d == MemFnDef(seq[c], seq[k])
           s == <<d>> \o r
<1>1. Len(seq) \in Nat /\ DOMAIN seq = 1 .. Len(seq)
  BY AcceptedTypes
<1>2. c \in DOMAIN seq /\ k \in DOMAIN seq
  BY <1>1
<1>3. d \in Defs(seq)
  BY <1>2 DEF Defs
<1>4. r \in Seq(Defs(seq)) /\ Len(r) = Count(seq, k + 1, Len(seq))
  BY DEF Paired
<1> HIDE DEF d
<1>5. /\ s \in Seq(Defs(seq)) /\ Len(s) = Len(r) + 1
      /\ s[1] = d
      /\ \A m \in 1 .. Len(r) : s[m + 1] = r[m]
  BY <1>3, <1>4
<1> HIDE DEF s
<1>6. Len(s) = Count(seq, k, Len(seq))
  BY <1>1, <1>4, <1>5, CountNext
<1>7. ASSUME NEW p \in k .. Len(seq), IsFunction(seq[p])
      PROVE  /\ Count(seq, k, p) \in 1 .. Len(s)
             /\ s[Count(seq, k, p)] = MemFnDef(seq[ClassOf(seq, p)], seq[p])
  <2>1. Count(seq, k, p) = Count(seq, k + 1, p) + 1
    BY <1>1, CountNext
  <2>2. CASE p = k
    <3>1. Count(seq, k + 1, p) = 0
      BY <2>2, CountNext
    <3>2. Len(r) \in Nat
      BY <1>4
    <3> QED
      BY <1>5, <2>1, <2>2, <3>1, <3>2 DEF d
  <2>3. CASE p # k
    <3>1. p \in k + 1 .. Len(seq)
      BY <1>1, <2>3
    <3>2. /\ Count(seq, k + 1, p) \in 1 .. Len(r)
          /\ r[Count(seq, k + 1, p)] = MemFnDef(seq[ClassOf(seq, p)], seq[p])
      BY <1>7, <3>1 DEF Paired
    <3>3. Len(r) \in Nat
      BY <1>4
    <3> QED
      BY <1>5, <2>1, <3>2, <3>3
  <2> QED
    BY <2>2, <2>3
<1>8. Paired(s, seq, k)
  BY <1>5, <1>6, <1>7 DEF Paired
<1> QED
  BY <1>8 DEF s, d

LEMMA SkipPaired ==
    ASSUME NEW seq, Accepted(seq), NEW k \in 1 .. Len(seq), ~IsFunction(seq[k]),
           NEW r, Paired(r, seq, k + 1)
    PROVE  Paired(r, seq, k)
<1>1. Len(seq) \in Nat
  BY AcceptedTypes
<1>2. \A p \in k .. Len(seq) : Count(seq, k, p) = Count(seq, k + 1, p)
  BY <1>1, CountNext
<1>3. r \in Seq(Defs(seq)) /\ Len(r) = Count(seq, k, Len(seq))
  BY <1>1, <1>2 DEF Paired
<1>4. ASSUME NEW p \in k .. Len(seq), IsFunction(seq[p])
      PROVE  /\ Count(seq, k, p) \in 1 .. Len(r)
             /\ r[Count(seq, k, p)] = MemFnDef(seq[ClassOf(seq, p)], seq[p])
  <2>1. p \in k + 1 .. Len(seq)
    BY <1>1, <1>4
  <2> QED
    BY <1>2, <1>4, <2>1 DEF Paired
<1> QED
  BY <1>3, <1>4 DEF Paired

(* The class at c is that of a type at k, should that be a function.       *)
Ready(seq, c, k) ==
    c \in 1 .. k - 1 /\ IsObject(seq[c]) /\ \A i \in c + 1 .. k - 1 : IsFunction(seq[i])

LEMMA MakePairs ==
    ASSUME NEW seq, Accepted(seq), NEW f,
           \A left \in 0 .. Len(seq) - 1 : f[left] = Row(f, seq, left)
    PROVE  \A left \in 0 .. Len(seq) - 1 : \A c :
               Ready(seq, c, Len(seq) - left + 1)
                 => Paired(f[left][c], seq, Len(seq) - left + 1)
<1> DEFINE n == Len(seq)
           Fine(left) == \A c : Ready(seq, c, n - left + 1) => Paired(f[left][c], seq, n - left + 1)
           Bad == {left \in 0 .. n - 1 : ~Fine(left)}
<1>1. /\ n \in Nat /\ n >= 2 /\ DOMAIN seq = 1 .. n
      /\ \A k \in 1 .. n : IsFunction(seq[k]) <=> ~IsObject(seq[k])
      /\ \A c, k \in 1 .. n : UnqualifiedIsSame(seq[c], seq[k])
                                <=> IsObject(seq[c]) /\ IsObject(seq[k])
      /\ IsFunction(seq[n])
      /\ \A k \in 1 .. n : IsObject(seq[k]) => k + 1 \in 1 .. n /\ IsFunction(seq[k + 1])
  BY AcceptedTypes
<1> HIDE DEF Fine
<1>2. SUFFICES ASSUME Bad # {} PROVE FALSE
  BY DEF Fine
<1>3. PICK left \in Bad : \A y \in Bad : left =< y
  <2>1. Bad \subseteq Nat
    BY <1>1
  <2> HIDE DEF Bad
  <2> QED
    BY <1>2, <2>1, LeastOf
<1>4. left \in 0 .. n - 1 /\ ~Fine(left) /\ \A m \in 0 .. left - 1 : Fine(m)
  BY <1>1, <1>3
<1> DEFINE k == n - left + 1
<1>5. PICK c : Ready(seq, c, k) /\ ~Paired(f[left][c], seq, k)
  BY <1>4 DEF Fine
<1>6. k \in 2 .. n + 1 /\ c \in 1 .. k - 1 /\ c \in 1 .. n
  BY <1>1, <1>4, <1>5 DEF Ready
<1>7. f[left][c] = IF left = 0 THEN <<>>
                   ELSE IF left = 1 THEN <<MemFnDef(seq[c], seq[k])>>
                   ELSE IF UnqualifiedIsSame(seq[c], seq[k])
                   THEN <<MemFnDef(seq[k], seq[k + 1])>> \o f[left - 2][k]
                   ELSE <<MemFnDef(seq[c], seq[k])>> \o f[left - 1][c]
  <2>1. f[left] = Row(f, seq, left)
    BY <1>4
  <2> QED
    BY <1>1, <1>6, <2>1 DEF Row
<1> HIDE DEF k
<1>8. ASSUME k =< n, IsFunction(seq[k]) PROVE ClassOf(seq, k) = c /\ Ready(seq, c, k + 1)
  <2>1. k \in 1 .. n /\ c \in 1 .. k
    BY <1>1, <1>6, <1>8
  <2>2. IsObject(seq[c]) /\ \A i \in c + 1 .. k : IsFunction(seq[i])
    <3>1. \A i \in c + 1 .. k : i = k \/ i \in c + 1 .. k - 1
      BY <2>1
    <3> QED
      BY <1>5, <1>8, <3>1 DEF Ready
  <2>3. ClassOf(seq, k) = c
    BY <2>1, <2>2, ClassIs
  <2>4. k + 1 - 1 = k
    BY <2>1
  <2> QED
    BY <2>1, <2>2, <2>3, <2>4 DEF Ready
<1>9. CASE left = 0
  <2>1. k = n + 1 /\ f[left][c] = <<>>
    BY <1>1, <1>7, <1>9 DEF k
  <2> QED
    BY <1>5, <2>1, NonePaired
<1>10. CASE left = 1
  <2>1. k = n /\ f[left][c] = <<MemFnDef(seq[c], seq[k])>>
    BY <1>1, <1>7, <1>10 DEF k
  <2>2. <<MemFnDef(seq[c], seq[k])>> = <<MemFnDef(seq[c], seq[k])>> \o <<>>
    OBVIOUS
  <2>3. k \in 1 .. n /\ c \in 1 .. k /\ IsFunction(seq[k]) /\ k =< n
    BY <1>1, <1>6, <2>1
  <2>4. Paired(<<>>, seq, k + 1)
    BY <2>1, NonePaired
  <2>5. ClassOf(seq, k) = c
    BY <1>8, <2>3
  <2> QED
    BY <1>5, <2>1, <2>2, <2>3, <2>4, <2>5, FirstPaired
<1>11. CASE left > 1 /\ IsFunction(seq[k])
  <2>1. k \in 1 .. n /\ c \in 1 .. k /\ k =< n
    BY <1>1, <1>4, <1>6, <1>11 DEF k
  <2>2. f[left][c] = <<MemFnDef(seq[c], seq[k])>> \o f[left - 1][c]
    <3>1. ~UnqualifiedIsSame(seq[c], seq[k])
      BY <1>1, <1>6, <1>11, <2>1
    <3>2. left # 0 /\ left # 1
      BY <1>4, <1>11
    <3> QED
      BY <1>7, <3>1, <3>2
  <2>3. Fine(left - 1) /\ n - (left - 1) + 1 = k + 1
    BY <1>1, <1>4, <1>11 DEF k
  <2>4. ClassOf(seq, k) = c /\ Ready(seq, c, k + 1)
    BY <1>8, <1>11, <2>1
  <2>5. Paired(f[left - 1][c], seq, k + 1)
    BY <2>3, <2>4 DEF Fine
  <2> QED
    BY <1>5, <1>11, <2>1, <2>2, <2>4, <2>5, FirstPaired
<1>12. CASE left > 1 /\ ~IsFunction(seq[k])
  <2>1. k \in 1 .. n
    BY <1>1, <1>4, <1>6, <1>12 DEF k
  <2>2. IsObject(seq[k]) /\ IsFunction(seq[k + 1]) /\ k + 1 \in 1 .. n
    BY <1>1, <1>12, <2>1
  <2>3. f[left][c] = <<MemFnDef(seq[k], seq[k + 1])>> \o f[left - 2][k]
    <3>1. UnqualifiedIsSame(seq[c], seq[k])
      BY <1>1, <1>5, <1>6, <2>1, <2>2 DEF Ready
    <3>2. left # 0 /\ left # 1
      BY <1>4, <1>12
    <3> QED
      BY <1>7, <3>1, <3>2
  <2>4. Fine(left - 2) /\ n - (left - 2) + 1 = k + 2
    BY <1>1, <1>4, <1>12 DEF k
  <2>5. k + 2 - 1 = k + 1 /\ k + 1 + 1 = k + 2 /\ k \in 1 .. k + 1
    BY <2>1
  <2>6. \A i \in k + 1 .. k + 1 : IsFunction(seq[i])
    BY <2>1, <2>2
  <2>7. Ready(seq, k, k + 2)
    BY <2>2, <2>5, <2>6 DEF Ready
  <2>8. Paired(f[left - 2][k], seq, k + 1 + 1)
    BY <2>4, <2>5, <2>7 DEF Fine
  <2>9. ClassOf(seq, k + 1) = k
    BY <2>2, <2>5, <2>6, ClassIs
  <2>10. Paired(f[left][c], seq, k + 1)
    BY <2>2, <2>3, <2>5, <2>8, <2>9, FirstPaired
  <2> QED
    BY <1>5, <1>12, <2>1, <2>10, SkipPaired
<1> QED
  BY <1>1, <1>4, <1>9, <1>10, <1>11, <1>12

(* Each function of a sequence is looked up in its class, and in order.    *)
LEMMA OverloadsPaired ==
    ASSUME NEW seq, Accepted(seq)
    PROVE  Paired(MakeMemFnSeq(seq), seq, 1)
<1> DEFINE n == Len(seq)
<1>1. /\ n \in Nat /\ n >= 2 /\ IsObject(seq[1])
      /\ \A k \in 1 .. n : IsFunction(seq[k]) <=> ~IsObject(seq[k])
  BY AcceptedTypes
<1> HIDE DEF n
<1>2. PICK f : /\ \A left \in 0 .. n - 1 : f[left] = Row(f, seq, left)
               /\ MakeMemFnSeq(seq) = f[n - 1][1]
  BY <1>1, MakeSteps DEF n
<1>3. Ready(seq, 1, 2)
  BY <1>1 DEF Ready
<1>4. n - 1 \in 0 .. n - 1 /\ n - (n - 1) + 1 = 2 /\ 1 \in 1 .. n /\ 1 + 1 = 2
  BY <1>1
<1>5. \A left \in 0 .. n - 1 : \A c :
          Ready(seq, c, n - left + 1) => Paired(f[left][c], seq, n - left + 1)
  BY <1>2, MakePairs DEF n
<1>6. Paired(f[n - 1][1], seq, 2)
  BY <1>3, <1>4, <1>5
<1>7. ~IsFunction(seq[1])
  BY <1>1, <1>4
<1> QED
  BY <1>2, <1>4, <1>6, <1>7, SkipPaired DEF n

LEMMA OverloadsAsPromised ==
    ASSUME abi \in {"itanium", "msvc"}
    PROVE  OverloadsHaveTheirClass
<1> SUFFICES ASSUME NEW o \in Storages, NEW seq \in Overloads[abi], IsMemFnSeq(seq),
                    \A k \in DOMAIN seq : IsObject(seq[k]) => IsFunction(seq[k + 1])
             PROVE  LET members == ImportMemFns(o, seq)
                        nth(k)  == Count(seq, 1, k)
                    IN  /\ DOMAIN members = 1 .. nth(Len(seq))
                        /\ \A k \in DOMAIN seq : IsFunction(seq[k]) =>
                              members[nth(k)] = Lookup(o, Member(seq[ClassOf(seq, k)], seq[k]))
  BY DEF OverloadsHaveTheirClass, Count, FunctionsIn, ClassOf
<1> DEFINE s == MakeMemFnSeq(seq)
<1>1. Accepted(seq)
  BY StorageAssumption DEF Accepted
<1>2. Paired(s, seq, 1)
  BY <1>1, OverloadsPaired
<1>3. DOMAIN seq = 1 .. Len(seq)
  BY <1>1, AcceptedTypes
<1>4. ImportMemFns(o, seq) = [k \in DOMAIN s |-> Lookup(o, Member(s[k].class, s[k].func))]
  BY DEF ImportMemFns
<1> HIDE DEF s
<1>5. DOMAIN s = 1 .. Len(s) /\ Len(s) = Count(seq, 1, Len(seq))
  BY <1>2 DEF Paired
<1>6. ASSUME NEW k \in DOMAIN seq, IsFunction(seq[k])
      PROVE  ImportMemFns(o, seq)[Count(seq, 1, k)]
               = Lookup(o, Member(seq[ClassOf(seq, k)], seq[k]))
  <2>1. /\ Count(seq, 1, k) \in DOMAIN s
        /\ s[Count(seq, 1, k)] = MemFnDef(seq[ClassOf(seq, k)], seq[k])
    BY <1>2, <1>3, <1>5, <1>6 DEF Paired
  <2>2. /\ s[Count(seq, 1, k)].class = seq[ClassOf(seq, k)]
        /\ s[Count(seq, 1, k)].func = seq[k]
    BY <2>1 DEF MemFnDef
  <2> QED
    BY <1>4, <2>1, <2>2
<1> QED
  BY <1>4, <1>5, <1>6

(* The table of an object is that of the library it was filled from, after *)
(* any loads, failed ones included, assignments and swaps, and every       *)
(* accepted sequence of overloads is looked up in the versions of its      *)
(* class, for every number of storages, libraries and types.               *)
THEOREM StorageInvCorrect ==
    StorageSpec => []StorageInv
<1>1. StorageInit => Tables
  BY StorageInitTables
<1>2. Tables /\ [StorageNext]_storageVars => Tables'
  BY NextTables
<1>3. Tables => StorageInv
  <2>1. Tables => abi \in {"itanium", "msvc"}
    BY DEF Tables
  <2> QED
    BY <2>1, TablesImply, OverloadsAsPromised DEF StorageInv
<1> QED
  BY <1>1, <1>2, <1>3, PTL DEF StorageSpec

-----------------------------------------------------------------------------
(* Sequences of tokens, and where they can be taken apart.                 *)

Lacks(s, x) == \A k \in 1 .. Len(s) : s[k] # x

LEMMA Regroup ==
    ASSUME NEW T, NEW u \in Seq(T), NEW s \in Seq(T), NEW t \in Seq(T)
    PROVE  u \o s \o t = u \o (s \o t)
BY ConcatAssociative

LEMMA Joined ==
    ASSUME NEW T, NEW u \in Seq(T), NEW x \in T, NEW s \in Seq(T)
    PROVE  /\ u \o <<x>> \o s \in Seq(T)
           /\ Len(u \o <<x>> \o s) = Len(u) + 1 + Len(s)
           /\ \A k \in 1 .. Len(u) : (u \o <<x>> \o s)[k] = u[k]
           /\ (u \o <<x>> \o s)[Len(u) + 1] = x
           /\ \A k \in 1 .. Len(s) : (u \o <<x>> \o s)[Len(u) + 1 + k] = s[k]
<1> DEFINE v == u \o <<x>>
<1>1. v \in Seq(T) /\ Len(v) = Len(u) + 1
  OBVIOUS
<1>2. v[Len(u) + 1] = x /\ \A k \in 1 .. Len(u) : v[k] = u[k]
  OBVIOUS
<1> HIDE DEF v
<1>3. /\ v \o s \in Seq(T) /\ Len(v \o s) = Len(v) + Len(s)
      /\ \A k \in 1 .. Len(v) : (v \o s)[k] = v[k]
      /\ \A k \in 1 .. Len(s) : (v \o s)[Len(v) + k] = s[k]
  BY <1>1
<1>4. Len(u) \in Nat /\ Len(s) \in Nat
  OBVIOUS
<1> DEFINE w == u \o <<x>> \o s
<1>a. w = v \o s
  BY DEF v
<1> HIDE DEF w
<1>5. w \in Seq(T) /\ Len(w) = Len(u) + 1 + Len(s)
  BY <1>1, <1>3, <1>4, <1>a
<1>6. \A k \in 1 .. Len(s) : w[Len(u) + 1 + k] = s[k]
  BY <1>1, <1>3, <1>a
<1>7. \A k \in 1 .. Len(u) : k \in 1 .. Len(v)
  BY <1>1, <1>4
<1>8. Len(u) + 1 \in 1 .. Len(v)
  BY <1>1, <1>4
<1>9. w[Len(u) + 1] = x /\ \A k \in 1 .. Len(u) : w[k] = u[k]
  BY <1>2, <1>3, <1>7, <1>8, <1>a
<1> QED
  BY <1>5, <1>6, <1>9 DEF w

(* At the first x, or at the last one.                                     *)
LEMMA SplitFirst ==
    ASSUME NEW T, NEW x \in T, NEW u \in Seq(T), NEW v \in Seq(T), NEW s \in Seq(T),
           NEW t \in Seq(T), Lacks(u, x), Lacks(v, x),
           u \o <<x>> \o s = v \o <<x>> \o t
    PROVE  u = v /\ s = t
<1> USE DEF Lacks
<1>1. Len(u) \in Nat /\ Len(v) \in Nat /\ Len(s) \in Nat /\ Len(t) \in Nat
  OBVIOUS
<1> DEFINE a == u \o <<x>> \o s
           b == v \o <<x>> \o t
<1>2. /\ Len(a) = Len(u) + 1 + Len(s) /\ a[Len(u) + 1] = x
      /\ \A k \in 1 .. Len(u) : a[k] = u[k]
      /\ \A k \in 1 .. Len(s) : a[Len(u) + 1 + k] = s[k]
  BY Joined
<1>3. /\ Len(b) = Len(v) + 1 + Len(t) /\ b[Len(v) + 1] = x
      /\ \A k \in 1 .. Len(v) : b[k] = v[k]
      /\ \A k \in 1 .. Len(t) : b[Len(v) + 1 + k] = t[k]
  BY Joined
<1>4. a = b
  OBVIOUS
<1> HIDE DEF a, b
<1>5. Len(u) = Len(v)
  <2>1. ~(Len(u) < Len(v))
    <3>1. Len(u) < Len(v) => Len(u) + 1 \in 1 .. Len(v)
      BY <1>1
    <3> QED
      BY <1>2, <1>3, <1>4, <3>1
  <2>2. ~(Len(v) < Len(u))
    <3>1. Len(v) < Len(u) => Len(v) + 1 \in 1 .. Len(u)
      BY <1>1
    <3> QED
      BY <1>2, <1>3, <1>4, <3>1
  <2> QED
    BY <1>1, <2>1, <2>2
<1>6. Len(s) = Len(t)
  BY <1>1, <1>2, <1>3, <1>4, <1>5
<1>7. \A k \in 1 .. Len(u) : u[k] = v[k]
  BY <1>2, <1>3, <1>4, <1>5
<1>8. \A k \in 1 .. Len(s) : s[k] = t[k]
  BY <1>2, <1>3, <1>4, <1>5, <1>6
<1> QED
  BY <1>5, <1>6, <1>7, <1>8, SeqEqual

LEMMA LastAt ==
    ASSUME NEW a, NEW x, NEW l \in Nat, NEW m \in 1 .. l, NEW n \in 1 .. l,
           a[m] = x, a[n] = x,
           \A k \in m + 1 .. l : a[k] # x, \A k \in n + 1 .. l : a[k] # x
    PROVE  m = n
<1>1. ~(m < n)
  <2>1. m < n => n \in m + 1 .. l
    OBVIOUS
  <2> QED
    BY <2>1
<1>2. ~(n < m)
  <2>1. n < m => m \in n + 1 .. l
    OBVIOUS
  <2> QED
    BY <2>1
<1> QED
  BY <1>1, <1>2

LEMMA NotAfter ==
    ASSUME NEW T, NEW x \in T, NEW u \in Seq(T), NEW s \in Seq(T),
           \A k \in 1 .. Len(s) : s[k] # x,
           NEW k \in Len(u) + 2 .. Len(u) + 1 + Len(s)
    PROVE  (u \o <<x>> \o s)[k] # x
<1>1. Len(u) \in Nat /\ Len(s) \in Nat
  OBVIOUS
<1> DEFINE i == k - (Len(u) + 1)
<1>2. i \in 1 .. Len(s) /\ Len(u) + 1 + i = k
  BY <1>1
<1>3. (u \o <<x>> \o s)[Len(u) + 1 + i] = s[i]
  BY <1>2, Joined
<1> QED
  BY <1>2, <1>3

LEMMA SplitLast ==
    ASSUME NEW T, NEW x \in T, NEW u \in Seq(T), NEW v \in Seq(T), NEW s \in Seq(T),
           NEW t \in Seq(T), Lacks(s, x), Lacks(t, x),
           u \o <<x>> \o s = v \o <<x>> \o t
    PROVE  u = v /\ s = t
<1> USE DEF Lacks
<1>1. Len(u) \in Nat /\ Len(v) \in Nat /\ Len(s) \in Nat /\ Len(t) \in Nat
  OBVIOUS
<1> DEFINE a == u \o <<x>> \o s
           b == v \o <<x>> \o t
<1>2. /\ Len(a) = Len(u) + 1 + Len(s) /\ a[Len(u) + 1] = x
      /\ \A k \in 1 .. Len(u) : a[k] = u[k]
      /\ \A k \in 1 .. Len(s) : a[Len(u) + 1 + k] = s[k]
      /\ \A k \in Len(u) + 2 .. Len(u) + 1 + Len(s) : a[k] # x
  BY Joined, NotAfter
<1>3. /\ Len(b) = Len(v) + 1 + Len(t) /\ b[Len(v) + 1] = x
      /\ \A k \in 1 .. Len(v) : b[k] = v[k]
      /\ \A k \in 1 .. Len(t) : b[Len(v) + 1 + k] = t[k]
      /\ \A k \in Len(v) + 2 .. Len(v) + 1 + Len(t) : b[k] # x
  BY Joined, NotAfter
<1>4. a = b
  OBVIOUS
<1> HIDE DEF a, b
<1>5. Len(u) = Len(v)
  <2> DEFINE m == Len(u) + 1
             n == Len(v) + 1
             l == Len(a)
  <2>1. l \in Nat /\ m \in 1 .. l /\ n \in 1 .. l /\ l = m + Len(s) /\ l = n + Len(t)
    BY <1>1, <1>2, <1>3, <1>4
  <2>2. a[m] = x /\ a[n] = x
    BY <1>2, <1>3, <1>4
  <2>3. \A k \in m + 1 .. l : a[k] # x
    <3>1. m + 1 = Len(u) + 2 /\ l = Len(u) + 1 + Len(s)
      BY <1>1, <1>2
    <3> HIDE DEF m, l
    <3> QED
      BY <1>2, <3>1
  <2>4. \A k \in n + 1 .. l : a[k] # x
    <3>1. n + 1 = Len(v) + 2 /\ l = Len(v) + 1 + Len(t)
      BY <1>1, <1>3, <1>4
    <3> HIDE DEF n, l
    <3> QED
      BY <1>3, <1>4, <3>1
  <2>5. m = n
    <3> HIDE DEF m, n, l
    <3> QED
      BY <2>1, <2>2, <2>3, <2>4, LastAt
  <2> QED
    BY <1>1, <2>5
<1>6. Len(s) = Len(t)
  BY <1>1, <1>2, <1>3, <1>4, <1>5
<1>7. \A k \in 1 .. Len(u) : u[k] = v[k]
  BY <1>2, <1>3, <1>4, <1>5
<1>8. \A k \in 1 .. Len(s) : s[k] = t[k]
  BY <1>2, <1>3, <1>4, <1>5, <1>6
<1> QED
  BY <1>5, <1>6, <1>7, <1>8, SeqEqual

-----------------------------------------------------------------------------
(* The list of the types of the parameters.                                *)

(* g[k] is the first k sequences of s in a row. *)
IsFlat(g, s, n) == g = [k \in 1 .. n |-> IF k = 1 THEN s[k] ELSE g[k - 1] \o s[k]]

LEMMA FlatAt ==
    ASSUME NEW n \in Nat, NEW s, NEW g, IsFlat(g, s, n), NEW k \in 1 .. n
    PROVE  g[k] = IF k = 1 THEN s[k] ELSE g[k - 1] \o s[k]
BY DEF IsFlat

LEMMA FlatExists ==
    ASSUME NEW n \in Nat, NEW s
    PROVE  \E g : IsFlat(g, s, n)
<1> DEFINE Bad == {m \in 0 .. n : ~ \E g : IsFlat(g, s, m)}
<1>1. SUFFICES ASSUME Bad # {} PROVE FALSE
  OBVIOUS
<1>2. PICK m : m \in 0 .. n /\ m \in Bad /\ \A y \in Bad : m =< y
  <2>1. Bad \subseteq Nat
    OBVIOUS
  <2> HIDE DEF Bad
  <2>2. PICK x \in Bad : \A y \in Bad : x =< y
    BY <1>1, <2>1, LeastOf
  <2> QED
    BY <2>2 DEF Bad
<1>3. m # 0
  <2>1. IsFlat([k \in 1 .. 0 |-> 0], s, 0)
    BY DEF IsFlat
  <2> QED
    BY <1>2, <2>1
<1>4. PICK g : IsFlat(g, s, m - 1)
  <2>1. m - 1 \in 0 .. n /\ ~(m =< m - 1)
    BY <1>2, <1>3
  <2> QED
    BY <1>2, <2>1
<1> DEFINE h == [k \in 1 .. m |-> IF k = 1 THEN s[k]
                                  ELSE IF k < m THEN g[k] ELSE g[k - 1] \o s[k]]
<1>5. ASSUME NEW k \in 1 .. m, k # 1 PROVE h[k] = h[k - 1] \o s[k]
  <2>1. k - 1 \in 1 .. m - 1 /\ k - 1 \in 1 .. m /\ k - 1 < m
    BY <1>2, <1>5
  <2>2. g[k - 1] = IF k - 1 = 1 THEN s[k - 1] ELSE g[k - 1 - 1] \o s[k - 1]
    BY <1>4, <2>1 DEF IsFlat
  <2>3. h[k - 1] = g[k - 1]
    BY <2>1, <2>2
  <2>4. CASE k < m
    <3>1. k \in 1 .. m - 1
      BY <1>2, <2>4
    <3>2. g[k] = g[k - 1] \o s[k]
      BY <1>4, <1>5, <3>1 DEF IsFlat
    <3> QED
      BY <1>5, <2>3, <2>4, <3>2
  <2>5. CASE ~(k < m)
    BY <1>5, <2>3, <2>5
  <2> QED
    BY <2>4, <2>5
<1>6. IsFlat(h, s, m)
  <2>1. h = [k \in 1 .. m |-> IF k = 1 THEN s[k] ELSE h[k - 1] \o s[k]]
    <3>1. \A k \in 1 .. m : h[k] = IF k = 1 THEN s[k] ELSE h[k - 1] \o s[k]
      BY <1>5
    <3>2. h = [k \in 1 .. m |-> h[k]]
      OBVIOUS
    <3> HIDE DEF h
    <3> QED
      BY <3>1, <3>2
  <2> QED
    BY <2>1 DEF IsFlat
<1> QED
  BY <1>2, <1>6

LEMMA Flattened ==
    ASSUME NEW s, Len(s) \in Nat \ {0}
    PROVE  \E g : IsFlat(g, s, Len(s)) /\ FlattenSeq(s) = g[Len(s)]
<1> DEFINE f == CHOOSE g : IsFlat(g, s, Len(s))
<1>1. IsFlat(f, s, Len(s))
  BY FlatExists
<1>2. FlattenSeq(s) = f[Len(s)]
  BY DEF FlattenSeq, IsFlat
<1> QED
  BY <1>1, <1>2

Comma == ", "
Separated(args) == [k \in DOMAIN args |->
    IF k = 1 THEN args[k] ELSE <<Comma>> \o args[k]]

(* g[k] is the list of the first k types. *)
IsListing(g, args, n) ==
    /\ g[1] = args[1]
    /\ \A k \in 2 .. n : g[k] = g[k - 1] \o <<Comma>> \o args[k]
AreTexts(g, n, T) == \A k \in 1 .. n : g[k] \in Seq(T)

LEMMA ListItems ==
    ASSUME NEW S, NEW args \in Seq(S), args # <<>>
    PROVE  /\ Len(args) \in Nat \ {0} /\ DOMAIN args = 1 .. Len(args)
           /\ \A k \in 1 .. Len(args) : args[k] \in S
BY EmptySeq, LenProperties, ElementOfSeq

LEMMA Before ==
    ASSUME NEW n \in Nat, NEW k \in 1 .. n, k # 1
    PROVE  k - 1 \in 1 .. n /\ k \in 2 .. n /\ ~(k =< k - 1)
OBVIOUS

LEMMA Climb ==
    ASSUME NEW n \in Nat, NEW P, 1 \in P, \A k \in 2 .. n : k - 1 \in P => k \in P
    PROVE  \A k \in 1 .. n : k \in P
<1> DEFINE Bad == (1 .. n) \ P
<1>1. SUFFICES ASSUME Bad # {} PROVE FALSE
  OBVIOUS
<1>2. PICK k \in Bad : \A j \in Bad : k =< j
  <2>1. Bad \subseteq Nat
    OBVIOUS
  <2> HIDE DEF Bad
  <2> QED
    BY <1>1, <2>1, LeastOf
<1>3. k \in 1 .. n /\ k # 1
  OBVIOUS
<1>4. k - 1 \in 1 .. n /\ k \in 2 .. n /\ ~(k =< k - 1)
  BY <1>3, Before
<1> QED
  BY <1>2, <1>4

LEMMA ListExists ==
    ASSUME NEW T, Comma \in T, NEW n \in Nat \ {0}, NEW args, AreTexts(args, n, T),
           DOMAIN args = 1 .. n, Len(args) = n
    PROVE  \E g : /\ IsListing(g, args, n) /\ AreTexts(g, n, T)
                 /\ FlattenSeq(Separated(args)) = g[n]
<1> DEFINE s == Separated(args)
<1>1. Len(s) = n /\ s[1] = args[1] /\ \A k \in 2 .. n : s[k] = <<Comma>> \o args[k]
  BY DEF Separated
<1> HIDE DEF s
<1>2. PICK g : IsFlat(g, s, n) /\ FlattenSeq(s) = g[n]
  BY <1>1, Flattened
<1>3. \A k \in 1 .. n : g[k] = IF k = 1 THEN s[k] ELSE g[k - 1] \o s[k]
  BY <1>2, FlatAt
<1>4. g[1] = args[1] /\ \A k \in 2 .. n : g[k] = g[k - 1] \o (<<Comma>> \o args[k])
  <2>1. 1 \in 1 .. n /\ \A k \in 2 .. n : k \in 1 .. n /\ k # 1
    OBVIOUS
  <2> QED
    BY <1>1, <1>3, <2>1, Zenon
<1> DEFINE S == {k \in 1 .. n : g[k] \in Seq(T) /\ (k # 1 => g[k] = g[k - 1] \o <<Comma>> \o args[k])}
<1>5. 1 \in S
  BY <1>4 DEF AreTexts
<1>6. ASSUME NEW k \in 2 .. n, k - 1 \in S PROVE k \in S
  <2>1. k \in 1 .. n /\ k # 1 /\ g[k - 1] \in Seq(T)
    BY <1>6
  <2>2. args[k] \in Seq(T) /\ <<Comma>> \in Seq(T)
    BY <2>1 DEF AreTexts
  <2>3. g[k - 1] \o <<Comma>> \o args[k] = g[k - 1] \o (<<Comma>> \o args[k])
    <3>1. ASSUME NEW u \in Seq(T), NEW s1 \in Seq(T), NEW t \in Seq(T)
          PROVE  u \o s1 \o t = u \o (s1 \o t)
      BY Regroup, SMTT(60)
    <3> QED
      BY <2>1, <2>2, <3>1, Zenon
  <2>4. g[k - 1] \o <<Comma>> \o args[k] \in Seq(T)
    <3> HIDE DEF S
    <3> QED
      BY <2>1, <2>2, Joined
  <2>5. g[k] = g[k - 1] \o <<Comma>> \o args[k]
    BY <1>4, <2>3
  <2> QED
    BY <2>1, <2>4, <2>5
<1>7. \A k \in 1 .. n : k \in S
  <2> HIDE DEF S
  <2> QED
    BY <1>5, <1>6, Climb
<1>8. IsListing(g, args, n)
  <2>1. \A k \in 2 .. n : k \in 1 .. n /\ k # 1
    OBVIOUS
  <2> QED
    BY <1>4, <1>7, <2>1, Zenon DEF IsListing
<1>9. AreTexts(g, n, T)
  BY <1>7, Zenon DEF AreTexts
<1> QED
  BY <1>2, <1>8, <1>9, Zenon DEF s

(* w is u, x and s.                                                        *)
Cut(w, u, x, s) == w = u \o <<x>> \o s

(* Where the first x and the last one are.                                 *)
LEMMA FirstCut ==
    ASSUME NEW T, NEW x \in T, NEW w, NEW u \in Seq(T), NEW v \in Seq(T),
           NEW s \in Seq(T), NEW t \in Seq(T), Lacks(u, x), Lacks(v, x),
           Cut(w, u, x, s), Cut(w, v, x, t)
    PROVE  u = v /\ s = t
BY SplitFirst DEF Cut

LEMMA LastCut ==
    ASSUME NEW T, NEW x \in T, NEW w, NEW u \in Seq(T), NEW v \in Seq(T),
           NEW s \in Seq(T), NEW t \in Seq(T), Lacks(s, x), Lacks(t, x),
           Cut(w, u, x, s), Cut(w, v, x, t)
    PROVE  u = v /\ s = t
BY SplitLast DEF Cut

LEMMA HasIt ==
    ASSUME NEW T, NEW x \in T, NEW u \in Seq(T), NEW s \in Seq(T)
    PROVE  ~Lacks(u \o <<x>> \o s, x)
<1> DEFINE w == u \o <<x>> \o s
<1>1. Len(w) = Len(u) + 1 + Len(s) /\ w[Len(u) + 1] = x /\ Len(u) \in Nat /\ Len(s) \in Nat
  BY Joined
<1> HIDE DEF w
<1>2. Len(u) + 1 \in 1 .. Len(w)
  BY <1>1
<1> QED
  BY <1>1, <1>2 DEF Lacks, w

(* What the parts of a list are can be told from the list.                 *)
LEMMA ListParts ==
    ASSUME NEW T, Comma \in T, NEW n \in Nat \ {0}, NEW m \in Nat \ {0},
           NEW a, AreTexts(a, n, T), \A k \in 1 .. n : Lacks(a[k], Comma),
           NEW b, AreTexts(b, m, T), \A k \in 1 .. m : Lacks(b[k], Comma),
           NEW g, IsListing(g, a, n), AreTexts(g, n, T),
           NEW h, IsListing(h, b, m), AreTexts(h, m, T),
           g[n] = h[m]
    PROVE  n = m /\ \A k \in 1 .. n : a[k] = b[k]
<1> DEFINE Same(k, j) == k = j /\ \A i \in 1 .. k : a[i] = b[i]
           P == {k \in 1 .. n : \A j \in 1 .. m : g[k] = h[j] => Same(k, j)}
<1>1. 1 \in 1 .. n /\ 1 \in 1 .. m /\ n \in 1 .. n /\ m \in 1 .. m
  OBVIOUS
<1>2. /\ \A k \in 2 .. n : k \in 1 .. n /\ k - 1 \in 1 .. n
      /\ \A k \in 2 .. m : k \in 1 .. m /\ k - 1 \in 1 .. m
      /\ \A k \in 1 .. m : k = 1 \/ k \in 2 .. m
  OBVIOUS
<1>3. g[1] = a[1] /\ Lacks(g[1], Comma) /\ h[1] = b[1] /\ Lacks(h[1], Comma)
  BY <1>1, Zenon DEF IsListing
<1>4. ASSUME NEW k \in 2 .. n
      PROVE  /\ g[k] = g[k - 1] \o <<Comma>> \o a[k] /\ ~Lacks(g[k], Comma)
             /\ g[k - 1] \in Seq(T) /\ a[k] \in Seq(T) /\ Lacks(a[k], Comma)
  <2>1. /\ g[k] = g[k - 1] \o <<Comma>> \o a[k]
        /\ g[k - 1] \in Seq(T) /\ a[k] \in Seq(T) /\ Lacks(a[k], Comma)
    BY <1>2, <1>4, Zenon DEF IsListing, AreTexts
  <2> QED
    BY <2>1, HasIt, Zenon
<1>5. ASSUME NEW k \in 2 .. m
      PROVE  /\ h[k] = h[k - 1] \o <<Comma>> \o b[k] /\ ~Lacks(h[k], Comma)
             /\ h[k - 1] \in Seq(T) /\ b[k] \in Seq(T) /\ Lacks(b[k], Comma)
  <2>1. /\ h[k] = h[k - 1] \o <<Comma>> \o b[k]
        /\ h[k - 1] \in Seq(T) /\ b[k] \in Seq(T) /\ Lacks(b[k], Comma)
    BY <1>2, <1>5, Zenon DEF IsListing, AreTexts
  <2> QED
    BY <2>1, HasIt, Zenon
<1>6. 1 \in P
  <2>1. ASSUME NEW j \in 1 .. m, g[1] = h[j] PROVE j = 1
    BY <1>2, <1>3, <1>5, <2>1, Zenon
  <2>2. g[1] = h[1] => Same(1, 1)
    <3>1. g[1] = h[1] => a[1] = b[1]
      BY <1>3, Zenon
    <3>2. \A i \in 1 .. 1 : i = 1
      OBVIOUS
    <3> QED
      BY <3>1, <3>2, Zenon
  <2> HIDE DEF Same
  <2> QED
    BY <1>1, <2>1, <2>2, Zenon
<1>7. ASSUME NEW k \in 2 .. n, k - 1 \in P PROVE k \in P
  <2>1. SUFFICES ASSUME NEW j \in 1 .. m, g[k] = h[j] PROVE Same(k, j)
    BY <1>2, <1>7, Zenon
  <2>2. j \in 2 .. m
    BY <1>2, <1>3, <1>4, <2>1, Zenon
  <2>3. g[k - 1] = h[j - 1] /\ a[k] = b[j]
    <3>1. Cut(g[k], g[k - 1], Comma, a[k]) /\ Cut(g[k], h[j - 1], Comma, b[j])
      BY <1>4, <1>5, <2>1, <2>2, Zenon DEF Cut
    <3>2. /\ g[k - 1] \in Seq(T) /\ h[j - 1] \in Seq(T) /\ a[k] \in Seq(T) /\ b[j] \in Seq(T)
          /\ Lacks(a[k], Comma) /\ Lacks(b[j], Comma)
      BY <1>4, <1>5, <2>2, Zenon
    <3> QED
      BY <3>1, <3>2, LastCut
  <2>4. Same(k - 1, j - 1)
    BY <1>2, <1>7, <2>2, <2>3, Zenon
  <2>5. k = j
    BY <2>4
  <2>6. \A i \in 1 .. k : i \in 1 .. k - 1 \/ i = k
    OBVIOUS
  <2> QED
    BY <2>3, <2>4, <2>5, <2>6, Zenon
<1>8. n \in P
  <2> HIDE DEF P
  <2> QED
    BY <1>1, <1>6, <1>7, Climb
<1> QED
  BY <1>1, <1>8, Zenon

Texts(W) == Seq(W) \ {<<>>}
Listed(args) == FlattenSeq(Separated(args))

LEMMA TextsOf ==
    ASSUME NEW W, Comma \notin W, NEW args \in Seq(Texts(W)), args # <<>>
    PROVE  LET n == Len(args) IN
           /\ n \in Nat \ {0} /\ DOMAIN args = 1 .. n
           /\ AreTexts(args, n, W \cup {Comma})
           /\ \A k \in 1 .. n : args[k] # <<>> /\ Lacks(args[k], Comma)
<1> DEFINE n == Len(args)
<1>1. /\ n \in Nat \ {0} /\ DOMAIN args = 1 .. n
      /\ \A k \in 1 .. n : args[k] \in Texts(W)
  BY ListItems
<1>2. ASSUME NEW s \in Seq(W) PROVE s \in Seq(W \cup {Comma}) /\ Lacks(s, Comma)
  BY SeqMonotonic, ElementOfSeq DEF Lacks
<1> HIDE DEF n
<1>3. \A k \in 1 .. n : args[k] \in Seq(W) /\ args[k] # <<>>
  BY <1>1, Zenon DEF Texts
<1> QED
  BY <1>1, <1>2, <1>3, Zenon DEF AreTexts, n

LEMMA ListOf ==
    ASSUME NEW W, Comma \notin W, NEW args \in Seq(Texts(W)), args # <<>>
    PROVE  LET n == Len(args) IN
           \E g : /\ IsListing(g, args, n) /\ AreTexts(g, n, W \cup {Comma})
                 /\ Listed(args) = g[n]
<1> DEFINE n == Len(args)
           T == W \cup {Comma}
<1>1. n \in Nat \ {0} /\ DOMAIN args = 1 .. n /\ AreTexts(args, n, T) /\ Len(args) = n
  BY TextsOf, Zenon
<1>2. Comma \in T
  OBVIOUS
<1> HIDE DEF n, T
<1>3. \E g : /\ IsListing(g, args, n) /\ AreTexts(g, n, T)
             /\ FlattenSeq(Separated(args)) = g[n]
  BY <1>1, <1>2, ListExists
<1> QED
  BY <1>3, Zenon DEF Listed, n, T

LEMMA ListedNone == Listed(<<>>) = <<>>
<1>1. Separated(<<>>) = <<>>
  BY DEF Separated
<1> QED
  BY <1>1 DEF Listed, FlattenSeq

LEMMA ListedText ==
    ASSUME NEW W, Comma \notin W, NEW args \in Seq(Texts(W))
    PROVE  /\ Listed(args) \in Seq(W \cup {Comma})
           /\ args # <<>> => Listed(args) # <<>>
<1>1. CASE args = <<>>
  BY <1>1, ListedNone, EmptySeq
<1>2. CASE args # <<>>
  <2> DEFINE n == Len(args)
             T == W \cup {Comma}
  <2>1. PICK g : /\ IsListing(g, args, n) /\ AreTexts(g, n, T)
                 /\ Listed(args) = g[n]
    BY <1>2, ListOf
  <2>2. n \in Nat \ {0} /\ AreTexts(args, n, T) /\ \A k \in 1 .. n : args[k] # <<>>
    BY <1>2, TextsOf, Zenon
  <2> HIDE DEF n
  <2>3. n \in 1 .. n /\ n - 1 \in 0 .. n /\ (n # 1 => n \in 2 .. n /\ n - 1 \in 1 .. n)
    BY <2>2
  <2>4. g[n] \in Seq(T)
    BY <2>1, <2>3, Zenon DEF AreTexts
  <2>5. CASE n = 1
    BY <2>1, <2>2, <2>3, <2>4, <2>5, Zenon DEF IsListing
  <2>6. CASE n # 1
    <3>1. g[n] = g[n - 1] \o <<Comma>> \o args[n] /\ g[n - 1] \in Seq(T) /\ args[n] \in Seq(T)
      BY <2>1, <2>2, <2>3, <2>6, Zenon DEF IsListing, AreTexts
    <3>2. ~Lacks(g[n], Comma)
      <4>1. Comma \in T
        OBVIOUS
      <4> HIDE DEF T
      <4>2. ~Lacks(g[n - 1] \o <<Comma>> \o args[n], Comma)
        BY <3>1, <4>1, HasIt
      <4> QED
        BY <3>1, <4>2, Zenon
    <3>3. Lacks(<<>>, Comma)
      BY DEF Lacks
    <3> QED
      BY <2>1, <2>4, <3>2, <3>3, Zenon
  <2> QED
    BY <2>5, <2>6
<1> QED
  BY <1>1, <1>2

LEMMA SameList ==
    ASSUME NEW W, Comma \notin W, NEW a \in Seq(Texts(W)), NEW b \in Seq(Texts(W)),
           Listed(a) = Listed(b)
    PROVE  a = b
<1>1. CASE a = <<>> \/ b = <<>>
  BY <1>1, ListedNone, ListedText
<1>2. CASE a # <<>> /\ b # <<>>
  <2> DEFINE n == Len(a)
             m == Len(b)
             T == W \cup {Comma}
  <2>1. PICK g : IsListing(g, a, n) /\ AreTexts(g, n, T) /\ Listed(a) = g[n]
    BY <1>2, ListOf
  <2>2. PICK h : IsListing(h, b, m) /\ AreTexts(h, m, T) /\ Listed(b) = h[m]
    BY <1>2, ListOf
  <2>3. /\ n \in Nat \ {0} /\ AreTexts(a, n, T) /\ \A k \in 1 .. n : Lacks(a[k], Comma)
        /\ m \in Nat \ {0} /\ AreTexts(b, m, T) /\ \A k \in 1 .. m : Lacks(b[k], Comma)
    BY <1>2, TextsOf, Zenon
  <2>4. Comma \in T
    OBVIOUS
  <2>5. n = m /\ \A k \in 1 .. n : a[k] = b[k]
    <3> HIDE DEF n, m, T
    <3>1. g[n] = h[m]
      BY <2>1, <2>2, Zenon
    <3> QED
      BY <2>1, <2>2, <2>3, <2>4, <3>1, ListParts
  <2> DEFINE S == Texts(W)
  <2> HIDE DEF S
  <2>6. a \in Seq(S) /\ b \in Seq(S)
    BY DEF S
  <2> QED
    BY <2>5, <2>6, SeqEqual
<1> QED
  BY <1>1, <1>2

-----------------------------------------------------------------------------
(* The tokens of a name.                                                   *)
LeftParen == "("
RightParen == ")"
Space == " "
Tilde == "~"
TypeInfo == "typeinfo for"
Scope == "::"
Void == "void"
Tokens(W) == W \cup Separators

LEMMA TokenFacts ==
    ASSUME NEW W, AreWords(W)
    PROVE  /\ Scope \in W /\ Void \in W
           /\ LeftParen \notin W /\ RightParen \notin W /\ Comma \notin W /\ Space \notin W
           /\ Tilde \notin W /\ TypeInfo \notin W
           /\ LeftParen \in Tokens(W) /\ RightParen \in Tokens(W) /\ Comma \in Tokens(W)
           /\ Space \in Tokens(W) /\ Tilde \in Tokens(W) /\ TypeInfo \in Tokens(W)
           /\ Scope \in Tokens(W) /\ Void \in Tokens(W)
           /\ W \subseteq Tokens(W) /\ W \cup {Comma} \subseteq Tokens(W)
<1>1. Scope \in W /\ Void \in W
  BY Zenon DEF AreWords, Scope, Void
<1>2. /\ LeftParen \notin W /\ RightParen \notin W /\ Comma \notin W /\ Space \notin W
      /\ Tilde \notin W /\ TypeInfo \notin W
  <2>1. \A s \in Separators : s \notin W
    BY DEF AreWords
  <2>2. /\ LeftParen \in Separators /\ RightParen \in Separators /\ Comma \in Separators
        /\ Space \in Separators /\ Tilde \in Separators /\ TypeInfo \in Separators
    BY Zenon DEF Separators, LeftParen, RightParen, Comma, Space, Tilde, TypeInfo
  <2> QED
    BY <2>1, <2>2
<1>3. /\ LeftParen \in Tokens(W) /\ RightParen \in Tokens(W) /\ Comma \in Tokens(W)
      /\ Space \in Tokens(W) /\ Tilde \in Tokens(W) /\ TypeInfo \in Tokens(W)
      /\ Scope \in Tokens(W) /\ Void \in Tokens(W)
  BY <1>1, Zenon DEF Separators, LeftParen, RightParen, Comma, Space, Tilde, TypeInfo, Tokens
<1> QED
  BY <1>1, <1>2, <1>3 DEF Tokens

LEMMA TokensDiffer ==
    /\ LeftParen # RightParen /\ LeftParen # Comma /\ LeftParen # Space /\ LeftParen # Tilde
    /\ LeftParen # TypeInfo /\ RightParen # Comma /\ RightParen # Space /\ Comma # Space
    /\ Tilde # Space /\ TypeInfo # Space /\ RightParen # Tilde /\ Comma # Tilde
BY Zenon DEF LeftParen, RightParen, Space, Tilde, TypeInfo, Comma

LEMMA LacksOutside ==
    ASSUME NEW W, NEW T, W \subseteq T, NEW s \in Seq(W)
    PROVE  s \in Seq(T) /\ \A x : x \notin W => Lacks(s, x)
<1>1. s \in Seq(T)
  BY SeqMonotonic
<1>2. \A k \in 1 .. Len(s) : s[k] \in W
  BY ElementOfSeq
<1> QED
  BY <1>1, <1>2 DEF Lacks

LEMMA LacksBoth ==
    ASSUME NEW T, NEW u \in Seq(T), NEW s \in Seq(T), NEW x, Lacks(u, x), Lacks(s, x)
    PROVE  Lacks(u \o s, x)
<1>1. /\ Len(u \o s) = Len(u) + Len(s)
      /\ \A i \in 1 .. Len(u) + Len(s) :
            (u \o s)[i] = IF i <= Len(u) THEN u[i] ELSE s[i - Len(u)]
  BY ConcatProperties
<1>2. Len(u) \in Nat /\ Len(s) \in Nat
  OBVIOUS
<1>3. ASSUME NEW i \in 1 .. Len(u) + Len(s) PROVE (u \o s)[i] # x
  <2>1. i <= Len(u) => i \in 1 .. Len(u)
    BY <1>2
  <2>2. ~(i <= Len(u)) => i - Len(u) \in 1 .. Len(s)
    BY <1>2
  <2> QED
    BY <1>1, <2>1, <2>2 DEF Lacks
<1> HIDE <1>2
<1> QED
  BY <1>1, <1>3 DEF Lacks

LEMMA LacksPart ==
    ASSUME NEW T, NEW u \in Seq(T), NEW s \in Seq(T), NEW x, Lacks(u \o s, x)
    PROVE  Lacks(u, x) /\ Lacks(s, x)
<1>1. /\ Len(u \o s) = Len(u) + Len(s)
      /\ \A i \in 1 .. Len(u) + Len(s) :
            (u \o s)[i] = IF i <= Len(u) THEN u[i] ELSE s[i - Len(u)]
  BY ConcatProperties
<1>2. Len(u) \in Nat /\ Len(s) \in Nat
  OBVIOUS
<1>3. ASSUME NEW i \in 1 .. Len(u) PROVE u[i] # x
  <2>1. i \in 1 .. Len(u) + Len(s) /\ i <= Len(u)
    BY <1>2
  <2> QED
    BY <1>1, <2>1 DEF Lacks
<1>4. ASSUME NEW i \in 1 .. Len(s) PROVE s[i] # x
  <2>1. /\ Len(u) + i \in 1 .. Len(u) + Len(s) /\ ~(Len(u) + i <= Len(u))
        /\ Len(u) + i - Len(u) = i
    BY <1>2
  <2> QED
    BY <1>1, <2>1 DEF Lacks
<1> QED
  BY <1>3, <1>4 DEF Lacks

LEMMA LacksOne ==
    ASSUME NEW x, NEW y, x # y
    PROVE  Lacks(<<y>>, x)
BY DEF Lacks

LEMMA ParametersListed ==
    ASSUME NEW args
    PROVE  Parameters(args) = <<LeftParen>> \o Listed(args) \o <<RightParen>>
BY Zenon DEF Parameters, Listed, Separated, LeftParen, RightParen, Comma

LEMMA Bracketed ==
    ASSUME NEW T, NEW x \in T, NEW y \in T, NEW u \in Seq(T), NEW f \in Seq(T),
           NEW w \in Seq(T)
    PROVE  /\ <<x>> \o f \o <<y>> \in Seq(T)
           /\ u \o (<<x>> \o f \o <<y>>) \o w = u \o <<x>> \o (f \o <<y>> \o w)
<1> DEFINE a == <<x>>
           b == <<y>>
<1>1. a \in Seq(T) /\ b \in Seq(T)
  OBVIOUS
<1> HIDE DEF a, b
<1>2. ASSUME NEW p \in Seq(T), NEW q \in Seq(T) PROVE p \o q \in Seq(T)
  BY ConcatProperties
<1>3. ASSUME NEW p \in Seq(T), NEW q \in Seq(T), NEW r \in Seq(T)
      PROVE  p \o q \o r = p \o (q \o r)
  BY Regroup
<1>4. a \o f \in Seq(T) /\ a \o f \o b \in Seq(T) /\ b \o w \in Seq(T) /\ f \o b \in Seq(T)
      /\ f \o b \o w \in Seq(T)
  BY <1>1, <1>2, Zenon
<1>5. a \o f \o b \o w = a \o (f \o b \o w)
  <2> DEFINE af == a \o f
             bw == b \o w
  <2>1. af \o b \o w = af \o bw
    <3>1. af \in Seq(T)
      BY <1>4
    <3> HIDE DEF af, bw
    <3> QED
      BY <1>1, <1>3, <3>1, Zenon DEF bw
  <2>2. a \o f \o bw = a \o (f \o bw)
    <3>1. bw \in Seq(T)
      BY <1>4
    <3> HIDE DEF bw
    <3> QED
      BY <1>1, <1>3, <3>1, ZenonT(60)
  <2>3. f \o b \o w = f \o bw
    BY <1>1, Regroup, SMTT(60)
  <2> HIDE DEF bw
  <2> QED
    BY <2>1, <2>2, <2>3
<1>6. u \o (a \o f \o b) \o w = u \o (a \o f \o b \o w)
  BY <1>3, <1>4, ZenonT(60)
<1>7. u \o a \o (f \o b \o w) = u \o (a \o (f \o b \o w))
  <2> DEFINE fbw == f \o b \o w
  <2>1. fbw \in Seq(T)
    BY <1>4
  <2> HIDE DEF fbw
  <2>2. u \o a \o fbw = u \o (a \o fbw)
    BY <1>1, <1>3, <2>1, ZenonT(60)
  <2> QED
    BY <2>2 DEF fbw
<1> DEFINE q == a \o f \o b
           r == f \o b \o w
<1>8. q \in Seq(T) /\ u \o q \o w = u \o a \o r
  <2>1. q \o w = a \o r /\ u \o q \o w = u \o (q \o w) /\ u \o a \o r = u \o (a \o r)
    BY <1>5, <1>6, <1>7
  <2>2. q \in Seq(T)
    BY <1>4
  <2> HIDE DEF q, r
  <2> QED
    BY <2>1, <2>2, Zenon
<1> QED
  BY <1>8 DEF a, b

Bracket(x, f, y) == <<x>> \o f \o <<y>>

LEMMA BracketCut ==
    ASSUME NEW T, NEW x \in T, NEW y \in T, NEW u \in Seq(T), NEW f \in Seq(T),
           NEW w \in Seq(T)
    PROVE  Cut(u \o Bracket(x, f, y) \o w, u, x, f \o <<y>> \o w)
<1>1. u \o Bracket(x, f, y) \o w = u \o <<x>> \o (f \o <<y>> \o w)
  BY Bracketed, SMTT(60) DEF Bracket
<1> QED
  BY <1>1, Zenon DEF Cut

(* A name with parameters: what precedes them, their types, what follows.  *)
WithParameters(u, args, w) == u \o Parameters(args) \o w

LEMMA ParametersCut ==
    ASSUME NEW W, AreWords(W), NEW u \in Seq(Tokens(W)), NEW w \in Seq(Tokens(W)),
           NEW args \in Seq(Texts(W))
    PROVE  \E rest \in Seq(Tokens(W)) :
              /\ Cut(WithParameters(u, args, w), u, LeftParen, rest)
              /\ Cut(rest, Listed(args), RightParen, w)
              /\ Listed(args) \in Seq(Tokens(W)) /\ Lacks(Listed(args), RightParen)
<1> DEFINE T == Tokens(W)
           f == Listed(args)
<1>1. LeftParen \in T /\ RightParen \in T /\ Comma \notin W /\ RightParen \notin W \cup {Comma}
      /\ W \cup {Comma} \subseteq T
  BY TokenFacts, TokensDiffer
<1>2. f \in Seq(W \cup {Comma})
  BY <1>1, ListedText
<1> HIDE DEF T, f
<1>3. f \in Seq(T) /\ Lacks(f, RightParen)
  BY <1>1, <1>2, LacksOutside
<1>4. u \in Seq(T) /\ w \in Seq(T)
  BY DEF T
<1>5. Cut(WithParameters(u, args, w), u, LeftParen, f \o <<RightParen>> \o w)
  <2>1. Cut(u \o Bracket(LeftParen, f, RightParen) \o w, u, LeftParen, f \o <<RightParen>> \o w)
    BY <1>1, <1>3, <1>4, BracketCut
  <2> QED
    BY <2>1, ParametersListed, Zenon DEF Bracket, WithParameters, f
<1>6. f \o <<RightParen>> \o w \in Seq(T)
  BY <1>1, <1>3, <1>4, Joined
<1> QED
  BY <1>3, <1>5, <1>6, Zenon DEF Cut, f, T

(* The parts of a name with parameters can be told from it.                *)
LEMMA ParametersApart ==
    ASSUME NEW W, AreWords(W),
           NEW u \in Seq(Tokens(W)), NEW v \in Seq(Tokens(W)), Lacks(u, LeftParen), Lacks(v, LeftParen),
           NEW w \in Seq(Tokens(W)), NEW z \in Seq(Tokens(W)),
           NEW a \in Seq(Texts(W)), NEW b \in Seq(Texts(W)),
           WithParameters(u, a, w) = WithParameters(v, b, z)
    PROVE  u = v /\ a = b /\ w = z
<1> DEFINE T == Tokens(W)
           d == WithParameters(u, a, w)
<1>1. LeftParen \in T /\ RightParen \in T /\ Comma \notin W
  BY TokenFacts
<1>2. PICK r \in Seq(T) : /\ Cut(d, u, LeftParen, r) /\ Cut(r, Listed(a), RightParen, w)
                         /\ Listed(a) \in Seq(T) /\ Lacks(Listed(a), RightParen)
  BY ParametersCut
<1>3. PICK s \in Seq(T) : /\ Cut(d, v, LeftParen, s) /\ Cut(s, Listed(b), RightParen, z)
                         /\ Listed(b) \in Seq(T) /\ Lacks(Listed(b), RightParen)
  <2>1. d = WithParameters(v, b, z)
    OBVIOUS
  <2> HIDE DEF d
  <2> QED
    BY <2>1, ParametersCut
<1>4. u \in Seq(T) /\ v \in Seq(T) /\ w \in Seq(T) /\ z \in Seq(T)
  OBVIOUS
<1> HIDE DEF T, d
<1>5. u = v /\ r = s
  BY <1>1, <1>2, <1>3, <1>4, FirstCut
<1>6. Listed(a) = Listed(b) /\ w = z
  BY <1>1, <1>2, <1>3, <1>4, <1>5, FirstCut
<1> QED
  BY <1>1, <1>5, <1>6, SameList

LEMMA ParametersText ==
    ASSUME NEW W, AreWords(W), NEW u \in Seq(Tokens(W)), NEW w \in Seq(Tokens(W)),
           NEW a \in Seq(Texts(W))
    PROVE  /\ WithParameters(u, a, w) \in Seq(Tokens(W))
           /\ ~Lacks(WithParameters(u, a, w), LeftParen)
<1> DEFINE d == WithParameters(u, a, w)
           T == Tokens(W)
<1>1. PICK r \in Seq(T) : Cut(d, u, LeftParen, r)
  BY ParametersCut
<1>2. LeftParen \in T /\ u \in Seq(T)
  BY TokenFacts
<1> HIDE DEF d, T
<1>3. u \o <<LeftParen>> \o r \in Seq(T) /\ ~Lacks(u \o <<LeftParen>> \o r, LeftParen)
  BY <1>2, Joined, HasIt
<1> QED
  BY <1>1, <1>3, Zenon DEF Cut, d, T

-----------------------------------------------------------------------------
(* The names of classes and what they are without their scopes.            *)
LEMMA GreatestOf ==
    ASSUME NEW l \in Nat, NEW S, S \subseteq 1 .. l, S # {}
    PROVE  Max(S) \in S /\ \A y \in S : Max(S) >= y
<1> DEFINE D == {l - y : y \in S}
<1>1. D \subseteq Nat /\ D # {}
  OBVIOUS
<1>2. PICK d \in D : \A x \in D : d =< x
  <2> HIDE DEF D
  <2> QED
    BY <1>1, LeastOf
<1>3. PICK g \in S : d = l - g
  OBVIOUS
<1>4. ASSUME NEW y \in S PROVE g >= y
  <2>1. l - y \in D
    OBVIOUS
  <2>2. l - g =< l - y
    <3> HIDE DEF D
    <3> QED
      BY <1>2, <1>3, <2>1
  <2> QED
    BY <2>2
<1>5. \E x \in S : \A y \in S : x >= y
  BY <1>4
<1> QED
  BY <1>5 DEF Max

LEMMA UnscopedWords ==
    ASSUME NEW W, NEW class \in Seq(W)
    PROVE  Unscoped(class) \in Seq(W) /\ Lacks(Unscoped(class), Scope)
<1> DEFINE n == Len(class)
           S == {i \in 1 .. n : class[i] = Scope}
           m == IF S # {} THEN Max(S) ELSE 0
<1>1. n \in Nat /\ \A i \in 1 .. n : class[i] \in W
  OBVIOUS
<1>2. Unscoped(class) = SubSeq(class, m + 1, n)
  BY DEF Unscoped, SelectLastInSeq, Scope
<1>3. S \subseteq 1 .. n
  OBVIOUS
<1>4. m \in 0 .. n /\ \A i \in m + 1 .. n : class[i] # Scope
  <2> HIDE DEF n
  <2>1. CASE S = {}
    <3>1. m = 0
      BY <2>1
    <3> QED
      BY <1>1, <2>1, <3>1
  <2>2. CASE S # {}
    <3>1. m \in S /\ \A y \in S : m >= y
      <4>1. m = Max(S)
        BY <2>2
      <4> HIDE DEF S, m
      <4> QED
        BY <1>1, <1>3, <2>2, <4>1, GreatestOf
    <3>2. \A i \in m + 1 .. n : i \in S => FALSE
      <4> HIDE DEF S, m
      <4> QED
        BY <1>1, <1>3, <3>1
    <3>3. m \in 1 .. n
      BY <3>1
    <3> HIDE DEF m
    <3> QED
      BY <1>1, <3>2, <3>3
  <2> QED
    BY <2>1, <2>2
<1> HIDE DEF m, n, S
<1>5. \A i \in m + 1 .. n : class[i] \in W
  BY <1>1, <1>4
<1>6. /\ SubSeq(class, m + 1, n) \in Seq(W)
      /\ Len(SubSeq(class, m + 1, n)) = IF m + 1 <= n THEN n - (m + 1) + 1 ELSE 0
      /\ \A i \in 1 .. n - (m + 1) + 1 :
            SubSeq(class, m + 1, n)[i] = class[m + 1 + i - 1]
  BY <1>1, <1>4, <1>5, SubSeqProperties
<1> DEFINE s == SubSeq(class, m + 1, n)
<1>7. /\ Len(s) = n - m /\ \A i \in 1 .. n - m : s[i] = class[m + i]
  <2>1. /\ n - (m + 1) + 1 = n - m /\ (m + 1 <= n => n - (m + 1) + 1 = n - m)
        /\ (~(m + 1 <= n) => n - m = 0) /\ \A i \in 1 .. n - m : m + 1 + i - 1 = m + i
    BY <1>1, <1>4
  <2> HIDE DEF s
  <2> QED
    BY <1>6, <2>1 DEF s
<1>8. \A i \in 1 .. n - m : m + i \in m + 1 .. n
  BY <1>1, <1>4
<1>9. Lacks(s, Scope)
  <2> HIDE DEF s
  <2> QED
    BY <1>4, <1>7, <1>8 DEF Lacks
<1> QED
  BY <1>2, <1>6, <1>9

LEMMA OneByOne ==
    ASSUME NEW T, NEW x \in T, NEW y \in T, NEW u \in Seq(T)
    PROVE  u \o <<x, y>> = u \o <<x>> \o <<y>>
<1>1. <<x, y>> = <<x>> \o <<y>>
  <2> DEFINE v == <<x, y>>
             w == <<x>> \o <<y>>
  <2>1. v \in Seq(T) /\ Len(v) = 2 /\ v[1] = x /\ v[2] = y
    OBVIOUS
  <2>2. /\ <<x>> \in Seq(T) /\ <<y>> \in Seq(T) /\ Len(<<x>>) = 1 /\ Len(<<y>>) = 1
        /\ <<x>>[1] = x /\ <<y>>[1] = y
    OBVIOUS
  <2>3. w \in Seq(T) /\ Len(w) = 2 /\ w[1] = x /\ w[2] = y
    <3> DEFINE p == <<x>>
               q == <<y>>
    <3> HIDE DEF p, q
    <3>1. /\ p \o q \in Seq(T) /\ Len(p \o q) = Len(p) + Len(q)
          /\ \A i \in 1 .. Len(p) + Len(q) : (p \o q)[i] = IF i <= Len(p) THEN p[i] ELSE q[i - Len(p)]
      BY <2>2, ConcatProperties DEF p, q
    <3>2. Len(p) = 1 /\ Len(q) = 1 /\ p[1] = x /\ q[1] = y
      BY <2>2 DEF p, q
    <3>3. (p \o q)[1] = p[1] /\ (p \o q)[2] = q[1] /\ Len(p \o q) = 2
      BY <3>1, <3>2
    <3> QED
      BY <3>1, <3>2, <3>3 DEF p, q
  <2> HIDE DEF v, w
  <2>4. v = w
    <3>1. \A i \in 1 .. Len(v) : v[i] = w[i]
      BY <2>1, <2>3
    <3> QED
      BY <2>1, <2>3, <3>1, SeqEqual
  <2> QED
    BY <2>4 DEF v, w
<1>2. <<x>> \in Seq(T) /\ <<y>> \in Seq(T)
  OBVIOUS
<1>3. u \o (<<x>> \o <<y>>) = u \o <<x>> \o <<y>>
  BY <1>2, Regroup
<1> QED
  BY <1>1, <1>3, Zenon

LEMMA SourceWords ==
    ASSUME NEW W, AreWords(W), NEW class \in Seq(W)
    PROVE  SourceName(class) \in Seq(W) /\ Lacks(SourceName(class), Scope)
<1>1. CASE ~IsInstance(class)
  BY <1>1, UnscopedWords, Zenon DEF SourceName
<1>2. CASE IsInstance(class)
  <2>1. PICK w \in DOMAIN ClassTemplate : Unscoped(class) = <<w>>
    BY <1>2, Zenon DEF IsInstance
  <2> DEFINE t == ClassTemplate[w]
  <2>2. t \in W /\ t # Scope
    BY <2>1, Zenon DEF AreWords, Scope
  <2>3. SourceName(class) = <<t>>
    <3>1. Unscoped(class)[1] = w
      BY <2>1
    <3> QED
      BY <1>2, <3>1, Zenon DEF SourceName
  <2> HIDE DEF t
  <2>4. <<t>> \in Seq(W) /\ Lacks(<<t>>, Scope)
    BY <2>2, LacksOne
  <2> QED
    BY <2>3, <2>4
<1> QED
  BY <1>1, <1>2

(* What the words before the parameters are.                               *)
CtorName(class) == class \o <<Scope>> \o SourceName(class)
DtorName(class) == class \o <<Scope>> \o <<Tilde>> \o SourceName(class)
MemberName(class, name) == class \o <<Scope>> \o <<name>>

LEMMA NamesOfMembers ==
    ASSUME NEW W, AreWords(W), NEW class \in Seq(W), NEW name \in W
    PROVE  /\ CtorName(class) \in Seq(W)
           /\ MemberName(class, name) \in Seq(W) /\ \A x : MemberName(class, name) # <<x>>
           /\ DtorName(class) \in Seq(Tokens(W)) /\ ~Lacks(DtorName(class), Tilde)
           /\ Lacks(DtorName(class), LeftParen) /\ Lacks(DtorName(class), Space)
<1>1. SourceName(class) \in Seq(W)
  BY SourceWords
<1>2. Scope \in W
  BY TokenFacts
<1>3. CtorName(class) \in Seq(W)
  BY <1>1, <1>2, Joined DEF CtorName
<1>4. MemberName(class, name) \in Seq(W) /\ Len(MemberName(class, name)) = Len(class) + 1 + 1
  BY <1>2, Joined DEF MemberName
<1>5. \A x : MemberName(class, name) # <<x>>
  <2>1. (\A x : Len(<<x>>) = 1) /\ Len(class) \in Nat
    OBVIOUS
  <2>2. Len(class) + 1 + 1 # 1
    BY <2>1
  <2> QED
    BY <1>4, <2>1, <2>2
<1> DEFINE T == Tokens(W)
           u == class \o <<Scope>>
           s == SourceName(class)
<1>6. Tilde \in T /\ W \subseteq T /\ LeftParen \notin W /\ Space \notin W
      /\ Tilde # LeftParen /\ Tilde # Space
  BY TokenFacts, TokensDiffer
<1>7. u \in Seq(W)
  BY <1>2, ConcatProperties
<1>8. s \in Seq(W)
  BY <1>1
<1> HIDE DEF T, u, s
<1>9. u \in Seq(T) /\ s \in Seq(T) /\ Lacks(u, LeftParen) /\ Lacks(s, LeftParen)
      /\ Lacks(u, Space) /\ Lacks(s, Space)
  BY <1>6, <1>7, <1>8, LacksOutside
<1>10. u \o <<Tilde>> \o s \in Seq(T) /\ ~Lacks(u \o <<Tilde>> \o s, Tilde)
  BY <1>6, <1>9, Joined, HasIt
<1>11. /\ Lacks(u \o <<Tilde>> \o s, LeftParen)
       /\ Lacks(u \o <<Tilde>> \o s, Space)
  <2>1. <<Tilde>> \in Seq(T) /\ u \o <<Tilde>> \in Seq(T)
    BY <1>6, <1>9, ConcatProperties
  <2>2. Lacks(<<Tilde>>, LeftParen) /\ Lacks(<<Tilde>>, Space)
    BY <1>6, LacksOne
  <2>3. Lacks(u \o <<Tilde>>, LeftParen) /\ Lacks(u \o <<Tilde>>, Space)
    BY <1>9, <2>1, <2>2, LacksBoth
  <2> DEFINE v == u \o <<Tilde>>
  <2> HIDE DEF v
  <2>4. v \in Seq(T) /\ Lacks(v, LeftParen) /\ Lacks(v, Space)
    BY <2>1, <2>3 DEF v
  <2>5. Lacks(v \o s, LeftParen) /\ Lacks(v \o s, Space)
    BY <1>9, <2>4, LacksBoth
  <2> QED
    BY <2>5 DEF v
<1> QED
  BY <1>3, <1>4, <1>5, <1>10, <1>11, Zenon DEF DtorName, u, s, T

-----------------------------------------------------------------------------
(* The names of the entities of a library.                                 *)
NameOf(e) == Stored("itanium", e).demangled
InstanceName(e) == <<Void>> \o <<Space>> \o Scoped(e)

LEMMA ShownAs ==
    ASSUME NEW e, NEW d, Demangled(e) = d, d # <<>>
    PROVE  NameOf(e) = d
<1>1. "itanium" # "msvc"
  OBVIOUS
<1> QED
  BY <1>1, Zenon DEF NameOf, Stored

LEMMA Spelling ==
    ASSUME NEW W, AreWords(W), NEW e, EntitySpelled(W, e)
    PROVE  /\ e.class \in Seq(W) /\ e.name \in W /\ e.name # Scope /\ e.quals \in Seq(W)
           /\ e.args \in Seq(Texts(W))
           /\ e.kind = "function" => e.class \notin ClassNames
           /\ e.kind = "c" => e.class = <<>>
           /\ e.kind \in {"function", "member", "instance", "variable", "ctor", "dtor",
                          "typeinfo", "c"}
BY Zenon DEF EntitySpelled, Texts, Scope

LEMMA ScopedName ==
    ASSUME NEW W, AreWords(W), NEW e, EntitySpelled(W, e)
    PROVE  /\ Scoped(e) \in Seq(W) /\ Scoped(e) # <<>>
           /\ e.class = <<>> => Scoped(e) = <<e.name>>
           /\ e.class # <<>> => Scoped(e) = MemberName(e.class, e.name)
<1> DEFINE c == e.class
           n == e.name
<1>1. c \in Seq(W) /\ n \in W /\ Scope \in W
  BY Spelling, TokenFacts
<1>2. Scoped(e) = IF c = <<>> THEN <<n>> ELSE c \o <<Scope, n>>
  BY Zenon DEF Scoped, Scope
<1> HIDE DEF c, n
<1>3. c \o <<Scope, n>> = MemberName(c, n)
  BY <1>1, OneByOne DEF MemberName
<1>4. MemberName(c, n) \in Seq(W) /\ MemberName(c, n) # <<>>
  <2>1. /\ c \o <<Scope>> \o <<n>> \in Seq(W)
        /\ Len(c \o <<Scope>> \o <<n>>) = Len(c) + 1 + Len(<<n>>)
    BY <1>1, Joined
  <2>2. Len(<<n>>) = 1 /\ Len(c) \in Nat /\ Len(<<>>) = 0
    BY <1>1
  <2>3. Len(c) + 1 + 1 # 0
    BY <2>2
  <2> QED
    BY <2>1, <2>2, <2>3 DEF MemberName
<1>5. <<n>> \in Seq(W) /\ <<n>> # <<>>
  BY <1>1
<1> QED
  BY <1>2, <1>3, <1>4, <1>5 DEF c, n

LEMMA InstanceText ==
    ASSUME NEW W, AreWords(W), NEW e, EntitySpelled(W, e)
    PROVE  /\ InstanceName(e) \in Seq(Tokens(W)) /\ Lacks(InstanceName(e), LeftParen)
           /\ ~Lacks(InstanceName(e), Space)
<1> DEFINE T == Tokens(W)
           s == Scoped(e)
           v == <<Void>> \o <<Space>>
<1>1. Void \in T /\ Space \in T /\ Void \in W /\ LeftParen \notin W /\ W \subseteq T
      /\ LeftParen # Space
  BY TokenFacts, TokensDiffer
<1>2. s \in Seq(W)
  BY ScopedName
<1> HIDE DEF T, s
<1>3. /\ <<Void>> \in Seq(T) /\ <<Space>> \in Seq(T) /\ s \in Seq(T) /\ Lacks(s, LeftParen)
      /\ Lacks(<<Void>>, LeftParen) /\ Lacks(<<Space>>, LeftParen)
  BY <1>1, <1>2, LacksOutside, LacksOne
<1>4. v \in Seq(T) /\ Lacks(v, LeftParen)
  BY <1>3, LacksBoth, ConcatProperties
<1>5. v \o s \in Seq(T) /\ ~Lacks(v \o s, Space)
  BY <1>1, <1>3, Joined, HasIt
<1>6. Lacks(v \o s, LeftParen)
  <2> HIDE DEF v
  <2> QED
    BY <1>3, <1>4, LacksBoth
<1> QED
  BY <1>5, <1>6 DEF InstanceName, s, T

LEMMA NotNothing ==
    ASSUME NEW s, NEW x, ~Lacks(s, x)
    PROVE  s # <<>>
BY DEF Lacks

LEMMA NameWithParameters ==
    ASSUME NEW W, AreWords(W), NEW e, EntitySpelled(W, e),
           NEW u \in Seq(Tokens(W)), NEW a \in Seq(Texts(W)), NEW w \in Seq(Tokens(W)),
           Demangled(e) = WithParameters(u, a, w)
    PROVE  NameOf(e) = WithParameters(u, a, w)
<1>1. ~Lacks(WithParameters(u, a, w), LeftParen)
  BY ParametersText
<1> QED
  BY <1>1, ShownAs, NotNothing

LEMMA Pieces ==
    ASSUME NEW W, AreWords(W), NEW e, EntitySpelled(W, e)
    PROVE  /\ Scoped(e) \in Seq(Tokens(W)) /\ e.quals \in Seq(Tokens(W))
           /\ e.class \in Seq(Tokens(W)) /\ CtorName(e.class) \in Seq(Tokens(W))
           /\ DtorName(e.class) \in Seq(Tokens(W))
           /\ e.args \in Seq(Texts(W)) /\ <<>> \in Seq(Texts(W)) /\ <<>> \in Seq(Tokens(W))
           /\ Lacks(Scoped(e), LeftParen) /\ Lacks(CtorName(e.class), LeftParen)
           /\ Lacks(DtorName(e.class), LeftParen)
           /\ Lacks(Scoped(e), Space) /\ Lacks(CtorName(e.class), Space)
           /\ Lacks(DtorName(e.class), Space) /\ Lacks(e.quals, Space)
           /\ Lacks(Scoped(e), Tilde) /\ Lacks(CtorName(e.class), Tilde)
           /\ Lacks(e.class, LeftParen) /\ Lacks(e.class, Space)
<1> DEFINE c == e.class
           s == Scoped(e)
           q == e.quals
           T == Tokens(W)
           n == CtorName(c)
<1>1. s \in Seq(W) /\ q \in Seq(W) /\ c \in Seq(W) /\ e.name \in W /\ e.args \in Seq(Texts(W))
  BY ScopedName, Spelling
<1>2. /\ n \in Seq(W) /\ DtorName(c) \in Seq(T)
      /\ Lacks(DtorName(c), LeftParen) /\ Lacks(DtorName(c), Space)
  BY <1>1, NamesOfMembers
<1>3. LeftParen \notin W /\ Space \notin W /\ Tilde \notin W /\ W \subseteq T
  BY TokenFacts
<1>4. <<>> \in Seq(Texts(W)) /\ <<>> \in Seq(T)
  BY EmptySeq
<1> HIDE DEF c, s, q, T, n
<1>5. ASSUME NEW t \in Seq(W)
      PROVE  t \in Seq(T) /\ Lacks(t, LeftParen) /\ Lacks(t, Space) /\ Lacks(t, Tilde)
  BY <1>3, LacksOutside
<1> QED
  BY <1>1, <1>2, <1>4, <1>5, Zenon DEF c, s, q, T, n

LEMMA NameOfMember ==
    ASSUME NEW W, AreWords(W), NEW e, EntitySpelled(W, e), e.kind \in {"function", "member"}
    PROVE  NameOf(e) = WithParameters(Scoped(e), e.args, e.quals)
<1>1. Demangled(e) = WithParameters(Scoped(e), e.args, e.quals)
  BY Zenon DEF Demangled, WithParameters
<1> QED
  BY <1>1, Pieces, NameWithParameters

LEMMA ParametersIn ==
    ASSUME NEW W, AreWords(W), NEW args \in Seq(Texts(W))
    PROVE  Parameters(args) \in Seq(Tokens(W))
<1> DEFINE T == Tokens(W)
           f == Listed(args)
<1>1. LeftParen \in T /\ RightParen \in T /\ <<>> \in Seq(T)
  BY TokenFacts, EmptySeq
<1>2. f \in Seq(T)
  BY <1>1, ParametersCut
<1> HIDE DEF T, f
<1>3. <<LeftParen>> \o f \o <<RightParen>> \in Seq(T)
  BY <1>1, <1>2, Bracketed
<1> QED
  BY <1>3, ParametersListed DEF f, T

LEMMA NoneBehind ==
    ASSUME NEW T, NEW u \in Seq(T), NEW p \in Seq(T)
    PROVE  u \o p \o <<>> = u \o p
<1> DEFINE v == u \o p
<1>1. v \in Seq(T)
  BY ConcatProperties
<1> HIDE DEF v
<1>2. v \o <<>> = v
  BY <1>1, ConcatEmptySeq
<1> QED
  BY <1>2 DEF v

LEMMA NameOfInstance ==
    ASSUME NEW W, AreWords(W), NEW e, EntitySpelled(W, e), e.kind = "instance"
    PROVE  /\ NameOf(e) = WithParameters(InstanceName(e), e.args, e.quals)
           /\ NameOf(e) = <<Void>> \o <<Space>> \o WithParameters(Scoped(e), e.args, e.quals)
<1> DEFINE T == Tokens(W)
           s == Scoped(e)
           p == Parameters(e.args)
           q == e.quals
           v == <<Void, Space>>
<1>1. Demangled(e) = v \o (s \o p \o q)
  BY Zenon DEF Demangled, Void, Space
<1>2. s \in Seq(T) /\ q \in Seq(T) /\ e.args \in Seq(Texts(W)) /\ <<>> \in Seq(T)
  BY Pieces
<1>3. p \in Seq(T)
  BY <1>2, ParametersIn
<1>4. Void \in T /\ Space \in T
  BY TokenFacts
<1>5. v \in Seq(T) /\ v = <<Void>> \o <<Space>>
  <2>1. <<>> \o v = <<>> \o <<Void>> \o <<Space>>
    BY <1>2, <1>4, OneByOne
  <2>2. <<Void>> \in Seq(T) /\ v \in Seq(T)
    BY <1>4
  <2>3. <<>> \o <<Void>> = <<Void>> /\ <<>> \o v = v
    BY <2>2, ConcatEmptySeq
  <2> QED
    BY <2>1, <2>2, <2>3, Zenon
<1> HIDE DEF T, s, p, q, v
<1>6. v \o (s \o p \o q) = v \o s \o p \o q
  <2>1. ASSUME NEW x \in Seq(T), NEW y \in Seq(T), NEW z \in Seq(T)
        PROVE  x \o y \in Seq(T) /\ x \o y \o z = x \o (y \o z)
    BY Regroup, ConcatProperties
  <2>2. v \o (s \o p) = v \o s \o p
    BY <1>2, <1>3, <1>5, <2>1, Zenon
  <2> DEFINE sp == s \o p
  <2>3. sp \in Seq(T)
    BY <1>2, <1>3, <2>1, Zenon
  <2>4. v \o (sp \o q) = v \o sp \o q
    <3>1. v \in Seq(T) /\ q \in Seq(T)
      BY <1>2, <1>5
    <3> HIDE DEF sp
    <3> QED
      BY <2>1, <2>3, <3>1, ZenonT(60)
  <2> QED
    BY <2>2, <2>4, Zenon
<1>7. Demangled(e) = WithParameters(InstanceName(e), e.args, e.quals)
  BY <1>1, <1>5, <1>6, Zenon DEF WithParameters, InstanceName, s, p, q
<1>8. NameOf(e) = Demangled(e)
  BY <1>7, Pieces, InstanceText, NameWithParameters
<1> QED
  BY <1>1, <1>5, <1>7, <1>8, Zenon DEF WithParameters, s, p, q

LEMMA NameOfCtor ==
    ASSUME NEW W, AreWords(W), NEW e, EntitySpelled(W, e), e.kind = "ctor"
    PROVE  NameOf(e) = WithParameters(CtorName(e.class), e.args, <<>>)
<1> DEFINE n == CtorName(e.class)
<1>1. Demangled(e) = n \o Parameters(e.args)
  BY Zenon DEF Demangled, CtorName, Scope
<1>2. n \in Seq(Tokens(W)) /\ <<>> \in Seq(Tokens(W)) /\ e.args \in Seq(Texts(W))
  BY Pieces
<1>3. n \o Parameters(e.args) \o <<>> = n \o Parameters(e.args)
  BY <1>2, ParametersIn, NoneBehind
<1>4. Demangled(e) = WithParameters(n, e.args, <<>>)
  BY <1>1, <1>3 DEF WithParameters
<1> QED
  BY <1>2, <1>4, NameWithParameters

LEMMA DtorSpelled ==
    ASSUME NEW W, AreWords(W), NEW c \in Seq(W)
    PROVE  c \o <<"::", "~">> \o SourceName(c) \o <<"(", ")">>
             = WithParameters(DtorName(c), <<>>, <<>>)
<1> DEFINE T == Tokens(W)
           s == SourceName(c)
           n == DtorName(c)
           p == <<LeftParen, RightParen>>
<1>2. /\ c \in Seq(T) /\ n \in Seq(T) /\ <<>> \in Seq(T) /\ <<>> \in Seq(Texts(W))
      /\ Scope \in T /\ Tilde \in T /\ LeftParen \in T /\ RightParen \in T /\ W \subseteq T
  BY TokenFacts, NamesOfMembers, SeqMonotonic, EmptySeq
<1>3. s \in Seq(T)
  BY <1>2, SourceWords, SeqMonotonic
<1>4. Parameters(<<>>) = p
  <2>1. <<>> \o <<LeftParen, RightParen>> = <<>> \o <<LeftParen>> \o <<RightParen>>
    BY <1>2, OneByOne
  <2>2. p \in Seq(T) /\ <<LeftParen>> \in Seq(T)
    BY <1>2
  <2>3. <<>> \o p = p /\ <<>> \o <<LeftParen>> = <<LeftParen>> /\ <<LeftParen>> \o <<>> = <<LeftParen>>
    BY <2>2, ConcatEmptySeq
  <2> QED
    BY <2>1, <2>3, ParametersListed, ListedNone, Zenon
<1> HIDE DEF T, s, n, p
<1>5. c \o <<Scope, Tilde>> \o s = n
  <2>1. c \o <<Scope, Tilde>> \o s = c \o <<Scope>> \o <<Tilde>> \o s
    <3>1. c \o <<Scope, Tilde>> = c \o <<Scope>> \o <<Tilde>>
      BY <1>2, OneByOne
    <3> QED
      BY <3>1, Zenon
  <2> QED
    BY <2>1 DEF n, DtorName, s
<1>6. n \o p \o <<>> = n \o p
  <2>1. p \in Seq(T)
    BY <1>2, <1>4, ParametersIn DEF T
  <2> QED
    BY <1>2, <2>1, NoneBehind
<1> QED
  BY <1>4, <1>5, <1>6, Zenon DEF WithParameters, Scope, Tilde, LeftParen, RightParen, n, p, s

LEMMA NameOfDtor ==
    ASSUME NEW W, AreWords(W), NEW e, EntitySpelled(W, e), e.kind = "dtor"
    PROVE  NameOf(e) = WithParameters(DtorName(e.class), <<>>, <<>>)
<1>1. Demangled(e) = e.class \o <<"::", "~">> \o SourceName(e.class) \o <<"(", ")">>
  BY Zenon DEF Demangled
<1>2. e.class \in Seq(W)
  BY Spelling
<1>3. Demangled(e) = WithParameters(DtorName(e.class), <<>>, <<>>)
  BY <1>1, <1>2, DtorSpelled, Zenon
<1> DEFINE none == <<>>
           n == DtorName(e.class)
<1>4. n \in Seq(Tokens(W)) /\ none \in Seq(Texts(W)) /\ none \in Seq(Tokens(W))
  BY Pieces
<1>5. Demangled(e) = WithParameters(n, none, none)
  BY <1>3, Zenon
<1> HIDE DEF none, n
<1>6. NameOf(e) = WithParameters(n, none, none)
  BY <1>4, <1>5, NameWithParameters
<1> QED
  BY <1>6, Zenon DEF none, n

LEMMA NameOfVariable ==
    ASSUME NEW W, AreWords(W), NEW e, EntitySpelled(W, e), e.kind \in {"variable", "c"}
    PROVE  NameOf(e) = Scoped(e)
<1>1. CASE e.kind = "variable"
  <2>1. Demangled(e) = Scoped(e)
    BY <1>1, Zenon DEF Demangled
  <2>2. Scoped(e) # <<>>
    BY ScopedName
  <2> QED
    BY <2>1, <2>2, ShownAs
<1>2. CASE e.kind = "c"
  <2>1. Demangled(e) = <<>>
    BY <1>2, Zenon DEF Demangled
  <2>2. Scoped(e) = <<e.name>>
    BY <1>2, Spelling, ScopedName
  <2>3. "itanium" # "msvc"
    OBVIOUS
  <2> QED
    BY <2>1, <2>2, <2>3, Zenon DEF NameOf, Stored
<1> QED
  BY <1>1, <1>2

LEMMA NameOfTypeInfo ==
    ASSUME NEW W, AreWords(W), NEW e, EntitySpelled(W, e), e.kind = "typeinfo"
    PROVE  /\ NameOf(e) = <<TypeInfo>> \o e.class /\ ~Lacks(NameOf(e), TypeInfo)
           /\ Lacks(NameOf(e), LeftParen) /\ Lacks(NameOf(e), Space)
<1> DEFINE T == Tokens(W)
           c == e.class
           d == <<TypeInfo>> \o c
<1>1. Demangled(e) = d
  BY Zenon DEF Demangled, TypeInfo
<1>2. /\ c \in Seq(T) /\ Lacks(c, LeftParen) /\ Lacks(c, Space) /\ <<>> \in Seq(T)
      /\ TypeInfo \in T /\ LeftParen # TypeInfo /\ TypeInfo # Space
  BY Pieces, TokenFacts, TokensDiffer
<1> HIDE DEF T, c
<1>3. <<TypeInfo>> \in Seq(T) /\ Lacks(<<TypeInfo>>, LeftParen) /\ Lacks(<<TypeInfo>>, Space)
  BY <1>2, LacksOne
<1>4. Lacks(d, LeftParen) /\ Lacks(d, Space)
  BY <1>2, <1>3, LacksBoth
<1>5. ~Lacks(d, TypeInfo)
  <2>1. ~Lacks(<<>> \o <<TypeInfo>> \o c, TypeInfo)
    BY <1>2, HasIt
  <2>2. <<>> \o <<TypeInfo>> = <<TypeInfo>>
    BY <1>3, ConcatEmptySeq
  <2> QED
    BY <2>1, <2>2, Zenon
<1> HIDE DEF d
<1>6. NameOf(e) = d
  BY <1>1, <1>5, ShownAs, NotNothing
<1> QED
  BY <1>4, <1>5, <1>6 DEF d, c

-----------------------------------------------------------------------------
(* Names that end as the one that is looked for.                           *)
LEMMA ReverseOf ==
    ASSUME NEW T, NEW s \in Seq(T)
    PROVE  /\ Len(Reverse(s)) = Len(s)
           /\ \A i \in 1 .. Len(s) : Reverse(s)[i] = s[Len(s) - i + 1] /\ Reverse(s)[i] \in T
<1>1. Len(s) \in Nat /\ \A i \in 1 .. Len(s) : s[i] \in T
  OBVIOUS
<1>2. Len(Reverse(s)) = Len(s)
  BY <1>1 DEF Reverse
<1>3. \A i \in 1 .. Len(s) : Len(s) - i + 1 \in 1 .. Len(s)
  BY <1>1
<1> QED
  BY <1>1, <1>2, <1>3 DEF Reverse

LEMMA EndsOf ==
    ASSUME NEW T, NEW m \in Seq(T), NEW d \in Seq(T)
    PROVE  IsSuffix(m, d) <=> /\ Len(m) <= Len(d)
                              /\ \A i \in 1 .. Len(m) : d[Len(d) - Len(m) + i] = m[i]
<1> DEFINE l == Len(m)
           n == Len(d)
           p == Reverse(m)
           q == Reverse(d)
<1>1. l \in Nat /\ n \in Nat
  OBVIOUS
<1>2. /\ Len(p) = l /\ \A i \in 1 .. l : p[i] = m[l - i + 1] /\ p[i] \in T
      /\ Len(q) = n /\ \A i \in 1 .. n : q[i] = d[n - i + 1] /\ q[i] \in T
  BY ReverseOf
<1>3. IsSuffix(m, d) <=> l <= n /\ SubSeq(p, 1, l) = SubSeq(q, 1, l)
  BY <1>2 DEF IsSuffix, IsPrefix
<1> HIDE DEF l, n, p, q
<1>4. ASSUME l <= n
      PROVE  SubSeq(p, 1, l) = SubSeq(q, 1, l) <=> \A i \in 1 .. l : p[i] = q[i]
  <2>1. \A i \in 1 .. l : p[i] \in T /\ q[i] \in T
    BY <1>1, <1>2, <1>4
  <2>2. /\ SubSeq(p, 1, l) \in Seq(T) /\ SubSeq(q, 1, l) \in Seq(T)
        /\ Len(SubSeq(p, 1, l)) = l /\ Len(SubSeq(q, 1, l)) = l
        /\ \A i \in 1 .. l : SubSeq(p, 1, l)[i] = p[i] /\ SubSeq(q, 1, l)[i] = q[i]
    <3>1. ASSUME NEW s, \A i \in 1 .. l : s[i] \in T
          PROVE  /\ SubSeq(s, 1, l) \in Seq(T) /\ Len(SubSeq(s, 1, l)) = l
                 /\ \A i \in 1 .. l : SubSeq(s, 1, l)[i] = s[i]
      <4>1. /\ SubSeq(s, 1, l) \in Seq(T)
            /\ Len(SubSeq(s, 1, l)) = IF 1 <= l THEN l - 1 + 1 ELSE 0
            /\ \A i \in 1 .. l - 1 + 1 : SubSeq(s, 1, l)[i] = s[1 + i - 1]
        BY <1>1, <3>1, SubSeqProperties
      <4>2. l - 1 + 1 = l /\ (~(1 <= l) => l = 0) /\ \A i \in 1 .. l : 1 + i - 1 = i
        BY <1>1
      <4> QED
        BY <4>1, <4>2
    <3> QED
      BY <2>1, <3>1
  <2> DEFINE a == SubSeq(p, 1, l)
             b == SubSeq(q, 1, l)
  <2> HIDE DEF a, b
  <2>3. (\A i \in 1 .. l : p[i] = q[i]) => a = b
    <3>1. a \in Seq(T) /\ b \in Seq(T) /\ Len(a) = l /\ Len(b) = l
          /\ \A i \in 1 .. l : a[i] = p[i] /\ b[i] = q[i]
      BY <2>2 DEF a, b
    <3> QED
      BY <3>1, SeqEqual
  <2>4. a = b => \A i \in 1 .. l : p[i] = q[i]
    BY <2>2 DEF a, b
  <2> QED
    BY <2>3, <2>4 DEF a, b
<1>5. ASSUME l <= n
      PROVE  (\A i \in 1 .. l : p[i] = q[i]) <=> \A i \in 1 .. l : d[n - l + i] = m[i]
  <2>1. \A i \in 1 .. l : l - i + 1 \in 1 .. l /\ i \in 1 .. n /\ n - l + i = n - (l - i + 1) + 1
                          /\ n - i + 1 = n - l + (l - i + 1) /\ l - (l - i + 1) + 1 = i
    BY <1>1, <1>5
  <2>2. \A i \in 1 .. l : p[i] = m[l - i + 1] /\ q[i] = d[n - i + 1]
    BY <1>2, <2>1
  <2>3. ASSUME \A i \in 1 .. l : p[i] = q[i], NEW i \in 1 .. l PROVE d[n - l + i] = m[i]
    <3> DEFINE j == l - i + 1
    <3>1. j \in 1 .. l /\ n - j + 1 = n - l + i /\ l - j + 1 = i
      BY <1>1, <1>5
    <3> HIDE DEF j
    <3>2. p[j] = m[l - j + 1] /\ q[j] = d[n - j + 1] /\ p[j] = q[j]
      BY <2>2, <2>3, <3>1
    <3> QED
      BY <3>1, <3>2
  <2>4. ASSUME \A i \in 1 .. l : d[n - l + i] = m[i], NEW i \in 1 .. l PROVE p[i] = q[i]
    <3> DEFINE j == l - i + 1
    <3>1. j \in 1 .. l /\ n - l + j = n - i + 1
      BY <1>1, <1>5
    <3>2. d[n - l + j] = m[j]
      BY <2>4, <3>1
    <3> QED
      BY <2>2, <3>1, <3>2
  <2> QED
    BY <2>3, <2>4
<1> QED
  BY <1>3, <1>4, <1>5 DEF l, n

(* A name without spaces has nothing before it.                            *)
LEMMA NoSpaceNoPrefix ==
    ASSUME NEW T, NEW m \in Seq(T), NEW d \in Seq(T), Lacks(d, Space), FullName(m, d)
    PROVE  d = m
<1>1. SUFFICES ASSUME IsSuffix(m, d), d[Len(d) - Len(m)] = Space PROVE d = m
  BY Zenon DEF FullName, Space
<1>2. Len(m) <= Len(d) /\ \A i \in 1 .. Len(m) : d[Len(d) - Len(m) + i] = m[i]
  BY <1>1, EndsOf
<1>3. Len(m) \in Nat /\ Len(d) \in Nat
  OBVIOUS
<1>4. Len(m) = Len(d)
  <2>1. Len(m) # Len(d) => Len(d) - Len(m) \in 1 .. Len(d)
    BY <1>2, <1>3
  <2> QED
    BY <1>1, <2>1 DEF Lacks
<1>5. \A i \in 1 .. Len(m) : Len(d) - Len(m) + i = i
  BY <1>3, <1>4
<1>6. \A i \in 1 .. Len(m) : m[i] = d[i]
  BY <1>2, <1>5
<1> QED
  BY <1>4, <1>6, SeqEqual

LEMMA AfterSpace ==
    ASSUME NEW T, Void \in T, Space \in T, Void # Space,
           NEW m \in Seq(T), NEW r \in Seq(T), Lacks(m, Space), Lacks(r, Space)
    PROVE  FullName(m, <<Void>> \o <<Space>> \o r) <=> m = r
<1> DEFINE v == <<Void>>
           d == v \o <<Space>> \o r
           l == Len(m)
           n == Len(r)
<1>1. v \in Seq(T) /\ Len(v) = 1 /\ v[1] = Void /\ l \in Nat /\ n \in Nat
  OBVIOUS
<1> HIDE DEF v
<1>2. /\ d \in Seq(T) /\ Len(d) = 1 + 1 + n /\ d[1] = Void /\ d[1 + 1] = Space
      /\ \A k \in 1 .. n : d[1 + 1 + k] = r[k]
  BY <1>1, Joined
<1>3. ~Lacks(d, Space)
  BY <1>1, HasIt
<1> HIDE DEF d, l, n
<1>4. FullName(m, d) <=> IsSuffix(m, d) /\ d[Len(d) - l] = Space
  <2>1. d # m
    BY <1>3
  <2> QED
    BY <2>1, Zenon DEF FullName, Space, l
<1> DEFINE N == Len(d)
<1>5. IsSuffix(m, d) <=> l <= N /\ \A i \in 1 .. l : d[N - l + i] = m[i]
  <2>1. ASSUME NEW x \in Seq(T)
        PROVE  IsSuffix(m, x) <=> /\ Len(m) <= Len(x)
                                  /\ \A i \in 1 .. Len(m) : x[Len(x) - Len(m) + i] = m[i]
    BY EndsOf
  <2> QED
    BY <1>2, <2>1, Zenon DEF l
<1>e. N = n + 2
  BY <1>1, <1>2
<1> HIDE DEF N
<1>6. ASSUME m = r PROVE IsSuffix(m, d) /\ d[N - l] = Space
  <2>1. l = n /\ N - l = 2 /\ l <= N /\ \A i \in 1 .. l : N - l + i = 1 + 1 + i
    BY <1>1, <1>e, <1>6 DEF l, n
  <2> QED
    BY <1>2, <1>5, <1>6, <2>1
<1>7. ASSUME IsSuffix(m, d), d[N - l] = Space PROVE m = r
  <2>1. l <= N /\ \A i \in 1 .. l : d[N - l + i] = m[i]
    BY <1>5, <1>7
  <2>2. d[N - l] = Space
    BY <1>7
  <2>3. l = n
    <3>1. l = N => FALSE
      <4>1. ASSUME l = N PROVE FALSE
        <5>1. 2 \in 1 .. l /\ N - l + 2 = 2
          BY <1>1, <1>e, <4>1
        <5>2. d[2] = m[2]
          BY <2>1, <5>1
        <5> QED
          BY <1>2, <5>1, <5>2 DEF Lacks, l
      <4> QED
        BY <4>1
    <3>2. l = n + 1 => FALSE
      <4>1. l = n + 1 => N - l = 1
        BY <1>1, <1>e
      <4> QED
        BY <1>2, <2>2, <4>1
    <3>3. l < n => FALSE
      <4>1. ASSUME l < n PROVE FALSE
        <5>1. n - l \in 1 .. n /\ 1 + 1 + (n - l) = N - l
          BY <1>1, <1>e, <4>1
        <5>2. d[1 + 1 + (n - l)] = r[n - l]
          BY <1>2, <5>1
        <5>3. d[N - l] = r[n - l]
          BY <5>1, <5>2
        <5> QED
          BY <2>2, <5>1, <5>3 DEF Lacks, n
      <4> QED
        BY <4>1
    <3> QED
      BY <1>1, <1>e, <2>1, <3>1, <3>2, <3>3
  <2>4. \A i \in 1 .. l : m[i] = r[i]
    <3>1. \A i \in 1 .. l : N - l + i = 1 + 1 + i
      BY <1>1, <1>e, <2>3
    <3> QED
      BY <1>2, <2>1, <2>3, <3>1
  <2> QED
    BY <2>3, <2>4, SeqEqual DEF l, n
<1> QED
  BY <1>4, <1>6, <1>7 DEF d, v, N

-----------------------------------------------------------------------------
(* Of each look-up: the names that match are those of what is asked for.   *)
LEMMA LacksWithParameters ==
    ASSUME NEW W, AreWords(W), NEW u \in Seq(Tokens(W)), NEW w \in Seq(Tokens(W)),
           NEW a \in Seq(Texts(W)), Lacks(u, Space), Lacks(w, Space)
    PROVE  Lacks(WithParameters(u, a, w), Space)
<1> DEFINE T == Tokens(W)
           d == WithParameters(u, a, w)
           f == Listed(a)
<1>1. PICK r \in Seq(T) : Cut(d, u, LeftParen, r) /\ Cut(r, f, RightParen, w)
  BY ParametersCut
<1>2. /\ LeftParen \in T /\ RightParen \in T /\ Comma \notin W /\ Space \notin W \cup {Comma}
      /\ W \cup {Comma} \subseteq T /\ LeftParen # Space /\ RightParen # Space
  BY TokenFacts, TokensDiffer
<1>3. f \in Seq(W \cup {Comma})
  BY <1>2, ListedText
<1>4. u \in Seq(T) /\ w \in Seq(T)
  OBVIOUS
<1> HIDE DEF T, d, f
<1>5. f \in Seq(T) /\ Lacks(f, Space)
  BY <1>2, <1>3, LacksOutside
<1>6. ASSUME NEW p \in Seq(T), NEW x \in T, NEW q \in Seq(T),
             x # Space, Lacks(p, Space), Lacks(q, Space)
      PROVE  Lacks(p \o <<x>> \o q, Space)
  <2> DEFINE y == <<x>>
             z == p \o y
  <2>1. y \in Seq(T) /\ Lacks(y, Space)
    BY <1>6, LacksOne
  <2> HIDE DEF y
  <2>2. z \in Seq(T) /\ Lacks(z, Space)
    BY <1>6, <2>1, LacksBoth, ConcatProperties
  <2> HIDE DEF z
  <2>3. Lacks(z \o q, Space)
    BY <1>6, <2>2, LacksBoth
  <2> QED
    BY <2>3 DEF z, y
<1>7. Lacks(r, Space)
  BY <1>1, <1>2, <1>4, <1>5, <1>6, Zenon DEF Cut
<1>8. Lacks(d, Space)
  BY <1>1, <1>2, <1>4, <1>6, <1>7, Zenon DEF Cut
<1> QED
  BY <1>8 DEF d

LEMMA HaveParameters ==
    ASSUME NEW W, AreWords(W), NEW e, EntitySpelled(W, e),
           e.kind \in {"function", "member", "instance", "ctor", "dtor"}
    PROVE  ~Lacks(NameOf(e), LeftParen)
<1>1. \E u \in Seq(Tokens(W)) : \E a \in Seq(Texts(W)) : \E w \in Seq(Tokens(W)) :
          NameOf(e) = WithParameters(u, a, w)
  <2>1. CASE e.kind \in {"function", "member"}
    BY <2>1, Pieces, NameOfMember
  <2>2. CASE e.kind = "instance"
    BY <2>2, Pieces, InstanceText, NameOfInstance
  <2>3. CASE e.kind = "ctor"
    BY <2>3, Pieces, NameOfCtor
  <2>4. CASE e.kind = "dtor"
    BY <2>4, Pieces, NameOfDtor
  <2> QED
    BY <2>1, <2>2, <2>3, <2>4
<1> QED
  BY <1>1, ParametersText

LEMMA AsksVariable ==
    ASSUME NEW W, AreWords(W), NEW e, EntitySpelled(W, e), NEW name \in Seq(W)
    PROVE  NameOf(e) = name <=> e.kind \in {"variable", "c"} /\ Scoped(e) = name
<1>1. Lacks(name, LeftParen) /\ Lacks(name, TypeInfo)
  BY TokenFacts, LacksOutside
<1>2. CASE e.kind \in {"variable", "c"}
  BY <1>2, NameOfVariable
<1>3. CASE e.kind \in {"function", "member", "instance", "ctor", "dtor"}
  BY <1>1, <1>3, HaveParameters
<1>4. CASE e.kind = "typeinfo"
  BY <1>1, <1>4, NameOfTypeInfo
<1> QED
  BY <1>2, <1>3, <1>4, Spelling

LEMMA AsksFunction ==
    ASSUME NEW W, AreWords(W), NEW e, EntitySpelled(W, e),
           NEW name \in Seq(W), NEW a \in Seq(Texts(W)),
           e.kind = "ctor" => name # CtorName(e.class)
    PROVE  NameOf(e) = name \o Parameters(a)
             <=> /\ e.kind \in {"function", "member"} /\ e.quals = <<>>
                 /\ Scoped(e) = name /\ e.args = a
<1> DEFINE T == Tokens(W)
           d == WithParameters(name, a, <<>>)
<1>1. /\ name \in Seq(T) /\ <<>> \in Seq(T) /\ Lacks(name, LeftParen)
      /\ Lacks(name, Space) /\ Lacks(name, Tilde)
  BY TokenFacts, LacksOutside, EmptySeq
<1>2. name \o Parameters(a) = d
  BY <1>1, ParametersIn, NoneBehind DEF WithParameters
<1>3. ~Lacks(d, LeftParen)
  BY <1>1, ParametersText
<1>4. ASSUME NEW u \in Seq(T), Lacks(u, LeftParen), NEW b \in Seq(Texts(W)), NEW w \in Seq(T)
      PROVE  WithParameters(u, b, w) = d <=> u = name /\ b = a /\ w = <<>>
  <2> DEFINE none == <<>>
  <2>1. none \in Seq(T)
    BY <1>1
  <2> HIDE DEF none
  <2>2. WithParameters(u, b, w) = WithParameters(name, a, none) => u = name /\ b = a /\ w = none
    BY <1>1, <1>4, <2>1, ParametersApart
  <2> QED
    BY <2>2, Zenon DEF none
<1> HIDE DEF d
<1>5. CASE e.kind \in {"function", "member"}
  <2>1. NameOf(e) = d <=> Scoped(e) = name /\ e.args = a /\ e.quals = <<>>
    BY <1>4, <1>5, NameOfMember, Pieces
  <2> QED
    BY <1>2, <1>5, <2>1, Zenon
<1>6. CASE e.kind = "instance"
  <2>1. NameOf(e) # d
    BY <1>1, <1>4, <1>6, NameOfInstance, InstanceText, Pieces, SMTT(60)
  <2> QED
    BY <1>2, <1>6, <2>1
<1>7. CASE e.kind = "ctor"
  <2>1. NameOf(e) # d
    BY <1>1, <1>4, <1>7, NameOfCtor, Pieces
  <2> QED
    BY <1>2, <1>7, <2>1
<1>8. CASE e.kind = "dtor"
  <2>1. ~Lacks(DtorName(e.class), Tilde)
    BY Spelling, NamesOfMembers
  <2> DEFINE u == DtorName(e.class)
             none == <<>>
  <2>2. u \in Seq(T) /\ Lacks(u, LeftParen) /\ none \in Seq(Texts(W)) /\ none \in Seq(T) /\ u # name
    BY <1>1, <2>1, Pieces
  <2>3. NameOf(e) = WithParameters(u, none, none)
    BY <1>8, NameOfDtor
  <2> HIDE DEF u, none
  <2>4. NameOf(e) # d
    BY <1>4, <2>2, <2>3
  <2> QED
    BY <1>2, <1>8, <2>4
<1>9. CASE e.kind \in {"variable", "c"}
  <2>1. NameOf(e) # d
    BY <1>3, <1>9, NameOfVariable, Pieces
  <2> QED
    BY <1>2, <1>9, <2>1
<1>10. CASE e.kind = "typeinfo"
  <2>1. NameOf(e) # d
    BY <1>3, <1>10, NameOfTypeInfo
  <2> QED
    BY <1>2, <1>10, <2>1
<1> QED
  BY <1>5, <1>6, <1>7, <1>8, <1>9, <1>10, Spelling

LEMMA ScopedIs ==
    ASSUME NEW W, AreWords(W), NEW e, EntitySpelled(W, e),
           NEW c \in Seq(W), c # <<>>, NEW n \in W, n # Scope
    PROVE  Scoped(e) = MemberName(c, n) <=> e.class = c /\ e.name = n
<1> DEFINE d == e.class
           k == e.name
           s == Scoped(e)
<1>1. d \in Seq(W) /\ k \in W /\ k # Scope /\ Scope \in W
  BY Spelling, TokenFacts
<1>2. (d = <<>> => s = <<k>>) /\ (d # <<>> => s = MemberName(d, k))
  BY ScopedName
<1> HIDE DEF d, k, s
<1>3. MemberName(c, n) # <<k>>
  BY NamesOfMembers
<1>4. ASSUME d # <<>>, MemberName(d, k) = MemberName(c, n) PROVE d = c /\ k = n
  <2> DEFINE x == <<k>>
             y == <<n>>
             w == MemberName(d, k)
  <2>1. x \in Seq(W) /\ y \in Seq(W) /\ Lacks(x, Scope) /\ Lacks(y, Scope)
    BY <1>1, LacksOne
  <2>2. x = y => k = n
    OBVIOUS
  <2>3. Cut(w, d, Scope, x) /\ Cut(w, c, Scope, y)
    BY <1>4, Zenon DEF Cut, MemberName
  <2> HIDE DEF x, y, w
  <2> QED
    BY <1>1, <2>1, <2>2, <2>3, LastCut
<1> QED
  BY <1>2, <1>3, <1>4 DEF d, k, s

LEMMA NoSpaces ==
    ASSUME NEW W, AreWords(W), NEW e, EntitySpelled(W, e), e.kind # "instance"
    PROVE  NameOf(e) \in Seq(Tokens(W)) /\ Lacks(NameOf(e), Space)
<1>1. ASSUME NEW u \in Seq(Tokens(W)), Lacks(u, Space), NEW w \in Seq(Tokens(W)), Lacks(w, Space),
             NEW a \in Seq(Texts(W)), NameOf(e) = WithParameters(u, a, w)
      PROVE  NameOf(e) \in Seq(Tokens(W)) /\ Lacks(NameOf(e), Space)
  <2>1. WithParameters(u, a, w) \in Seq(Tokens(W))
    BY <1>1, ParametersText
  <2>2. Lacks(WithParameters(u, a, w), Space)
    BY <1>1, LacksWithParameters
  <2> QED
    BY <1>1, <2>1, <2>2, Zenon
<1>2. Lacks(<<>>, Space)
  BY DEF Lacks
<1>3. CASE e.kind \in {"function", "member"}
  <2>1. NameOf(e) = WithParameters(Scoped(e), e.args, e.quals)
    BY <1>3, NameOfMember
  <2> QED
    BY <1>1, <2>1, Pieces
<1>4. CASE e.kind = "ctor"
  <2>1. NameOf(e) = WithParameters(CtorName(e.class), e.args, <<>>)
    BY <1>4, NameOfCtor
  <2> QED
    BY <1>1, <1>2, <2>1, Pieces
<1>5. CASE e.kind = "dtor"
  <2>1. NameOf(e) = WithParameters(DtorName(e.class), <<>>, <<>>)
    BY <1>5, NameOfDtor
  <2> QED
    BY <1>1, <1>2, <2>1, Pieces
<1>6. CASE e.kind \in {"variable", "c"}
  BY <1>6, NameOfVariable, Pieces
<1>7. CASE e.kind = "typeinfo"
  <2>1. TypeInfo \in Tokens(W) /\ e.class \in Seq(Tokens(W))
    BY TokenFacts, Pieces
  <2>2. <<TypeInfo>> \o e.class \in Seq(Tokens(W))
    BY <2>1, ConcatProperties
  <2> QED
    BY <1>7, <2>2, NameOfTypeInfo
<1> QED
  BY <1>3, <1>4, <1>5, <1>6, <1>7, Spelling

LEMMA AsksMember ==
    ASSUME NEW W, AreWords(W), NEW e, EntitySpelled(W, e),
           NEW c \in Seq(W), c # <<>>, c \in ClassNames, NEW n \in W, n # Scope,
           SourceName(c) # <<n>>, NEW a \in Seq(Texts(W)), NEW w \in Seq(W)
    PROVE  FullName(c \o <<"::", n>> \o Parameters(a) \o w, NameOf(e))
             <=> /\ e.kind \in {"member", "instance"} /\ e.class = c /\ e.name = n
                 /\ e.args = a /\ e.quals = w
<1> DEFINE T == Tokens(W)
           u == MemberName(c, n)
           m == WithParameters(u, a, w)
<1>1. Scope \in W /\ Void \in W /\ Space \in T /\ Void \in T /\ Space \notin W /\ W \subseteq T
      /\ LeftParen \notin W /\ Tilde \notin W
  BY TokenFacts
<1>2. c \o <<"::", n>> \o Parameters(a) \o w = m
  <2>1. c \o <<Scope, n>> = u
    BY <1>1, OneByOne DEF MemberName
  <2> QED
    BY <2>1, Zenon DEF WithParameters, Scope
<1>3. u \in Seq(W)
  BY NamesOfMembers
<1> HIDE DEF u, T
<1>4. /\ u \in Seq(T) /\ Lacks(u, LeftParen) /\ Lacks(u, Space) /\ Lacks(u, Tilde)
      /\ w \in Seq(T) /\ Lacks(w, Space)
  BY <1>1, <1>3, LacksOutside
<1>5. m \in Seq(T) /\ ~Lacks(m, LeftParen) /\ Lacks(m, Space)
  BY <1>4, ParametersText, LacksWithParameters DEF T
<1>6. ASSUME NEW v \in Seq(T), Lacks(v, LeftParen), NEW b \in Seq(Texts(W)), NEW z \in Seq(T)
      PROVE  WithParameters(v, b, z) = m <=> v = u /\ b = a /\ z = w
  BY <1>4, <1>6, ParametersApart DEF T
<1> HIDE DEF m
<1>7. ASSUME NEW d \in Seq(T), Lacks(d, Space) PROVE FullName(m, d) <=> d = m
  <2>1. FullName(m, d) => d = m
    BY <1>5, <1>7, NoSpaceNoPrefix
  <2>2. d = m => FullName(m, d)
    BY Zenon DEF FullName
  <2> QED
    BY <2>1, <2>2
<1>8. Scoped(e) = u <=> e.class = c /\ e.name = n
  BY ScopedIs DEF u
<1>9. CASE e.kind \in {"function", "member"}
  <2>1. NameOf(e) \in Seq(T) /\ Lacks(NameOf(e), Space)
    BY <1>9, NoSpaces DEF T
  <2>2. NameOf(e) = m <=> Scoped(e) = u /\ e.args = a /\ e.quals = w
    BY <1>6, <1>9, NameOfMember, Pieces DEF T
  <2>3. FullName(m, NameOf(e)) <=> e.class = c /\ e.name = n /\ e.args = a /\ e.quals = w
    BY <1>7, <1>8, <2>1, <2>2, Zenon
  <2>4. e.kind = "function" => e.class # c
    BY Spelling
  <2> QED
    BY <1>2, <1>9, <2>3, <2>4, Zenon
<1>10. CASE e.kind = "instance"
  <2> DEFINE r == WithParameters(Scoped(e), e.args, e.quals)
  <2>1. r \in Seq(T) /\ Lacks(r, Space)
    BY Pieces, LacksWithParameters, ParametersText DEF T
  <2>2. r = m <=> Scoped(e) = u /\ e.args = a /\ e.quals = w
    BY <1>6, Pieces DEF T
  <2>3. NameOf(e) = <<Void>> \o <<Space>> \o r
    BY <1>10, NameOfInstance
  <2> HIDE DEF r
  <2>4. FullName(m, <<Void>> \o <<Space>> \o r) <=> m = r
    <3>1. Void # Space
      BY <1>1
    <3> QED
      BY <1>1, <1>5, <2>1, <3>1, AfterSpace
  <2>5. FullName(m, NameOf(e)) <=> e.class = c /\ e.name = n /\ e.args = a /\ e.quals = w
    BY <1>8, <2>2, <2>3, <2>4, Zenon
  <2> QED
    BY <1>2, <1>10, <2>5, Zenon
<1>11. ASSUME NameOf(e) \in Seq(T), Lacks(NameOf(e), Space), NameOf(e) # m,
              e.kind \notin {"member", "instance"}
       PROVE  FullName(c \o <<"::", n>> \o Parameters(a) \o w, NameOf(e))
                <=> /\ e.kind \in {"member", "instance"} /\ e.class = c /\ e.name = n
                    /\ e.args = a /\ e.quals = w
  BY <1>2, <1>7, <1>11, Zenon
<1>12. CASE e.kind = "ctor"
  <2> DEFINE k == e.class
             x == SourceName(k)
             y == <<n>>
  <2>1. NameOf(e) \in Seq(T) /\ Lacks(NameOf(e), Space)
    BY <1>12, NoSpaces DEF T
  <2>2. CtorName(k) # u
    <3>1. k \in Seq(W)
      BY Spelling
    <3>2. x \in Seq(W) /\ y \in Seq(W) /\ Lacks(x, Scope) /\ Lacks(y, Scope)
      BY <3>1, SourceWords, LacksOne
    <3>3. Cut(CtorName(k), k, Scope, x) /\ Cut(u, c, Scope, y)
      BY Zenon DEF Cut, CtorName, MemberName, u
    <3> HIDE DEF k, x, y
    <3>4. CtorName(k) = u => k = c /\ x = y
      BY <1>1, <3>1, <3>2, <3>3, LastCut
    <3> QED
      BY <3>4 DEF x, y
  <2>3. NameOf(e) # m
    BY <1>6, <1>12, <2>2, NameOfCtor, Pieces DEF T
  <2> QED
    BY <1>11, <1>12, <2>1, <2>3
<1>13. CASE e.kind = "dtor"
  <2>1. NameOf(e) \in Seq(T) /\ Lacks(NameOf(e), Space)
    BY <1>13, NoSpaces DEF T
  <2>2. DtorName(e.class) # u
    BY <1>4, Spelling, NamesOfMembers
  <2>3. NameOf(e) # m
    BY <1>6, <1>13, <2>2, NameOfDtor, Pieces DEF T
  <2> QED
    BY <1>11, <1>13, <2>1, <2>3
<1>14. CASE e.kind \in {"variable", "c"}
  <2>1. NameOf(e) \in Seq(T) /\ Lacks(NameOf(e), Space) /\ Lacks(NameOf(e), LeftParen)
    BY <1>14, NameOfVariable, Pieces DEF T
  <2> QED
    BY <1>5, <1>11, <1>14, <2>1
<1>15. CASE e.kind = "typeinfo"
  <2>1. Lacks(NameOf(e), Space) /\ Lacks(NameOf(e), LeftParen)
    BY <1>15, NameOfTypeInfo
  <2>2. NameOf(e) \in Seq(T)
    BY <1>15, NoSpaces DEF T
  <2> QED
    BY <1>5, <1>11, <1>15, <2>1, <2>2
<1> QED
  BY <1>9, <1>10, <1>12, <1>13, <1>14, <1>15, Spelling

LEMMA SameCtor ==
    ASSUME NEW W, AreWords(W), NEW c \in Seq(W), NEW d \in Seq(W), CtorName(c) = CtorName(d)
    PROVE  c = d
<1> DEFINE x == SourceName(c)
           y == SourceName(d)
           w == CtorName(c)
<1>1. Scope \in W /\ x \in Seq(W) /\ y \in Seq(W) /\ Lacks(x, Scope) /\ Lacks(y, Scope)
  BY TokenFacts, SourceWords
<1>2. Cut(w, c, Scope, x) /\ Cut(w, d, Scope, y)
  BY Zenon DEF Cut, CtorName
<1> HIDE DEF x, y, w
<1> QED
  BY <1>1, <1>2, LastCut

LEMMA SameDtor ==
    ASSUME NEW W, AreWords(W), NEW c \in Seq(W), NEW d \in Seq(W), DtorName(c) = DtorName(d)
    PROVE  c = d
<1> DEFINE T == Tokens(W)
           x == SourceName(c)
           y == SourceName(d)
           u == c \o <<Scope>>
           v == d \o <<Scope>>
           w == DtorName(c)
<1>1. /\ Scope \in W /\ x \in Seq(W) /\ y \in Seq(W) /\ Tilde \in T /\ Tilde \notin W
      /\ W \subseteq T /\ <<>> \in Seq(W)
  BY TokenFacts, SourceWords, EmptySeq
<1>2. Cut(w, u, Tilde, x) /\ Cut(w, v, Tilde, y)
  BY Zenon DEF Cut, DtorName
<1>3. u \in Seq(W) /\ v \in Seq(W)
  BY <1>1, ConcatProperties
<1>4. u = v => c = d
  <2>1. Lacks(<<>>, Scope)
    BY DEF Lacks
  <2>2. u \o <<>> = u /\ v \o <<>> = v
    <3> HIDE DEF u, v
    <3> QED
      BY <1>3, ConcatEmptySeq
  <2>3. Cut(u, c, Scope, <<>>) /\ Cut(v, d, Scope, <<>>)
    BY <2>2, Zenon DEF Cut
  <2> DEFINE none == <<>>
  <2>4. Lacks(none, Scope) /\ none \in Seq(W) /\ Cut(u, c, Scope, none) /\ Cut(v, d, Scope, none)
    BY <1>1, <2>1, <2>3
  <2> HIDE DEF u, v, none
  <2> QED
    BY <1>1, <2>4, LastCut
<1> HIDE DEF T, x, y, u, v, w
<1>5. /\ u \in Seq(T) /\ v \in Seq(T) /\ Lacks(u, Tilde) /\ Lacks(v, Tilde)
      /\ x \in Seq(T) /\ y \in Seq(T)
  BY <1>1, <1>3, LacksOutside
<1>6. u = v
  BY <1>1, <1>2, <1>5, FirstCut
<1> QED
  BY <1>4, <1>6

LEMMA AsksCtor ==
    ASSUME NEW W, AreWords(W), NEW e, EntitySpelled(W, e),
           NEW c \in Seq(W), ~IsInstance(c), NEW a \in Seq(Texts(W)), NEW v
    PROVE  (NameOf(e) = c \o <<"::">> \o Unscoped(c) \o Parameters(a)
               /\ MarkedAs(e, "ctor", v, c))
             <=> e.kind = "ctor" /\ e.variant = v /\ e.class = c /\ e.args = a
<1> DEFINE d == WithParameters(CtorName(c), a, <<>>)
           T == Tokens(W)
           n == CtorName(c)
           none == <<>>
<1>1. n \in Seq(T) /\ Lacks(n, LeftParen) /\ none \in Seq(T)
  BY NamesOfMembers, TokenFacts, LacksOutside, EmptySeq
<1>2. c \o <<"::">> \o Unscoped(c) \o Parameters(a) = d
  <2>1. n \o Parameters(a) \o <<>> = n \o Parameters(a)
    BY <1>1, ParametersIn, NoneBehind
  <2> QED
    BY <2>1, Zenon DEF WithParameters, CtorName, SourceName, Scope
<1>3. MarkedAs(e, "ctor", v, c)
        <=> /\ e.kind = "ctor" /\ e.variant = v
            /\ Unscoped(e.class) = Unscoped(c) /\ ~IsInstance(e.class)
  BY Zenon DEF MarkedAs
<1>4. ASSUME e.kind = "ctor" PROVE NameOf(e) = d <=> e.class = c /\ e.args = a
  <2>1. NameOf(e) = WithParameters(CtorName(e.class), e.args, none)
    BY <1>4, NameOfCtor
  <2>2. CtorName(e.class) \in Seq(T) /\ Lacks(CtorName(e.class), LeftParen) /\ e.args \in Seq(Texts(W))
    BY Pieces
  <2> DEFINE k == CtorName(e.class)
  <2> HIDE DEF none, n, k
  <2>3. WithParameters(k, e.args, none) = WithParameters(n, a, none) => k = n /\ e.args = a
    BY <1>1, <2>2, ParametersApart DEF k
  <2>4. k = n => e.class = c
    BY Spelling, SameCtor DEF k, n
  <2> QED
    BY <2>1, <2>3, <2>4, Zenon DEF k, n, none
<1> QED
  BY <1>2, <1>3, <1>4, Zenon

LEMMA AsksDtor ==
    ASSUME NEW W, AreWords(W), NEW e, EntitySpelled(W, e),
           NEW c \in Seq(W), ~IsInstance(c), NEW v
    PROVE  (NameOf(e) = c \o <<"::", "~">> \o Unscoped(c) \o <<"(", ")">>
               /\ MarkedAs(e, "dtor", v, c))
             <=> e.kind = "dtor" /\ e.variant = v /\ e.class = c
<1> DEFINE T == Tokens(W)
           n == DtorName(c)
           none == <<>>
           d == WithParameters(n, none, none)
<1>1. n \in Seq(T) /\ Lacks(n, LeftParen) /\ none \in Seq(T) /\ none \in Seq(Texts(W))
  BY NamesOfMembers, TokenFacts, EmptySeq
<1>2. c \o <<"::", "~">> \o Unscoped(c) \o <<"(", ")">> = d
  <2>1. SourceName(c) = Unscoped(c)
    BY Zenon DEF SourceName
  <2> QED
    BY <2>1, DtorSpelled
<1>3. MarkedAs(e, "dtor", v, c)
        <=> /\ e.kind = "dtor" /\ e.variant = v
            /\ Unscoped(e.class) = Unscoped(c) /\ ~IsInstance(e.class)
  BY Zenon DEF MarkedAs
<1>4. ASSUME e.kind = "dtor" PROVE NameOf(e) = d <=> e.class = c
  <2> DEFINE k == DtorName(e.class)
  <2>1. NameOf(e) = WithParameters(k, none, none)
    BY <1>4, NameOfDtor
  <2>2. k \in Seq(T) /\ Lacks(k, LeftParen)
    BY Pieces
  <2> HIDE DEF none, n, k
  <2>3. WithParameters(k, none, none) = WithParameters(n, none, none) => k = n
    BY <1>1, <2>2, ParametersApart
  <2>4. k = n => e.class = c
    BY Spelling, SameDtor DEF k, n
  <2> QED
    BY <2>1, <2>3, <2>4, Zenon DEF k, n
<1> QED
  BY <1>2, <1>3, <1>4, Zenon

LEMMA AsksTypeInfo ==
    ASSUME NEW W, AreWords(W), NEW e, EntitySpelled(W, e), NEW c \in Seq(W)
    PROVE  NameOf(e) = <<"typeinfo for">> \o c <=> e.kind = "typeinfo" /\ e.class = c
<1> DEFINE T == Tokens(W)
           x == <<TypeInfo>>
           d == x \o c
<1>1. <<"typeinfo for">> \o c = d
  BY Zenon DEF TypeInfo
<1>2. /\ TypeInfo \in T /\ TypeInfo \notin W /\ LeftParen # TypeInfo /\ LeftParen \notin W
      /\ W \subseteq T
  BY TokenFacts, TokensDiffer
<1> HIDE DEF T
<1>3. c \in Seq(T) /\ Lacks(c, LeftParen) /\ x \in Seq(T) /\ Lacks(x, LeftParen)
  BY <1>2, LacksOutside, LacksOne
<1>4. ~Lacks(d, TypeInfo)
  <2>1. <<>> \o <<TypeInfo>> = <<TypeInfo>> /\ <<>> \in Seq(T)
    BY <1>3, ConcatEmptySeq, EmptySeq
  <2>2. ~Lacks(<<>> \o <<TypeInfo>> \o c, TypeInfo)
    BY <1>2, <1>3, <2>1, HasIt
  <2> QED
    BY <2>1, <2>2, Zenon
<1>5. Lacks(d, LeftParen)
  <2> HIDE DEF x
  <2> QED
    BY <1>3, LacksBoth
<1>6. ASSUME e.kind = "typeinfo" PROVE NameOf(e) = d <=> e.class = c
  <2> DEFINE k == e.class
  <2>1. NameOf(e) = x \o k
    BY <1>6, NameOfTypeInfo
  <2>2. k \in Seq(T)
    BY Pieces DEF T
  <2> HIDE DEF x, k
  <2>3. x \o k = x \o c => k = c
    BY <1>3, <2>2, ConcatSimplifications
  <2> QED
    BY <2>1, <2>3, Zenon DEF k
<1> HIDE DEF d, x
<1>7. CASE e.kind \in {"function", "member", "instance", "ctor", "dtor"}
  BY <1>1, <1>5, <1>7, HaveParameters
<1>8. CASE e.kind \in {"variable", "c"}
  <2>1. Lacks(Scoped(e), TypeInfo)
    BY <1>2, ScopedName, LacksOutside
  <2>2. NameOf(e) # d
    BY <1>4, <1>8, <2>1, NameOfVariable
  <2> QED
    BY <1>1, <1>8, <2>2
<1> QED
  BY <1>1, <1>6, <1>7, <1>8, Spelling

-----------------------------------------------------------------------------
(* The look-ups in the table of a library.                                 *)

(* The answer is one of those that were found, if any was.                 *)
IsAnswer(answer, found) == IF found = {} THEN answer = Nothing ELSE answer \in found

(* What can be found in a library. *)
WithName(library, name) == {e \in ToSet(library) : NameOf(e) = name}
WithFullName(library, matcher) == {e \in ToSet(library) : FullName(matcher, NameOf(e))}
WithMark(library, name, kind, variant, class) ==
    {e \in WithName(library, name) : MarkedAs(e, kind, variant, class)}

LEMMA TableRows ==
    ASSUME NEW library, library \in Seq(ToSet(library)),
           NEW t, t = TableOf("itanium", library)
    PROVE  /\ Len(library) \in Nat /\ Len(t) = Len(library)
           /\ \A k \in 1 .. Len(t) : /\ t[k].mangled \in ToSet(library)
                                     /\ t[k].demangled = NameOf(t[k].mangled)
           /\ \A e \in ToSet(library) : \E k \in 1 .. Len(t) : t[k].mangled = e
<1> DEFINE n == Len(library)
           r == [k \in DOMAIN library |-> Stored("itanium", library[k])]
           S == {Stored("itanium", library[k]) : k \in DOMAIN library}
<1>1. n \in Nat /\ DOMAIN library = 1 .. n
  OBVIOUS
<1>2. r \in Seq(S) /\ Len(r) = n /\ \A k \in 1 .. n : r[k] = Stored("itanium", library[k])
  <2>1. r \in [1 .. n -> S]
    BY <1>1
  <2> QED
    BY <1>1, <2>1
<1>3. t = r
  <2>1. t = <<>> \o r
    BY DEF TableOf
  <2> HIDE DEF r, S
  <2> QED
    BY <1>2, <2>1, ConcatEmptySeq
<1> HIDE DEF r, S, n
<1>4. Len(t) = n /\ \A k \in 1 .. n : t[k] = Stored("itanium", library[k])
  BY <1>2, <1>3
<1>5. \A k \in 1 .. n : library[k] \in ToSet(library)
  BY <1>1 DEF ToSet
<1>6. \A e \in ToSet(library) : \E k \in 1 .. n : library[k] = e
  BY <1>1 DEF ToSet
<1>7. \A e : Stored("itanium", e).mangled = e
  BY DEF Stored
<1> QED
  BY <1>1, <1>4, <1>5, <1>6, <1>7 DEF NameOf, n

(* SelectInSeq and SelectLastInSeq of the indices that match. *)
FirstIn(I) == IF I # {} THEN Min(I) ELSE 0
LastIn(I) == IF I # {} THEN Max(I) ELSE 0
MangledAt(t, k) == IF k = 0 THEN Nothing ELSE t[k].mangled

LEMMA FirstOrLast ==
    ASSUME NEW n \in Nat, NEW I, I \subseteq 1 .. n, I # {}
    PROVE  FirstIn(I) \in I /\ LastIn(I) \in I
<1>1. Min(I) \in I
  <2>1. I \subseteq Nat
    OBVIOUS
  <2>2. PICK x \in I : \A y \in I : x =< y
    BY <2>1, LeastOf
  <2> QED
    BY <2>2 DEF Min
<1>2. Max(I) \in I
  BY GreatestOf
<1> QED
  BY <1>1, <1>2 DEF FirstIn, LastIn

LEMMA Chosen ==
    ASSUME NEW library, library \in Seq(ToSet(library)),
           NEW t, t = TableOf("itanium", library),
           NEW Found, Found \subseteq ToSet(library),
           NEW I, I = {k \in 1 .. Len(t) : t[k].mangled \in Found}
    PROVE  /\ IsAnswer(MangledAt(t, FirstIn(I)), Found)
           /\ IsAnswer(MangledAt(t, LastIn(I)), Found)
<1>1. /\ Len(t) \in Nat
      /\ \A e \in ToSet(library) : \E k \in 1 .. Len(t) : t[k].mangled = e
  BY TableRows
<1>2. Found = {} <=> I = {}
  BY <1>1
<1>3. CASE I = {}
  BY <1>2, <1>3 DEF IsAnswer, FirstIn, LastIn, MangledAt
<1>4. CASE I # {}
  <2>1. I \subseteq 1 .. Len(t)
    OBVIOUS
  <2>2. FirstIn(I) \in I /\ LastIn(I) \in I
    BY <1>1, <1>4, <2>1, FirstOrLast
  <2>3. \A k \in I : k # 0 /\ t[k].mangled \in Found
    OBVIOUS
  <2> QED
    BY <1>2, <1>4, <2>2, <2>3, Zenon DEF IsAnswer, MangledAt
<1> QED
  BY <1>3, <1>4

LEMMA VariableFound ==
    ASSUME NEW o, NEW library, library \in Seq(ToSet(library)),
           storage_[o] = TableOf("itanium", library), NEW name
    PROVE  IsAnswer(GetVariable(o, name), WithName(library, name))
<1> DEFINE t == storage_[o]
           I == {k \in 1 .. Len(t) : t[k].demangled = name}
           found == WithName(library, name)
<1>1. I = {k \in 1 .. Len(t) : t[k].mangled \in found}
  BY TableRows DEF WithName
<1>2. GetVariable(o, name) = MangledAt(t, FirstIn(I))
  BY DEF GetVariable, FindIf, SelectInSeq, FirstIn, MangledAt
<1>3. found \subseteq ToSet(library)
  BY DEF WithName
<1>t. t = TableOf("itanium", library)
  OBVIOUS
<1> HIDE DEF t, I, found
<1>4. IsAnswer(MangledAt(t, FirstIn(I)), found)
  BY <1>1, <1>3, <1>t, Chosen
<1> QED
  BY <1>2, <1>4 DEF found

LEMMA FunctionFound ==
    ASSUME NEW o, NEW library, library \in Seq(ToSet(library)),
           storage_[o] = TableOf("itanium", library), NEW name, NEW types
    PROVE  IsAnswer(GetFunction(o, name, types),
                    WithName(library, name \o Parameters(ArgList(o, types))))
<1> DEFINE d == name \o Parameters(ArgList(o, types))
<1>1. GetFunction(o, name, types) = GetVariable(o, d)
  BY Zenon DEF GetFunction, GetVariable, FindIf, SelectInSeq
<1> HIDE DEF d
<1>2. IsAnswer(GetVariable(o, d), WithName(library, d))
  BY VariableFound
<1> QED
  BY <1>1, <1>2, Zenon DEF d

LEMMA TypeInfoFound ==
    ASSUME NEW o, NEW library, library \in Seq(ToSet(library)),
           storage_[o] = TableOf("itanium", library), NEW type
    PROVE  IsAnswer(GetTypeInfo(o, type),
                    WithName(library, <<"typeinfo for">> \o GetName(o, type)))
<1> DEFINE name == <<"typeinfo for">> \o GetName(o, type)
<1>1. GetTypeInfo(o, type) = GetVariable(o, name)
  BY Zenon DEF GetTypeInfo, GetVariable, FindIf, SelectInSeq
<1> HIDE DEF name
<1>2. IsAnswer(GetVariable(o, name), WithName(library, name))
  BY VariableFound
<1> QED
  BY <1>1, <1>2, Zenon DEF name

LEMMA MemFnFound ==
    ASSUME NEW o, NEW library, library \in Seq(ToSet(library)),
           storage_[o] = TableOf("itanium", library),
           NEW type, NEW name, NEW types, NEW quals
    PROVE  IsAnswer(GetMemFn(o, type, name, types, quals),
                    WithFullName(library, GetName(o, type) \o <<"::", name>>
                                   \o Parameters(ArgList(o, types)) \o quals))
<1> DEFINE t == storage_[o]
           m == GetName(o, type) \o <<"::", name>> \o Parameters(ArgList(o, types)) \o quals
           I == {k \in 1 .. Len(t) : FullName(m, t[k].demangled)}
           found == WithFullName(library, m)
<1>1. GetMemFn(o, type, name, types, quals) = MangledAt(t, FirstIn(I))
  BY DEF GetMemFn, FindIf, SelectInSeq, FirstIn, MangledAt
<1> HIDE DEF m
<1>2. I = {k \in 1 .. Len(t) : t[k].mangled \in found}
  BY TableRows DEF WithFullName
<1>3. found \subseteq ToSet(library)
  BY DEF WithFullName
<1>t. t = TableOf("itanium", library)
  OBVIOUS
<1> HIDE DEF t, I, found
<1>4. IsAnswer(MangledAt(t, FirstIn(I)), found)
  BY <1>2, <1>3, <1>t, Chosen
<1> QED
  BY <1>1, <1>4 DEF found, m

LEMMA MarkedFound ==
    ASSUME NEW o, NEW library, library \in Seq(ToSet(library)),
           storage_[o] = TableOf("itanium", library),
           NEW name, NEW kind, NEW variant, NEW class
    PROVE  IsAnswer(LastMarked(o, name, kind, variant, class),
                    WithMark(library, name, kind, variant, class))
<1> DEFINE t == storage_[o]
           I == {k \in 1 .. Len(t) : t[k].demangled = name
                                       /\ MarkedAs(t[k].mangled, kind, variant, class)}
           found == WithMark(library, name, kind, variant, class)
<1>1. LastMarked(o, name, kind, variant, class) = MangledAt(t, LastIn(I))
  BY DEF LastMarked, SelectLastInSeq, LastIn, MangledAt
<1>2. I = {k \in 1 .. Len(t) : t[k].mangled \in found}
  BY TableRows DEF WithMark, WithName
<1>3. found \subseteq ToSet(library)
  BY DEF WithMark, WithName
<1>t. t = TableOf("itanium", library)
  OBVIOUS
<1> HIDE DEF t, I, found
<1>4. IsAnswer(MangledAt(t, LastIn(I)), found)
  BY <1>2, <1>3, <1>t, Chosen
<1> QED
  BY <1>1, <1>4 DEF found

-----------------------------------------------------------------------------
(* What is asked for.                                                      *)

LEMMA ClassNamed ==
    ASSUME abi = "itanium", NEW o \in Storages, AliasesRight(aliases_[o]), NEW type,
           Pretty("itanium", type) \in ClassNames
    PROVE  GetName(o, type) \in ClassNames
<1>1. CASE type \in DOMAIN aliases_[o]
  <2> DEFINE a == [type |-> type, name |-> aliases_[o][type]]
  <2>1. a \in Aliases /\ a.name = aliases_[o][type]
    BY <1>1 DEF AliasesRight
  <2> HIDE DEF a
  <2>2. GetName(o, type) = a.name
    BY <1>1, <2>1 DEF GetName
  <2>3. a.name \in ClassNames
    BY <2>1, Zenon DEF ClassNames
  <2> QED
    BY <2>2, <2>3
<1>2. CASE type \notin DOMAIN aliases_[o]
  BY <1>2 DEF GetName
<1> QED
  BY <1>1, <1>2

LEMMA NotInstance ==
    ASSUME abi = "itanium", NEW o \in Storages, AliasesRight(aliases_[o]), NEW type,
           NoInstance(type)
    PROVE  ~IsInstance(GetName(o, type))
<1>1. CASE type \in DOMAIN aliases_[o]
  <2> DEFINE a == [type |-> type, name |-> aliases_[o][type]]
  <2>1. a \in Aliases /\ a.type = type /\ a.name = aliases_[o][type]
    BY <1>1 DEF AliasesRight
  <2> HIDE DEF a
  <2>2. GetName(o, type) = a.name
    BY <1>1, <2>1 DEF GetName
  <2> QED
    BY <2>1, <2>2, Zenon DEF NoInstance
<1>2. CASE type \notin DOMAIN aliases_[o]
  BY <1>2, Zenon DEF GetName, NoInstance
<1> QED
  BY <1>1, <1>2

LEMMA QueryWords ==
    ASSUME NEW W, AreWords(W), QueriesSpelled(W), abi = "itanium",
           NEW o \in Storages, AliasesRight(aliases_[o]), NEW q \in Queries["itanium"]
    PROVE  /\ GetName(o, q.type) \in ClassNames
           /\ GetName(o, q.type) \in Seq(W) /\ GetName(o, q.type) # <<>>
           /\ ArgList(o, q.args) \in Seq(Texts(W))
<1>1. QuerySpelled(W, q) /\ ClassNames \subseteq Texts(W)
  BY Zenon DEF QueriesSpelled, Texts
<1>2. /\ Pretty("itanium", q.type) \in ClassNames
      /\ \A k \in DOMAIN q.args : Pretty("itanium", q.args[k].type) \in ClassNames
  BY DEF ClassNames
<1>3. GetName(o, q.type) \in ClassNames
  BY <1>2, ClassNamed
<1>4. \A c \in ClassNames : c \in Seq(W) /\ c # <<>>
  BY <1>1, Zenon DEF Texts
<1> DEFINE args == q.args
<1>5. /\ args \in Seq({args[k] : k \in DOMAIN args})
      /\ \A k \in DOMAIN args : args[k].rule \in Seq(W)
  BY <1>1, Zenon DEF QuerySpelled
<1>6. \A k \in DOMAIN args : GetName(o, args[k].type) \in ClassNames
  BY <1>2, ClassNamed
<1> HIDE DEF args
<1>7. ASSUME NEW k \in DOMAIN args
      PROVE  GetName(o, args[k].type) \o args[k].rule \in Texts(W)
  <2> DEFINE u == GetName(o, args[k].type)
             v == args[k].rule
  <2>1. u \in Seq(W) /\ u # <<>> /\ v \in Seq(W)
    BY <1>4, <1>5, <1>6
  <2> HIDE DEF u, v
  <2>2. u \o v \in Seq(W) /\ u \o v # <<>>
    BY <2>1, ConcatProperties, EmptySeq, LenProperties
  <2> QED
    BY <2>2 DEF Texts, u, v
<1>8. Len(args) \in Nat /\ DOMAIN args = 1 .. Len(args)
  BY <1>5, LenProperties
<1> DEFINE named == [k \in DOMAIN args |-> GetName(o, args[k].type) \o args[k].rule]
<1>9. named \in [1 .. Len(args) -> Texts(W)]
  BY <1>7, <1>8
<1>10. named \in Seq(Texts(W))
  <2> HIDE DEF named
  <2> QED
    BY <1>8, <1>9
<1>11. ArgList(o, q.args) \in Seq(Texts(W))
  BY <1>10, Zenon DEF ArgList, named, args
<1> QED
  BY <1>3, <1>4, <1>11

LEMMA LibraryShown ==
    ASSUME NEW W, EntitiesSpelled(W), Tables, abi = "itanium", NEW o \in Storages
    PROVE  /\ storage_[o] = TableOf("itanium", shown[o])
           /\ shown[o] \in Seq(ToSet(shown[o]))
           /\ \A e \in ToSet(shown[o]) :
                 /\ EntitySpelled(W, e)
                 /\ \E library \in Libraries["itanium"] : e \in ToSet(library)
<1>1. /\ storage_[o] = TableOf("itanium", shown[o])
      /\ shown[o] \in Libraries["itanium"] \cup {<<>>}
  BY DEF Tables
<1>2. CASE shown[o] \in Libraries["itanium"]
  BY <1>1, <1>2, Zenon DEF EntitiesSpelled
<1>3. CASE shown[o] = <<>>
  <2>1. ToSet(<<>>) = {}
    BY DEF ToSet
  <2>2. <<>> \in Seq({})
    BY EmptySeq
  <2> QED
    BY <1>1, <1>3, <2>1, <2>2
<1> QED
  BY <1>1, <1>2, <1>3

(* The answer of each look-up, in a library of these names. *)
LEMMA AnswersRight ==
    ASSUME NEW W, AreWords(W), EntitiesSpelled(W), QueriesSpelled(W),
           Tables, abi = "itanium", NEW o \in Storages, NEW q \in Queries["itanium"]
    PROVE  IsAnswer(Answer(o, q), {e \in ToSet(shown[o]) : Asked(o, q, e)})
<1> DEFINE library == shown[o]
           c == GetName(o, q.type)
           a == ArgList(o, q.args)
           found == {e \in ToSet(library) : Asked(o, q, e)}
<1>1. AliasesRight(aliases_[o])
  BY DEF Tables
<1>2. c \in ClassNames /\ c \in Seq(W) /\ c # <<>> /\ a \in Seq(Texts(W))
  BY <1>1, QueryWords
<1>3. /\ storage_[o] = TableOf("itanium", library) /\ library \in Seq(ToSet(library))
      /\ \A e \in ToSet(library) : EntitySpelled(W, e)
      /\ \A e \in ToSet(library) : \E l \in Libraries["itanium"] : e \in ToSet(l)
  BY LibraryShown
<1>4. QuerySpelled(W, q)
  BY Zenon DEF QueriesSpelled
<1> HIDE DEF library
<1>5. CASE q.op = "variable"
  <2>1. q.name \in Seq(W)
    BY <1>4, <1>5 DEF QuerySpelled
  <2>2. \A e \in ToSet(library) : NameOf(e) = q.name <=> Asked(o, q, e)
    <3>1. ASSUME NEW e \in ToSet(library)
          PROVE  NameOf(e) = q.name <=> e.kind \in {"variable", "c"} /\ Scoped(e) = q.name
      BY <1>3, <2>1, AsksVariable
    <3> QED
      BY <1>5, <3>1, Zenon DEF Asked
  <2>3. found = WithName(library, q.name)
    BY <2>2, Zenon DEF WithName
  <2>4. IsAnswer(GetVariable(o, q.name), WithName(library, q.name))
    BY <1>3, VariableFound, Zenon
  <2>5. Answer(o, q) = GetVariable(o, q.name)
    BY <1>5, Zenon DEF Answer
  <2> QED
    BY <2>3, <2>4, <2>5, Zenon DEF library
<1>6. CASE q.op = "function"
  <2> DEFINE d == q.name \o Parameters(a)
  <2>1. q.name \in Seq(W)
    BY <1>4, <1>6 DEF QuerySpelled
  <2>2. ASSUME NEW e \in ToSet(library)
        PROVE  NameOf(e) = d <=> Asked(o, q, e)
    <3>1. e.kind = "ctor" => q.name # CtorName(e.class)
      BY <1>3, <1>4, <1>6, Zenon DEF QuerySpelled, CtorName, Scope
    <3>2. EntitySpelled(W, e)
      BY <1>3
    <3>3. NameOf(e) = d <=> /\ e.kind \in {"function", "member"} /\ e.quals = <<>>
                            /\ Scoped(e) = q.name /\ e.args = a
      <4>1. a \in Seq(Texts(W))
        BY <1>2
      <4> HIDE DEF a
      <4> QED
        BY <2>1, <3>1, <3>2, <4>1, AsksFunction, SMTT(60)
    <3> QED
      BY <1>6, <3>3, Zenon DEF Asked
  <2>3. found = WithName(library, d)
    BY <2>2, Zenon DEF WithName
  <2>4. IsAnswer(GetFunction(o, q.name, q.args), WithName(library, d))
    BY <1>3, FunctionFound, Zenon
  <2>5. Answer(o, q) = GetFunction(o, q.name, q.args)
    BY <1>6, Zenon DEF Answer
  <2> QED
    BY <2>3, <2>4, <2>5, Zenon DEF library
<1>7. CASE q.op = "member"
  <2> DEFINE m == c \o <<"::", q.name>> \o Parameters(a) \o q.quals
  <2>1. q.name \in W /\ q.name # Scope /\ SourceName(c) # <<q.name>> /\ q.quals \in Seq(W)
    BY <1>2, <1>4, <1>7, Zenon DEF QuerySpelled, Scope
  <2>2. ASSUME NEW e \in ToSet(library)
        PROVE  FullName(m, NameOf(e)) <=> Asked(o, q, e)
    <3>1. FullName(m, NameOf(e))
            <=> /\ e.kind \in {"member", "instance"} /\ e.class = c /\ e.name = q.name
                /\ e.args = a /\ e.quals = q.quals
      BY <1>2, <1>3, <2>1, AsksMember
    <3> QED
      BY <1>7, <3>1, Zenon DEF Asked
  <2>3. found = WithFullName(library, m)
    BY <2>2, Zenon DEF WithFullName
  <2>4. IsAnswer(GetMemFn(o, q.type, q.name, q.args, q.quals), WithFullName(library, m))
    BY <1>3, MemFnFound, Zenon
  <2>5. Answer(o, q) = GetMemFn(o, q.type, q.name, q.args, q.quals)
    BY <1>7, Zenon DEF Answer
  <2> QED
    BY <2>3, <2>4, <2>5, Zenon DEF library
<1>8. CASE q.op = "ctor"
  <2> DEFINE d == c \o <<"::">> \o Unscoped(c) \o Parameters(a)
             v == q.variant
  <2>1. v \in {"C1", "C2", "C3"}
    BY <1>4, <1>8 DEF QuerySpelled
  <2>6. ~IsInstance(c)
    BY <1>1, <1>4, <1>8, NotInstance DEF QuerySpelled
  <2>2. ASSUME NEW e \in ToSet(library)
        PROVE  NameOf(e) = d /\ MarkedAs(e, "ctor", v, c) <=> Asked(o, q, e)
    <3>1. NameOf(e) = d /\ MarkedAs(e, "ctor", v, c)
            <=> e.kind = "ctor" /\ e.variant = v /\ e.class = c /\ e.args = a
      <4>1. EntitySpelled(W, e)
        BY <1>3
      <4>2. c \in Seq(W) /\ a \in Seq(Texts(W))
        BY <1>2
      <4> HIDE DEF a, c, v
      <4> QED
        BY <2>6, <4>1, <4>2, AsksCtor
    <3> QED
      BY <1>8, <3>1, Zenon DEF Asked
  <2>3. found = WithMark(library, d, "ctor", v, c)
    BY <2>2, Zenon DEF WithMark, WithName
  <2>4. IsAnswer(LastMarked(o, d, "ctor", v, c), WithMark(library, d, "ctor", v, c))
    <3> HIDE DEF d, v, c, a
    <3> QED
      BY <1>3, MarkedFound
  <2>5. Answer(o, q) = LastMarked(o, d, "ctor", v, c)
    <3>1. Answer(o, q) = GetConstructor(o, q.type, q.args)[q.variant]
      BY <1>8, Zenon DEF Answer
    <3> QED
      BY <2>1, <3>1 DEF GetConstructor
  <2> QED
    BY <2>3, <2>4, <2>5, Zenon DEF library
<1>9. CASE q.op = "dtor"
  <2> DEFINE d == c \o <<"::", "~">> \o Unscoped(c) \o <<"(", ")">>
             v == q.variant
  <2>1. v \in {"D0", "D1", "D2"}
    BY <1>4, <1>9 DEF QuerySpelled
  <2>6. ~IsInstance(c)
    BY <1>1, <1>4, <1>9, NotInstance DEF QuerySpelled
  <2>2. ASSUME NEW e \in ToSet(library)
        PROVE  NameOf(e) = d /\ MarkedAs(e, "dtor", v, c) <=> Asked(o, q, e)
    <3>1. NameOf(e) = d /\ MarkedAs(e, "dtor", v, c)
            <=> e.kind = "dtor" /\ e.variant = v /\ e.class = c
      <4>1. EntitySpelled(W, e)
        BY <1>3
      <4>2. c \in Seq(W) /\ a \in Seq(Texts(W))
        BY <1>2
      <4> HIDE DEF a, c, v
      <4> QED
        BY <2>6, <4>1, <4>2, AsksDtor
    <3> QED
      BY <1>9, <3>1, Zenon DEF Asked
  <2>3. found = WithMark(library, d, "dtor", v, c)
    BY <2>2, Zenon DEF WithMark, WithName
  <2>4. IsAnswer(LastMarked(o, d, "dtor", v, c), WithMark(library, d, "dtor", v, c))
    <3> HIDE DEF d, v, c, a
    <3> QED
      BY <1>3, MarkedFound
  <2>5. Answer(o, q) = LastMarked(o, d, "dtor", v, c)
    <3>1. Answer(o, q) = GetDestructor(o, q.type)[q.variant]
      BY <1>9, Zenon DEF Answer
    <3> QED
      BY <2>1, <3>1 DEF GetDestructor
  <2> QED
    BY <2>3, <2>4, <2>5, Zenon DEF library
<1>10. CASE q.op = "typeinfo"
  <2>1. ASSUME NEW e \in ToSet(library)
        PROVE  NameOf(e) = <<TypeInfo>> \o c <=> Asked(o, q, e)
    <3>1. EntitySpelled(W, e)
      BY <1>3
    <3>2. NameOf(e) = <<"typeinfo for">> \o c <=> e.kind = "typeinfo" /\ e.class = c
      BY <1>2, <3>1, AsksTypeInfo, Zenon
    <3> QED
      BY <1>10, <3>2, Zenon DEF Asked, TypeInfo
  <2>2. found = WithName(library, <<TypeInfo>> \o c)
    BY <2>1, Zenon DEF WithName
  <2>3. IsAnswer(GetTypeInfo(o, q.type), WithName(library, <<TypeInfo>> \o c))
    <3>1. IsAnswer(GetTypeInfo(o, q.type), WithName(library, <<"typeinfo for">> \o c))
      BY <1>3, TypeInfoFound, Zenon
    <3> QED
      BY <3>1, Zenon DEF TypeInfo
  <2>4. Answer(o, q) = GetTypeInfo(o, q.type)
    BY <1>10, Zenon DEF Answer
  <2> QED
    BY <2>2, <2>3, <2>4, Zenon DEF library
<1> QED
  <2>1. q.op \in {"variable", "function", "member", "ctor", "dtor", "typeinfo"}
    BY <1>4, Zenon DEF QuerySpelled
  <2> QED
    BY <1>5, <1>6, <1>7, <1>8, <1>9, <1>10, <2>1

(* A look-up by a demangled name of the Itanium ABI finds a symbol of the  *)
(* library that was loaded last if there is one that it asks for, and no   *)
(* other, whatever was loaded, aliased, assigned and swapped before        *)
(* (detail/demangling/itanium.hpp): for all libraries without thunks whose *)
(* names are spelled as EntitySpelled says, and all look-ups spelled as    *)
(* QuerySpelled says, which leaves out the constructors of instances of    *)
(* class templates.                                                        *)
THEOREM ItaniumFindsWhatIsAsked ==
    ASSUME NEW W, AreWords(W), EntitiesSpelled(W), QueriesSpelled(W)
    PROVE  StorageSpec => [](abi = "itanium" => FindsWhatIsAsked)
<1>1. StorageInit => Tables
  BY StorageInitTables
<1>2. Tables /\ [StorageNext]_storageVars => Tables'
  BY NextTables
<1>3. Tables => (abi = "itanium" => FindsWhatIsAsked)
  <2>1. SUFFICES ASSUME Tables, abi = "itanium", NEW o \in Storages,
                        NEW q \in Queries["itanium"]
                 PROVE  IsAnswer(Lookup(o, q), {e \in ToSet(shown[o]) : Asked(o, q, e)})
    BY Zenon DEF FindsWhatIsAsked, IsAnswer
  <2>2. Lookup(o, q) = Answer(o, q)
    BY <2>1 DEF Lookup
  <2> QED
    BY <2>1, <2>2, AnswersRight
<1> QED
  BY <1>1, <1>2, <1>3, PTL DEF StorageSpec
=============================================================================
