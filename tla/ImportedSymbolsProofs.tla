------------------------- MODULE ImportedSymbolsProofs -------------------------
(***************************************************************************)
(* Imported values over shared_ptr's and the loader's counts, for every    *)
(* number of threads, values, boxes and libraries, and every loader.       *)
(***************************************************************************)
EXTENDS ImportedSymbols, SharedLibraryProofs

ImportType == [box : Boxes, lib : Files, symbol : Symbols]
DoingType == [box : Boxes, symbol : Symbols, into : Imports, unwind : BOOLEAN]

ImportTypes ==
    /\ import \in [Imports -> ImportType \cup {NoImport}]
    /\ doing \in [Threads -> DoingType \cup {Idle}]

(* The box that a call has at hand is its own, and so is the value that it *)
(* makes: nobody else can find them.                                       *)
Alone ==
    /\ \A t \in Threads : Busy(t) =>
         /\ ~Imported(doing[t].into)
         /\ \A i \in Imports : Imported(i) => import[i].box # doing[t].box
    /\ \A t, u \in Threads : Busy(t) /\ Busy(u) /\ t # u =>
         /\ doing[t].box # doing[u].box
         /\ doing[t].into # doing[u].into

(* An imported value points into the library of its box.                   *)
Points == \A i \in Imports : Imported(i) =>
    /\ handle[import[i].box] = import[i].lib
    /\ import[i].symbol \in Exports[import[i].lib]

(* Who keeps box b. *)
Kept(b) == \/ \E i \in Imports : Imported(i) /\ import[i].box = b
           \/ \E t \in Threads : Busy(t) /\ doing[t].box = b

LoadedAreKept == \A b \in Boxes : IsLoaded(b) => Kept(b)

(* The inductive invariant: the one of SharedLibrary, and what the         *)
(* shared_ptrs say about the boxes.                                        *)
ImportsIInv == IInv /\ ImportTypes /\ Alone /\ Points /\ LoadedAreKept

-----------------------------------------------------------------------------
LEMMA KeptIsUsed == ASSUME NEW b PROVE Kept(b) <=> Users(b) # {}
BY DEF Kept, Users

LEMMA ImportFacts ==
    /\ NoImport \notin ImportType /\ Idle \notin DoingType
    /\ Boxes \subseteq Objs /\ Libs \subseteq Objs /\ Boxes \cap Libs = {}
    /\ Imports \cap Libs = {} /\ Threads \cap Libs = {} /\ Imports \cap Threads = {}
BY ImportsAssumption DEF ImportType, DoingType, Libs

LEMMA InitImports == ImportsInit => ImportsIInv
<1> SUFFICES ASSUME ImportsInit PROVE ImportsIInv
  OBVIOUS
<1>1. IInv
  BY InitIInv DEF ImportsInit
<1>2. ImportTypes
  BY DEF ImportsInit, ImportTypes
<1>3. LoadedAreKept
  BY ImportFacts DEF ImportsInit, Init, LoadedAreKept, IsLoaded
<1> QED
  BY <1>1, <1>2, <1>3 DEF ImportsInit, ImportsIInv, Alone, Points, Busy, Imported

LEMMA DoingFacts ==
    ASSUME ImportsIInv, NEW t \in Threads, Busy(t)
    PROVE  /\ doing[t] \in DoingType
           /\ doing[t].box \in Boxes /\ doing[t].box \in Objs
           /\ doing[t].into \in Imports /\ doing[t].symbol \in Symbols
<1>1. doing[t] \in DoingType
  BY DEF ImportsIInv, ImportTypes, Busy
<1> QED
  BY <1>1, ImportFacts DEF DoingType

(* What Begin does to the handles: the box takes one, its own or the one   *)
(* of the library it is moved from, and nothing if the constructor throws. *)
Takes(b) ==
    \/ /\ \E x \in Handle : handle' = [handle EXCEPT ![b] = x]
       /\ ret'.ec # Ok => handle'[b] = NoHandle
    \/ \E s \in Libs : /\ handle' = [handle EXCEPT ![s] = NoHandle, ![b] = handle[s]]
                       /\ ret'.ec = Ok

LEMMA BeginTakes ==
    ASSUME ImportsIInv, NEW t \in Threads, NEW b \in Boxes, NEW y \in Symbols,
           NEW i \in Imports, Begin(t, b, y, i)
    PROVE  IInv' /\ handle[b] = NoHandle /\ Takes(b)
<1>1. b \in Objs /\ handle[b] = NoHandle
  BY ImportFacts, KeptIsUsed DEF Begin, ImportsIInv, LoadedAreKept, IsLoaded
<1>2. CASE MakeByPath(b)
  <2>1. PICK p \in Paths, search \in Searches, decorations \in BOOLEAN :
          Load(b, p, decorations, search, TRUE)
    BY <1>2 DEF MakeByPath
  <2>2. p \in Path \cup {NoPath} /\ search \in BOOLEAN
    BY LibraryAssumption
  <2>3. IInv'
    BY <1>1, <2>1, <2>2, LoadKeepsIInv DEF ImportsIInv
  <2> DEFINE r == LoadOutcome(Closed(ld, handle[b]), p, decorations, search)
  <2>4. r.handle \in Handle /\ (r.ec = Ok <=> r.handle # NoHandle)
    BY <2>2, LoadOutcomeType DEF ImportsIInv, IInv
  <2>5. handle' = [handle EXCEPT ![b] = r.handle] /\ ret'.ec = r.ec
    BY <2>1, ReportedSays DEF Load
  <2> HIDE DEF r
  <2>6. Takes(b)
    BY <1>1, <2>4, <2>5, IInvTypes DEF Takes, ImportsIInv
  <2> QED
    BY <1>1, <2>3, <2>6
<1>3. ASSUME NEW s \in Libs, AssignSame(b, s)
      PROVE  IInv' /\ Takes(b)
  <2>1. IInv'
    BY <1>1, <1>3, ImportFacts, ReadsKeepIInv DEF ImportsIInv
  <2>2. UNCHANGED handle /\ ret'.ec = Ok
    BY <1>3 DEF AssignSame, Returned
  <2>3. handle' = [handle EXCEPT ![b] = NoHandle] /\ NoHandle \in Handle
    BY <1>1, <2>2, IInvTypes DEF ImportsIInv, Handle
  <2> QED
    BY <2>1, <2>2, <2>3 DEF Takes
<1>4. ASSUME NEW s \in Libs, AssignLoaded(b, s, TRUE)
      PROVE  IInv' /\ Takes(b)
  <2>1. s \in Objs
    BY ImportFacts
  <2>2. IInv'
    BY <1>1, <1>4, <2>1, AssignKeepsIInv DEF ImportsIInv
  <2> DEFINE copy == LoadOutcome(ld, Location(handle[s]), FALSE, FALSE)
  <2>3. Location(handle[s]) \in Path \cup {NoPath}
    BY <1>4, <2>1, LocationType DEF AssignLoaded, ImportsIInv
  <2>4. copy.handle \in Handle
    BY <2>3, LoadOutcomeType DEF ImportsIInv, IInv
  <2>5. /\ copy.ec = Ok => handle' = [handle EXCEPT ![b] = copy.handle]
        /\ copy.ec # Ok => handle' = handle
        /\ ret'.ec = copy.ec
    BY <1>4, ReportedSays DEF AssignLoaded
  <2> HIDE DEF copy
  <2>6. ASSUME copy.ec = Ok PROVE Takes(b)
    BY <2>4, <2>5, <2>6 DEF Takes
  <2>7. ASSUME copy.ec # Ok PROVE Takes(b)
    <3>1. handle' = [handle EXCEPT ![b] = NoHandle] /\ handle'[b] = NoHandle
          /\ NoHandle \in Handle
      BY <1>1, <2>5, <2>7, IInvTypes DEF ImportsIInv, Handle
    <3> QED
      BY <3>1 DEF Takes
  <2> QED
    BY <2>2, <2>6, <2>7
<1>5. ASSUME NEW s \in Libs, MoveConstruct(b, s)
      PROVE  IInv' /\ Takes(b)
  <2>1. IInv'
    BY <1>1, <1>5, ImportFacts, TradeKeepsIInv DEF ImportsIInv
  <2> QED
    BY <1>5, <2>1 DEF MoveConstruct, Returned, Takes
<1>6. ASSUME NEW s \in Libs, AssignUnlocated(b, s, TRUE)
      PROVE  IInv' /\ Takes(b)
  <2>1. IInv'
    BY <1>1, <1>6, ImportFacts, ReadsKeepIInv DEF ImportsIInv
  <2>2. UNCHANGED handle /\ ret'.ec # Ok
    BY <1>6, UnlocatedSays
  <2>3. /\ handle' = [handle EXCEPT ![b] = NoHandle] /\ handle'[b] = NoHandle
        /\ NoHandle \in Handle
    BY <1>1, <2>2, IInvTypes DEF ImportsIInv, Handle
  <2> QED
    BY <2>1, <2>2, <2>3 DEF Takes
<1> QED
  BY <1>1, <1>2, <1>3, <1>4, <1>5, <1>6 DEF Begin, MakeByCopy, MakeByMove

(* A step that leaves the boxes that are in use as they are keeps what is  *)
(* said about them.                                                        *)
LEMMA BeginKeepsImports ==
    ASSUME ImportsIInv, NEW t \in Threads, NEW b \in Boxes, NEW y \in Symbols,
           NEW i \in Imports, Begin(t, b, y, i)
    PROVE  ImportsIInv'
<1>1. IInv' /\ handle[b] = NoHandle /\ Takes(b)
  BY BeginTakes
<1>2. ~Busy(t) /\ ~Kept(b) /\ Unused(i) /\ UNCHANGED import
  BY KeptIsUsed DEF Begin, Constructed
<1>3. CASE ret'.ec = Ok
  <2> DEFINE d == [box |-> b, symbol |-> y, into |-> i, unwind |-> FALSE]
  <2>1. doing' = [doing EXCEPT ![t] = d] /\ d \in DoingType
    BY <1>3 DEF Begin, Constructed, DoingType
  <2>2. \A u \in Threads : doing'[u] = IF u = t THEN d ELSE doing[u]
    BY <2>1 DEF ImportsIInv, ImportTypes
  <2>3. d # Idle
    BY <2>1, ImportFacts
  <2>4. \A q \in Boxes : q # b => handle'[q] = handle[q]
    BY <1>1, ImportFacts, IInvTypes DEF ImportsIInv, Takes
  <2>5. ImportTypes'
    BY <1>2, <2>1 DEF ImportsIInv, ImportTypes
  <2>6. d.box = b /\ d.into = i
    OBVIOUS
  <2> HIDE DEF d
  <2>7. Alone'
    BY <1>2, <2>2, <2>6 DEF ImportsIInv, Alone, Busy, Imported, Unused, Kept
  <2>8. Points'
    <3> SUFFICES ASSUME NEW j \in Imports, Imported(j)
                 PROVE  /\ handle'[import[j].box] = import[j].lib
                        /\ import[j].symbol \in Exports[import[j].lib]
      BY <1>2 DEF Points, Imported
    <3>1. import[j].box \in Boxes /\ import[j].box # b
      BY <1>2 DEF ImportsIInv, ImportTypes, ImportType, Kept, Imported
    <3> QED
      BY <2>4, <3>1 DEF ImportsIInv, Points
  <2>9. LoadedAreKept'
    <3> SUFFICES ASSUME NEW q \in Boxes, handle'[q] # NoHandle PROVE Kept(q)'
      BY DEF LoadedAreKept, IsLoaded
    <3>1. CASE q = b
      BY <2>2, <2>3, <2>6, <3>1 DEF Kept, Busy
    <3>2. CASE q # b
      <4>1. Kept(q)
        BY <2>4, <3>2 DEF ImportsIInv, LoadedAreKept, IsLoaded
      <4> QED
        BY <1>2, <2>2, <4>1 DEF Kept, Busy, Imported
    <3> QED
      BY <3>1, <3>2
  <2> QED
    BY <1>1, <2>5, <2>7, <2>8, <2>9 DEF ImportsIInv
<1>4. CASE ret'.ec # Ok
  <2>1. UNCHANGED <<import, doing>>
    BY <1>4 DEF Begin, Constructed
  <2>2. \A q \in Boxes : handle'[q] = handle[q]
    BY <1>1, <1>4, ImportFacts, IInvTypes DEF ImportsIInv, Takes
  <2>3. Points'
    BY <2>1, <2>2 DEF ImportsIInv, Points, Imported, ImportTypes, ImportType
  <2>4. LoadedAreKept'
    BY <2>1, <2>2 DEF ImportsIInv, LoadedAreKept, IsLoaded, Kept, Busy, Imported
  <2> QED
    BY <1>1, <2>1, <2>3, <2>4 DEF ImportsIInv, ImportTypes, Alone, Busy, Imported
<1> QED
  BY <1>3, <1>4

LEMMA ResolveKeepsImports ==
    ASSUME ImportsIInv, NEW t \in Threads, Resolve(t)
    PROVE  ImportsIInv'
<1> DEFINE d == doing[t]
<1>1. /\ Busy(t) /\ d \in DoingType /\ ~d.unwind
      /\ Get(d.box, d.symbol)
  BY DEF Resolve, ImportsIInv, ImportTypes, Busy
<1>2. d.box \in Boxes /\ d.box \in Objs /\ d.symbol \in Symbols /\ d.into \in Imports
  BY <1>1, ImportFacts DEF DoingType
<1>3. IInv' /\ UNCHANGED handle
  <2>1. IInv'
    BY <1>1, <1>2, ReadsKeepIInv DEF ImportsIInv
  <2> QED
    BY <1>1, <2>1 DEF Get
<1>4. CASE ret'.ec = Ok
  <2> DEFINE v == [box |-> d.box, lib |-> handle[d.box], symbol |-> d.symbol]
  <2>1. /\ import' = [import EXCEPT ![d.into] = v]
        /\ doing' = [doing EXCEPT ![t] = Idle]
    BY <1>4 DEF Resolve
  <2>2. handle[d.box] \in Files /\ d.symbol \in Exports[handle[d.box]]
    <3>1. IsLoaded(d.box) /\ Finds(d.box, d.symbol)
      BY <1>1, <1>4 DEF Get, Reported, Returned, Threw, Ok
    <3> QED
      BY <1>2, <3>1, IInvTypes DEF ImportsIInv, IsLoaded, Finds, Handle
  <2>3. v \in ImportType
    BY <1>2, <2>2 DEF ImportType
  <2>4. v # NoImport /\ v.box = d.box /\ v.lib = handle[d.box] /\ v.symbol = d.symbol
    BY <2>3, ImportFacts
  <2>5. ImportTypes'
    BY <2>1, <2>3 DEF ImportsIInv, ImportTypes
  <2> HIDE DEF v
  <2>6. /\ \A j \in Imports : import'[j] = IF j = d.into THEN v ELSE import[j]
        /\ \A u \in Threads : doing'[u] = IF u = t THEN Idle ELSE doing[u]
    BY <2>1 DEF ImportsIInv, ImportTypes
  <2>7. Alone'
    <3>1. \A u \in Threads : doing'[u] # Idle => u # t /\ Busy(u) /\ doing'[u] = doing[u]
      BY <2>6 DEF Busy
    <3>2. ASSUME NEW u \in Threads, u # t, Busy(u)
          PROVE  /\ import'[doing[u].into] = NoImport
                 /\ \A j \in Imports : import'[j] # NoImport => import'[j].box # doing[u].box
      <4>1. /\ doing[u].into \in Imports /\ doing[u].into # d.into
            /\ doing[u].box # d.box /\ ~Imported(doing[u].into)
        BY <1>1, <3>2, DoingFacts DEF ImportsIInv, Alone
      <4> QED
        BY <2>4, <2>6, <3>2, <4>1 DEF ImportsIInv, Alone, Imported
    <3> QED
      BY <3>1, <3>2 DEF ImportsIInv, Alone, Busy, Imported
  <2>8. Points'
    BY <1>3, <2>2, <2>4, <2>6 DEF ImportsIInv, Points, Imported
  <2>9. LoadedAreKept'
    <3> SUFFICES ASSUME NEW q \in Boxes, handle[q] # NoHandle PROVE Kept(q)'
      BY <1>3 DEF LoadedAreKept, IsLoaded
    <3>1. CASE q = d.box
      BY <1>2, <2>4, <2>6, <3>1 DEF Kept, Imported
    <3>2. CASE q # d.box
      <4>1. Kept(q)
        BY DEF ImportsIInv, LoadedAreKept, IsLoaded
      <4>2. ~Imported(d.into)
        BY <1>1 DEF ImportsIInv, Alone
      <4>3. CASE \E j \in Imports : Imported(j) /\ import[j].box = q
        BY <2>6, <4>2, <4>3 DEF Kept, Imported
      <4>4. CASE \E u \in Threads : Busy(u) /\ doing[u].box = q
        BY <2>6, <3>2, <4>4 DEF Kept, Busy
      <4> QED
        BY <4>1, <4>3, <4>4 DEF Kept
    <3> QED
      BY <3>1, <3>2
  <2> QED
    BY <1>3, <2>5, <2>7, <2>8, <2>9 DEF ImportsIInv
<1>5. CASE ret'.ec # Ok
  <2>1. UNCHANGED import /\ doing' = [doing EXCEPT ![t] = [d EXCEPT !["unwind"] = TRUE]]
    BY <1>5 DEF Resolve
  <2>2. /\ [d EXCEPT !["unwind"] = TRUE] \in DoingType
        /\ [d EXCEPT !["unwind"] = TRUE].box = d.box
        /\ [d EXCEPT !["unwind"] = TRUE].into = d.into
    BY <1>1 DEF DoingType
  <2>3. PICK e \in DoingType : /\ doing' = [doing EXCEPT ![t] = e]
                               /\ e.box = d.box /\ e.into = d.into
    BY <2>1, <2>2
  <2>4. \A u \in Threads : doing'[u] = IF u = t THEN e ELSE doing[u]
    BY <2>3 DEF ImportsIInv, ImportTypes
  <2>5. e # Idle
    BY <2>3, ImportFacts
  <2>6. ImportTypes'
    BY <2>1, <2>3 DEF ImportsIInv, ImportTypes
  <2>7. /\ \A u \in Threads : (doing'[u] # Idle) <=> Busy(u)
        /\ \A u \in Threads : Busy(u) =>
              doing'[u].box = doing[u].box /\ doing'[u].into = doing[u].into
    BY <1>1, <2>3, <2>4, <2>5 DEF Busy
  <2>8. Alone'
    BY <2>1, <2>7 DEF ImportsIInv, Alone, Busy, Imported
  <2>9. Points'
    BY <1>3, <2>1 DEF ImportsIInv, Points, Imported
  <2>10. LoadedAreKept'
    BY <1>3, <2>1, <2>7 DEF ImportsIInv, LoadedAreKept, IsLoaded, Kept, Busy, Imported
  <2> QED
    BY <1>3, <2>6, <2>8, <2>9, <2>10 DEF ImportsIInv
<1> QED
  BY <1>4, <1>5

LEMMA UnwindKeepsImports ==
    ASSUME ImportsIInv, NEW t \in Threads, Unwind(t)
    PROVE  ImportsIInv'
<1> DEFINE b == doing[t].box
<1>1. /\ Busy(t) /\ b \in Boxes /\ b \in Objs
      /\ Unload(b) /\ UNCHANGED import
      /\ doing' = [doing EXCEPT ![t] = Idle]
  BY ImportFacts DEF Unwind, ImportsIInv, ImportTypes, Busy, DoingType
<1>2. IInv'
  BY <1>1, ReleaseKeepsIInv DEF ImportsIInv
<1>3. /\ \A q \in Boxes : handle'[q] = IF q = b THEN NoHandle ELSE handle[q]
      /\ \A u \in Threads : doing'[u] = IF u = t THEN Idle ELSE doing[u]
  BY <1>1, ImportFacts, IInvTypes DEF Unload, ImportsIInv, ImportTypes
<1>4. ImportTypes'
  BY <1>1 DEF ImportsIInv, ImportTypes
<1>5. Alone'
  BY <1>1, <1>3 DEF ImportsIInv, Alone, Busy, Imported
<1>6. Points'
  <2> SUFFICES ASSUME NEW j \in Imports, Imported(j)
               PROVE  /\ handle'[import[j].box] = import[j].lib
                      /\ import[j].symbol \in Exports[import[j].lib]
    BY <1>1 DEF Points, Imported
  <2>1. import[j].box \in Boxes /\ import[j].box # b
    BY <1>1 DEF ImportsIInv, ImportTypes, ImportType, Alone, Imported
  <2> QED
    BY <1>3, <2>1 DEF ImportsIInv, Points
<1>7. LoadedAreKept'
  <2> SUFFICES ASSUME NEW q \in Boxes, handle'[q] # NoHandle PROVE Kept(q)'
    BY DEF LoadedAreKept, IsLoaded
  <2>1. q # b /\ Kept(q)
    BY <1>3 DEF ImportsIInv, LoadedAreKept, IsLoaded
  <2> QED
    BY <1>1, <1>3, <2>1 DEF Kept, Busy, Imported
<1> QED
  BY <1>2, <1>4, <1>5, <1>6, <1>7 DEF ImportsIInv

LEMMA CopyImportKeepsImports ==
    ASSUME ImportsIInv, NEW i \in Imports, NEW j \in Imports, CopyImport(i, j)
    PROVE  ImportsIInv'
<1>1. /\ Imported(i) /\ Unused(j) /\ UNCHANGED <<vars, doing>>
      /\ import' = [import EXCEPT ![j] = import[i]]
  BY DEF CopyImport
<1>2. UNCHANGED handle /\ IInv'
  BY <1>1, IInvTypes, KeepsIInv DEF ImportsIInv, vars, loaderVars
<1>3. \A k \in Imports : import'[k] = IF k = j THEN import[i] ELSE import[k]
  BY <1>1 DEF ImportsIInv, ImportTypes
<1>4. ImportTypes'
  BY <1>1 DEF ImportsIInv, ImportTypes
<1>5. Alone'
  BY <1>1, <1>3 DEF ImportsIInv, Alone, Busy, Imported, Unused
<1>6. Points'
  BY <1>1, <1>2, <1>3 DEF ImportsIInv, Points, Imported
<1>7. LoadedAreKept'
  BY <1>1, <1>2, <1>3 DEF ImportsIInv, LoadedAreKept, IsLoaded, Kept, Busy, Imported,
                          Unused
<1> QED
  BY <1>2, <1>4, <1>5, <1>6, <1>7 DEF ImportsIInv

(* The thread that drops the last value of a box has it at hand; when      *)
(* there is another user, that one keeps it.                               *)
LEMMA DropImportKeepsImports ==
    ASSUME ImportsIInv, NEW t \in Threads, NEW i \in Imports, DropImport(t, i)
    PROVE  ImportsIInv'
<1> PICK b : b = import[i].box
  OBVIOUS
<1>1. /\ ~Busy(t) /\ Imported(i) /\ UNCHANGED vars
      /\ import' = [import EXCEPT ![i] = NoImport]
      /\ import[i] \in ImportType /\ b \in Boxes
  BY DEF DropImport, ImportsIInv, ImportTypes, ImportType, Imported
<1>2. UNCHANGED handle /\ IInv'
  BY <1>1, IInvTypes, KeepsIInv DEF ImportsIInv, vars, loaderVars
<1>3. \A k \in Imports : import'[k] = IF k = i THEN NoImport ELSE import[k]
  BY <1>1 DEF ImportsIInv, ImportTypes
<1>4. import' \in [Imports -> ImportType \cup {NoImport}]
  BY <1>1 DEF ImportsIInv, ImportTypes
<1>5. Points'
  BY <1>2, <1>3 DEF ImportsIInv, Points, Imported
<1>6. CASE Users(b) = {i}
  <2> DEFINE d == [box |-> b, into |-> i, symbol |-> import[i].symbol, unwind |-> TRUE]
  <2>1. doing' = [doing EXCEPT ![t] = d] /\ d \in DoingType
    BY <1>1, <1>6 DEF DropImport, DoingType, ImportType
  <2>2. d # Idle /\ d.box = b /\ d.into = i
    BY <2>1, ImportFacts
  <2> HIDE DEF d
  <2>3. \A u \in Threads : doing'[u] = IF u = t THEN d ELSE doing[u]
    BY <2>1 DEF ImportsIInv, ImportTypes
  <2>4. ImportTypes'
    BY <1>4, <2>1 DEF ImportsIInv, ImportTypes
  <2>5. \A k \in Imports : Imported(k) /\ import[k].box = b => k = i
    BY <1>6 DEF Users
  <2>6. Alone'
    BY <1>1, <1>3, <2>2, <2>3, <2>5 DEF ImportsIInv, Alone, Busy, Imported
  <2>7. LoadedAreKept'
    <3> SUFFICES ASSUME NEW q \in Boxes, handle[q] # NoHandle PROVE Kept(q)'
      BY <1>2 DEF LoadedAreKept, IsLoaded
    <3>1. Kept(q)
      BY DEF ImportsIInv, LoadedAreKept, IsLoaded
    <3> QED
      BY <1>1, <1>3, <2>2, <2>3, <3>1 DEF Kept, Busy, Imported
  <2> QED
    BY <1>2, <1>5, <2>4, <2>6, <2>7 DEF ImportsIInv
<1>7. CASE Users(b) # {i}
  <2>1. UNCHANGED doing
    BY <1>7 DEF DropImport
  <2>2. ImportTypes'
    BY <1>4, <2>1 DEF ImportsIInv, ImportTypes
  <2>3. Alone'
    <3>1. \A u \in Threads : Busy(u) => doing[u].into \in Imports
      BY DoingFacts
    <3>2. \A k \in Imports : import'[k] # NoImport => Imported(k) /\ import'[k] = import[k]
      BY <1>3 DEF Imported
    <3> QED
      BY <2>1, <3>1, <3>2 DEF ImportsIInv, Alone, Busy, Imported
  <2>4. PICK u \in Users(b) : u # i
    BY <1>1, <1>7 DEF Users
  <2>5. Kept(b)'
    <3>1. CASE u \in Imports /\ Imported(u) /\ import[u].box = b
      BY <1>3, <2>4, <3>1 DEF Kept, Imported
    <3>2. CASE u \in Threads /\ Busy(u) /\ doing[u].box = b
      BY <2>1, <3>2 DEF Kept, Busy
    <3> QED
      BY <2>4, <3>1, <3>2 DEF Users
  <2>6. LoadedAreKept'
    <3> SUFFICES ASSUME NEW q \in Boxes, handle[q] # NoHandle PROVE Kept(q)'
      BY <1>2 DEF LoadedAreKept, IsLoaded
    <3>1. Kept(q)
      BY DEF ImportsIInv, LoadedAreKept, IsLoaded
    <3>2. CASE \E k \in Imports : Imported(k) /\ import[k].box = q
      <4>1. PICK k \in Imports : Imported(k) /\ import[k].box = q
        BY <3>2
      <4>2. CASE k = i
        BY <2>5, <4>1, <4>2
      <4>3. CASE k # i
        BY <1>3, <4>1, <4>3 DEF Kept, Imported
      <4> QED
        BY <4>2, <4>3
    <3>3. CASE \E w \in Threads : Busy(w) /\ doing[w].box = q
      BY <2>1, <3>3 DEF Kept, Busy
    <3> QED
      BY <3>1, <3>2, <3>3 DEF Kept
  <2> QED
    BY <1>2, <1>5, <2>2, <2>3, <2>6 DEF ImportsIInv
<1> QED
  BY <1>6, <1>7

(* What a user does with a library of its own.                             *)
LEMMA UserTakes ==
    ASSUME ImportsIInv, UserCall
    PROVE  /\ IInv'
           /\ \E o \in Libs, x \in Handle : handle' = [handle EXCEPT ![o] = x]
<1>1. ASSUME NEW o \in Libs, NEW p \in Paths, NEW search \in Searches,
             NEW decorations \in BOOLEAN, Load(o, p, decorations, search, TRUE)
      PROVE  IInv' /\ \E x \in Handle : handle' = [handle EXCEPT ![o] = x]
  <2>1. o \in Objs /\ p \in Path \cup {NoPath} /\ search \in BOOLEAN
    BY ImportFacts, LibraryAssumption
  <2>2. IInv'
    BY <1>1, <2>1, LoadKeepsIInv DEF ImportsIInv
  <2> DEFINE r == LoadOutcome(Closed(ld, handle[o]), p, decorations, search)
  <2>3. r.handle \in Handle
    BY <2>1, LoadOutcomeType DEF ImportsIInv, IInv
  <2>4. handle' = [handle EXCEPT ![o] = r.handle]
    BY <1>1 DEF Load
  <2> HIDE DEF r
  <2> QED
    BY <2>2, <2>3, <2>4
<1>2. ASSUME NEW o \in Libs, Unload(o)
      PROVE  IInv' /\ \E x \in Handle : handle' = [handle EXCEPT ![o] = x]
  BY <1>2, ImportFacts, ReleaseKeepsIInv DEF ImportsIInv, Unload, Handle
<1>3. PICK o \in Libs :
        \/ \E p \in Paths, search \in Searches, decorations \in BOOLEAN :
              Load(o, p, decorations, search, TRUE)
        \/ Unload(o)
  BY DEF UserCall
<1>4. CASE Unload(o)
  BY <1>2, <1>4
<1>5. ASSUME NEW p \in Paths, NEW search \in Searches, NEW decorations \in BOOLEAN,
             Load(o, p, decorations, search, TRUE)
      PROVE  \E x \in Handle : handle' = [handle EXCEPT ![o] = x]
  BY <1>1, <1>5
<1> QED
  BY <1>1, <1>3, <1>4, <1>5

LEMMA UserKeepsImports ==
    ASSUME ImportsIInv, UserCall \/ FilesChange
    PROVE  ImportsIInv'
<1>1. UNCHANGED <<import, doing>>
  BY DEF UserCall, FilesChange
<1>2. IInv' /\ \A q \in Boxes : handle'[q] = handle[q]
  <2>1. CASE UserCall
    BY <2>1, UserTakes, ImportFacts, IInvTypes DEF ImportsIInv
  <2>2. CASE FilesChange
    BY <2>2, EnvironmentKeepsIInv DEF FilesChange, Environment, ImportsIInv
  <2> QED
    BY <2>1, <2>2
<1>3. Points'
  BY <1>1, <1>2 DEF ImportsIInv, Points, Imported, ImportTypes, ImportType
<1>4. LoadedAreKept'
  BY <1>1, <1>2 DEF ImportsIInv, LoadedAreKept, IsLoaded, Kept, Busy, Imported
<1> QED
  BY <1>1, <1>2, <1>3, <1>4 DEF ImportsIInv, ImportTypes, Alone, Busy, Imported

LEMMA NextImports == ImportsIInv /\ [ImportsNext]_importVars => ImportsIInv'
<1> SUFFICES ASSUME ImportsIInv, [ImportsNext]_importVars PROVE ImportsIInv'
  OBVIOUS
<1>1. CASE UNCHANGED importVars
  <2>1. IInv'
    BY <1>1, IInvTypes, KeepsIInv DEF ImportsIInv, importVars, vars, loaderVars
  <2>2. UNCHANGED <<handle, import, doing>>
    BY <1>1 DEF importVars, vars
  <2> QED
    BY <2>1, <2>2 DEF ImportsIInv, ImportTypes, Alone, Points, LoadedAreKept, Kept,
                      IsLoaded, Busy, Imported
<1>2. ASSUME NEW t \in Threads, NEW b \in Boxes, NEW y \in Symbols, NEW i \in Imports,
             Begin(t, b, y, i)
      PROVE  ImportsIInv'
  BY <1>2, BeginKeepsImports
<1>3. ASSUME NEW t \in Threads, Resolve(t) PROVE ImportsIInv'
  BY <1>3, ResolveKeepsImports
<1>4. ASSUME NEW t \in Threads, Unwind(t) PROVE ImportsIInv'
  BY <1>4, UnwindKeepsImports
<1>5. ASSUME NEW t \in Threads, NEW i \in Imports, DropImport(t, i) PROVE ImportsIInv'
  BY <1>5, DropImportKeepsImports
<1>6. ASSUME NEW i \in Imports, NEW j \in Imports, CopyImport(i, j) PROVE ImportsIInv'
  BY <1>6, CopyImportKeepsImports
<1> QED
  BY <1>1, <1>2, <1>3, <1>4, <1>5, <1>6, UserKeepsImports DEF ImportsNext

-----------------------------------------------------------------------------
(* Types, and no box outlives its last user.                               *)
THEOREM ImportsInvCorrect == ImportsSpec => []ImportsInv
<1>1. ImportsIInv => ImportsInv
  BY KeptIsUsed DEF ImportsIInv, IInv, ImportTypes, ImportType, DoingType, LoadedAreKept,
                    ImportsInv, ImportsTypeOK, NoLibraryForgotten
<1> QED
  BY <1>1, InitImports, NextImports, PTL DEF ImportsSpec

(* What an imported value points to is in memory, whatever other threads,  *)
(* the owner of the library and the file system do.                        *)
THEOREM ImportsStayMappedCorrect == ImportsSpec => []ImportsStayMapped
<1>1. ImportsIInv => ImportsStayMapped
  <2> SUFFICES ASSUME ImportsIInv, NEW i \in Imports, Imported(i)
               PROVE  /\ import[i].lib \in Mapped(ld)
                      /\ handle[import[i].box] = import[i].lib
                      /\ import[i].symbol \in Exports[import[i].lib]
    BY DEF ImportsStayMapped
  <2>1. import[i].box \in Objs /\ import[i].lib \in Files
    BY ImportFacts DEF ImportsIInv, ImportTypes, ImportType, Imported
  <2>2. Mapped(ld) = {f \in Files : \E o \in Objs : handle[o] = f} \cup {Program}
    BY IInvTypes, MappedIsResident DEF ImportsIInv
  <2> QED
    BY <2>1, <2>2 DEF ImportsIInv, Points
<1> QED
  BY <1>1, InitImports, NextImports, PTL DEF ImportsSpec

-----------------------------------------------------------------------------
ImportOwner == Libs \cup Imports \cup Threads
Own == [u \in ImportOwner |-> OwnedBy(u)]

LEMMA OwnedCases ==
    /\ \A o \in Libs : OwnedBy(o) = handle[o]
    /\ \A i \in Imports :
          OwnedBy(i) = IF Imported(i) THEN handle[import[i].box] ELSE NoHandle
    /\ \A t \in Threads :
          OwnedBy(t) = IF Busy(t) THEN handle[doing[t].box] ELSE NoHandle
BY ImportFacts DEF OwnedBy

(* What users own is what is in memory: a box that is loaded has a user,   *)
(* and a user owns what its box has.                                       *)
LEMMA UsersAreOwners ==
    ASSUME ImportsIInv'
    PROVE  Mapped(ld)' = {f \in Files : \E u \in ImportOwner : Own'[u] = f} \cup {Program}
<1>1. Mapped(ld)' = {f \in Files : \E o \in Objs : handle'[o] = f} \cup {Program}
  <2>1. IInv'
    BY DEF ImportsIInv
  <2> QED
    BY <2>1, PrimedTypes, MappedIsResident DEF Mapped
<1>2. \A u \in ImportOwner : Own'[u] = OwnedBy(u)'
  BY DEF Own
<1>3. /\ \A o \in Libs : OwnedBy(o)' = handle'[o]
      /\ \A i \in Imports :
            OwnedBy(i)' = IF import'[i] # NoImport THEN handle'[import'[i].box] ELSE NoHandle
      /\ \A t \in Threads :
            OwnedBy(t)' = IF doing'[t] # Idle THEN handle'[doing'[t].box] ELSE NoHandle
  BY ImportFacts DEF OwnedBy, Imported, Busy
<1>4. ASSUME NEW f \in Files, NEW o \in Objs, handle'[o] = f
      PROVE  \E u \in ImportOwner : Own'[u] = f
  <2>1. CASE o \in Libs
    BY <1>2, <1>3, <1>4, <2>1 DEF ImportOwner
  <2>2. CASE o \in Boxes
    <3>1. Kept(o)'
      BY <1>4, <2>2, LoaderAssumption DEF ImportsIInv, LoadedAreKept, IsLoaded
    <3>2. CASE \E i \in Imports : import'[i] # NoImport /\ import'[i].box = o
      BY <1>2, <1>3, <1>4, <3>2 DEF ImportOwner
    <3>3. CASE \E t \in Threads : doing'[t] # Idle /\ doing'[t].box = o
      BY <1>2, <1>3, <1>4, <3>3 DEF ImportOwner
    <3> QED
      BY <3>1, <3>2, <3>3 DEF Kept, Imported, Busy
  <2> QED
    BY <2>1, <2>2 DEF Libs
<1>5. ASSUME NEW f \in Files, NEW u \in ImportOwner, Own'[u] = f
      PROVE  \E o \in Objs : handle'[o] = f
  <2>1. f # NoHandle /\ OwnedBy(u)' = f
    BY <1>2, <1>5, LoaderAssumption
  <2>2. CASE u \in Libs
    BY <1>3, <2>1, <2>2, ImportFacts
  <2>3. CASE u \in Imports
    <3>1. import'[u] # NoImport /\ handle'[import'[u].box] = f
      BY <1>3, <2>1, <2>3
    <3> QED
      BY <2>3, <3>1, ImportFacts DEF ImportsIInv, ImportTypes, ImportType
  <2>4. CASE u \in Threads
    <3>1. doing'[u] # Idle /\ handle'[doing'[u].box] = f
      BY <1>3, <2>1, <2>4
    <3> QED
      BY <2>4, <3>1, ImportFacts DEF ImportsIInv, ImportTypes, DoingType
  <2> QED
    BY <2>2, <2>3, <2>4 DEF ImportOwner
<1> QED
  BY <1>1, <1>4, <1>5

(* A step lets one user own something else, or two of them trade what they *)
(* own, or nobody's property changes.                                      *)
Takeover(u, x) == Own' = [Own EXCEPT ![u] = x]
Exchanged(u, v) == Own' = [Own EXCEPT ![u] = Own[v], ![v] = Own[u]]

Owning ==
    \/ \E u \in ImportOwner, x \in Handle : Takeover(u, x)
    \/ \E u, v \in ImportOwner : Exchanged(u, v)
    \/ Own' = Own

(* Who is not concerned owns what it did. *)
LEMMA OwnFacts ==
    /\ Own = [u \in ImportOwner |-> Own[u]] /\ Own' = [u \in ImportOwner |-> Own'[u]]
    /\ \A o \in Libs : Own[o] = handle[o] /\ Own'[o] = handle'[o]
    /\ \A i \in Imports :
         /\ Own[i] = IF import[i] # NoImport THEN handle[import[i].box] ELSE NoHandle
         /\ Own'[i] = IF import'[i] # NoImport THEN handle'[import'[i].box] ELSE NoHandle
    /\ \A t \in Threads :
         /\ Own[t] = IF doing[t] # Idle THEN handle[doing[t].box] ELSE NoHandle
         /\ Own'[t] = IF doing'[t] # Idle THEN handle'[doing'[t].box] ELSE NoHandle
<1>1. /\ Own = [u \in ImportOwner |-> OwnedBy(u)]
      /\ Own' = [u \in ImportOwner |-> OwnedBy(u)']
      /\ Libs \subseteq ImportOwner /\ Imports \subseteq ImportOwner
      /\ Threads \subseteq ImportOwner
  BY DEF Own, ImportOwner
<1> QED
  BY <1>1, ImportFacts DEF OwnedBy, Imported, Busy

LEMMA BeginOwns ==
    ASSUME ImportsIInv, NEW t \in Threads, NEW b \in Boxes, NEW y \in Symbols,
           NEW i \in Imports, Begin(t, b, y, i)
    PROVE  Owning
<1>1. handle[b] = NoHandle /\ Takes(b) /\ b \in Objs
  BY BeginTakes, ImportFacts
<1>2. doing[t] = Idle /\ ~Kept(b) /\ UNCHANGED import
  BY KeptIsUsed DEF Begin, Constructed, Busy
<1>3. /\ \A j \in Imports : import[j] # NoImport => import[j].box # b /\ import[j].box \in Boxes
      /\ \A u \in Threads : doing[u] # Idle => doing[u].box # b /\ doing[u].box \in Boxes
  BY <1>2, DoingFacts DEF ImportsIInv, ImportTypes, ImportType, Kept, Busy, Imported
<1>4. CASE ret'.ec # Ok
  <2>1. UNCHANGED <<import, doing>>
    BY <1>4 DEF Begin, Constructed
  <2>2. handle' = handle
    BY <1>1, <1>4, IInvTypes DEF Takes, ImportsIInv
  <2> QED
    BY <2>1, <2>2 DEF Owning, Own, OwnedBy, Imported, Busy
<1>5. CASE ret'.ec = Ok
  <2>1. /\ \A u \in Threads : u # t => doing'[u] = doing[u]
        /\ doing'[t] # Idle /\ doing'[t].box = b
    <3> DEFINE d == [box |-> b, symbol |-> y, into |-> i, unwind |-> FALSE]
    <3>1. doing' = [doing EXCEPT ![t] = d] /\ d \in DoingType /\ d.box = b
      BY <1>5 DEF Begin, Constructed, DoingType
    <3> HIDE DEF d
    <3> QED
      BY <3>1, ImportFacts DEF ImportsIInv, ImportTypes
  <2>2. ASSUME NEW x \in Handle, handle' = [handle EXCEPT ![b] = x]
        PROVE  Takeover(t, x)
    <3>1. /\ handle'[b] = x
          /\ \A o \in Objs : o # b => handle'[o] = handle[o]
      BY <1>1, <2>2, IInvTypes DEF ImportsIInv
    <3>2. \A u \in ImportOwner : Own'[u] = IF u = t THEN x ELSE Own[u]
      BY <1>2, <1>3, <2>1, <3>1, OwnFacts, ImportFacts DEF ImportOwner
    <3> QED
      BY <3>2, OwnFacts DEF Takeover
  <2>3. ASSUME NEW s \in Libs,
               handle' = [handle EXCEPT ![s] = NoHandle, ![b] = handle[s]]
        PROVE  Exchanged(t, s)
    <3>1. /\ handle'[b] = handle[s] /\ handle'[s] = NoHandle /\ s \in Objs
          /\ \A o \in Objs : o # b /\ o # s => handle'[o] = handle[o]
      BY <1>1, <2>3, IInvTypes, ImportFacts DEF ImportsIInv
    <3>2. Own[t] = NoHandle /\ Own[s] = handle[s] /\ s # t
      BY <1>2, OwnFacts, ImportFacts
    <3>3. \A u \in ImportOwner :
            Own'[u] = IF u = t THEN handle[s] ELSE IF u = s THEN NoHandle ELSE Own[u]
      BY <1>2, <1>3, <2>1, <3>1, OwnFacts, ImportFacts DEF ImportOwner
    <3> QED
      BY <3>2, <3>3, OwnFacts DEF Exchanged
  <2> QED
    BY <1>1, <2>2, <2>3 DEF Takes, Owning, ImportOwner
<1> QED
  BY <1>4, <1>5

LEMMA ResolveOwns ==
    ASSUME ImportsIInv, NEW t \in Threads, Resolve(t)
    PROVE  Owning
<1> PICK d : d = doing[t]
  OBVIOUS
<1>1. /\ doing[t] # Idle /\ d.box \in Boxes /\ d.into \in Imports
      /\ import[d.into] = NoImport /\ UNCHANGED handle
  BY DoingFacts DEF Resolve, Get, Busy, ImportsIInv, Alone, Imported
<1>2. CASE ret'.ec = Ok
  <2>1. /\ \A u \in Threads : doing'[u] = IF u = t THEN Idle ELSE doing[u]
        /\ \A j \in Imports : j # d.into => import'[j] = import[j]
        /\ import'[d.into].box = d.box
        /\ import'[d.into] # NoImport
    <3> DEFINE v == [box |-> d.box, lib |-> handle[d.box], symbol |-> d.symbol]
    <3>1. import' = [import EXCEPT ![d.into] = v] /\ v.box = d.box
          /\ doing' = [doing EXCEPT ![t] = Idle]
      BY <1>2 DEF Resolve
    <3>2. v \in ImportType
      <4>1. IsLoaded(d.box) /\ d.box \in Objs /\ d.symbol \in Symbols
        BY <1>1, <1>2, DoingFacts DEF Resolve, Get, Reported, Returned, Threw, Ok, Busy
      <4> QED
        BY <1>1, <4>1, IInvTypes DEF ImportsIInv, IsLoaded, Handle, ImportType
    <3> HIDE DEF v
    <3> QED
      BY <1>1, <3>1, <3>2, ImportFacts DEF ImportsIInv, ImportTypes
  <2>2. \A u \in ImportOwner :
          Own'[u] = IF u = d.into THEN Own[t] ELSE IF u = t THEN Own[d.into] ELSE Own[u]
    BY <1>1, <2>1, OwnFacts, ImportFacts DEF ImportOwner
  <2>3. Exchanged(t, d.into)
    BY <1>1, <2>2, OwnFacts DEF Exchanged, ImportOwner
  <2> QED
    BY <1>1, <2>3 DEF Owning, ImportOwner
<1>3. CASE ret'.ec # Ok
  <2>1. UNCHANGED import /\ doing' = [doing EXCEPT ![t] = [d EXCEPT !["unwind"] = TRUE]]
    BY <1>3 DEF Resolve
  <2>2. d \in DoingType
    BY <1>1, DoingFacts DEF Busy
  <2>3. [d EXCEPT !["unwind"] = TRUE] \in DoingType
        /\ [d EXCEPT !["unwind"] = TRUE].box = d.box
    BY <2>2 DEF DoingType
  <2>4. PICK e \in DoingType : doing' = [doing EXCEPT ![t] = e] /\ e.box = d.box
    BY <2>1, <2>3
  <2>5. \A u \in Threads : doing'[u] = IF u = t THEN e ELSE doing[u]
    BY <2>4 DEF ImportsIInv, ImportTypes
  <2> UNCHANGED import /\ e # Idle /\ e.box = d.box
    BY <2>1, <2>4, ImportFacts
  <2>6. \A u \in ImportOwner : Own'[u] = Own[u]
    BY <1>1, <2>5, OwnFacts, ImportFacts DEF ImportOwner
  <2>7. Own' = Own
    <3>1. Own = [u \in ImportOwner |-> Own[u]] /\ Own' = [u \in ImportOwner |-> Own'[u]]
      BY OwnFacts
    <3>2. [u \in ImportOwner |-> Own'[u]] = [u \in ImportOwner |-> Own[u]]
      BY <2>6
    <3> QED
      BY <3>1, <3>2, Zenon
  <2> QED
    BY <2>7 DEF Owning
<1> QED
  BY <1>2, <1>3

LEMMA UnwindOwns ==
    ASSUME ImportsIInv, NEW t \in Threads, Unwind(t)
    PROVE  Owning
<1> PICK b : b = doing[t].box
  OBVIOUS
<1>1. /\ Busy(t) /\ b \in Objs /\ b \in Boxes /\ UNCHANGED import
      /\ handle' = [handle EXCEPT ![b] = NoHandle]
      /\ doing' = [doing EXCEPT ![t] = Idle]
  BY DoingFacts DEF Unwind, Unload
<1>2. /\ \A o \in Objs : o # b => handle'[o] = handle[o]
      /\ \A u \in Threads : doing'[u] = IF u = t THEN Idle ELSE doing[u]
  BY <1>1, IInvTypes DEF ImportsIInv, ImportTypes
<1>3. /\ \A i \in Imports : import[i] # NoImport => import[i].box # b /\ import[i].box \in Objs
      /\ \A u \in Threads : u # t /\ doing[u] # Idle => doing[u].box # b /\ doing[u].box \in Objs
  BY <1>1, DoingFacts, ImportFacts
     DEF ImportsIInv, Alone, Busy, Imported, ImportTypes, ImportType
<1>4. \A u \in ImportOwner : Own'[u] = IF u = t THEN NoHandle ELSE Own[u]
  BY <1>1, <1>2, <1>3, OwnFacts, ImportFacts DEF ImportOwner
<1>5. Takeover(t, NoHandle)
  BY <1>4, OwnFacts DEF Takeover
<1> QED
  BY <1>5 DEF Owning, ImportOwner, Handle

LEMMA CopyImportOwns ==
    ASSUME ImportsIInv, NEW i \in Imports, NEW j \in Imports, CopyImport(i, j)
    PROVE  Owning
<1>1. /\ import[i] # NoImport /\ UNCHANGED <<handle, doing>>
      /\ \A k \in Imports : import'[k] = IF k = j THEN import[i] ELSE import[k]
  BY DEF CopyImport, Imported, vars, ImportsIInv, ImportTypes
<1>2. \A u \in ImportOwner : Own'[u] = IF u = j THEN Own[i] ELSE Own[u]
  BY <1>1, OwnFacts, ImportFacts DEF ImportOwner
<1>3. Takeover(j, Own[i])
  BY <1>2, OwnFacts DEF Takeover
<1>4. Own[i] \in Handle
  BY <1>1, OwnFacts, IInvTypes, ImportFacts DEF ImportsIInv, ImportTypes, ImportType
<1> QED
  BY <1>3, <1>4 DEF Owning, ImportOwner

LEMMA DropImportOwns ==
    ASSUME ImportsIInv, NEW t \in Threads, NEW i \in Imports, DropImport(t, i)
    PROVE  Owning
<1> PICK b : b = import[i].box
  OBVIOUS
<1>1. /\ doing[t] = Idle /\ import[i] # NoImport /\ UNCHANGED handle
      /\ \A k \in Imports : import'[k] = IF k = i THEN NoImport ELSE import[k]
      /\ import[i] \in ImportType
  BY DEF DropImport, Imported, Busy, vars, ImportsIInv, ImportTypes
<1>2. CASE Users(b) = {i}
  <2>1. /\ \A u \in Threads : u # t => doing'[u] = doing[u]
        /\ doing'[t] # Idle /\ doing'[t].box = b
    <3> DEFINE d == [box |-> b, into |-> i, symbol |-> import[i].symbol, unwind |-> TRUE]
    <3>1. doing' = [doing EXCEPT ![t] = d] /\ d \in DoingType /\ d.box = b
      BY <1>1, <1>2 DEF DropImport, DoingType, ImportType
    <3> HIDE DEF d
    <3> QED
      BY <3>1, ImportFacts DEF ImportsIInv, ImportTypes
  <2>2. \A u \in ImportOwner :
          Own'[u] = IF u = i THEN Own[t] ELSE IF u = t THEN Own[i] ELSE Own[u]
    BY <1>1, <2>1, OwnFacts, ImportFacts DEF ImportOwner
  <2>3. Exchanged(t, i)
    BY <2>2, OwnFacts DEF Exchanged
  <2> QED
    BY <2>3 DEF Owning, ImportOwner
<1>3. CASE Users(b) # {i}
  <2>1. UNCHANGED doing
    BY <1>3 DEF DropImport
  <2>2. \A u \in ImportOwner : Own'[u] = IF u = i THEN NoHandle ELSE Own[u]
    BY <1>1, <2>1, OwnFacts, ImportFacts DEF ImportOwner
  <2>3. Takeover(i, NoHandle)
    BY <2>2, OwnFacts DEF Takeover
  <2> QED
    BY <2>3 DEF Owning, ImportOwner, Handle
<1> QED
  BY <1>2, <1>3

LEMMA UserOwns ==
    ASSUME ImportsIInv, UserCall \/ FilesChange
    PROVE  Owning
<1>1. UNCHANGED <<import, doing>>
  BY DEF UserCall, FilesChange
<1>2. /\ \A i \in Imports : import[i] # NoImport => import[i].box \in Boxes
      /\ \A t \in Threads : doing[t] # Idle => doing[t].box \in Boxes
  BY DoingFacts DEF ImportsIInv, ImportTypes, ImportType, Busy
<1>3. CASE UserCall
  <2>1. PICK o \in Libs, x \in Handle : handle' = [handle EXCEPT ![o] = x]
    BY <1>3, UserTakes
  <2>2. /\ handle'[o] = x
        /\ \A q \in Objs : q # o => handle'[q] = handle[q]
    BY <2>1, ImportFacts, IInvTypes DEF ImportsIInv
  <2>3. \A u \in ImportOwner : Own'[u] = IF u = o THEN x ELSE Own[u]
    BY <1>1, <1>2, <2>2, OwnFacts, ImportFacts DEF ImportOwner
  <2>4. Takeover(o, x)
    BY <2>3, OwnFacts DEF Takeover
  <2> QED
    BY <2>4 DEF Owning, ImportOwner
<1>4. CASE FilesChange
  <2>1. UNCHANGED handle
    BY <1>4 DEF FilesChange, Environment
  <2> QED
    BY <1>1, <2>1 DEF Owning, Own, OwnedBy, Imported, Busy
<1> QED
  BY <1>3, <1>4

LEMMA NextOwns == ImportsIInv /\ [ImportsNext]_importVars => Owning
<1> SUFFICES ASSUME ImportsIInv, [ImportsNext]_importVars PROVE Owning
  OBVIOUS
<1>1. CASE UNCHANGED importVars
  BY <1>1 DEF importVars, vars, Owning, Own, OwnedBy, Imported, Busy
<1>2. ASSUME NEW t \in Threads, NEW b \in Boxes, NEW y \in Symbols, NEW i \in Imports,
             Begin(t, b, y, i)
      PROVE  Owning
  BY <1>2, BeginOwns
<1>3. ASSUME NEW t \in Threads, Resolve(t) PROVE Owning
  BY <1>3, ResolveOwns
<1>4. ASSUME NEW t \in Threads, Unwind(t) PROVE Owning
  BY <1>4, UnwindOwns
<1>5. ASSUME NEW t \in Threads, NEW i \in Imports, DropImport(t, i) PROVE Owning
  BY <1>5, DropImportOwns
<1>6. ASSUME NEW i \in Imports, NEW j \in Imports, CopyImport(i, j) PROVE Owning
  BY <1>6, CopyImportOwns
<1> QED
  BY <1>1, <1>2, <1>3, <1>4, <1>5, <1>6, UserOwns DEF ImportsNext

(* Two layers of counting, that of shared_ptr and that of the loader,      *)
(* implement one ownership.                                                *)
THEOREM ImportsImplementOwnersCorrect == ImportsSpec => ImportsImplementOwners
<1> DEFINE Owned == Mapped(ld) = ImportOwners!Resident(Own)
<1>1. ImportsInit => ImportOwners!Init /\ Owned
  <2> SUFFICES ASSUME ImportsInit PROVE ImportOwners!Init /\ Owned
    OBVIOUS
  <2>1. Mapped(ld) = {Program}
    BY LoaderAssumption DEF ImportsInit, Init, LoaderInit, Mapped
  <2>2. \A u \in ImportOwner : OwnedBy(u) = NoHandle
    BY ImportFacts DEF ImportsInit, Init, ImportOwner, OwnedBy, Imported, Busy
  <2> QED
    BY <2>1, <2>2, LoaderAssumption
       DEF ImportOwners!Init, ImportOwners!Resident, Own, ImportOwner
<1>2. ImportsIInv' => Owned'
  BY UsersAreOwners DEF ImportOwners!Resident, ImportOwner
<1>3. ImportsIInv /\ Owned /\ ImportsIInv' /\ [ImportsNext]_importVars
        => [ImportOwners!Next]_(ImportOwners!ownerVars)
  <2> SUFFICES ASSUME ImportsIInv, Owned, ImportsIInv', [ImportsNext]_importVars
               PROVE  ImportOwners!Next \/ UNCHANGED <<Own, Mapped(ld)>>
    BY DEF ImportOwners!ownerVars, Own, ImportOwner
  <2>1. Mapped(ld)' = ImportOwners!Resident(Own)'
    BY <1>2
  <2>2. ASSUME NEW u \in ImportOwner, NEW x \in Handle, Takeover(u, x)
        PROVE  ImportOwners!Next
    BY <2>1, <2>2 DEF ImportOwners!Next, ImportOwners!Acquire, ImportOwners!Become,
                      Handle, Takeover, Own, ImportOwner
  <2>3. ASSUME NEW u \in ImportOwner, NEW v \in ImportOwner, Exchanged(u, v)
        PROVE  ImportOwners!Next
    <3>1. ImportOwners!Exchange(u, v)
      BY <2>1, <2>3, Zenon DEF ImportOwners!Exchange, ImportOwners!Become, Exchanged, Own,
                               ImportOwner
    <3> QED
      BY <3>1, Zenon DEF ImportOwners!Next, ImportOwner
  <2>4. Own' = Own => UNCHANGED <<Own, Mapped(ld)>>
    BY <2>1 DEF ImportOwners!Resident
  <2> QED
    BY <2>2, <2>3, <2>4, NextOwns DEF Owning
<1> QED
  BY <1>1, <1>2, <1>3, InitImports, NextImports, PTL
     DEF ImportsSpec, ImportsImplementOwners, ImportOwners!Spec
=============================================================================
