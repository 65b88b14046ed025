------------------------- MODULE SharedLibraryProofs -------------------------
(***************************************************************************)
(* Ownership of the loader's references, for every number of objects, of   *)
(* files and of paths, and every loader of module Loader.                  *)
(***************************************************************************)
EXTENDS SharedLibrary, FiniteSetTheorems, TLAPS

(* A loader whose counts may have gone below zero. *)
LoaderState == [refs : [Files -> Int], lname : [Files -> Path \cup {NoPath}]]

Is(x, f) == IF x = f THEN 1 ELSE 0

Count(hd, f) == Cardinality({o \in Objs : hd[o] = f})

-----------------------------------------------------------------------------
(* Giving object o the handle h takes one owner from o's old library and   *)
(* adds one to h's.                                                        *)
LEMMA CountSet ==
    ASSUME NEW hd \in [Objs -> Handle], NEW o \in Objs, NEW h, NEW f \in Files,
           NEW new, \A q \in Objs : new[q] = IF q = o THEN h ELSE hd[q]
    PROVE  /\ Count(hd, f) \in Nat
           /\ Count(new, f) = Count(hd, f) - Is(hd[o], f) + Is(h, f)
<1> DEFINE Own(g) == {q \in Objs : g[q] = f}
           rest   == {q \in Objs \ {o} : hd[q] = f}
<1>1. IsFiniteSet(rest)
  BY LibraryAssumption, FS_Subset
<1>2. o \notin rest
  OBVIOUS
<1>3. /\ Cardinality(rest) \in Nat
      /\ IsFiniteSet(rest \cup {o})
      /\ Cardinality(rest \cup {o}) = Cardinality(rest) + 1
  BY <1>1, <1>2, FS_CardinalityType, FS_AddElement
<1>4. Own(hd) = IF hd[o] = f THEN rest \cup {o} ELSE rest
  OBVIOUS
<1>5. Own(new) = IF h = f THEN rest \cup {o} ELSE rest
  OBVIOUS
<1>6. /\ Count(hd, f) = Cardinality(Own(hd))
      /\ Count(new, f) = Cardinality(Own(new))
  BY DEF Count
<1> HIDE DEF rest, Own
<1>7. Cardinality(Own(hd)) = Cardinality(rest) + Is(hd[o], f)
  BY <1>3, <1>4 DEF Is
<1>8. Cardinality(Own(new)) = Cardinality(rest) + Is(h, f)
  BY <1>3, <1>5 DEF Is
<1>9. Is(hd[o], f) \in 0 .. 1 /\ Is(h, f) \in 0 .. 1
  BY DEF Is
<1> QED
  BY <1>3, <1>6, <1>7, <1>8, <1>9

(* dlopen and dlclose change the count of one image by one. *)
LEMMA OpenedRefs ==
    ASSUME NEW l \in LoaderState, NEW h \in Handle, NEW p,
           h # NoHandle => p \in Path
    PROVE  /\ Opened(l, h, p) \in LoaderState
           /\ \A f \in Files : Opened(l, h, p).refs[f] = l.refs[f] + Is(h, f)
<1>1. CASE h = NoHandle
  BY <1>1, LoaderAssumption DEF Opened, LoaderState, Is
<1>2. CASE h # NoHandle
  <2>1. h \in Files /\ RealName(p) \in Path
    BY <1>2, LoaderAssumption DEF Handle, RealName, Path
  <2>2. QED
    BY <1>2, <2>1 DEF Opened, LoaderState, Is
<1> QED
  BY <1>1, <1>2

LEMMA ClosedRefs ==
    ASSUME NEW l \in LoaderState, NEW h \in Handle
    PROVE  /\ Closed(l, h) \in LoaderState
           /\ \A f \in Files : Closed(l, h).refs[f] = l.refs[f] - Is(h, f)
BY LoaderAssumption DEF Closed, LoaderState, Handle, Is

-----------------------------------------------------------------------------
LEMMA DlopenType ==
    ASSUME NEW l, NEW p
    PROVE  Dlopen(l, p) \in Handle
<1>1. CASE Namesakes(l, p) # {}
  BY <1>1 DEF Dlopen, Handle, Namesakes, Mapped
<1>2. CASE Namesakes(l, p) = {}
  BY <1>2, LoaderAssumption DEF Dlopen, Handle
<1> QED
  BY <1>1, <1>2

LEMMA ProgramLocationType == ProgramLocation \in Path
<1> DEFINE here == {p \in [dir : Dirs, name : Names] : FileAt(p) = Program}
<1>1. CASE here # {}
  <2>1. ProgramLocation \in here
    BY <1>1 DEF ProgramLocation
  <2> QED
    BY <2>1 DEF Path
<1>2. CASE here = {}
  <2>1. (CHOOSE n \in Names : TRUE) \in Names
    BY LoaderAssumption
  <2> QED
    BY <1>2, <2>1 DEF ProgramLocation, Path
<1> QED
  BY <1>1, <1>2

(* load() ends with a handle exactly when it reports no error, and then it *)
(* handed the loader a path.                                               *)
LEMMA LoadOutcomeType ==
    ASSUME TypeOK, NEW l, NEW p \in Path \cup {NoPath},
           NEW decorations \in BOOLEAN, NEW search \in BOOLEAN
    PROVE  LET r == LoadOutcome(l, p, decorations, search)
           IN  /\ r.handle \in Handle
               /\ r.handle # NoHandle => r.path \in Path
               /\ r.ec \in Errors \cup {Ok} /\ r.text \in BOOLEAN
               /\ r.ec = Ok <=> r.handle # NoHandle
<1> DEFINE sl == Anchored(p, search)
           Sound(r) == /\ r.handle \in Handle
                       /\ r.handle # NoHandle => r.path \in Path
                       /\ r.ec \in Errors \cup {Ok} /\ r.text \in BOOLEAN
                       /\ r.ec = Ok <=> r.handle # NoHandle
<1>1. CASE p = NoPath
  BY <1>1 DEF LoadOutcome, Attempt, Handle, Errors, Ok
<1>2. CASE p # NoPath
  <2>1. sl \in Path
    BY <1>2, LoaderAssumption DEF Anchored, Path, TypeOK, LoaderTypeOK
  <2>2. Decorate(sl) \in Path
    BY <2>1, LoaderAssumption DEF Decorate, Path
  <2> HIDE DEF sl
  <2>3. Program \in Handle /\ Program # NoHandle /\ NoHandle \in Handle
    BY LoaderAssumption DEF Handle
  <2>4. Sound(LoadExact(l, sl))
    BY <2>1, <2>3, DlopenType DEF LoadExact, Attempt, Errors, Ok
  <2>5. Sound(Attempt(NoHandle, Decorate(sl), "executable_format_error", TRUE))
    BY <2>3 DEF Attempt, Errors, Ok
  <2>6. Dlopen(l, Decorate(sl)) # NoHandle
          => Sound(Attempt(Dlopen(l, Decorate(sl)), Decorate(sl), Ok, FALSE))
    BY <2>2, DlopenType DEF Attempt, Errors, Ok
  <2> HIDE DEF Sound
  <2>7. Sound(LoadOutcome(l, p, decorations, search))
    BY <1>2, <2>4, <2>5, <2>6 DEF LoadOutcome, sl
  <2> QED
    BY <2>7 DEF Sound
<1> QED
  BY <1>1, <1>2
-----------------------------------------------------------------------------
(* The inductive invariant: the types, and the count of every image.       *)
Counted(l, hd) ==
    \A f \in Files : l.refs[f] = Count(hd, f) + Is(Program, f)

IInv == TypeOK /\ Counted(ld, handle)

LEMMA CountedIsOwnership == Counted(ld, handle) <=> Ownership
BY DEF Counted, Ownership, Count, Owners, Is

(* Counts that are owners counted are natural numbers. *)
LEMMA CountedType ==
    ASSUME NEW l \in LoaderState, NEW hd \in [Objs -> Handle], Counted(l, hd)
    PROVE  l \in [refs : [Files -> Nat], lname : [Files -> Path \cup {NoPath}]]
<1>1. ASSUME NEW f \in Files PROVE l.refs[f] \in Nat
  <2>1. IsFiniteSet({o \in Objs : hd[o] = f})
    BY LibraryAssumption, FS_Subset
  <2>2. Count(hd, f) \in Nat
    BY <2>1, FS_CardinalityType DEF Count
  <2> QED
    BY <2>2 DEF Counted, Is
<1> QED
  BY <1>1 DEF LoaderState

(* An object that releases its library and takes h, in either order. *)
LEMMA Replace ==
    ASSUME NEW l \in LoaderState, NEW hd \in [Objs -> Handle], NEW o \in Objs,
           NEW h \in Handle, NEW p, h # NoHandle => p \in Path, Counted(l, hd),
           NEW new, \A q \in Objs : new[q] = IF q = o THEN h ELSE hd[q],
           NEW m, \/ m = Opened(Closed(l, hd[o]), h, p)
                  \/ m = Closed(Opened(l, h, p), hd[o])
    PROVE  m \in LoaderState /\ Counted(m, new)
<1>1. hd[o] \in Handle
  OBVIOUS
<1>2. /\ m \in LoaderState
      /\ \A f \in Files : m.refs[f] = l.refs[f] - Is(hd[o], f) + Is(h, f)
  <2>1. CASE m = Opened(Closed(l, hd[o]), h, p)
    <3>1. PICK k : k = Closed(l, hd[o])
      OBVIOUS
    <3>2. k \in LoaderState /\ \A f \in Files : k.refs[f] = l.refs[f] - Is(hd[o], f)
      BY <1>1, <3>1, ClosedRefs
    <3>3. m = Opened(k, h, p)
      BY <2>1, <3>1
    <3> QED
      BY <3>2, <3>3, OpenedRefs
  <2>2. CASE m = Closed(Opened(l, h, p), hd[o])
    <3>1. PICK k : k = Opened(l, h, p)
      OBVIOUS
    <3>2. k \in LoaderState /\ \A f \in Files : k.refs[f] = l.refs[f] + Is(h, f)
      BY <3>1, OpenedRefs
    <3>3. m \in LoaderState /\ \A f \in Files : m.refs[f] = k.refs[f] - Is(hd[o], f)
      BY <1>1, <2>2, <3>1, <3>2, ClosedRefs
    <3>4. ASSUME NEW f \in Files
          PROVE l.refs[f] \in Int /\ Is(h, f) \in Int /\ Is(hd[o], f) \in Int
      BY DEF Is, LoaderState
    <3> QED
      BY <3>2, <3>3, <3>4
  <2> QED
    BY <2>1, <2>2
<1>3. ASSUME NEW f \in Files PROVE m.refs[f] = Count(new, f) + Is(Program, f)
  <2>1. /\ Count(hd, f) \in Nat
        /\ Count(new, f) = Count(hd, f) - Is(hd[o], f) + Is(h, f)
    BY CountSet
  <2>2. /\ Is(hd[o], f) \in 0 .. 1 /\ Is(h, f) \in 0 .. 1
        /\ Is(Program, f) \in 0 .. 1
    BY DEF Is
  <2>3. l.refs[f] = Count(hd, f) + Is(Program, f)
    BY DEF Counted
  <2> QED
    BY <1>2, <2>1, <2>2, <2>3
<1> QED
  BY <1>2, <1>3 DEF Counted

(* Two objects that trade their handles leave every count as it is. *)
LEMMA Trading ==
    ASSUME NEW hd \in [Objs -> Handle], NEW o \in Objs, NEW s \in Objs,
           NEW l, Counted(l, hd),
           NEW new, \A q \in Objs : new[q] = IF q = s THEN hd[o]
                                            ELSE IF q = o THEN hd[s] ELSE hd[q]
    PROVE  Counted(l, new)
<1>1. PICK mid \in [Objs -> Handle] :
        \A q \in Objs : mid[q] = IF q = o THEN hd[s] ELSE hd[q]
  <2> WITNESS [q \in Objs |-> IF q = o THEN hd[s] ELSE hd[q]] \in [Objs -> Handle]
  <2> QED
    OBVIOUS
<1>2. /\ \A q \in Objs : new[q] = IF q = s THEN hd[o] ELSE mid[q]
      /\ mid[s] = hd[s]
  BY <1>1
<1>3. ASSUME NEW f \in Files PROVE Count(new, f) = Count(hd, f)
  <2>1. /\ Count(hd, f) \in Nat
        /\ Count(mid, f) = Count(hd, f) - Is(hd[o], f) + Is(hd[s], f)
    BY <1>1, CountSet
  <2>2. Count(new, f) = Count(mid, f) - Is(hd[s], f) + Is(hd[o], f)
    BY <1>1, <1>2, CountSet
  <2>3. Is(hd[o], f) \in 0 .. 1 /\ Is(hd[s], f) \in 0 .. 1
    BY DEF Is
  <2> QED
    BY <2>1, <2>2, <2>3
<1> QED
  BY <1>3 DEF Counted

-----------------------------------------------------------------------------
RetType == [op : Calls, obj : Objs, from : Objs, ec : Errors \cup {Ok},
            thrown : BOOLEAN]
FsType == [Dirs -> [Names -> Files \cup {NoFile}]]

(* Whether the error is thrown or returned, it is the same error.          *)
LEMMA ReportedSays ==
    ASSUME NEW op, NEW o, NEW s, NEW ec, NEW text, NEW throws,
           Reported(op, o, s, ec, text, throws)
    PROVE  /\ ret'.op = op /\ ret'.obj = o /\ ret'.from = s /\ ret'.ec = ec
           /\ dlerr' = text \/ dlerr' = FALSE
BY DEF Reported, Returned, Threw

LEMMA RetTyped ==
    ASSUME NEW op \in Calls, NEW o \in Objs, NEW s \in Objs, NEW ec \in Errors \cup {Ok},
           Returned(op, o, s, ec) \/ Threw(op, o, s, ec)
    PROVE  ret' \in RetType
<1>1. ASSUME NEW t \in BOOLEAN
      PROVE  [op |-> op, obj |-> o, from |-> s, ec |-> ec, thrown |-> t] \in RetType
  BY DEF RetType
<1>2. TRUE \in BOOLEAN /\ FALSE \in BOOLEAN
  OBVIOUS
<1> QED
  BY <1>1, <1>2, Zenon DEF Returned, Threw

LEMMA ReportedType ==
    ASSUME NEW op \in Calls, NEW o \in Objs, NEW s \in Objs,
           NEW ec \in Errors \cup {Ok}, NEW text \in BOOLEAN, NEW throws,
           Reported(op, o, s, ec, text, throws)
    PROVE  ret' \in RetType /\ dlerr' \in BOOLEAN
<1>1. /\ Returned(op, o, s, ec) \/ Threw(op, o, s, ec)
      /\ dlerr' = text \/ dlerr' = FALSE
  BY DEF Reported
<1>2. dlerr' \in BOOLEAN
  BY <1>1
<1> QED
  BY <1>1, <1>2, RetTyped

LEMMA UnlocatedSays ==
    ASSUME NEW o, NEW s, NEW throws, AssignUnlocated(o, s, throws)
    PROVE  /\ ret'.op = "assign" /\ ret'.obj = o /\ ret'.from = s
           /\ ret'.ec \in Errors /\ ret'.ec # Ok
           /\ UNCHANGED <<fs, cwd, ld, handle, steps>>
<1>1. \E ec \in Errors \ {Ok}, text \in {dlerr, FALSE} :
         Reported("assign", o, s, ec, text, throws)
  BY DEF AssignUnlocated, Errors, Ok
<1>2. UNCHANGED <<fs, cwd, ld, handle, steps>>
  BY DEF AssignUnlocated
<1> QED
  BY <1>1, <1>2, ReportedSays

LEMMA InitIInv == Init => IInv
<1> SUFFICES ASSUME Init PROVE IInv
  OBVIOUS
<1>1. TypeOK
  <2>1. ld \in [refs : [Files -> Nat], lname : [Files -> Path \cup {NoPath}]]
    BY DEF Init, LoaderInit
  <2>2. fs \in [Dirs -> [Names -> Files \cup {NoFile}]]
    BY LibraryAssumption DEF Init
  <2>3. handle \in [Objs -> Handle] /\ steps \in 0 .. Steps
    BY LibraryAssumption DEF Init, Handle
  <2>4. ret \in [op : Calls, obj : Objs, from : Objs, ec : Errors \cup {Ok},
                  thrown : BOOLEAN]
    BY DEF Init, Calls
  <2> QED
    BY <2>1, <2>2, <2>3, <2>4 DEF Init, LoaderInit, TypeOK, LoaderTypeOK
<1>2. ASSUME NEW f \in Files PROVE ld.refs[f] = Count(handle, f) + Is(Program, f)
  <2>1. {o \in Objs : handle[o] = f} = {}
    BY LoaderAssumption DEF Init
  <2>2. Count(handle, f) = 0
    BY <2>1, FS_EmptySet DEF Count
  <2> QED
    BY <2>2 DEF Init, LoaderInit, Is
<1> QED
  BY <1>1, <1>2 DEF IInv, Counted

(* What an action has to show to keep the invariant. *)
LEMMA KeepsIInv ==
    ASSUME handle' \in [Objs -> Handle], ld' \in LoaderState,
           Counted(ld', handle'), fs' \in FsType, cwd' \in Dirs,
           dlerr' \in BOOLEAN, ret' \in RetType, steps' \in 0 .. Steps
    PROVE  IInv'
<1>1. ld' \in [refs : [Files -> Nat], lname : [Files -> Path \cup {NoPath}]]
  BY CountedType
<1> QED
  BY <1>1 DEF IInv, TypeOK, LoaderTypeOK, FsType, RetType, Counted, Count

LEMMA IInvTypes ==
    ASSUME IInv
    PROVE  /\ handle \in [Objs -> Handle] /\ ld \in LoaderState
           /\ Counted(ld, handle) /\ fs \in FsType /\ cwd \in Dirs
           /\ dlerr \in BOOLEAN /\ ret \in RetType /\ steps \in 0 .. Steps
BY DEF IInv, TypeOK, LoaderTypeOK, LoaderState, FsType, RetType

LEMMA LoadKeepsIInv ==
    ASSUME IInv, NEW o \in Objs, NEW p \in Path \cup {NoPath},
           NEW decorations \in BOOLEAN, NEW search \in BOOLEAN,
           NEW throws \in BOOLEAN, Load(o, p, decorations, search, throws)
    PROVE  IInv'
<1> DEFINE r == LoadOutcome(Closed(ld, handle[o]), p, decorations, search)
<1>1. /\ r.handle \in Handle
      /\ r.handle # NoHandle => r.path \in Path
  BY LoadOutcomeType DEF IInv
<1>2. r.ec \in Errors \cup {Ok} /\ r.text \in BOOLEAN
  BY LoadOutcomeType DEF IInv
<1>3. /\ handle' = [handle EXCEPT ![o] = r.handle]
      /\ ld' = Opened(Closed(ld, handle[o]), r.handle, r.path)
      /\ Reported("load", o, o, r.ec, r.text, throws)
      /\ UNCHANGED <<fs, cwd, steps>>
  BY DEF Load
<1> HIDE DEF r
<1>4. /\ handle' \in [Objs -> Handle] /\ ld' \in LoaderState
      /\ Counted(ld', handle')
  <2>1. /\ handle' \in [Objs -> Handle]
        /\ \A q \in Objs : handle'[q] = IF q = o THEN r.handle ELSE handle[q]
    BY <1>1, <1>3, IInvTypes
  <2>2. ld' = Opened(Closed(ld, handle[o]), r.handle, r.path)
    BY <1>3
  <2> QED
    BY <1>1, <2>1, <2>2, IInvTypes, Replace
<1>5. ret' \in RetType /\ dlerr' \in BOOLEAN
  <2>1. "load" \in Calls
    BY DEF Calls
  <2> QED
    BY <1>3, <1>2, <2>1, ReportedType
<1> QED
  BY <1>3, <1>4, <1>5, IInvTypes, KeepsIInv

(* Unload, and the assignment of a library that is not loaded. *)
LEMMA ReleaseKeepsIInv ==
    ASSUME IInv, NEW o \in Objs, NEW s \in Objs, Unload(o) \/ AssignNothing(o, s)
    PROVE  IInv'
<1>1. /\ handle' = [handle EXCEPT ![o] = NoHandle]
      /\ ld' = Opened(Closed(ld, handle[o]), NoHandle, NoPath)
      /\ UNCHANGED <<fs, cwd, dlerr, steps>>
  BY DEF Unload, AssignNothing, Opened
<1>2. /\ handle' \in [Objs -> Handle] /\ ld' \in LoaderState
      /\ Counted(ld', handle')
  <2>1. /\ handle' \in [Objs -> Handle]
        /\ \A q \in Objs : handle'[q] = IF q = o THEN NoHandle ELSE handle[q]
    BY <1>1, IInvTypes DEF Handle
  <2>2. ld' = Opened(Closed(ld, handle[o]), NoHandle, NoPath)
    BY <1>1
  <2>3. NoHandle \in Handle
    BY DEF Handle
  <2> QED
    BY <2>1, <2>2, <2>3, IInvTypes, Replace
<1>3. ret' \in RetType
  <2>1. \/ Returned("unload", o, o, Ok)
        \/ Returned("assign", o, s, Ok)
    BY DEF Unload, AssignNothing
  <2> QED
    BY <2>1, RetTyped DEF Calls
<1> QED
  BY <1>1, <1>2, <1>3, IInvTypes, KeepsIInv

LEMMA AdoptKeepsIInv ==
    ASSUME IInv, NEW o \in Objs, NEW p \in Path, Adopt(o, p)
    PROVE  IInv'
<1> DEFINE h == Dlopen(ld, p)
<1>1. h \in Handle
  BY DlopenType
<1>2. ld' = Opened(Closed(ld, handle[o]), h, p)
  BY DEF Adopt, IsLoaded, Closed
<1>3. /\ handle' = [handle EXCEPT ![o] = h]
      /\ dlerr' \in BOOLEAN
      /\ UNCHANGED <<fs, cwd, steps>>
  BY DEF Adopt
<1> HIDE DEF h
<1>4. /\ handle' \in [Objs -> Handle] /\ ld' \in LoaderState
      /\ Counted(ld', handle')
  <2>1. /\ handle' \in [Objs -> Handle]
        /\ \A q \in Objs : handle'[q] = IF q = o THEN h ELSE handle[q]
    BY <1>1, <1>3, IInvTypes
  <2> QED
    BY <1>1, <1>2, <2>1, IInvTypes, Replace
<1>5. ret' \in RetType
  BY RetTyped DEF Adopt, Calls
<1> QED
  BY <1>3, <1>4, <1>5, IInvTypes, KeepsIInv
LEMMA LocationType ==
    ASSUME IInv, NEW s \in Objs, IsLoaded(s)
    PROVE  Location(handle[s]) \in Path \cup {NoPath}
<1>1. handle[s] \in Files
  BY IInvTypes DEF IsLoaded, Handle
<1>2. ld.lname[handle[s]] \in Path \cup {NoPath}
  BY <1>1, IInvTypes DEF LoaderState
<1> QED
  BY <1>2, ProgramLocationType DEF Location

LEMMA AssignKeepsIInv ==
    ASSUME IInv, NEW o \in Objs, NEW s \in Objs, NEW throws \in BOOLEAN,
           AssignLoaded(o, s, throws)
    PROVE  IInv'
<1> DEFINE p    == Location(handle[s])
           copy == LoadOutcome(ld, p, FALSE, FALSE)
<1>1. p \in Path \cup {NoPath}
  BY LocationType DEF AssignLoaded
<1>2. /\ copy.handle \in Handle
      /\ copy.handle # NoHandle => copy.path \in Path
  BY <1>1, LoadOutcomeType DEF IInv
<1>3. copy.ec \in Errors \cup {Ok} /\ copy.text \in BOOLEAN
  BY <1>1, LoadOutcomeType DEF IInv
<1>4. /\ \/ /\ handle' = [handle EXCEPT ![o] = copy.handle]
            /\ ld' = Closed(Opened(ld, copy.handle, copy.path), handle[o])
         \/ UNCHANGED <<handle, ld>>
      /\ Reported("assign", o, s, copy.ec, copy.text, throws)
      /\ UNCHANGED <<fs, cwd, steps>>
  BY DEF AssignLoaded
<1> HIDE DEF copy
<1>5. /\ handle' \in [Objs -> Handle]
      /\ ld' \in LoaderState
      /\ Counted(ld', handle')
  <2>1. CASE UNCHANGED <<handle, ld>>
    BY <2>1, IInvTypes
  <2>2. CASE /\ handle' = [handle EXCEPT ![o] = copy.handle]
             /\ ld' = Closed(Opened(ld, copy.handle, copy.path), handle[o])
    <3>1. /\ handle' \in [Objs -> Handle]
          /\ \A q \in Objs : handle'[q] = IF q = o THEN copy.handle ELSE handle[q]
      BY <1>2, <2>2, IInvTypes
    <3>2. ld' = Closed(Opened(ld, copy.handle, copy.path), handle[o])
      BY <2>2
    <3> QED
      BY <1>2, <3>1, <3>2, IInvTypes, Replace
  <2> QED
    BY <1>4, <2>1, <2>2
<1>6. ret' \in RetType /\ dlerr' \in BOOLEAN
  <2>1. "assign" \in Calls
    BY DEF Calls
  <2> QED
    BY <1>3, <1>4, <2>1, ReportedType
<1> QED
  BY <1>4, <1>5, <1>6, IInvTypes, KeepsIInv

(* Move construction, move assignment and swap. *)
LEMMA TradeKeepsIInv ==
    ASSUME IInv, NEW o \in Objs, NEW s \in Objs,
           MoveConstruct(o, s) \/ MoveAssign(o, s) \/ Swap(o, s)
    PROVE  IInv'
<1>1. /\ ret' \in RetType
      /\ UNCHANGED <<fs, cwd, ld, dlerr, steps>>
  BY RetTyped DEF MoveConstruct, MoveAssign, Swap, Calls, loaderVars
<1>2. /\ handle' \in [Objs -> Handle]
      /\ \/ handle' = handle
         \/ \A q \in Objs : handle'[q] = IF q = s THEN handle[o]
                                         ELSE IF q = o THEN handle[s] ELSE handle[q]
  <2>1. CASE MoveConstruct(o, s)
    <3>1. /\ o # s /\ handle[o] = NoHandle
          /\ handle' = [handle EXCEPT ![s] = NoHandle, ![o] = handle[s]]
      BY <2>1 DEF MoveConstruct, IsLoaded
    <3> QED
      BY <3>1, IInvTypes DEF Handle
  <2>2. CASE MoveAssign(o, s) \/ Swap(o, s)
    <3>1. handle' \in {handle, [handle EXCEPT ![o] = handle[s], ![s] = handle[o]]}
      BY <2>2 DEF MoveAssign, Swap, Trade
    <3> QED
      BY <3>1, IInvTypes
  <2> QED
    BY <2>1, <2>2
<1>3. Counted(ld', handle')
  <2>1. CASE handle' = handle
    BY <1>1, <2>1, IInvTypes
  <2>2. CASE \A q \in Objs : handle'[q] = IF q = s THEN handle[o]
                                          ELSE IF q = o THEN handle[s] ELSE handle[q]
    BY <1>1, <2>2, IInvTypes, Trading
  <2> QED
    BY <1>2, <2>1, <2>2
<1> QED
  BY <1>1, <1>2, <1>3, IInvTypes, KeepsIInv

(* Calls that only read. *)
LEMMA ReadsKeepIInv ==
    ASSUME IInv, NEW o \in Objs, NEW s \in Objs, NEW y, NEW throws,
           \/ AssignSame(o, s) \/ AssignUnlocated(o, s, throws)
           \/ Has(o, y) \/ Get(o, y)
    PROVE  IInv'
<1>1. UNCHANGED <<handle, ld, fs, cwd, steps>>
  BY DEF AssignSame, AssignUnlocated, Has, Get, loaderVars
<1>2. ret' \in RetType /\ dlerr' \in BOOLEAN
  <2>1. CASE AssignSame(o, s)
    BY <2>1, IInvTypes, RetTyped DEF AssignSame, Calls, loaderVars
  <2>2. CASE Has(o, y)
    BY <2>2, IInvTypes, RetTyped DEF Has, Calls
  <2>3. CASE Get(o, y)
    <3>1. /\ \E ec \in Errors \cup {Ok} : Returned("get", o, o, ec) \/ Threw("get", o, o, ec)
          /\ dlerr' = dlerr \/ dlerr' \in BOOLEAN
      BY <2>3 DEF Get, Reported, Errors
    <3>2. ret' \in RetType
      BY <3>1, RetTyped DEF Calls
    <3> QED
      BY <3>1, <3>2, IInvTypes
  <2>4. CASE AssignUnlocated(o, s, throws)
    <3>1. \E ec \in Errors \cup {Ok}, text \in BOOLEAN :
             Reported("assign", o, s, ec, text, throws)
      BY <2>4, IInvTypes DEF AssignUnlocated, Errors
    <3>2. "assign" \in Calls
      BY DEF Calls
    <3> QED
      BY <3>1, <3>2, ReportedType
  <2> QED
    BY <2>1, <2>2, <2>3, <2>4
<1> QED
  BY <1>1, <1>2, IInvTypes, KeepsIInv

LEMMA EnvironmentKeepsIInv ==
    ASSUME IInv, Environment PROVE IInv'
<1>1. fs' \in FsType /\ cwd' \in Dirs
  BY IInvTypes DEF Environment, FsType
<1>2. steps' \in 0 .. Steps
  BY IInvTypes, LibraryAssumption DEF Environment
<1>3. ret' \in RetType /\ UNCHANGED <<handle, ld, dlerr>>
  BY IInvTypes DEF Environment, RetType, Calls, Ok
<1> QED
  BY <1>1, <1>2, <1>3, IInvTypes, KeepsIInv

LEMMA NextIInv == IInv /\ [Next]_vars => IInv'
<1> SUFFICES ASSUME IInv, [Next]_vars PROVE IInv'
  OBVIOUS
<1>1. CASE UNCHANGED vars
  BY <1>1, IInvTypes, KeepsIInv DEF vars, loaderVars
<1>2. ASSUME NEW o \in Objs, NEW p \in Paths \cup {NoPath}, NEW search \in Searches,
             NEW decorations \in BOOLEAN, NEW throws \in BOOLEAN,
             Load(o, p, decorations, search, throws)
      PROVE  IInv'
  BY <1>2, LibraryAssumption, LoadKeepsIInv
<1>3. ASSUME NEW o \in Objs, Unload(o) PROVE IInv'
  BY <1>3, ReleaseKeepsIInv
<1>4. ASSUME NEW o \in Objs, NEW p \in Paths, Adopt(o, p) PROVE IInv'
  BY <1>4, LibraryAssumption, AdoptKeepsIInv
<1>5. ASSUME NEW o \in Objs, NEW s \in Objs, AssignNothing(o, s) PROVE IInv'
  BY <1>5, ReleaseKeepsIInv
<1>6. ASSUME NEW o \in Objs, NEW s \in Objs, NEW throws \in BOOLEAN,
             AssignLoaded(o, s, throws)
      PROVE  IInv'
  BY <1>6, AssignKeepsIInv
<1>7. ASSUME NEW o \in Objs, NEW s \in Objs,
             MoveConstruct(o, s) \/ MoveAssign(o, s) \/ Swap(o, s)
      PROVE  IInv'
  BY <1>7, TradeKeepsIInv
<1>8. ASSUME NEW o \in Objs, NEW s \in Objs, NEW throws \in BOOLEAN,
             AssignSame(o, s) \/ AssignUnlocated(o, s, throws)
      PROVE  IInv'
  BY <1>8, ReadsKeepIInv
<1>9. ASSUME NEW o \in Objs, NEW y \in Symbols, Has(o, y) \/ Get(o, y) PROVE IInv'
  BY <1>9, ReadsKeepIInv
<1>10. CASE Environment
  BY <1>10, EnvironmentKeepsIInv
<1> QED
  BY <1>1, <1>2, <1>3, <1>4, <1>5, <1>6, <1>7, <1>8, <1>9, <1>10 DEF Next
-----------------------------------------------------------------------------
(* For every number of objects, files and paths, the loader's and the      *)
(* objects' states have their types.                                       *)
THEOREM TypeCorrect == Spec => []TypeOK
<1>1. IInv => TypeOK
  BY DEF IInv
<1> QED
  BY <1>1, InitIInv, NextIInv, PTL DEF Spec

(* No reference is leaked and none is released twice (Ownership).          *)
THEOREM OwnershipCorrect == Spec => []Ownership
<1>1. IInv => Ownership
  BY CountedIsOwnership DEF IInv
<1> QED
  BY <1>1, InitIInv, NextIInv, PTL DEF Spec

(* load() reports an error exactly when it leaves the object not loaded.   *)
THEOREM LoadTellsTheTruthCorrect == Spec => []LoadTellsTheTruth
<1>1. Init => LoadTellsTheTruth
  BY DEF Init, LoadTellsTheTruth
<1>2. IInv /\ LoadTellsTheTruth /\ [Next]_vars => LoadTellsTheTruth'
  <2> SUFFICES ASSUME IInv, LoadTellsTheTruth, [Next]_vars
               PROVE  LoadTellsTheTruth'
    OBVIOUS
  <2>1. CASE UNCHANGED vars
    BY <2>1 DEF vars, LoadTellsTheTruth, IsLoaded
  <2>2. ASSUME NEW o \in Objs, NEW p \in Paths \cup {NoPath}, NEW search \in Searches,
               NEW decorations \in BOOLEAN, NEW throws \in BOOLEAN,
               Load(o, p, decorations, search, throws)
        PROVE  LoadTellsTheTruth'
    <3> DEFINE r == LoadOutcome(Closed(ld, handle[o]), p, decorations, search)
    <3>1. r.ec = Ok <=> r.handle # NoHandle
      BY LibraryAssumption, LoadOutcomeType DEF IInv
    <3>2. /\ handle' = [handle EXCEPT ![o] = r.handle]
          /\ ret'.obj = o /\ ret'.ec = r.ec
      BY <2>2, ReportedSays DEF Load
    <3> HIDE DEF r
    <3> QED
      BY <3>1, <3>2, IInvTypes DEF LoadTellsTheTruth, IsLoaded
  <2>3. ret'.op # "load" => LoadTellsTheTruth'
    BY DEF LoadTellsTheTruth
  <2>4. ASSUME NEW o \in Objs,
               Unload(o) \/ \E p \in Paths : Adopt(o, p)
        PROVE  ret'.op # "load"
    BY <2>4 DEF Unload, Adopt, Returned
  <2>5. ASSUME NEW o \in Objs, NEW y \in Symbols, Has(o, y) \/ Get(o, y)
        PROVE  ret'.op # "load"
    BY <2>5 DEF Has, Get, Reported, Returned, Threw
  <2>6. ASSUME NEW o \in Objs, NEW s \in Objs, NEW throws \in BOOLEAN
        PROVE  /\ AssignSame(o, s) => ret'.op # "load"
               /\ AssignNothing(o, s) => ret'.op # "load"
               /\ AssignLoaded(o, s, throws) => ret'.op # "load"
               /\ AssignUnlocated(o, s, throws) => ret'.op # "load"
    <3>1. AssignLoaded(o, s, throws) => ret'.op = "assign"
      BY ReportedSays DEF AssignLoaded
    <3>2. AssignUnlocated(o, s, throws) => ret'.op = "assign"
      BY UnlocatedSays
    <3> QED
      BY <3>1, <3>2 DEF AssignSame, AssignNothing, Returned
  <2>7. ASSUME NEW o \in Objs, NEW s \in Objs
        PROVE  /\ MoveConstruct(o, s) => ret'.op # "load"
               /\ MoveAssign(o, s) => ret'.op # "load"
               /\ Swap(o, s) => ret'.op # "load"
    BY DEF MoveConstruct, MoveAssign, Swap, Returned
  <2>8. Environment => ret'.op # "load"
    BY IInvTypes DEF Environment, RetType
  <2> QED
    BY <2>1, <2>2, <2>3, <2>4, <2>5, <2>6, <2>7, <2>8 DEF Next
<1> QED
  BY <1>1, <1>2, InitIInv, NextIInv, PTL DEF Spec
-----------------------------------------------------------------------------
(* The images in memory are the executable and what some object owns.      *)
LEMMA MappedIsResident ==
    ASSUME NEW l \in LoaderState, NEW hd \in [Objs -> Handle], Counted(l, hd)
    PROVE  Mapped(l) = {f \in Files : \E o \in Objs : hd[o] = f} \cup {Program}
<1>1. ASSUME NEW f \in Files
      PROVE  l.refs[f] > 0 <=> f = Program \/ \E o \in Objs : hd[o] = f
  <2> DEFINE own == {o \in Objs : hd[o] = f}
  <2>1. IsFiniteSet(own)
    BY LibraryAssumption, FS_Subset
  <2>2. /\ Cardinality(own) \in Nat
        /\ Cardinality(own) = 0 <=> own = {}
    BY <2>1, FS_CardinalityType, FS_EmptySet
  <2>3. l.refs[f] = Cardinality(own) + Is(Program, f)
    BY DEF Counted, Count
  <2>4. own = {} <=> ~\E o \in Objs : hd[o] = f
    OBVIOUS
  <2> HIDE DEF own
  <2> QED
    BY <2>2, <2>3, <2>4 DEF Is
<1> QED
  BY <1>1, LoaderAssumption DEF Mapped

LEMMA PrimedTypes ==
    ASSUME IInv'
    PROVE  /\ handle' \in [Objs -> Handle] /\ ld' \in LoaderState
           /\ Counted(ld', handle')
BY DEF IInv, TypeOK, LoaderTypeOK, LoaderState, Counted, Count

(* What one call does to the handles. *)
LEMMA StepHandles ==
    ASSUME IInv, Next
    PROVE  \/ \E o \in Objs, x \in Handle : handle' = [handle EXCEPT ![o] = x]
           \/ \E o, s \in Objs :
                handle' = [handle EXCEPT ![o] = handle[s], ![s] = handle[o]]
           \/ UNCHANGED <<handle, ld>>
<1>1. ASSUME NEW o \in Objs, NEW p \in Paths \cup {NoPath}, NEW search \in Searches,
             NEW decorations \in BOOLEAN, NEW throws \in BOOLEAN,
             Load(o, p, decorations, search, throws)
      PROVE  \E x \in Handle : handle' = [handle EXCEPT ![o] = x]
  BY <1>1, LibraryAssumption, LoadOutcomeType DEF Load, IInv
<1>2. ASSUME NEW o \in Objs, NEW s \in Objs, Unload(o) \/ AssignNothing(o, s)
      PROVE  \E x \in Handle : handle' = [handle EXCEPT ![o] = x]
  BY <1>2 DEF Unload, AssignNothing, Handle
<1>3. ASSUME NEW o \in Objs, NEW p \in Paths, Adopt(o, p)
      PROVE  \E x \in Handle : handle' = [handle EXCEPT ![o] = x]
  BY <1>3, DlopenType DEF Adopt
<1>4. ASSUME NEW o \in Objs, NEW s \in Objs, NEW throws \in BOOLEAN,
             AssignLoaded(o, s, throws)
      PROVE  \/ \E x \in Handle : handle' = [handle EXCEPT ![o] = x]
             \/ UNCHANGED <<handle, ld>>
  <2> DEFINE copy == LoadOutcome(ld, Location(handle[s]), FALSE, FALSE)
  <2>1. Location(handle[s]) \in Path \cup {NoPath}
    BY <1>4, LocationType DEF AssignLoaded
  <2>2. copy.handle \in Handle
    BY <2>1, LoadOutcomeType DEF IInv
  <2>3. \/ handle' = [handle EXCEPT ![o] = copy.handle]
        \/ UNCHANGED <<handle, ld>>
    BY <1>4 DEF AssignLoaded
  <2> QED
    BY <2>2, <2>3
<1>5. ASSUME NEW o \in Objs, NEW s \in Objs, MoveConstruct(o, s)
      PROVE  handle' = [handle EXCEPT ![o] = handle[s], ![s] = handle[o]]
  BY <1>5, IInvTypes DEF MoveConstruct, IsLoaded
<1>6. ASSUME NEW o \in Objs, NEW s \in Objs, MoveAssign(o, s) \/ Swap(o, s)
      PROVE  \/ handle' = [handle EXCEPT ![o] = handle[s], ![s] = handle[o]]
             \/ UNCHANGED <<handle, ld>>
  BY <1>6 DEF MoveAssign, Swap, Trade, loaderVars
<1>7. ASSUME NEW o \in Objs, NEW s \in Objs, NEW y, NEW throws,
             \/ AssignSame(o, s) \/ AssignUnlocated(o, s, throws)
             \/ Has(o, y) \/ Get(o, y)
      PROVE  UNCHANGED <<handle, ld>>
  BY <1>7 DEF AssignSame, AssignUnlocated, Has, Get, loaderVars
<1>8. Environment => UNCHANGED <<handle, ld>>
  BY DEF Environment
<1> QED
  BY <1>1, <1>2, <1>3, <1>4, <1>5, <1>6, <1>7, <1>8 DEF Next

(* Reference counts, names and paths implement the documented contract:    *)
(* each call changes what one object owns, or trades what two of them own, *)
(* and exactly the owned libraries are in memory.                          *)
THEOREM ImplementsOwnersCorrect == Spec => ImplementsOwners
<1>1. Init => Abstract!Init
  <2> SUFFICES ASSUME Init PROVE Abstract!Init
    OBVIOUS
  <2>1. Mapped(ld) = {Program}
    BY LoaderAssumption DEF Init, LoaderInit, Mapped
  <2> QED
    BY <2>1 DEF Init, Abstract!Init
<1>2. IInv /\ IInv' /\ [Next]_vars => [Abstract!Next]_(Abstract!ownerVars)
  <2> SUFFICES ASSUME IInv, IInv', [Next]_vars
               PROVE  Abstract!Next \/ UNCHANGED <<handle, Mapped(ld)>>
    BY DEF Abstract!ownerVars
  <2>1. Mapped(ld)' = Abstract!Resident(handle)'
    <3>1. /\ handle' \in [Objs -> Handle] /\ ld' \in LoaderState
          /\ Counted(ld', handle')
      BY PrimedTypes
    <3> QED
      BY <3>1, MappedIsResident DEF Abstract!Resident
  <2>2. CASE UNCHANGED <<handle, ld>> \/ UNCHANGED vars
    BY <2>2 DEF vars, loaderVars, Mapped
  <2>3. ASSUME NEW o \in Objs, NEW x \in Handle, handle' = [handle EXCEPT ![o] = x]
        PROVE  Abstract!Next
    BY <2>1, <2>3 DEF Abstract!Next, Abstract!Acquire, Abstract!Become, Handle
  <2>4. ASSUME NEW o \in Objs, NEW s \in Objs,
               handle' = [handle EXCEPT ![o] = handle[s], ![s] = handle[o]]
        PROVE  Abstract!Next
    BY <2>1, <2>4 DEF Abstract!Next, Abstract!Exchange, Abstract!Become
  <2> QED
    BY <2>2, <2>3, <2>4, StepHandles
<1> QED
  BY <1>1, <1>2, InitIInv, NextIInv, PTL DEF Spec, ImplementsOwners, Abstract!Spec
-----------------------------------------------------------------------------
(* The calls of the properties below are told apart by what they return.   *)
LEMMA OtherCalls ==
    ASSUME NEW o \in Objs, NEW p, NEW y, Unload(o) \/ Adopt(o, p) \/ Has(o, y) \/ Get(o, y)
    PROVE  ret'.op \in {"unload", "adopt", "has", "get"}
<1>1. \E op \in {"unload", "adopt", "has", "get"}, ec \in Errors \cup {Ok} :
         Returned(op, o, o, ec) \/ Threw(op, o, o, ec)
  BY DEF Unload, Adopt, Has, Get, Reported, Errors
<1> QED
  BY <1>1 DEF Returned, Threw

LEMMA EnvironmentCall ==
    ASSUME IInv, Environment PROVE ret'.op = "none"
BY IInvTypes DEF Environment, RetType

(* A copy that fails leaves its target and the loader as they were,        *)
(* whichever of the loads inside it failed.                                *)
THEOREM FailedAssignChangesNothingCorrect == Spec => FailedAssignChangesNothing
<1> DEFINE Failed == ret'.op = "assign" /\ ret'.ec # Ok
           Keeps == Failed => UNCHANGED <<handle, ld>>
<1>1. ASSUME IInv, Next PROVE Keeps
  <2>1. ASSUME NEW o \in Objs, NEW p, NEW search, NEW decorations, NEW throws,
               Load(o, p, decorations, search, throws)
        PROVE  Keeps
    <3>1. ret'.op = "load"
      BY <2>1, ReportedSays DEF Load
    <3> QED
      BY <3>1
  <2>2. ASSUME NEW o \in Objs, NEW s \in Objs, NEW throws, AssignLoaded(o, s, throws)
        PROVE  Keeps
    <3>1. ret'.ec = LoadOutcome(ld, Location(handle[s]), FALSE, FALSE).ec
      BY <2>2, ReportedSays DEF AssignLoaded
    <3> QED
      BY <2>2, <3>1 DEF AssignLoaded
  <2>3. ASSUME NEW o \in Objs, NEW s \in Objs,
               \/ AssignSame(o, s) \/ AssignNothing(o, s)
               \/ MoveConstruct(o, s) \/ MoveAssign(o, s) \/ Swap(o, s)
        PROVE  Keeps
    <3>1. ret'.ec = Ok
      BY <2>3 DEF AssignSame, AssignNothing, MoveConstruct, MoveAssign, Swap, Returned
    <3> QED
      BY <3>1
  <2>4. ASSUME NEW o \in Objs, NEW p, NEW y,
               Unload(o) \/ Adopt(o, p) \/ Has(o, y) \/ Get(o, y)
        PROVE  Keeps
    BY <2>4, OtherCalls
  <2>5. CASE Environment
    BY <1>1, <2>5, EnvironmentCall
  <2>6. ASSUME NEW o \in Objs, NEW s \in Objs, NEW throws, AssignUnlocated(o, s, throws)
        PROVE  Keeps
    BY <2>6, UnlocatedSays
  <2> HIDE DEF Keeps
  <2> QED
    BY <1>1, <2>1, <2>2, <2>3, <2>4, <2>5, <2>6 DEF Next
<1>2. IInv /\ [Next]_vars => [Keeps]_vars
  BY <1>1
<1> QED
  BY <1>2, InitIInv, NextIInv, PTL DEF Spec, FailedAssignChangesNothing

(* The library of the argument of a copy, move or swap stays in memory:    *)
(* after the call, some object owns it.                                    *)
THEOREM SourceStaysMappedCorrect == Spec => SourceStaysMapped
<1> DEFINE Gave == ret'.op \in {"assign", "move", "moveassign", "swap"}
           Stays == Gave => handle[ret'.from] \in Mapped(ld') \cup {NoHandle}
<1>1. ASSUME IInv, IInv', Next PROVE Stays
  <2>1. ASSUME NEW o \in Objs, NEW p, NEW search, NEW decorations, NEW throws,
               Load(o, p, decorations, search, throws)
        PROVE  Stays
    <3>1. ret'.op = "load"
      BY <2>1, ReportedSays DEF Load
    <3> QED
      BY <3>1
  <2>2. ASSUME NEW s \in Objs, NEW q \in Objs, ret'.from = s, handle'[q] = handle[s]
        PROVE  Stays
    <3>1. /\ handle' \in [Objs -> Handle] /\ ld' \in LoaderState
          /\ Counted(ld', handle')
      BY <1>1, PrimedTypes
    <3>2. Mapped(ld') = {f \in Files : \E w \in Objs : handle'[w] = f} \cup {Program}
      BY <3>1, MappedIsResident
    <3>3. handle[s] \in Handle
      BY <1>1, IInvTypes
    <3> QED
      BY <2>2, <3>2, <3>3 DEF Handle
  <2>3. ASSUME NEW o \in Objs, NEW s \in Objs, NEW throws, AssignLoaded(o, s, throws)
        PROVE  Stays
    <3>1. ret'.from = s /\ handle[o] # handle[s]
      BY <2>3, ReportedSays DEF AssignLoaded
    <3>2. \/ UNCHANGED handle
          \/ \E h : handle' = [handle EXCEPT ![o] = h]
      BY <2>3 DEF AssignLoaded
    <3>3. handle'[s] = handle[s]
      BY <1>1, <3>1, <3>2, IInvTypes
    <3> QED
      BY <2>2, <3>1, <3>3
  <2>4. ASSUME NEW o \in Objs, NEW s \in Objs, AssignSame(o, s) \/ AssignNothing(o, s)
        PROVE  Stays
    <3>1. /\ ret'.from = s
          /\ UNCHANGED handle \/ handle' = [handle EXCEPT ![o] = NoHandle]
          /\ handle[s] = NoHandle \/ UNCHANGED handle
      BY <2>4 DEF AssignSame, AssignNothing, IsLoaded, Returned
    <3>2. handle'[s] = handle[s]
      BY <1>1, <3>1, IInvTypes
    <3> QED
      BY <2>2, <3>1, <3>2
  <2>5. ASSUME NEW o \in Objs, NEW s \in Objs,
               MoveConstruct(o, s) \/ MoveAssign(o, s) \/ Swap(o, s)
        PROVE  Stays
    <3>1. /\ ret'.from = s
          /\ handle'[o] = handle[s]
      BY <1>1, <2>5, IInvTypes
         DEF MoveConstruct, MoveAssign, Swap, Trade, IsLoaded, Returned
    <3> QED
      BY <2>2, <3>1
  <2>6. ASSUME NEW o \in Objs, NEW p, NEW y,
               Unload(o) \/ Adopt(o, p) \/ Has(o, y) \/ Get(o, y)
        PROVE  Stays
    BY <2>6, OtherCalls
  <2>7. CASE Environment
    BY <1>1, <2>7, EnvironmentCall
  <2>8. ASSUME NEW o \in Objs, NEW s \in Objs, NEW throws, AssignUnlocated(o, s, throws)
        PROVE  Stays
    <3>1. ret'.from = s /\ handle'[s] = handle[s]
      BY <2>8, UnlocatedSays
    <3> QED
      BY <2>2, <3>1
  <2> HIDE DEF Stays
  <2> QED
    BY <1>1, <2>1, <2>3, <2>4, <2>5, <2>6, <2>7, <2>8 DEF Next
<1>2. IInv /\ IInv' /\ [Next]_vars => [Stays]_vars
  BY <1>1
<1> QED
  BY <1>2, InitIInv, NextIInv, PTL DEF Spec, SourceStaysMapped

(* An attempt that a later one recovered from has taken its text along.    *)
LEMMA OkLeavesNoText ==
    ASSUME NEW l, NEW p, NEW decorations \in BOOLEAN, NEW search \in BOOLEAN,
           LoadOutcome(l, p, decorations, search).ec = Ok
    PROVE  LoadOutcome(l, p, decorations, search).text = FALSE
BY DEF LoadOutcome, LoadExact, Attempt, Ok

(* What report_error() throws, it has taken from dlerror().                *)
LEMMA ReportedText ==
    ASSUME NEW op, NEW o, NEW s, NEW ec, NEW text \in BOOLEAN, NEW throws,
           Reported(op, o, s, ec, text, throws)
    PROVE  /\ ret'.thrown => ~dlerr'
           /\ dlerr' => text /\ ~ret'.thrown
BY DEF Reported, Returned, Threw

(* The text that a call leaves is that of an error it reports without      *)
(* throwing, and one that throws leaves none: for every sequence of        *)
(* loads, copies, look-ups and changes of the files.                       *)
THEOREM NoStaleTextCorrect == Spec => NoStaleText
<1> DEFINE Leaves == /\ dlerr' /\ ~dlerr =>
                          \/ ret'.op \in {"has", "adopt"}
                          \/ ret'.op \in {"load", "assign"} /\ ret'.ec # Ok /\ ~ret'.thrown
                     /\ ret'.thrown /\ (ret'.op = "get" => IsLoaded(ret'.obj)) => ~dlerr'
<1>1. ASSUME IInv, Next PROVE Leaves
  <2>1. ASSUME NEW op \in {"load", "assign"}, NEW o \in Objs, NEW s \in Objs,
               NEW ec, NEW text \in BOOLEAN, NEW throws,
               ec = Ok => text = FALSE,
               Reported(op, o, s, ec, text, throws)
        PROVE  Leaves
    <3>1. ret'.op = op /\ ret'.ec = ec
      BY <2>1, ReportedSays
    <3>2. /\ ret'.thrown => ~dlerr'
          /\ dlerr' => text /\ ~ret'.thrown
      BY <2>1, ReportedText
    <3> QED
      BY <2>1, <3>1, <3>2
  <2>2. ASSUME NEW o \in Objs, NEW p \in Path \cup {NoPath}, NEW search \in BOOLEAN,
               NEW decorations \in BOOLEAN, NEW throws,
               Load(o, p, decorations, search, throws)
        PROVE  Leaves
    <3> DEFINE r == LoadOutcome(Closed(ld, handle[o]), p, decorations, search)
    <3>1. r.ec = Ok => r.text = FALSE
      BY OkLeavesNoText
    <3>2. r.text \in BOOLEAN
      BY <1>1, LoadOutcomeType DEF IInv
    <3>3. Reported("load", o, o, r.ec, r.text, throws)
      BY <2>2 DEF Load
    <3> HIDE DEF r, Leaves
    <3> QED
      BY <2>1, <3>1, <3>2, <3>3
  <2>3. ASSUME NEW o \in Objs, NEW s \in Objs, NEW throws, AssignLoaded(o, s, throws)
        PROVE  Leaves
    <3> DEFINE r == LoadOutcome(ld, Location(handle[s]), FALSE, FALSE)
    <3>1. r.ec = Ok => r.text = FALSE
      BY OkLeavesNoText
    <3>2. Location(handle[s]) \in Path \cup {NoPath}
      BY <1>1, <2>3, LocationType DEF AssignLoaded
    <3>3. r.text \in BOOLEAN
      BY <1>1, <3>2, LoadOutcomeType DEF IInv
    <3>4. Reported("assign", o, s, r.ec, r.text, throws)
      BY <2>3 DEF AssignLoaded
    <3> HIDE DEF r, Leaves
    <3> QED
      BY <2>1, <3>1, <3>3, <3>4
  <2>4. ASSUME NEW o \in Objs, NEW s \in Objs, NEW throws, AssignUnlocated(o, s, throws)
        PROVE  Leaves
    <3>1. dlerr \in BOOLEAN
      BY <1>1, IInvTypes
    <3>2. \/ Reported("assign", o, s, "no_such_file_or_directory", dlerr, throws)
          \/ Reported("assign", o, s, "bad_file_descriptor", FALSE, throws)
      BY <2>4 DEF AssignUnlocated
    <3>3. Ok # "no_such_file_or_directory" /\ Ok # "bad_file_descriptor"
      BY DEF Ok
    <3> HIDE DEF Leaves
    <3> QED
      BY <2>1, <3>1, <3>2, <3>3
  <2>5. ASSUME NEW o \in Objs, NEW s \in Objs, NEW p,
               \/ AssignSame(o, s) \/ AssignNothing(o, s) \/ Unload(o)
               \/ MoveConstruct(o, s) \/ MoveAssign(o, s) \/ Swap(o, s)
        PROVE  Leaves
    <3>1. UNCHANGED dlerr /\ ret'.thrown = FALSE
      BY <2>5 DEF AssignSame, AssignNothing, Unload, MoveConstruct, MoveAssign, Swap,
                  loaderVars, Returned
    <3> QED
      BY <3>1
  <2>6. ASSUME NEW o \in Objs, NEW p, NEW y, Adopt(o, p) \/ Has(o, y)
        PROVE  Leaves
    <3>1. ret'.op \in {"has", "adopt"} /\ ret'.thrown = FALSE
      BY <2>6 DEF Adopt, Has, Returned
    <3> QED
      BY <3>1
  <2>7. ASSUME NEW o \in Objs, NEW y, Get(o, y)
        PROVE  Leaves
    <3>1. CASE ~IsLoaded(o)
      BY <2>7, <3>1 DEF Get, Threw
    <3>2. CASE IsLoaded(o) /\ Finds(o, y)
      BY <2>7, <3>2 DEF Get, Returned
    <3>3. CASE IsLoaded(o) /\ ~Finds(o, y)
      <4>1. dlerr' = FALSE
        BY <2>7, <3>3 DEF Get, Reported, Ok
      <4> QED
        BY <4>1
    <3> QED
      BY <3>1, <3>2, <3>3
  <2>8. CASE Environment
    <3>1. UNCHANGED dlerr /\ ret'.thrown = FALSE
      BY <1>1, <2>8, IInvTypes DEF Environment, RetType
    <3> QED
      BY <3>1
  <2>9. Searches \subseteq BOOLEAN /\ Paths \subseteq Path
    BY LibraryAssumption
  <2> HIDE DEF Leaves
  <2> QED
    BY <1>1, <2>2, <2>3, <2>4, <2>5, <2>6, <2>7, <2>8, <2>9 DEF Next
<1>2. IInv /\ [Next]_vars => [Leaves]_vars
  BY <1>1
<1> QED
  BY <1>2, InitIInv, NextIInv, PTL DEF Spec, NoStaleText

-----------------------------------------------------------------------------
(* A copy that reports no error shares its source's library, on Linux with *)
(* a loader that matches the names of the images it has mapped.  Without   *)
(* ByName it does not: SharedLibrary_copy.cfg is the counterexample.       *)

(* dlopen returns a mapped image by its name, or maps a loadable file that *)
(* has no namesake.                                                        *)
LEMMA DlopenCases ==
    ASSUME NEW l, NEW p, Dlopen(l, p) # NoHandle
    PROVE  \/ Dlopen(l, p) \in Namesakes(l, p)
           \/ /\ Namesakes(l, p) = {}
              /\ Dlopen(l, p) = Searched(p)
              /\ Searched(p) \in Loadable
BY DEF Dlopen

LEMMA RealNameDir ==
    ASSUME NEW p \in Path
    PROVE  /\ RealName(p) \in Path
           /\ RealName(p).dir \in Dirs \cup {Dot, Nowhere}
           /\ p.dir # Bare => RealName(p) = p
BY LoaderAssumption DEF RealName, Path

(* Releasing an image keeps the names of the others apart. *)
LEMMA ClosedNames ==
    ASSUME NEW l \in LoaderState, NEW h \in Handle, NamesTellApart(l)
    PROVE  NamesTellApart(Closed(l, h))
<1>1. CASE h = NoHandle
  BY <1>1 DEF Closed
<1>2. CASE h # NoHandle
  <2>1. h \in Files
    BY <1>2 DEF Handle
  <2> DEFINE k == Closed(l, h)
  <2>2. ASSUME NEW f \in Mapped(k)
        PROVE  f \in Mapped(l) /\ k.lname[f] = l.lname[f]
    BY <1>2, <2>1, <2>2 DEF Closed, Mapped, LoaderState
  <2> HIDE DEF k
  <2>3. NamesTellApart(k)
    BY <2>2 DEF NamesTellApart
  <2> QED
    BY <2>3 DEF k
<1> QED
  BY <1>1, <1>2

(* So does opening one, by path or, for the executable, by dlopen(NULL).   *)
LEMMA OpenedNames ==
    ASSUME NEW l \in LoaderState, NEW h \in Handle, NEW p \in Path, ByName,
           NamesTellApart(l), Program \in Mapped(l),
           h # NoHandle => h = Program \/ h = Dlopen(l, p)
    PROVE  NamesTellApart(Opened(l, h, p))
<1> DEFINE k == Opened(l, h, p)
<1>1. CASE h = NoHandle
  BY <1>1 DEF Opened
<1>2. CASE h # NoHandle /\ h \in Mapped(l)
  <2>1. h \in Files /\ l.refs[h] > 0
    BY <1>2 DEF Mapped
  <2>2. Mapped(k) = Mapped(l) /\ k.lname = l.lname
    BY <1>2, <2>1 DEF Opened, Mapped, LoaderState
  <2> HIDE DEF k
  <2>3. NamesTellApart(k)
    BY <2>2 DEF NamesTellApart
  <2> QED
    BY <2>3 DEF k
<1>3. CASE h # NoHandle /\ h \notin Mapped(l)
  <2>1. /\ Namesakes(l, p) = {}
        /\ h = Searched(p) /\ h \in Loadable /\ h \in Files /\ h # Program
    BY <1>3, DlopenCases, LoaderAssumption DEF Namesakes, Handle
  <2> DEFINE n == RealName(p)
  <2>2. /\ n \in Path /\ n.dir \in Dirs \cup {Dot}
        /\ n.dir \in Dirs => FileAt(n) # Program
        /\ n # NoPath
    BY <2>1, RealNameDir, LoaderAssumption DEF Searched, FileAt, Path
  <2>3. \A f \in Mapped(l) : l.lname[f] # n
    BY <2>1 DEF Namesakes
  <2>4. ASSUME NEW f \in Mapped(k)
        PROVE  \/ f = h /\ k.lname[f] = n
               \/ f # h /\ f \in Mapped(l) /\ k.lname[f] = l.lname[f]
    <3>1. f \in Files /\ k.refs[f] > 0
      BY <2>4 DEF Mapped
    <3>2. l.refs[h] \in Int /\ ~(l.refs[h] > 0)
      BY <1>3, <2>1 DEF Mapped, LoaderState
    <3>3. CASE f = h
      <4>1. k.refs[h] = l.refs[h] + 1
        BY <1>3, <2>1 DEF Opened, LoaderState
      <4>2. l.refs[h] = 0
        BY <3>1, <3>2, <3>3, <4>1
      <4> QED
        BY <1>3, <2>1, <3>3, <4>2 DEF Opened, LoaderState
    <3>4. CASE f # h
      BY <1>3, <2>1, <3>1, <3>4 DEF Opened, LoaderState, Mapped
    <3> QED
      BY <3>3, <3>4
  <2> HIDE DEF k, n
  <2>5. NamesTellApart(k)
    BY <2>1, <2>2, <2>3, <2>4 DEF NamesTellApart
  <2> QED
    BY <2>5 DEF k
<1> QED
  BY <1>1, <1>2, <1>3

(* Where load() got its handle from. *)
LEMMA LoadOutcomeSource ==
    ASSUME NEW l, NEW p, NEW decorations \in BOOLEAN, NEW search \in BOOLEAN
    PROVE  LET r == LoadOutcome(l, p, decorations, search)
           IN  r.handle # NoHandle
                 => r.handle = Program \/ r.handle = Dlopen(l, r.path)
BY DEF LoadOutcome, LoadExact, Attempt

(* The copy of a mapped image by path is that image. *)
LEMMA CopyFindsSource ==
    ASSUME TypeOK, Linux, ByName, NamesInv, NEW f \in Mapped(ld),
           LoadOutcome(ld, Location(f), FALSE, FALSE).ec = Ok
    PROVE  LoadOutcome(ld, Location(f), FALSE, FALSE).handle = f
<1> DEFINE p == Location(f)
           r == LoadOutcome(ld, p, FALSE, FALSE)
<1>1. f \in Files /\ ld.lname[f] \in Path \cup {NoPath}
  BY DEF Mapped, TypeOK, LoaderTypeOK
<1>2. ASSUME p \in Path, p.dir # Bare
      PROVE  r = LoadExact(ld, p) /\ RealName(p) = p /\ p # NoPath
  <2>1. RealName(p) = p /\ p # NoPath
    BY <1>2, RealNameDir, LoaderAssumption DEF Path
  <2>2. Anchored(p, FALSE) = p
    BY <1>2 DEF Anchored
  <2> HIDE DEF p
  <2> QED
    BY <2>1, <2>2 DEF LoadOutcome
<1>3. CASE f # Program
  <2>1. /\ p = ld.lname[f] /\ p \in Path
        /\ p.dir \in Dirs \cup {Dot}
    BY <1>1, <1>3 DEF Location, NamesInv, NamesTellApart
  <2>2. p.dir # Bare
    BY <2>1, LoaderAssumption
  <2>3. Namesakes(ld, p) = {f}
    BY <1>2, <2>1, <2>2 DEF Namesakes, NamesInv, NamesTellApart
  <2>4. Dlopen(ld, p) = f /\ f # NoHandle
    BY <1>1, <2>3, LoaderAssumption DEF Dlopen
  <2> HIDE DEF p, r
  <2>5. r = LoadExact(ld, p)
    BY <1>2, <2>1, <2>2
  <2>6. r.handle = f
    BY <2>4, <2>5 DEF LoadExact, Attempt
  <2> QED
    BY <2>6 DEF p, r
<1>4. CASE f = Program
  <2>1. p = ProgramLocation
    BY <1>4 DEF Location, NamesInv, NamesTellApart
  <2>2. /\ p \in Path
        /\ \/ p.dir \in Dirs /\ FileAt(p) = Program
           \/ p.dir = Nowhere /\ FileAt(p) = NoFile
    <3> DEFINE here == {q \in [dir : Dirs, name : Names] : FileAt(q) = Program}
    <3>1. CASE here # {}
      <4>1. p \in here
        BY <2>1, <3>1 DEF ProgramLocation
      <4> QED
        BY <4>1 DEF Path
    <3>2. CASE here = {}
      <4>1. ProgramLocation.dir = Nowhere
        BY <3>2 DEF ProgramLocation
      <4>2. p \in Path /\ p.dir = Nowhere
        BY <2>1, <4>1, ProgramLocationType
      <4> HIDE DEF p
      <4> QED
        BY <4>2 DEF FileAt
    <3> QED
      BY <3>1, <3>2
  <2> HIDE DEF p
  <2>3. p.dir # Bare
    BY <2>2, LoaderAssumption
  <2>4. /\ RealName(p) = p /\ p # NoPath
        /\ r = LoadExact(ld, p)
    BY <1>2, <2>2, <2>3
  <2>5. Namesakes(ld, p) = {}
    <3> SUFFICES ASSUME NEW g \in Mapped(ld), ld.lname[g] = p PROVE FALSE
      BY <2>4 DEF Namesakes
    <3>1. g # Program
      BY <2>4, <1>4 DEF NamesInv, NamesTellApart
    <3>2. p.dir \in Dirs \cup {Dot} /\ (p.dir \in Dirs => FileAt(p) # Program)
      BY <3>1 DEF NamesInv, NamesTellApart
    <3> QED
      BY <2>2, <3>2, LoaderAssumption
  <2>6. Searched(p) \notin Loadable
    BY <2>2, <2>4, LoaderAssumption DEF Searched
  <2>7. Dlopen(ld, p) = NoHandle
    BY <2>5, <2>6 DEF Dlopen
  <2>8. r.ec = Ok
    BY DEF p
  <2> HIDE DEF r
  <2>9. r.handle = Program
    BY <2>4, <2>7, <2>8 DEF LoadExact, Attempt, Ok
  <2> QED
    BY <1>4, <2>9 DEF p, r
<1> QED
  BY <1>3, <1>4
-----------------------------------------------------------------------------
(* The names stay apart through every action of every history.             *)
LEMMA NamesKept ==
    ASSUME UNCHANGED <<fs, cwd>>, NamesTellApart(ld')
    PROVE  NamesInv'
BY DEF NamesInv, NamesTellApart, FileAt, Mapped

LEMMA ProgramStays ==
    ASSUME IInv, NEW o \in Objs
    PROVE  /\ Closed(ld, handle[o]) \in LoaderState
           /\ Program \in Mapped(Closed(ld, handle[o]))
           /\ Program \in Mapped(ld)
<1> DEFINE hd == [handle EXCEPT ![o] = NoHandle]
           l == Closed(ld, handle[o])
<1>1. l = Opened(Closed(ld, handle[o]), NoHandle, NoPath)
  BY DEF Opened
<1>2. /\ hd \in [Objs -> Handle]
      /\ \A q \in Objs : hd[q] = IF q = o THEN NoHandle ELSE handle[q]
  BY IInvTypes DEF Handle
<1>3. NoHandle \in Handle
  BY DEF Handle
<1> HIDE DEF hd, l
<1>4. l \in LoaderState /\ Counted(l, hd)
  BY <1>1, <1>2, <1>3, IInvTypes, Replace
<1>5. Program \in Mapped(l)
  BY <1>2, <1>4, MappedIsResident
<1>6. Program \in Mapped(ld)
  BY IInvTypes, MappedIsResident
<1> QED
  BY <1>4, <1>5, <1>6 DEF l

LEMMA LoadKeepsNames ==
    ASSUME ByName, IInv, NamesInv, NEW o \in Objs, NEW p \in Path \cup {NoPath},
           NEW decorations \in BOOLEAN, NEW search \in BOOLEAN,
           NEW throws \in BOOLEAN, Load(o, p, decorations, search, throws)
    PROVE  NamesInv'
<1> DEFINE l == Closed(ld, handle[o])
           r == LoadOutcome(l, p, decorations, search)
<1>1. /\ r.handle \in Handle
      /\ r.handle # NoHandle => r.path \in Path
  BY LoadOutcomeType DEF IInv
<1>2. r.handle # NoHandle => r.handle = Program \/ r.handle = Dlopen(l, r.path)
  BY LoadOutcomeSource
<1>3. /\ ld' = Opened(l, r.handle, r.path)
      /\ UNCHANGED <<fs, cwd>>
  BY DEF Load
<1>4. l \in LoaderState /\ Program \in Mapped(l)
  BY ProgramStays
<1>5. NamesTellApart(l)
  BY IInvTypes, ClosedNames DEF NamesInv
<1> HIDE DEF l, r
<1>6. NamesTellApart(ld')
  <2>1. CASE r.handle = NoHandle
    BY <1>3, <1>5, <2>1 DEF Opened
  <2>2. CASE r.handle # NoHandle
    BY <1>1, <1>2, <1>3, <1>4, <1>5, <2>2, OpenedNames
  <2> QED
    BY <2>1, <2>2
<1> QED
  BY <1>3, <1>6, NamesKept

LEMMA AdoptKeepsNames ==
    ASSUME ByName, IInv, NamesInv, NEW o \in Objs, NEW p \in Path, Adopt(o, p)
    PROVE  NamesInv'
<1> DEFINE h == Dlopen(ld, p)
<1>1. h \in Handle
  BY DlopenType
<1>2. ld' = Opened(ld, h, p) /\ UNCHANGED <<fs, cwd>>
  BY DEF Adopt
<1>3. ld \in LoaderState /\ Program \in Mapped(ld) /\ NamesTellApart(ld)
  BY IInvTypes, ProgramStays DEF NamesInv
<1>4. NamesTellApart(Opened(ld, h, p))
  BY <1>1, <1>3, OpenedNames
<1> QED
  BY <1>2, <1>4, NamesKept

LEMMA AssignKeepsNames ==
    ASSUME ByName, IInv, NamesInv, NEW o \in Objs, NEW s \in Objs,
           NEW throws \in BOOLEAN, AssignLoaded(o, s, throws)
    PROVE  NamesInv'
<1> DEFINE p == Location(handle[s])
           r == LoadOutcome(ld, p, FALSE, FALSE)
<1>1. p \in Path \cup {NoPath}
  BY LocationType DEF AssignLoaded
<1>2. /\ r.handle \in Handle
      /\ r.handle # NoHandle => r.path \in Path
  BY <1>1, LoadOutcomeType DEF IInv
<1>3. r.handle # NoHandle => r.handle = Program \/ r.handle = Dlopen(ld, r.path)
  BY LoadOutcomeSource
<1>4. /\ \/ ld' = Closed(Opened(ld, r.handle, r.path), handle[o])
         \/ ld' = ld
      /\ UNCHANGED <<fs, cwd>>
  BY DEF AssignLoaded
<1>5. ld \in LoaderState /\ Program \in Mapped(ld) /\ NamesTellApart(ld)
  BY IInvTypes, ProgramStays DEF NamesInv
<1> HIDE DEF p, r
<1> DEFINE k == Opened(ld, r.handle, r.path)
<1>6. k \in LoaderState /\ NamesTellApart(k)
  <2>1. CASE r.handle = NoHandle
    BY <1>5, <2>1 DEF Opened
  <2>2. CASE r.handle # NoHandle
    BY <1>2, <1>3, <1>5, <2>2, OpenedNames, OpenedRefs
  <2> QED
    BY <2>1, <2>2
<1> HIDE DEF k
<1>7. handle[o] \in Handle
  BY IInvTypes
<1>8. NamesTellApart(Closed(k, handle[o]))
  BY <1>6, <1>7, ClosedNames
<1>9. NamesTellApart(ld')
  BY <1>4, <1>5, <1>8 DEF k
<1> QED
  BY <1>4, <1>9, NamesKept

LEMMA ReleaseKeepsNames ==
    ASSUME IInv, NamesInv, NEW o \in Objs, NEW s \in Objs,
           Unload(o) \/ AssignNothing(o, s)
    PROVE  NamesInv'
<1>1. ld' = Closed(ld, handle[o]) /\ UNCHANGED <<fs, cwd>>
  BY DEF Unload, AssignNothing
<1>2. NamesTellApart(Closed(ld, handle[o]))
  BY IInvTypes, ClosedNames DEF NamesInv
<1> QED
  BY <1>1, <1>2, NamesKept

(* No file the environment adds is the executable, so a name that was not  *)
(* its name does not become one.                                           *)
LEMMA EnvironmentKeepsNames ==
    ASSUME IInv, NamesInv, Environment PROVE NamesInv'
<1>1. ld' = ld
  BY DEF Environment
<1>2. ASSUME NEW q, q.dir \in Dirs, q.name \in Names, FileAt(q) # Program
      PROVE  fs'[q.dir][q.name] # Program
  <2>1. CASE fs' = fs
    BY <1>2, <2>1, LoaderAssumption DEF FileAt
  <2>2. ASSUME NEW d \in Dirs, NEW n \in Names,
               NEW f \in (Files \ {Program}) \cup {NoFile},
               fs' = [fs EXCEPT ![d][n] = f]
        PROVE  fs'[q.dir][q.name] # Program
    <3>1. /\ fs[q.dir][q.name] # Program
          /\ f # Program
      BY <1>2, LoaderAssumption DEF FileAt
    <3> QED
      BY <1>2, <2>2, <3>1, IInvTypes DEF FsType
  <2> QED
    BY <2>1, <2>2 DEF Environment
<1>3. ASSUME NEW f \in Mapped(ld), f # Program
      PROVE  /\ ld.lname[f].dir \in Dirs \cup {Dot}
             /\ ld.lname[f].dir \in Dirs
                  => fs'[ld.lname[f].dir][ld.lname[f].name] # Program
  <2>1. /\ ld.lname[f].dir \in Dirs \cup {Dot}
        /\ ld.lname[f].dir \in Dirs => FileAt(ld.lname[f]) # Program
        /\ ld.lname[f] # NoPath
    BY <1>3 DEF NamesInv, NamesTellApart
  <2>2. ld.lname[f] \in Path
    BY <2>1, IInvTypes DEF LoaderState, Mapped
  <2> QED
    BY <1>2, <2>1, <2>2 DEF Path
<1> QED
  BY <1>1, <1>3, LoaderAssumption DEF NamesInv, NamesTellApart, Mapped, FileAt

LEMMA InitNames == Init => NamesInv
<1> SUFFICES ASSUME Init PROVE NamesInv
  OBVIOUS
<1>1. Mapped(ld) = {Program} /\ ld.lname[Program] = NoPath
  BY LoaderAssumption DEF Init, LoaderInit, Mapped
<1> QED
  BY <1>1 DEF NamesInv, NamesTellApart

CopyInv == IInv /\ NamesInv /\ CopyIsEqual

LEMMA NextNames ==
    ASSUME ByName, IInv, NamesInv, [Next]_vars PROVE NamesInv'
<1>1. ASSUME UNCHANGED <<fs, cwd, ld>> PROVE NamesInv'
  BY <1>1, NamesKept DEF NamesInv
<1>2. CASE UNCHANGED vars
  BY <1>1, <1>2 DEF vars, loaderVars
<1>3. ASSUME NEW o \in Objs, NEW p \in Paths \cup {NoPath}, NEW search \in Searches,
             NEW decorations \in BOOLEAN, NEW throws \in BOOLEAN,
             Load(o, p, decorations, search, throws)
      PROVE  NamesInv'
  BY <1>3, LibraryAssumption, LoadKeepsNames
<1>4. ASSUME NEW o \in Objs, NEW s \in Objs, Unload(o) \/ AssignNothing(o, s)
      PROVE  NamesInv'
  BY <1>4, ReleaseKeepsNames
<1>5. ASSUME NEW o \in Objs, NEW p \in Paths, Adopt(o, p) PROVE NamesInv'
  BY <1>5, LibraryAssumption, AdoptKeepsNames
<1>6. ASSUME NEW o \in Objs, NEW s \in Objs, NEW throws \in BOOLEAN,
             AssignLoaded(o, s, throws)
      PROVE  NamesInv'
  BY <1>6, AssignKeepsNames
<1>7. ASSUME NEW o \in Objs, NEW s \in Objs, NEW y, NEW throws,
             \/ MoveConstruct(o, s) \/ MoveAssign(o, s) \/ Swap(o, s)
             \/ AssignSame(o, s) \/ AssignUnlocated(o, s, throws)
             \/ Has(o, y) \/ Get(o, y)
      PROVE  NamesInv'
  BY <1>1, <1>7 DEF MoveConstruct, MoveAssign, Swap, AssignSame, AssignUnlocated,
                    Has, Get, loaderVars
<1>8. CASE Environment
  BY <1>8, EnvironmentKeepsNames
<1> QED
  BY <1>2, <1>3, <1>4, <1>5, <1>6, <1>7, <1>8 DEF Next

(* Only the three ways of assign() make a copy, and each makes it equal.   *)
LEMMA NextCopy ==
    ASSUME Linux, ByName, IInv, NamesInv, CopyIsEqual, [Next]_vars
    PROVE  CopyIsEqual'
<1>1. CASE UNCHANGED vars
  BY <1>1 DEF vars, CopyIsEqual
<1>2. ASSUME NEW o \in Objs, NEW s \in Objs, NEW throws \in BOOLEAN,
             AssignLoaded(o, s, throws), ret'.ec = Ok
      PROVE  handle'[o] = handle'[s] /\ ret'.obj = o /\ ret'.from = s
  <2> DEFINE copy == LoadOutcome(ld, Location(handle[s]), FALSE, FALSE)
  <2>1. /\ copy.ec = Ok
        /\ handle' = [handle EXCEPT ![o] = copy.handle]
        /\ ret'.obj = o /\ ret'.from = s
    <3>1. ret'.ec = copy.ec /\ ret'.obj = o /\ ret'.from = s
      BY <1>2, ReportedSays DEF AssignLoaded
    <3> QED
      BY <1>2, <3>1 DEF AssignLoaded
  <2>2. handle[s] \in Mapped(ld)
    BY <1>2, IInvTypes, MappedIsResident DEF AssignLoaded, IsLoaded, Handle
  <2>3. copy.handle = handle[s]
    BY <2>1, <2>2, CopyFindsSource DEF IInv
  <2> HIDE DEF copy
  <2> QED
    BY <1>2, <2>1, <2>3, IInvTypes DEF AssignLoaded
<1>3. ASSUME NEW o \in Objs, NEW s \in Objs, AssignSame(o, s) \/ AssignNothing(o, s)
      PROVE  handle'[o] = handle'[s] /\ ret'.obj = o /\ ret'.from = s
  BY <1>3, IInvTypes DEF AssignSame, AssignNothing, Returned, IsLoaded
<1>4. ASSUME NEW o \in Objs, NEW p, NEW d, NEW search, NEW throws,
             Load(o, p, d, search, throws) \/ Unload(o) \/ Adopt(o, p)
      PROVE  ret'.op # "assign"
  <2>1. CASE Load(o, p, d, search, throws)
    <3>1. ret'.op = "load"
      BY <2>1, ReportedSays DEF Load
    <3> QED
      BY <3>1
  <2>2. CASE Unload(o) \/ Adopt(o, p)
    BY <2>2 DEF Unload, Adopt, Returned
  <2> QED
    BY <1>4, <2>1, <2>2
<1>5. ASSUME NEW o \in Objs, NEW s \in Objs, NEW y,
             \/ MoveConstruct(o, s) \/ MoveAssign(o, s) \/ Swap(o, s)
             \/ Has(o, y) \/ Get(o, y)
      PROVE  ret'.op # "assign"
  BY <1>5 DEF MoveConstruct, MoveAssign, Swap, Has, Get, Reported, Returned, Threw
<1>6. CASE Environment
  BY <1>6, IInvTypes DEF Environment, RetType, CopyIsEqual
<1>7. ASSUME NEW o \in Objs, NEW s \in Objs, NEW throws, AssignUnlocated(o, s, throws)
      PROVE  ret'.ec # Ok
  BY <1>7, UnlocatedSays
<1> QED
  BY <1>1, <1>2, <1>3, <1>4, <1>5, <1>6, <1>7 DEF Next, CopyIsEqual

(* "lib == *this" after every successful copy, whatever was installed,     *)
(* replaced, removed, loaded, unloaded or copied before: on Linux, with a  *)
(* loader that matches the names of mapped images.                         *)
THEOREM CopyIsEqualCorrect == Linux /\ ByName /\ Spec => []CopyIsEqual
<1>1. Init => CopyInv
  <2>1. Init => CopyIsEqual
    <3>1. Init => ret.op = "none"
      BY DEF Init
    <3> QED
      BY <3>1 DEF CopyIsEqual
  <2> QED
    BY <2>1, InitIInv, InitNames DEF CopyInv
<1>2. ASSUME Linux, ByName PROVE CopyInv /\ [Next]_vars => CopyInv'
  BY <1>2, NextIInv, NextNames, NextCopy DEF CopyInv
<1>3. CopyInv => CopyIsEqual
  BY DEF CopyInv
<1>4. CASE Linux /\ ByName
  BY <1>1, <1>2, <1>3, <1>4, PTL DEF Spec
<1> QED
  BY <1>4
=============================================================================
