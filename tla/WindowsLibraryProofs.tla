------------------------ MODULE WindowsLibraryProofs ------------------------
(***************************************************************************)
(* Ownership of modules on Windows, for every number of objects, of files, *)
(* of names and of directories, and every search path.                     *)
(***************************************************************************)
EXTENDS WindowsLibrary, FiniteSetTheorems, WellFoundedInduction, TLAPS

(* A loader whose counts may have gone below zero, and that knows a name   *)
(* for every module it counts.                                             *)
LoaderState ==
    {l \in [refs : [Files -> Int], lname : [Files -> FullName \cup {NoPath}]] :
        \A f \in Files : l.refs[f] > 0 => l.lname[f] \in FullName}

Is(x, f) == IF x = f THEN 1 ELSE 0

Count(hd, f) == Cardinality({o \in Objs : hd[o] = f})

-----------------------------------------------------------------------------
(* Giving object o the handle h takes one owner from o's old library and   *)
(* adds one to h's.                                                        *)
LEMMA CountSet ==
    ASSUME NEW hd \in [Objs -> Handle], NEW o \in Objs, NEW h, NEW f \in Files,
           NEW new, \A q \in Objs : new[q] = IF q = o THEN h ELSE hd[q]
    PROVE  /\ Count(hd, f) \in Nat
           /\ Count(new, f) = Count(hd, f) - Is(hd[o], f) + Is(h, f)
<1> DEFINE Own(g) == {q \in Objs : g[q] = f}
           rest   == {q \in Objs \ {o} : hd[q] = f}
<1>1. IsFiniteSet(rest)
  BY LibraryAssumption, FS_Subset
<1>2. o \notin rest
  OBVIOUS
<1>3. /\ Cardinality(rest) \in Nat
      /\ IsFiniteSet(rest \cup {o})
      /\ Cardinality(rest \cup {o}) = Cardinality(rest) + 1
  BY <1>1, <1>2, FS_CardinalityType, FS_AddElement
<1>4. Own(hd) = IF hd[o] = f THEN rest \cup {o} ELSE rest
  OBVIOUS
<1>5. Own(new) = IF h = f THEN rest \cup {o} ELSE rest
  OBVIOUS
<1>6. /\ Count(hd, f) = Cardinality(Own(hd))
      /\ Count(new, f) = Cardinality(Own(new))
  BY DEF Count
<1> HIDE DEF rest, Own
<1>7. Cardinality(Own(hd)) = Cardinality(rest) + Is(hd[o], f)
  BY <1>3, <1>4 DEF Is
<1>8. Cardinality(Own(new)) = Cardinality(rest) + Is(h, f)
  BY <1>3, <1>5 DEF Is
<1>9. Is(hd[o], f) \in 0 .. 1 /\ Is(h, f) \in 0 .. 1
  BY DEF Is
<1> QED
  BY <1>3, <1>6, <1>7, <1>8, <1>9

(* Of the positions in a sequence that pass a test there is a first. *)
LEMMA FirstPosition ==
    ASSUME NEW I, I \subseteq Nat, I # {}
    PROVE  Min(I) \in I
<1> DEFINE Less == {ss \in Nat \X Nat : ss[1] < ss[2]}
<1>1. IsWellFoundedOn(Less, Nat)
  BY NatLessThanWellFounded DEF OpToRel
<1> HIDE DEF Less
<1>2. PICK x \in I : \A y \in I : ~(<<y, x>> \in Less)
  BY <1>1, WFMin
<1>3. ASSUME NEW y \in I PROVE x =< y
  <2>1. y < x => <<y, x>> \in Less
    BY DEF Less
  <2>2. x \in Nat /\ y \in Nat /\ ~(y < x)
    BY <1>2, <2>1
  <2> QED
    BY <2>2
<1> QED
  BY <1>3 DEF Min

LEMMA Singleton ==
    ASSUME NEW S, NEW x \in S
    PROVE  <<x>> \in Seq(S) /\ Len(<<x>>) = 1 /\ DOMAIN <<x>> = 1 .. 1
OBVIOUS

(* A search ends with a full name, which has the completed name, and the   *)
(* directory if one was given.                                             *)
LEMMA MeantType ==
    ASSUME LoaderTypeOK, NEW p \in Path
    PROVE  /\ Meant(p) \in FullName
           /\ Meant(p).name = Completed(p)
           /\ p.dir # Bare => Meant(p).dir = Absolute(p.dir)
<1> DEFINE C    == Candidates(p)
           dirs == IF p.dir = Bare THEN SearchPath ELSE <<p.dir>>
           I    == {i \in 1 .. Len(C) : fs[C[i].dir][C[i].name] # NoFile}
           k    == IF I # {} THEN Min(I) ELSE 0
           at   == IF k = 0 THEN 1 ELSE k
<1>1. /\ dirs \in Seq(Dirs \cup {Dot}) /\ Len(dirs) \in Nat \ {0}
      /\ DOMAIN dirs = 1 .. Len(dirs)
      /\ p.dir # Bare => dirs = <<p.dir>> /\ Len(dirs) = 1
  <2>1. CASE p.dir = Bare
    BY <2>1, WindowsLoaderAssumption
  <2>2. CASE p.dir # Bare
    <3>1. p.dir \in Dirs \cup {Dot} /\ dirs = <<p.dir>>
      BY <2>2 DEF Path
    <3> HIDE DEF dirs
    <3> QED
      BY <3>1, Singleton
  <2> QED
    BY <2>1, <2>2
<1>2. \A d \in Dirs \cup {Dot} : Absolute(d) \in Dirs
  BY DEF LoaderTypeOK, Absolute
<1>3. Completed(p) \in Names
  BY WindowsLoaderAssumption DEF Completed, Path
<1>4. C = [j \in DOMAIN dirs |-> [dir |-> Absolute(dirs[j]), name |-> Completed(p)]]
  BY DEF Candidates
<1> HIDE DEF dirs
<1>5. /\ DOMAIN C = 1 .. Len(dirs)
      /\ \A j \in DOMAIN C : /\ C[j] \in FullName
                             /\ C[j].name = Completed(p)
                             /\ C[j].dir = Absolute(dirs[j])
  BY <1>1, <1>2, <1>3, <1>4 DEF FullName
<1>6. Len(C) = Len(dirs)
  BY <1>1, <1>5
<1>7. Meant(p) = C[at]
  BY DEF Meant, SelectInSeq
<1> HIDE DEF C
<1>8. I # {} => Min(I) \in I
  <2>1. I \subseteq Nat
    BY <1>1, <1>6
  <2> HIDE DEF I
  <2> QED
    BY <2>1, FirstPosition, Zenon
<1>9. I \subseteq DOMAIN C /\ 1 \in DOMAIN C
  BY <1>1, <1>5, <1>6
<1>10. at \in DOMAIN C
  BY <1>8, <1>9, Zenon
<1> HIDE DEF at
<1>11. p.dir # Bare => Meant(p).dir = Absolute(p.dir)
  BY <1>1, <1>5, <1>7, <1>10
<1> QED
  BY <1>5, <1>7, <1>10, <1>11

(* LoadLibraryExW and FreeLibrary change the count of one module by one. *)
LEMMA LoadedRefs ==
    ASSUME LoaderTypeOK, NEW l \in LoaderState, NEW h \in Handle, NEW p,
           h # NoHandle => p \in Path
    PROVE  /\ Loaded(l, h, p) \in LoaderState
           /\ \A f \in Files : Loaded(l, h, p).refs[f] = l.refs[f] + Is(h, f)
<1>1. CASE h = NoHandle
  BY <1>1, WindowsLoaderAssumption DEF Loaded, LoaderState, Is
<1>2. CASE h # NoHandle
  <2>1. h \in Files /\ Meant(p) \in FullName
    BY <1>2, MeantType DEF Handle
  <2>2. QED
    BY <1>2, <2>1 DEF Loaded, LoaderState, Is
<1> QED
  BY <1>1, <1>2

LEMMA FreedRefs ==
    ASSUME NEW l \in LoaderState, NEW h \in Handle
    PROVE  /\ Freed(l, h) \in LoaderState
           /\ \A f \in Files : Freed(l, h).refs[f] = l.refs[f] - Is(h, f)
<1>1. CASE h = NoHandle
  BY <1>1, WindowsLoaderAssumption DEF Freed, LoaderState, Is
<1>2. CASE h # NoHandle
  <2>1. h \in Files
    BY <1>2 DEF Handle
  <2>2. CASE l.refs[h] = 1
    BY <1>2, <2>1, <2>2 DEF Freed, LoaderState, Is
  <2>3. CASE l.refs[h] # 1
    BY <1>2, <2>1, <2>3 DEF Freed, LoaderState, Is
  <2> QED
    BY <2>2, <2>3
<1> QED
  BY <1>1, <1>2

-----------------------------------------------------------------------------
LEMMA LoadLibraryType ==
    ASSUME NEW l, NEW p
    PROVE  LoadLibrary(l, p) \in Handle
<1>1. CASE Namesakes(l, p) # {}
  BY <1>1 DEF LoadLibrary, Handle, Namesakes, Mapped
<1>2. CASE Namesakes(l, p) = {}
  BY <1>2, WindowsLoaderAssumption DEF LoadLibrary, Handle, Mapped
<1> QED
  BY <1>1, <1>2

(* What an attempt has to say that is the last one. *)
Sound(l, r) == /\ r.handle \in Handle
               /\ r.handle # NoHandle => r.path \in Path
                                         /\ r.handle = LoadLibrary(l, r.path)
               /\ r.ec \in Errors \cup {Ok}
               /\ r.ec = Ok <=> r.handle # NoHandle

LEMMA LoadImplSound ==
    ASSUME NEW l, NEW p \in Path
    PROVE  /\ LoadImpl(l, p).last => Sound(l, LoadImpl(l, p))
           /\ ~LoadImpl(l, p).last => LoadImpl(l, p).ec = Ok
<1>1. LastError(p) \in Errors /\ LastError(p) # Ok
  BY DEF LastError, Errors, Ok
<1>2. LoadLibrary(l, p) \in Handle /\ NoHandle \in Handle
  BY LoadLibraryType DEF Handle
<1> QED
  BY <1>1, <1>2 DEF LoadImpl, Attempt, Sound

(* The exact attempt asks for the path's own name. *)
LEMMA LoadExactAsks ==
    ASSUME NEW l, NEW p \in Path, NEW ec
    PROVE  \E q \in Path :
             /\ q.dir = p.dir /\ q.name = p.name /\ Completed(q) = p.name
             /\ LoadExact(l, p, ec) = Attempt(LoadLibrary(l, q), q,
                    IF LoadLibrary(l, q) = NoHandle THEN LastError(q) ELSE ec, TRUE)
<1>1. CASE p.name \in Extended
  <2>1. Completed(p) = p.name
    BY <1>1 DEF Completed
  <2>2. LoadExact(l, p, ec) = Attempt(LoadLibrary(l, p), p,
          IF LoadLibrary(l, p) = NoHandle THEN LastError(p) ELSE ec, TRUE)
    BY <1>1 DEF LoadExact, WithDot
  <2> QED
    BY <2>1, <2>2
<1>2. CASE p.name \notin Extended
  <2> DEFINE q == [p EXCEPT !["dotted"] = TRUE]
  <2>1. q \in Path /\ q.dir = p.dir /\ q.name = p.name /\ q.dotted = TRUE
    BY DEF Path
  <2>2. LoadExact(l, p, ec) = Attempt(LoadLibrary(l, q), q,
          IF LoadLibrary(l, q) = NoHandle THEN LastError(q) ELSE ec, TRUE)
    BY <1>2, Zenon DEF LoadExact, WithDot
  <2> HIDE DEF q
  <2>3. Completed(q) = p.name
    BY <2>1 DEF Completed
  <2> QED
    BY <2>1, <2>2, <2>3
<1> QED
  BY <1>1, <1>2

LEMMA LoadExactSound ==
    ASSUME NEW l, NEW p \in Path
    PROVE  Sound(l, LoadExact(l, p, Ok))
<1>1. PICK q \in Path : LoadExact(l, p, Ok) = Attempt(LoadLibrary(l, q), q,
          IF LoadLibrary(l, q) = NoHandle THEN LastError(q) ELSE Ok, TRUE)
  BY LoadExactAsks
<1>2. LastError(q) \in Errors /\ LastError(q) # Ok
  BY DEF LastError, Errors, Ok
<1>3. LoadLibrary(l, q) \in Handle /\ NoHandle \in Handle
  BY LoadLibraryType DEF Handle
<1> QED
  BY <1>1, <1>2, <1>3 DEF Attempt, Sound

LEMMA AttemptPaths ==
    ASSUME LoaderTypeOK, NEW p \in Path, NEW search \in BOOLEAN
    PROVE  LET sl == Anchored(p, search)
           IN  /\ sl \in Path /\ sl.name = p.name
               /\ Decorate(sl) \in Path /\ Decorate(sl).dir = sl.dir
               /\ Decorate(sl).name \in Extended
               /\ MinGW(sl) \in Path /\ MinGW(sl).dir = sl.dir
               /\ MinGW(sl).name \in Extended
<1> DEFINE sl == Anchored(p, search)
<1>1. sl \in Path /\ sl.name = p.name
  BY DEF Anchored, Path, LoaderTypeOK
<1> HIDE DEF sl
<1>2. Suffixed[sl.name] \in Extended /\ Prefixed[sl.name] \in Extended
  BY <1>1, WindowsLoaderAssumption DEF Path
<1>3. /\ Decorate(sl) \in Path /\ Decorate(sl).dir = sl.dir
      /\ Decorate(sl).name \in Extended
  BY <1>1, <1>2, WindowsLoaderAssumption DEF Decorate, Path
<1>4. /\ MinGW(sl) \in Path /\ MinGW(sl).dir = sl.dir
      /\ MinGW(sl).name \in Extended
  BY <1>1, <1>2, WindowsLoaderAssumption DEF MinGW, Path
<1> QED
  BY <1>1, <1>3, <1>4 DEF sl

(* load() ends with a handle exactly when it reports no error, whichever   *)
(* of its attempts was the last.                                           *)
LEMMA LoadOutcomeSound ==
    ASSUME LoaderTypeOK, NEW l, NEW p \in Path,
           NEW decorations \in BOOLEAN, NEW search \in BOOLEAN
    PROVE  Sound(l, LoadOutcome(l, p, decorations, search))
<1> DEFINE sl == Anchored(p, search)
<1>1. sl \in Path /\ Decorate(sl) \in Path /\ MinGW(sl) \in Path
  BY AttemptPaths
<1> HIDE DEF sl
<1>3. Sound(l, LoadExact(l, sl, Ok))
  BY <1>1, LoadExactSound
<1>4. LoadImpl(l, Decorate(sl)).last => Sound(l, LoadImpl(l, Decorate(sl)))
  BY <1>1, LoadImplSound
<1>5. /\ LoadImpl(l, MinGW(sl)).last => Sound(l, LoadImpl(l, MinGW(sl)))
      /\ ~LoadImpl(l, MinGW(sl)).last => LoadImpl(l, MinGW(sl)).ec = Ok
  BY <1>1, LoadImplSound
<1> QED
  BY <1>3, <1>4, <1>5 DEF LoadOutcome, sl

-----------------------------------------------------------------------------
(* The inductive invariant: the types, the count of every module, and its  *)
(* name, which a copy is loaded by.                                        *)
Counted(l, hd) ==
    \A f \in Files : l.refs[f] = Count(hd, f) + Is(Program, f)

IInv == WinTypeOK /\ ld \in LoaderState /\ Counted(ld, handle)

LEMMA CountedIsOwnership == Counted(ld, handle) <=> WinOwnership
BY DEF Counted, WinOwnership, Count, Owners, Is

(* Counts that are owners counted are natural numbers. *)
LEMMA CountedType ==
    ASSUME NEW l \in LoaderState, NEW hd \in [Objs -> Handle], Counted(l, hd)
    PROVE  l \in [refs : [Files -> Nat], lname : [Files -> FullName \cup {NoPath}]]
<1>1. ASSUME NEW f \in Files PROVE l.refs[f] \in Nat
  <2>1. IsFiniteSet({o \in Objs : hd[o] = f})
    BY LibraryAssumption, FS_Subset
  <2>2. Count(hd, f) \in Nat
    BY <2>1, FS_CardinalityType DEF Count
  <2> QED
    BY <2>2 DEF Counted, Is
<1> QED
  BY <1>1 DEF LoaderState

(* Counts that follow the owners stay the owners counted. *)
LEMMA StillCounted ==
    ASSUME NEW hd \in [Objs -> Handle], NEW o \in Objs, NEW h \in Handle,
           NEW new, \A q \in Objs : new[q] = IF q = o THEN h ELSE hd[q],
           NEW l, NEW m, Counted(l, hd),
           \A f \in Files : m.refs[f] = l.refs[f] - Is(hd[o], f) + Is(h, f)
    PROVE  Counted(m, new)
<1>1. ASSUME NEW f \in Files PROVE m.refs[f] = Count(new, f) + Is(Program, f)
  <2>1. /\ Count(hd, f) \in Nat
        /\ Count(new, f) = Count(hd, f) - Is(hd[o], f) + Is(h, f)
    BY CountSet
  <2>2. /\ Is(hd[o], f) \in 0 .. 1 /\ Is(h, f) \in 0 .. 1
        /\ Is(Program, f) \in 0 .. 1
    BY DEF Is
  <2>3. /\ l.refs[f] = Count(hd, f) + Is(Program, f)
        /\ m.refs[f] = l.refs[f] - Is(hd[o], f) + Is(h, f)
    BY DEF Counted
  <2> QED
    BY <2>1, <2>2, <2>3
<1> QED
  BY <1>1 DEF Counted

(* An object that releases its library and takes h, in either order. *)
LEMMA Replace ==
    ASSUME LoaderTypeOK, NEW l \in LoaderState, NEW hd \in [Objs -> Handle], NEW o \in Objs,
           NEW h \in Handle, NEW p, h # NoHandle => p \in Path, Counted(l, hd),
           NEW new, \A q \in Objs : new[q] = IF q = o THEN h ELSE hd[q],
           NEW m, \/ m = Loaded(Freed(l, hd[o]), h, p)
                  \/ m = Freed(Loaded(l, h, p), hd[o])
    PROVE  m \in LoaderState /\ Counted(m, new)
<1>1. hd[o] \in Handle
  OBVIOUS
<1>2. /\ m \in LoaderState
      /\ \A f \in Files : m.refs[f] = l.refs[f] - Is(hd[o], f) + Is(h, f)
  <2>1. CASE m = Loaded(Freed(l, hd[o]), h, p)
    <3>1. PICK k : k = Freed(l, hd[o])
      OBVIOUS
    <3>2. k \in LoaderState /\ \A f \in Files : k.refs[f] = l.refs[f] - Is(hd[o], f)
      BY <1>1, <3>1, FreedRefs
    <3>3. m = Loaded(k, h, p)
      BY <2>1, <3>1
    <3> QED
      BY <3>2, <3>3, LoadedRefs
  <2>2. CASE m = Freed(Loaded(l, h, p), hd[o])
    <3>1. PICK k : k = Loaded(l, h, p)
      OBVIOUS
    <3>2. k \in LoaderState /\ \A f \in Files : k.refs[f] = l.refs[f] + Is(h, f)
      BY <3>1, LoadedRefs
    <3>3. m \in LoaderState /\ \A f \in Files : m.refs[f] = k.refs[f] - Is(hd[o], f)
      BY <1>1, <2>2, <3>1, <3>2, FreedRefs
    <3>4. ASSUME NEW f \in Files
          PROVE l.refs[f] \in Int /\ Is(h, f) \in Int /\ Is(hd[o], f) \in Int
      BY DEF Is, LoaderState
    <3> QED
      BY <3>2, <3>3, <3>4
  <2> QED
    BY <2>1, <2>2
<1> QED
  BY <1>2, StillCounted

(* Two objects that trade their handles leave every count as it is. *)
LEMMA Trading ==
    ASSUME NEW hd \in [Objs -> Handle], NEW o \in Objs, NEW s \in Objs,
           NEW l, Counted(l, hd),
           NEW new, \A q \in Objs : new[q] = IF q = s THEN hd[o]
                                            ELSE IF q = o THEN hd[s] ELSE hd[q]
    PROVE  Counted(l, new)
<1>1. PICK mid \in [Objs -> Handle] :
        \A q \in Objs : mid[q] = IF q = o THEN hd[s] ELSE hd[q]
  <2> WITNESS [q \in Objs |-> IF q = o THEN hd[s] ELSE hd[q]] \in [Objs -> Handle]
  <2> QED
    OBVIOUS
<1>2. /\ \A q \in Objs : new[q] = IF q = s THEN hd[o] ELSE mid[q]
      /\ mid[s] = hd[s]
  BY <1>1
<1>3. ASSUME NEW f \in Files PROVE Count(new, f) = Count(hd, f)
  <2>1. /\ Count(hd, f) \in Nat
        /\ Count(mid, f) = Count(hd, f) - Is(hd[o], f) + Is(hd[s], f)
    BY <1>1, CountSet
  <2>2. Count(new, f) = Count(mid, f) - Is(hd[s], f) + Is(hd[o], f)
    BY <1>1, <1>2, CountSet
  <2>3. Is(hd[o], f) \in 0 .. 1 /\ Is(hd[s], f) \in 0 .. 1
    BY DEF Is
  <2> QED
    BY <2>1, <2>2, <2>3
<1> QED
  BY <1>3 DEF Counted

-----------------------------------------------------------------------------
FsType == [Dirs -> [Names -> Files \cup {NoFile}]]
RetType == [op : {"load", "assign", "get"}, obj : Objs, from : Objs,
            ec : Errors \cup {Ok}] \cup {NoCall}

LEMMA InitIInv == Init => IInv
<1> SUFFICES ASSUME Init PROVE IInv
  OBVIOUS
<1> PICK w \in FullName :
        ld = [refs  |-> [f \in Files |-> IF f = Program THEN 1 ELSE 0],
              lname |-> [f \in Files |-> IF f = Program THEN w ELSE NoPath]]
  BY DEF Init, LoaderInit, Whereabouts
<1>1. WinTypeOK
  <2>1. ld \in [refs : [Files -> Nat], lname : [Files -> FullName \cup {NoPath}]]
    OBVIOUS
  <2>2. fs \in [Dirs -> [Names -> Files \cup {NoFile}]]
    BY LibraryAssumption DEF Init
  <2>3. handle \in [Objs -> Handle] /\ steps \in 0 .. Steps
    BY LibraryAssumption DEF Init, Handle
  <2> QED
    BY <2>1, <2>2, <2>3 DEF Init, WinTypeOK, LoaderTypeOK
<1>2. ASSUME NEW f \in Files PROVE ld.refs[f] = Count(handle, f) + Is(Program, f)
  <2>1. {o \in Objs : handle[o] = f} = {}
    BY WindowsLoaderAssumption DEF Init
  <2>2. Count(handle, f) = 0
    BY <2>1, FS_EmptySet DEF Count
  <2> QED
    BY <2>2 DEF Is
<1>3. ld \in LoaderState
  BY DEF LoaderState
<1> QED
  BY <1>1, <1>2, <1>3 DEF IInv, Counted

(* What an action has to show to keep the invariant. *)
LEMMA KeepsIInv ==
    ASSUME handle' \in [Objs -> Handle], ld' \in LoaderState,
           Counted(ld', handle'), fs' \in FsType, cwd' \in Dirs,
           ret' \in RetType, steps' \in 0 .. Steps
    PROVE  IInv'
<1>1. ld' \in [refs : [Files -> Nat], lname : [Files -> FullName \cup {NoPath}]]
  BY CountedType
<1> QED
  BY <1>1 DEF IInv, WinTypeOK, LoaderTypeOK, FsType, RetType, Counted, Count

LEMMA IInvTypes ==
    ASSUME IInv
    PROVE  /\ handle \in [Objs -> Handle] /\ ld \in LoaderState /\ LoaderTypeOK
           /\ Counted(ld, handle) /\ fs \in FsType /\ cwd \in Dirs
           /\ ret \in RetType /\ steps \in 0 .. Steps
BY DEF IInv, WinTypeOK, LoaderTypeOK, LoaderState, FsType, RetType

LEMMA ReturnedType ==
    ASSUME NEW op \in {"load", "assign", "get"}, NEW o \in Objs, NEW s \in Objs,
           NEW ec \in Errors \cup {Ok}, Returned(op, o, s, ec)
    PROVE  ret' \in RetType
BY DEF Returned, RetType

(* Whatever gives o another handle and the loader the matching references. *)
LEMMA ReplaceKeepsIInv ==
    ASSUME IInv, NEW o \in Objs, NEW h \in Handle, NEW p,
           h # NoHandle => p \in Path,
           handle' = [handle EXCEPT ![o] = h],
           \/ ld' = Loaded(Freed(ld, handle[o]), h, p)
           \/ ld' = Freed(Loaded(ld, h, p), handle[o]),
           ret' \in RetType, UNCHANGED <<fs, cwd, steps>>
    PROVE  IInv'
<1>1. /\ handle' \in [Objs -> Handle]
      /\ \A q \in Objs : handle'[q] = IF q = o THEN h ELSE handle[q]
  BY IInvTypes
<1>2. ld' \in LoaderState /\ Counted(ld', handle')
  BY <1>1, IInvTypes, Replace
<1> QED
  BY <1>1, <1>2, IInvTypes, KeepsIInv

LEMMA LoadKeepsIInv ==
    ASSUME IInv, NEW o \in Objs, NEW p \in Path,
           NEW decorations \in BOOLEAN, NEW search \in BOOLEAN,
           Load(o, p, decorations, search)
    PROVE  IInv'
<1> DEFINE r == LoadOutcome(Freed(ld, handle[o]), p, decorations, search)
<1>1. /\ r.handle \in Handle
      /\ r.handle # NoHandle => r.path \in Path
      /\ r.ec \in Errors \cup {Ok}
  BY IInvTypes, LoadOutcomeSound DEF Sound
<1>2. /\ handle' = [handle EXCEPT ![o] = r.handle]
      /\ ld' = Loaded(Freed(ld, handle[o]), r.handle, r.path)
      /\ Returned("load", o, o, r.ec)
      /\ UNCHANGED <<fs, cwd, steps>>
  BY DEF Load
<1> HIDE DEF r
<1>3. ret' \in RetType
  BY <1>1, <1>2, ReturnedType
<1> QED
  BY <1>1, <1>2, <1>3, ReplaceKeepsIInv

(* Unload, and the assignment of a library that is not loaded. *)
LEMMA ReleaseKeepsIInv ==
    ASSUME IInv, NEW o \in Objs, NEW s \in Objs, Unload(o) \/ AssignNothing(o, s)
    PROVE  IInv'
<1>1. /\ handle' = [handle EXCEPT ![o] = NoHandle]
      /\ ld' = Loaded(Freed(ld, handle[o]), NoHandle, NoPath)
      /\ UNCHANGED <<fs, cwd, steps>>
  BY DEF Unload, AssignNothing, Loaded
<1>2. ret' \in RetType
  BY ReturnedType DEF Unload, AssignNothing, Silent, Returned, RetType
<1>3. NoHandle \in Handle
  BY DEF Handle
<1> QED
  BY <1>1, <1>2, <1>3, ReplaceKeepsIInv

LEMMA AdoptKeepsIInv ==
    ASSUME IInv, NEW o \in Objs, NEW p \in Path, Adopt(o, p)
    PROVE  IInv'
<1>1. LoadLibrary(ld, p) \in Handle
  BY LoadLibraryType
<1>2. /\ ld' = Loaded(Freed(ld, handle[o]), LoadLibrary(ld, p), p)
      /\ handle' = [handle EXCEPT ![o] = LoadLibrary(ld, p)]
      /\ UNCHANGED <<fs, cwd, steps>>
  BY DEF Adopt, IsLoaded, Freed
<1>3. ret' \in RetType
  BY DEF Adopt, Silent, RetType
<1> QED
  BY <1>1, <1>2, <1>3, ReplaceKeepsIInv

(* GetModuleFileNameW has an answer for every module that is owned. *)
LEMMA LocationType ==
    ASSUME IInv, NEW s \in Objs, IsLoaded(s)
    PROVE  Location(handle[s]) \in Path
<1>1. handle[s] \in Files
  BY IInvTypes DEF IsLoaded, Handle
<1>2. ld.refs[handle[s]] > 0
  <2> DEFINE own == {o \in Objs : handle[o] = handle[s]}
  <2>1. IsFiniteSet(own) /\ own # {}
    BY LibraryAssumption, FS_Subset
  <2>2. Cardinality(own) \in Nat /\ Cardinality(own) # 0
    BY <2>1, FS_CardinalityType, FS_EmptySet
  <2>3. ld.refs[handle[s]] = Cardinality(own) + Is(Program, handle[s])
    BY <1>1, IInvTypes DEF Counted, Count
  <2> HIDE DEF own
  <2> QED
    BY <2>2, <2>3 DEF Is
<1>3. ld.lname[handle[s]] \in FullName
  BY <1>1, <1>2, IInvTypes DEF LoaderState
<1> QED
  BY <1>3 DEF Location, Path, FullName

LEMMA AssignKeepsIInv ==
    ASSUME IInv, NEW o \in Objs, NEW s \in Objs, AssignLoaded(o, s)
    PROVE  IInv'
<1> DEFINE copy == LoadOutcome(ld, Location(handle[s]), FALSE, FALSE)
<1>1. Location(handle[s]) \in Path
  BY LocationType DEF AssignLoaded
<1>2. /\ copy.handle \in Handle
      /\ copy.handle # NoHandle => copy.path \in Path
      /\ copy.ec \in Errors \cup {Ok}
  BY <1>1, IInvTypes, LoadOutcomeSound DEF Sound
<1>3. /\ \/ /\ handle' = [handle EXCEPT ![o] = copy.handle]
            /\ ld' = Freed(Loaded(ld, copy.handle, copy.path), handle[o])
         \/ UNCHANGED <<handle, ld>>
      /\ Returned("assign", o, s, copy.ec)
      /\ UNCHANGED <<fs, cwd, steps>>
  BY DEF AssignLoaded
<1> HIDE DEF copy
<1>4. ret' \in RetType
  BY <1>2, <1>3, ReturnedType
<1>5. CASE UNCHANGED <<handle, ld>>
  BY <1>3, <1>4, <1>5, IInvTypes, KeepsIInv
<1>6. CASE /\ handle' = [handle EXCEPT ![o] = copy.handle]
           /\ ld' = Freed(Loaded(ld, copy.handle, copy.path), handle[o])
  BY <1>2, <1>3, <1>4, <1>6, ReplaceKeepsIInv
<1> QED
  BY <1>3, <1>5, <1>6

(* Move construction, move assignment and swap. *)
LEMMA TradeKeepsIInv ==
    ASSUME IInv, NEW o \in Objs, NEW s \in Objs,
           MoveConstruct(o, s) \/ MoveAssign(o, s) \/ Swap(o, s)
    PROVE  IInv'
<1>1. /\ ret' \in RetType
      /\ UNCHANGED <<fs, cwd, ld, steps>>
  BY DEF MoveConstruct, MoveAssign, Swap, Silent, RetType, loaderVars
<1>2. /\ handle' \in [Objs -> Handle]
      /\ \/ handle' = handle
         \/ \A q \in Objs : handle'[q] = IF q = s THEN handle[o]
                                         ELSE IF q = o THEN handle[s] ELSE handle[q]
  <2>1. CASE MoveConstruct(o, s)
    <3>1. /\ o # s /\ handle[o] = NoHandle
          /\ handle' = [handle EXCEPT ![s] = NoHandle, ![o] = handle[s]]
      BY <2>1 DEF MoveConstruct, IsLoaded
    <3> QED
      BY <3>1, IInvTypes DEF Handle
  <2>2. CASE MoveAssign(o, s) \/ Swap(o, s)
    <3>1. handle' \in {handle, [handle EXCEPT ![o] = handle[s], ![s] = handle[o]]}
      BY <2>2 DEF MoveAssign, Swap, Trade
    <3> QED
      BY <3>1, IInvTypes
  <2> QED
    BY <2>1, <2>2
<1>3. Counted(ld', handle')
  <2>1. CASE handle' = handle
    BY <1>1, <2>1, IInvTypes
  <2>2. CASE \A q \in Objs : handle'[q] = IF q = s THEN handle[o]
                                          ELSE IF q = o THEN handle[s] ELSE handle[q]
    BY <1>1, <2>2, IInvTypes, Trading
  <2> QED
    BY <1>2, <2>1, <2>2
<1> QED
  BY <1>1, <1>2, <1>3, IInvTypes, KeepsIInv

(* Calls that only read. *)
LEMMA ReadsKeepIInv ==
    ASSUME IInv, NEW o \in Objs, NEW s \in Objs, NEW y,
           AssignSame(o, s) \/ Get(o, y)
    PROVE  IInv'
<1>1. UNCHANGED <<handle, ld, fs, cwd, steps>>
  BY DEF AssignSame, Get, loaderVars
<1>2. \E op \in {"assign", "get"}, x \in Objs, ec \in Errors \cup {Ok} :
          Returned(op, o, x, ec)
  BY DEF AssignSame, Get, Errors
<1>3. ret' \in RetType
  BY <1>2, ReturnedType
<1> QED
  BY <1>1, <1>3, IInvTypes, KeepsIInv

LEMMA FsUpdate ==
    ASSUME NEW g \in FsType, NEW d \in Dirs, NEW n \in Names,
           NEW f \in Files \cup {NoFile}
    PROVE  [g EXCEPT ![d][n] = f] \in FsType
BY DEF FsType

LEMMA EnvironmentKeepsIInv ==
    ASSUME IInv, Environment PROVE IInv'
<1>1. fs \in FsType /\ cwd \in Dirs
  BY IInvTypes
<1>2. fs' \in FsType /\ cwd' \in Dirs
  <2>1. CASE \E w \in FullName, f \in (Files \ {Program}) \cup {NoFile} :
               fs' = [fs EXCEPT ![w.dir][w.name] = f] /\ UNCHANGED cwd
    BY <1>1, <2>1 DEF FsType, FullName
  <2>2. CASE \E w, v \in FullName :
               /\ fs' = [fs EXCEPT ![v.dir][v.name] = fs[w.dir][w.name],
                                   ![w.dir][w.name] = NoFile]
               /\ UNCHANGED cwd
    <3> PICK w \in FullName, v \in FullName :
            /\ fs' = [fs EXCEPT ![v.dir][v.name] = fs[w.dir][w.name],
                                ![w.dir][w.name] = NoFile]
            /\ UNCHANGED cwd
      BY <2>2
    <3> DEFINE moved == [fs EXCEPT ![v.dir][v.name] = fs[w.dir][w.name]]
    <3>1. /\ w.dir \in Dirs /\ w.name \in Names /\ v.dir \in Dirs /\ v.name \in Names
          /\ fs[w.dir][w.name] \in Files \cup {NoFile}
      BY <1>1 DEF FullName, FsType
    <3>2. moved \in FsType
      BY <1>1, <3>1, FsUpdate
    <3>3. fs' = [moved EXCEPT ![w.dir][w.name] = NoFile]
      OBVIOUS
    <3> HIDE DEF moved
    <3>4. NoFile \in Files \cup {NoFile}
      OBVIOUS
    <3>5. [moved EXCEPT ![w.dir][w.name] = NoFile] \in FsType
      BY <3>1, <3>2, <3>4, FsUpdate, Zenon
    <3> QED
      BY <1>1, <3>3, <3>5, Zenon
  <2>3. CASE cwd' \in Dirs \ {cwd} /\ UNCHANGED fs
    BY <1>1, <2>3
  <2> QED
    BY <2>1, <2>2, <2>3 DEF Environment
<1>3. steps' \in 0 .. Steps
  BY IInvTypes, LibraryAssumption DEF Environment
<1>4. ret' \in RetType /\ UNCHANGED <<handle, ld>>
  BY DEF Environment, Silent, RetType
<1> QED
  BY <1>2, <1>3, <1>4, IInvTypes, KeepsIInv

LEMMA NextIInv == IInv /\ [Next]_vars => IInv'
<1> SUFFICES ASSUME IInv, [Next]_vars PROVE IInv'
  OBVIOUS
<1> USE DEF Path
<1>1. CASE UNCHANGED vars
  BY <1>1, IInvTypes, KeepsIInv DEF vars, loaderVars
<1>2. ASSUME NEW o \in Objs, NEW p \in Paths, NEW search \in BOOLEAN,
             NEW decorations \in BOOLEAN, Load(o, p, decorations, search)
      PROVE  IInv'
  BY <1>2, LibraryAssumption, LoadKeepsIInv
<1>3. ASSUME NEW o \in Objs, Unload(o) PROVE IInv'
  BY <1>3, ReleaseKeepsIInv
<1>4. ASSUME NEW o \in Objs, NEW p \in Paths, Adopt(o, p) PROVE IInv'
  BY <1>4, LibraryAssumption, AdoptKeepsIInv
<1>5. ASSUME NEW o \in Objs, NEW s \in Objs, AssignNothing(o, s) PROVE IInv'
  BY <1>5, ReleaseKeepsIInv
<1>6. ASSUME NEW o \in Objs, NEW s \in Objs, AssignLoaded(o, s) PROVE IInv'
  BY <1>6, AssignKeepsIInv
<1>7. ASSUME NEW o \in Objs, NEW s \in Objs,
             MoveConstruct(o, s) \/ MoveAssign(o, s) \/ Swap(o, s)
      PROVE  IInv'
  BY <1>7, TradeKeepsIInv
<1>8. ASSUME NEW o \in Objs, NEW s \in Objs, AssignSame(o, s) PROVE IInv'
  BY <1>8, ReadsKeepIInv
<1>9. ASSUME NEW o \in Objs, NEW y \in Symbols, Get(o, y) PROVE IInv'
  BY <1>9, ReadsKeepIInv
<1>10. CASE Environment
  BY <1>10, EnvironmentKeepsIInv
<1> QED
  BY <1>1, <1>2, <1>3, <1>4, <1>5, <1>6, <1>7, <1>8, <1>9, <1>10 DEF Next
-----------------------------------------------------------------------------
(* For every number of objects, files and paths the state has its types,   *)
(* and every reference has exactly one object that will free it: no        *)
(* sequence of loads, copies, moves and swaps leaks a module or frees one  *)
(* twice (WinTypeOK, WinOwnership).                                        *)
THEOREM WinInvCorrect == Spec => []WinInv
<1>1. IInv => WinInv
  BY CountedIsOwnership DEF IInv, WinInv
<1> QED
  BY <1>1, InitIInv, NextIInv, PTL DEF Spec

(* load() reports an error exactly when it leaves the object not loaded,   *)
(* whichever of its attempts was the last one.                             *)
THEOREM WinLoadTellsTheTruthCorrect == Spec => []WinLoadTellsTheTruth
<1>1. Init => WinLoadTellsTheTruth
  BY DEF Init, NoCall, WinLoadTellsTheTruth
<1>2. IInv /\ WinLoadTellsTheTruth /\ [Next]_vars => WinLoadTellsTheTruth'
  <2> SUFFICES ASSUME IInv, WinLoadTellsTheTruth, [Next]_vars
               PROVE  WinLoadTellsTheTruth'
    OBVIOUS
  <2>1. CASE UNCHANGED vars
    BY <2>1 DEF vars, WinLoadTellsTheTruth, IsLoaded
  <2>2. ASSUME NEW o \in Objs, NEW p \in Paths, NEW search \in BOOLEAN,
               NEW decorations \in BOOLEAN, Load(o, p, decorations, search)
        PROVE  WinLoadTellsTheTruth'
    <3> DEFINE r == LoadOutcome(Freed(ld, handle[o]), p, decorations, search)
    <3>1. p \in Path
      BY LibraryAssumption DEF Path
    <3>2. r.ec = Ok <=> r.handle # NoHandle
      BY <3>1, IInvTypes, LoadOutcomeSound DEF Sound
    <3>3. /\ handle' = [handle EXCEPT ![o] = r.handle]
          /\ ret'.obj = o /\ ret'.ec = r.ec
      BY <2>2 DEF Load, Returned
    <3> HIDE DEF r
    <3> QED
      BY <3>2, <3>3, IInvTypes DEF WinLoadTellsTheTruth, IsLoaded
  <2>3. ret'.op # "load" => WinLoadTellsTheTruth'
    BY DEF WinLoadTellsTheTruth
  <2>4. Silent => ret'.op # "load"
    BY DEF Silent, NoCall
  <2>5. ASSUME NEW o, NEW s, NEW ec, Returned("assign", o, s, ec)
        PROVE  ret'.op # "load"
    BY <2>5 DEF Returned
  <2>6. ASSUME NEW o \in Objs, NEW s \in Objs, NEW p
        PROVE  /\ Unload(o) => ret'.op # "load"
               /\ Adopt(o, p) => ret'.op # "load"
               /\ AssignSame(o, s) => ret'.op # "load"
               /\ AssignNothing(o, s) => ret'.op # "load"
               /\ MoveConstruct(o, s) => ret'.op # "load"
               /\ MoveAssign(o, s) => ret'.op # "load"
               /\ Swap(o, s) => ret'.op # "load"
    BY <2>4, <2>5
       DEF Unload, Adopt, AssignSame, AssignNothing, MoveConstruct, MoveAssign, Swap
  <2>7. ASSUME NEW o \in Objs, NEW s \in Objs, AssignLoaded(o, s)
        PROVE  ret'.op # "load"
    <3>1. \E ec : Returned("assign", o, s, ec)
      BY <2>7 DEF AssignLoaded
    <3> QED
      BY <2>5, <3>1
  <2>8. ASSUME NEW o \in Objs, NEW y, Get(o, y) PROVE ret'.op # "load"
    BY <2>8 DEF Get, Returned
  <2>9. Environment => ret'.op # "load"
    BY <2>4 DEF Environment
  <2> QED
    BY <2>1, <2>2, <2>3, <2>6, <2>7, <2>8, <2>9 DEF Next
<1> QED
  BY <1>1, <1>2, InitIInv, NextIInv, PTL DEF Spec

-----------------------------------------------------------------------------
(* The modules in memory are the executable and what some object owns.     *)
LEMMA MappedIsResident ==
    ASSUME NEW l \in LoaderState, NEW hd \in [Objs -> Handle], Counted(l, hd)
    PROVE  Mapped(l) = {f \in Files : \E o \in Objs : hd[o] = f} \cup {Program}
<1>1. ASSUME NEW f \in Files
      PROVE  l.refs[f] > 0 <=> f = Program \/ \E o \in Objs : hd[o] = f
  <2> DEFINE own == {o \in Objs : hd[o] = f}
  <2>1. IsFiniteSet(own)
    BY LibraryAssumption, FS_Subset
  <2>2. /\ Cardinality(own) \in Nat
        /\ Cardinality(own) = 0 <=> own = {}
    BY <2>1, FS_CardinalityType, FS_EmptySet
  <2>3. l.refs[f] = Cardinality(own) + Is(Program, f)
    BY DEF Counted, Count
  <2>4. own = {} <=> ~\E o \in Objs : hd[o] = f
    OBVIOUS
  <2> HIDE DEF own
  <2> QED
    BY <2>2, <2>3, <2>4 DEF Is
<1> QED
  BY <1>1, WindowsLoaderAssumption DEF Mapped

LEMMA PrimedTypes ==
    ASSUME IInv'
    PROVE  /\ handle' \in [Objs -> Handle] /\ ld' \in LoaderState
           /\ Counted(ld', handle')
BY DEF IInv, WinTypeOK, LoaderTypeOK, LoaderState, Counted, Count

(* What one call does to the handles. *)
LEMMA StepHandles ==
    ASSUME IInv, Next
    PROVE  \/ \E o \in Objs, x \in Handle : handle' = [handle EXCEPT ![o] = x]
           \/ \E o, s \in Objs :
                handle' = [handle EXCEPT ![o] = handle[s], ![s] = handle[o]]
           \/ UNCHANGED <<handle, ld>>
<1>1. ASSUME NEW o \in Objs, NEW p \in Paths, NEW search \in BOOLEAN,
             NEW decorations \in BOOLEAN, Load(o, p, decorations, search)
      PROVE  \E x \in Handle : handle' = [handle EXCEPT ![o] = x]
  <2>1. p \in Path
    BY LibraryAssumption DEF Path
  <2> QED
    BY <1>1, <2>1, IInvTypes, LoadOutcomeSound DEF Load, Sound
<1>2. ASSUME NEW o \in Objs, NEW s \in Objs, Unload(o) \/ AssignNothing(o, s)
      PROVE  \E x \in Handle : handle' = [handle EXCEPT ![o] = x]
  BY <1>2 DEF Unload, AssignNothing, Handle
<1>3. ASSUME NEW o \in Objs, NEW p \in Paths, Adopt(o, p)
      PROVE  \E x \in Handle : handle' = [handle EXCEPT ![o] = x]
  BY <1>3, LoadLibraryType DEF Adopt
<1>4. ASSUME NEW o \in Objs, NEW s \in Objs, AssignLoaded(o, s)
      PROVE  \/ \E x \in Handle : handle' = [handle EXCEPT ![o] = x]
             \/ UNCHANGED <<handle, ld>>
  <2> DEFINE copy == LoadOutcome(ld, Location(handle[s]), FALSE, FALSE)
  <2>1. Location(handle[s]) \in Path
    BY <1>4, LocationType DEF AssignLoaded
  <2>2. copy.handle \in Handle
    BY <2>1, IInvTypes, LoadOutcomeSound DEF Sound
  <2>3. \/ handle' = [handle EXCEPT ![o] = copy.handle]
        \/ UNCHANGED <<handle, ld>>
    BY <1>4 DEF AssignLoaded
  <2> QED
    BY <2>2, <2>3
<1>5. ASSUME NEW o \in Objs, NEW s \in Objs, MoveConstruct(o, s)
      PROVE  handle' = [handle EXCEPT ![o] = handle[s], ![s] = handle[o]]
  BY <1>5, IInvTypes DEF MoveConstruct, IsLoaded
<1>6. ASSUME NEW o \in Objs, NEW s \in Objs, MoveAssign(o, s) \/ Swap(o, s)
      PROVE  \/ handle' = [handle EXCEPT ![o] = handle[s], ![s] = handle[o]]
             \/ UNCHANGED <<handle, ld>>
  BY <1>6 DEF MoveAssign, Swap, Trade, loaderVars
<1>7. ASSUME NEW o \in Objs, NEW s \in Objs, NEW y,
             AssignSame(o, s) \/ Get(o, y)
      PROVE  UNCHANGED <<handle, ld>>
  BY <1>7 DEF AssignSame, Get, loaderVars
<1>8. Environment => UNCHANGED <<handle, ld>>
  BY DEF Environment
<1> QED
  BY <1>1, <1>2, <1>3, <1>4, <1>5, <1>6, <1>7, <1>8 DEF Next

(* The Windows loader's counts and names implement the documented contract *)
(* as those of dlopen do: each call changes what one object owns, or       *)
(* trades what two of them own, and exactly what is owned is in memory.    *)
THEOREM WinImplementsOwnersCorrect == Spec => WinImplementsOwners
<1>1. Init => Abstract!Init
  <2> SUFFICES ASSUME Init PROVE Abstract!Init
    OBVIOUS
  <2>1. Mapped(ld) = {Program}
    BY WindowsLoaderAssumption DEF Init, LoaderInit, Mapped
  <2> QED
    BY <2>1 DEF Init, Abstract!Init
<1>2. IInv /\ IInv' /\ [Next]_vars => [Abstract!Next]_(Abstract!ownerVars)
  <2> SUFFICES ASSUME IInv, IInv', [Next]_vars
               PROVE  Abstract!Next \/ UNCHANGED <<handle, Mapped(ld)>>
    BY DEF Abstract!ownerVars
  <2>1. Mapped(ld)' = Abstract!Resident(handle)'
    <3>1. /\ handle' \in [Objs -> Handle] /\ ld' \in LoaderState
          /\ Counted(ld', handle')
      BY PrimedTypes
    <3> QED
      BY <3>1, MappedIsResident DEF Abstract!Resident
  <2>2. CASE UNCHANGED <<handle, ld>> \/ UNCHANGED vars
    BY <2>2 DEF vars, loaderVars, Mapped
  <2>3. ASSUME NEW o \in Objs, NEW x \in Handle, handle' = [handle EXCEPT ![o] = x]
        PROVE  Abstract!Next
    BY <2>1, <2>3 DEF Abstract!Next, Abstract!Acquire, Abstract!Become, Handle
  <2>4. ASSUME NEW o \in Objs, NEW s \in Objs,
               handle' = [handle EXCEPT ![o] = handle[s], ![s] = handle[o]]
        PROVE  Abstract!Next
    BY <2>1, <2>4 DEF Abstract!Next, Abstract!Exchange, Abstract!Become
  <2> QED
    BY <2>2, <2>3, <2>4, StepHandles
<1> QED
  BY <1>1, <1>2, InitIInv, NextIInv, PTL DEF Spec, WinImplementsOwners, Abstract!Spec

-----------------------------------------------------------------------------
(* No two modules in memory have the same full name: what makes the name   *)
(* GetModuleFileNameW returns enough to find a module again.               *)
NamesInv(l) ==
    \A f, g \in Mapped(l) : l.lname[f] = l.lname[g] => f = g

LEMMA FreedNames ==
    ASSUME NEW l \in LoaderState, NEW h \in Handle, NamesInv(l)
    PROVE  NamesInv(Freed(l, h))
<1>1. CASE h = NoHandle
  BY <1>1 DEF Freed
<1>2. CASE h # NoHandle
  <2>1. h \in Files
    BY <1>2 DEF Handle
  <2>2. ASSUME NEW f \in Mapped(Freed(l, h))
        PROVE  f \in Mapped(l) /\ Freed(l, h).lname[f] = l.lname[f]
    <3>1. f \in Files /\ Freed(l, h).refs[f] > 0
      BY <2>2 DEF Mapped
    <3>2. CASE f = h
      BY <1>2, <2>1, <3>1, <3>2 DEF Freed, LoaderState, Mapped
    <3>3. CASE f # h
      BY <1>2, <2>1, <3>1, <3>3 DEF Freed, LoaderState, Mapped
    <3> QED
      BY <3>2, <3>3
  <2> QED
    BY <2>2 DEF NamesInv
<1> QED
  BY <1>1, <1>2

(* A module that is mapped anew gets a name no other module has: the       *)
(* loader would have answered with that one.                               *)
LEMMA LoadedNames ==
    ASSUME LoaderTypeOK, NEW l \in LoaderState, NEW p \in Path, NEW h \in Files,
           h = LoadLibrary(l, p), NamesInv(l)
    PROVE  NamesInv(Loaded(l, h, p))
<1> DEFINE m == Loaded(l, h, p)
<1>1. h # NoHandle
  BY WindowsLoaderAssumption
<1>2. /\ m.refs = [l.refs EXCEPT ![h] = @ + 1]
      /\ m.lname = IF l.refs[h] = 0 THEN [l.lname EXCEPT ![h] = Meant(p)] ELSE l.lname
  BY <1>1 DEF Loaded
<1> HIDE DEF m
<1>3. \A f \in Files \ {h} : f \in Mapped(m) => f \in Mapped(l)
  BY <1>2 DEF Mapped, LoaderState
<1>4. CASE l.refs[h] # 0
  <2>1. h \in Mapped(m) => h \in Mapped(l)
    BY <1>2, <1>4 DEF Mapped, LoaderState
  <2>2. Mapped(m) \subseteq Mapped(l)
    BY <1>3, <2>1 DEF Mapped
  <2> QED
    BY <1>2, <1>4, <2>2 DEF NamesInv, m
<1>5. CASE l.refs[h] = 0
  <2>1. Namesakes(l, p) = {}
    <3>1. Namesakes(l, p) # {} => h \in Namesakes(l, p)
      BY DEF LoadLibrary
    <3>2. h \notin Mapped(l)
      BY <1>5 DEF Mapped
    <3> QED
      BY <3>1, <3>2 DEF Namesakes
  <2>2. ASSUME NEW f \in Mapped(l) PROVE l.lname[f] # Meant(p)
    BY <2>1, MeantType DEF Namesakes
  <2>3. /\ m.lname[h] = Meant(p)
        /\ \A f \in Files \ {h} : m.lname[f] = l.lname[f]
    BY <1>2, <1>5 DEF LoaderState
  <2>4. ASSUME NEW f \in Mapped(m), NEW g \in Mapped(m), m.lname[f] = m.lname[g]
        PROVE  f = g
    <3>1. f \in Files /\ g \in Files
      BY DEF Mapped
    <3> QED
      BY <1>3, <2>2, <2>3, <2>4, <3>1 DEF NamesInv
  <2> QED
    BY <2>4 DEF NamesInv, m
<1> QED
  BY <1>4, <1>5

(* The outcome of a load leaves the names apart. *)
LEMMA OutcomeNames ==
    ASSUME LoaderTypeOK, NEW l \in LoaderState, NamesInv(l), NEW r, Sound(l, r)
    PROVE  NamesInv(Loaded(l, r.handle, r.path))
<1>1. CASE r.handle = NoHandle
  BY <1>1 DEF Loaded
<1>2. CASE r.handle # NoHandle
  BY <1>2, LoadedNames DEF Sound, Handle
<1> QED
  BY <1>1, <1>2

LEMMA NextNames == IInv /\ NamesInv(ld) /\ [Next]_vars => NamesInv(ld')
<1> SUFFICES ASSUME IInv, NamesInv(ld), [Next]_vars PROVE NamesInv(ld')
  OBVIOUS
<1> USE DEF Path
<1>1. ASSUME NEW o \in Objs, NEW p \in Paths, NEW search \in BOOLEAN,
             NEW decorations \in BOOLEAN, Load(o, p, decorations, search)
      PROVE  NamesInv(ld')
  <2> DEFINE l == Freed(ld, handle[o])
             r == LoadOutcome(l, p, decorations, search)
  <2>1. l \in LoaderState /\ NamesInv(l)
    BY IInvTypes, FreedRefs, FreedNames
  <2>2. Sound(l, r)
    BY IInvTypes, LibraryAssumption, LoadOutcomeSound
  <2>3. ld' = Loaded(l, r.handle, r.path)
    BY <1>1 DEF Load
  <2> HIDE DEF l, r
  <2> QED
    BY <2>1, <2>2, <2>3, IInvTypes, OutcomeNames
<1>2. ASSUME NEW o \in Objs, NEW s \in Objs, Unload(o) \/ AssignNothing(o, s)
      PROVE  NamesInv(ld')
  BY <1>2, IInvTypes, FreedNames DEF Unload, AssignNothing
<1>3. ASSUME NEW o \in Objs, NEW p \in Paths, Adopt(o, p) PROVE NamesInv(ld')
  <2>1. p \in Path /\ LoadLibrary(ld, p) \in Handle
    BY LibraryAssumption, LoadLibraryType
  <2>2. ld' = Loaded(ld, LoadLibrary(ld, p), p)
    BY <1>3 DEF Adopt
  <2>3. CASE LoadLibrary(ld, p) = NoHandle
    BY <2>2, <2>3 DEF Loaded
  <2>4. CASE LoadLibrary(ld, p) # NoHandle
    BY <2>1, <2>2, <2>4, IInvTypes, LoadedNames DEF Handle
  <2> QED
    BY <2>3, <2>4
<1>4. ASSUME NEW o \in Objs, NEW s \in Objs, AssignLoaded(o, s) PROVE NamesInv(ld')
  <2> DEFINE r == LoadOutcome(ld, Location(handle[s]), FALSE, FALSE)
             m == Loaded(ld, r.handle, r.path)
  <2>1. Sound(ld, r)
    <3>1. Location(handle[s]) \in Path
      BY <1>4, LocationType DEF AssignLoaded
    <3> QED
      BY <3>1, IInvTypes, LoadOutcomeSound
  <2>2. ld' = ld \/ ld' = Freed(m, handle[o])
    BY <1>4 DEF AssignLoaded
  <2> HIDE DEF r
  <2>3. NamesInv(m)
    BY <2>1, IInvTypes, OutcomeNames
  <2>4. m \in LoaderState
    BY <2>1, IInvTypes, LoadedRefs DEF Sound
  <2> HIDE DEF m
  <2> QED
    BY <2>2, <2>3, <2>4, IInvTypes, FreedNames
<1>5. ASSUME NEW o \in Objs, NEW s \in Objs, NEW y,
             \/ AssignSame(o, s) \/ MoveConstruct(o, s) \/ MoveAssign(o, s)
             \/ Swap(o, s) \/ Get(o, y)
      PROVE  NamesInv(ld')
  <2>1. ld' = ld
    BY <1>5 DEF AssignSame, MoveConstruct, MoveAssign, Swap, Get, loaderVars
  <2> QED
    BY <2>1
<1>6. ASSUME Environment \/ UNCHANGED vars PROVE NamesInv(ld')
  <2>1. ld' = ld
    BY <1>6 DEF Environment, vars, loaderVars
  <2> QED
    BY <2>1
<1> QED
  BY <1>1, <1>2, <1>3, <1>4, <1>5, <1>6 DEF Next

(* LoadLibraryExW of the name of a module that is mapped finds that module. *)
LEMMA LocationFinds ==
    ASSUME IInv, NamesInv(ld), NEW s \in Objs, IsLoaded(s)
    PROVE  LET copy == LoadOutcome(ld, Location(handle[s]), FALSE, FALSE)
           IN  copy.handle = handle[s] /\ copy.ec = Ok
<1> DEFINE h == handle[s]
           p == Location(h)
<1>1. h \in Mapped(ld)
  <2>1. Mapped(ld) = {f \in Files : \E o \in Objs : handle[o] = f} \cup {Program}
    BY IInvTypes, MappedIsResident
  <2> QED
    BY <2>1, IInvTypes DEF IsLoaded, Handle
<1>2. p \in Path /\ ld.lname[h] \in FullName
  <2>1. ld.lname[h] \in FullName
    BY <1>1, IInvTypes DEF Mapped, LoaderState
  <2> QED
    BY <2>1, LocationType
<1>3. p.dir = ld.lname[h].dir /\ p.name = ld.lname[h].name /\ p.dir \in Dirs
  BY <1>2 DEF Location, FullName
<1>4. Anchored(p, FALSE) = p
  BY <1>3 DEF Anchored
<1> HIDE DEF p
<1>5. PICK q \in Path :
        /\ q.dir = p.dir /\ Completed(q) = p.name
        /\ LoadExact(ld, p, Ok) = Attempt(LoadLibrary(ld, q), q,
               IF LoadLibrary(ld, q) = NoHandle THEN LastError(q) ELSE Ok, TRUE)
  BY <1>2, LoadExactAsks
<1>6. Meant(q) = ld.lname[h]
  <2>1. Meant(q) \in FullName /\ Meant(q).name = p.name
    BY <1>5, IInvTypes, MeantType
  <2>2. q.dir # Bare /\ Absolute(q.dir) = p.dir
    BY <1>3, <1>5, WindowsLoaderAssumption DEF Absolute
  <2>3. Meant(q).dir = p.dir
    BY <2>2, IInvTypes, MeantType
  <2> QED
    BY <1>2, <1>3, <2>1, <2>3 DEF FullName
<1>7. Namesakes(ld, q) = {h}
  <2>1. q.dir # Bare
    BY <1>3, <1>5, WindowsLoaderAssumption
  <2> QED
    BY <1>1, <1>6, <2>1 DEF Namesakes, NamesInv
<1>8. LoadLibrary(ld, q) = h
  BY <1>7 DEF LoadLibrary
<1>9. h # NoHandle
  BY DEF IsLoaded
<1>10. LoadOutcome(ld, p, FALSE, FALSE) = LoadExact(ld, p, Ok)
  BY <1>4 DEF LoadOutcome
<1>11. /\ LoadExact(ld, p, Ok).handle = h
       /\ LoadExact(ld, p, Ok).ec = Ok
  BY <1>5, <1>8, <1>9 DEF Attempt
<1>12. /\ LoadOutcome(ld, p, FALSE, FALSE).handle = h
       /\ LoadOutcome(ld, p, FALSE, FALSE).ec = Ok
  BY <1>10, <1>11
<1> QED
  BY <1>12 DEF p

(* A copy of a loaded object never fails and is equal to its source,       *)
(* wherever the file has been moved and whatever replaced it: the copy     *)
(* loads by the module's name, and the loader answers by that name before  *)
(* it looks at any file.                                                   *)
THEOREM WinCopyIsEqualCorrect == Spec => []WinCopyIsEqual
<1>1. Init => WinCopyIsEqual /\ NamesInv(ld)
  <2> SUFFICES ASSUME Init PROVE WinCopyIsEqual /\ NamesInv(ld)
    OBVIOUS
  <2>1. Mapped(ld) \subseteq {Program}
    BY DEF Init, LoaderInit, Mapped
  <2> QED
    BY <2>1 DEF Init, NoCall, WinCopyIsEqual, NamesInv
<1>2. IInv /\ NamesInv(ld) /\ [Next]_vars => NamesInv(ld)'
  <2> SUFFICES ASSUME IInv, NamesInv(ld), [Next]_vars PROVE NamesInv(ld')
    BY DEF NamesInv, Mapped
  <2> QED
    BY NextNames
<1>3. IInv /\ NamesInv(ld) /\ WinCopyIsEqual /\ [Next]_vars => WinCopyIsEqual'
  <2> SUFFICES ASSUME IInv, NamesInv(ld), WinCopyIsEqual, [Next]_vars
               PROVE  WinCopyIsEqual'
    OBVIOUS
  <2>1. CASE UNCHANGED vars
    BY <2>1 DEF vars, WinCopyIsEqual
  <2>2. ret'.op # "assign" => WinCopyIsEqual'
    BY DEF WinCopyIsEqual
  <2>3. ASSUME NEW o \in Objs, NEW s \in Objs, NEW p, NEW y,
               NEW decorations, NEW search
        PROVE  /\ Load(o, p, decorations, search) => ret'.op # "assign"
               /\ Unload(o) => ret'.op # "assign"
               /\ Adopt(o, p) => ret'.op # "assign"
               /\ MoveConstruct(o, s) => ret'.op # "assign"
               /\ MoveAssign(o, s) => ret'.op # "assign"
               /\ Swap(o, s) => ret'.op # "assign"
               /\ Get(o, y) => ret'.op # "assign"
    <3>1. Silent => ret'.op # "assign"
      BY DEF Silent, NoCall
    <3>2. Load(o, p, decorations, search) => ret'.op # "assign"
      BY DEF Load, Returned
    <3>3. Get(o, y) => ret'.op # "assign"
      BY DEF Get, Returned
    <3> QED
      BY <3>1, <3>2, <3>3 DEF Unload, Adopt, MoveConstruct, MoveAssign, Swap
  <2>4. Environment => ret'.op # "assign"
    BY DEF Environment, Silent, NoCall
  <2>5. ASSUME NEW o \in Objs, NEW s \in Objs,
               Returned("assign", o, s, Ok), handle'[o] = handle'[s]
        PROVE  WinCopyIsEqual'
    BY <2>5 DEF Returned, WinCopyIsEqual
  <2>6. ASSUME NEW o \in Objs, NEW s \in Objs, AssignSame(o, s) PROVE WinCopyIsEqual'
    BY <2>5, <2>6 DEF AssignSame
  <2>7. ASSUME NEW o \in Objs, NEW s \in Objs, AssignNothing(o, s)
        PROVE  WinCopyIsEqual'
    <3>1. handle'[o] = handle'[s]
      BY <2>7, IInvTypes DEF AssignNothing, IsLoaded
    <3> QED
      BY <2>5, <2>7, <3>1 DEF AssignNothing
  <2>8. ASSUME NEW o \in Objs, NEW s \in Objs, AssignLoaded(o, s)
        PROVE  WinCopyIsEqual'
    <3> DEFINE copy == LoadOutcome(ld, Location(handle[s]), FALSE, FALSE)
    <3>1. copy.handle = handle[s] /\ copy.ec = Ok
      BY <2>8, LocationFinds DEF AssignLoaded
    <3>2. /\ handle' = [handle EXCEPT ![o] = copy.handle]
          /\ Returned("assign", o, s, copy.ec)
      BY <2>8, <3>1 DEF AssignLoaded
    <3> HIDE DEF copy
    <3>3. handle'[o] = handle'[s]
      BY <3>1, <3>2, IInvTypes
    <3> QED
      BY <2>5, <3>1, <3>2, <3>3
  <2> QED
    BY <2>1, <2>2, <2>3, <2>4, <2>6, <2>7, <2>8 DEF Next
<1> QED
  BY <1>1, <1>2, <1>3, InitIInv, NextIInv, PTL DEF Spec

-----------------------------------------------------------------------------
(* LoadLibraryExW returns a module that has the completed name, or the     *)
(* file that has it somewhere in the search.                               *)
LEMMA LoadedByName ==
    ASSUME LoaderTypeOK, NEW l \in LoaderState, NEW q \in Path, NEW h,
           h = LoadLibrary(l, q), h # NoHandle
    PROVE  \/ Loaded(l, h, q).lname[h].name = Completed(q)
           \/ \E d \in Dirs : fs[d][Completed(q)] = h
<1>1. CASE Namesakes(l, q) # {}
  <2>1. h \in Namesakes(l, q)
    BY <1>1 DEF LoadLibrary
  <2>2. l.refs[h] > 0 /\ h \in Files /\ l.refs[h] \in Int
    BY <2>1 DEF Namesakes, Mapped, LoaderState
  <2>3. Loaded(l, h, q).lname = l.lname
    BY <2>2 DEF Loaded
  <2>4. l.lname[h].name = Completed(q)
    BY <2>1, MeantType DEF Namesakes
  <2> QED
    BY <2>3, <2>4
<1>2. CASE Namesakes(l, q) = {}
  <2>1. h = fs[Meant(q).dir][Meant(q).name]
    BY <1>2 DEF LoadLibrary, Found
  <2>2. Meant(q).dir \in Dirs /\ Meant(q).name = Completed(q)
    BY MeantType DEF FullName
  <2> QED
    BY <2>1, <2>2
<1> QED
  BY <1>1, <1>2

(* In every state, a load without decorations opens a file of exactly the  *)
(* name it was given: ".dll" is never appended, with or without a path,    *)
(* with or without the search of system folders.                           *)
THEOREM ExactMeansExactCorrect == Spec => []ExactMeansExact
<1>1. IInv => ExactMeansExact
  <2> SUFFICES ASSUME IInv, NEW o \in Objs, NEW p \in Paths, NEW search \in BOOLEAN,
                      Loading(o, p, FALSE, search).handle # NoHandle
               PROVE  LET r == Loading(o, p, FALSE, search)
                      IN  \/ Loaded(Freed(ld, handle[o]), r.handle, r.path)
                               .lname[r.handle].name = p.name
                          \/ \E d \in Dirs : fs[d][p.name] = r.handle
    BY DEF ExactMeansExact
  <2> DEFINE l  == Freed(ld, handle[o])
             sl == Anchored(p, search)
             r  == Loading(o, p, FALSE, search)
  <2>1. p \in Path
    BY LibraryAssumption DEF Path
  <2>2. sl \in Path /\ sl.name = p.name
    BY <2>1, IInvTypes, AttemptPaths
  <2>3. r = LoadExact(l, sl, Ok)
    BY DEF Loading, LoadOutcome
  <2>4. l \in LoaderState /\ handle[o] \in Handle
    BY IInvTypes, FreedRefs
  <2>5. r.handle # NoHandle
    OBVIOUS
  <2> HIDE DEF sl, l, r
  <2>6. PICK q \in Path :
          /\ Completed(q) = sl.name
          /\ LoadExact(l, sl, Ok) = Attempt(LoadLibrary(l, q), q,
                  IF LoadLibrary(l, q) = NoHandle THEN LastError(q) ELSE Ok, TRUE)
    BY <2>2, LoadExactAsks
  <2>7. r.handle = LoadLibrary(l, q) /\ r.path = q
    BY <2>3, <2>6 DEF Attempt
  <2>8. \/ Loaded(l, LoadLibrary(l, q), q).lname[LoadLibrary(l, q)].name = p.name
        \/ \E d \in Dirs : fs[d][p.name] = LoadLibrary(l, q)
    <3>1. LoadLibrary(l, q) # NoHandle /\ Completed(q) = p.name
      BY <2>2, <2>5, <2>6, <2>7
    <3>2. LoaderTypeOK
      BY IInvTypes
    <3> QED
      BY <2>4, <3>1, <3>2, LoadedByName
  <2> QED
    BY <2>7, <2>8 DEF r, l
<1> QED
  BY <1>1, InitIInv, NextIInv, PTL DEF Spec

-----------------------------------------------------------------------------
(* A path with a directory and a name that needs no completion means the   *)
(* one file of that name.                                                  *)
LEMMA FoundHere ==
    ASSUME LoaderTypeOK, NEW q \in Path, q.dir \in Dirs
    PROVE  Found(q) = fs[q.dir][Completed(q)]
<1>1. q.dir # Bare /\ Absolute(q.dir) = q.dir
  BY WindowsLoaderAssumption DEF Absolute
<1>2. Meant(q).dir = q.dir /\ Meant(q).name = Completed(q)
  BY <1>1, MeantType
<1> QED
  BY <1>2 DEF Found

(* An attempt is followed by another one only if no file has the name, and *)
(* one that ends a load without a handle was for a file that exists.       *)
LEMMA LoadImplFinds ==
    ASSUME LoaderTypeOK, NEW l, NEW q \in Path, q.dir \in Dirs, q.name \in Extended
    PROVE  LET r == LoadImpl(l, q)
           IN  /\ r.path = q
               /\ ~r.last => Found(q) = NoFile
               /\ r.last /\ r.handle = NoHandle
                    => r.ec = LastError(q) /\ Found(q) # NoFile
<1>1. FileAt(q) = Found(q)
  BY FoundHere DEF FileAt, Absolute, Completed
<1> QED
  BY <1>1 DEF LoadImpl, Attempt

(* In every state: the first of the names that a file has decides how a    *)
(* load that does not search system folders ends, and its error is for it. *)
THEOREM FirstThereDecidesCorrect == Spec => []FirstThereDecides
<1>1. IInv => FirstThereDecides
  <2> SUFFICES ASSUME IInv, NEW o \in Objs, NEW p \in Paths, NEW decorations \in BOOLEAN
               PROVE  LET r     == Loading(o, p, decorations, FALSE)
                          names == Tried(Anchored(p, FALSE), decorations)
                      IN  \E k \in DOMAIN names :
                            /\ r.path = names[k]
                            /\ \A j \in 1 .. k - 1 : Found(names[j]) = NoFile
                            /\ r.handle = NoHandle =>
                                 /\ r.ec = LastError(names[k])
                                 /\ Found(names[k]) # NoFile \/ k = Len(names)
    BY DEF FirstThereDecides
  <2> DEFINE l         == Freed(ld, handle[o])
             sl        == Anchored(p, FALSE)
             first     == Decorate(sl)
             second    == MinGW(sl)
             exact     == WithDot(sl)
             decorated == LoadImpl(l, first)
             mingw     == LoadImpl(l, second)
             r         == Loading(o, p, decorations, FALSE)
  <2>1. p \in Path
    BY LibraryAssumption DEF Path
  <2>2. /\ first \in Path /\ first.dir = sl.dir /\ first.name \in Extended
        /\ second \in Path /\ second.dir = sl.dir /\ second.name \in Extended
    BY <2>1, IInvTypes, AttemptPaths
  <2>3. sl.dir \in Dirs
    BY <2>1, IInvTypes DEF Anchored, Path, LoaderTypeOK
  <2>4. r = IF ~decorations THEN LoadExact(l, sl, Ok)
            ELSE IF decorated.last THEN decorated
            ELSE IF mingw.last THEN mingw
            ELSE LoadExact(l, sl, mingw.ec)
    BY DEF Loading, LoadOutcome
  <2>5. ASSUME NEW ec
        PROVE  /\ LoadExact(l, sl, ec).path = exact
               /\ LoadExact(l, sl, ec).handle = NoHandle
                    => LoadExact(l, sl, ec).ec = LastError(exact)
    BY DEF LoadExact, Attempt
  <2>6. Tried(sl, decorations) = IF decorations THEN <<first, second, exact>>
                                 ELSE <<exact>>
    BY DEF Tried
  <2> HIDE DEF sl, l, first, second, exact
  <2>7. /\ decorated.path = first
        /\ ~decorated.last => Found(first) = NoFile
        /\ decorated.last /\ decorated.handle = NoHandle
             => decorated.ec = LastError(first) /\ Found(first) # NoFile
    BY <2>2, <2>3, IInvTypes, LoadImplFinds
  <2>8. /\ mingw.path = second
        /\ ~mingw.last => Found(second) = NoFile
        /\ mingw.last /\ mingw.handle = NoHandle
             => mingw.ec = LastError(second) /\ Found(second) # NoFile
    BY <2>2, <2>3, IInvTypes, LoadImplFinds
  <2> HIDE DEF r, decorated, mingw
  <2> DEFINE Decides(names, k) ==
               /\ r.path = names[k]
               /\ \A j \in 1 .. k - 1 : Found(names[j]) = NoFile
               /\ r.handle = NoHandle =>
                    /\ r.ec = LastError(names[k])
                    /\ Found(names[k]) # NoFile \/ k = Len(names)
             all == <<first, second, exact>>
  <2>9. CASE ~decorations
    <3>1. Decides(<<exact>>, 1)
      BY <2>4, <2>5, <2>9
    <3>2. Tried(sl, decorations) = <<exact>> /\ 1 \in DOMAIN <<exact>>
      BY <2>6, <2>9
    <3> QED
      BY <3>1, <3>2 DEF sl, r
  <2>10. CASE decorations /\ decorated.last
    <3>1. Decides(all, 1)
      BY <2>4, <2>7, <2>10
    <3>2. Tried(sl, decorations) = all /\ 1 \in DOMAIN all
      BY <2>6, <2>10
    <3> QED
      BY <3>1, <3>2 DEF sl, r
  <2>11. CASE decorations /\ ~decorated.last /\ mingw.last
    <3>1. Decides(all, 2)
      BY <2>4, <2>7, <2>8, <2>11
    <3>2. Tried(sl, decorations) = all /\ 2 \in DOMAIN all
      BY <2>6, <2>11
    <3> QED
      BY <3>1, <3>2 DEF sl, r
  <2>12. CASE decorations /\ ~decorated.last /\ ~mingw.last
    <3>1. Decides(all, 3)
      BY <2>4, <2>5, <2>7, <2>8, <2>12
    <3>2. Tried(sl, decorations) = all /\ 3 \in DOMAIN all
      BY <2>6, <2>12
    <3> QED
      BY <3>1, <3>2 DEF sl, r
  <2> QED
    BY <2>9, <2>10, <2>11, <2>12
<1> QED
  BY <1>1, InitIInv, NextIInv, PTL DEF Spec
=============================================================================
