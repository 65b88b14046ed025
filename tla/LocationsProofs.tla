--------------------------- MODULE LocationsProofs ---------------------------
(***************************************************************************)
(* Locations on every platform, for any images, any number of loads and    *)
(* unloads by other threads and any state a call finds the loader in.      *)
(***************************************************************************)
EXTENDS Locations, FiniteSetTheorems, SequenceTheorems, TLAPS

Things == Images \cup {NoImage, Nowhere}
Ops == {"none", "library", "symbol", "program"}
Scans == {"name", "open", "close"}
Pcs == {"done", "handle", "address", "program", "ask"} \cup Scans

CallType == [op : Ops, of : Things, pc : Pcs, count : Nat, i : Nat,
             name : Images \cup {NoImage}, probe : Images \cup {NoImage},
             size : Nat, path : Things, length : Nat, ec : Errors \cup {Ok}]

Is(b) == IF b THEN 1 ELSE 0

-----------------------------------------------------------------------------
(* dyld's list has every image in memory once, the executable in front.    *)
Once(s) == \A i, j \in 1 .. Len(s) : s[i] = s[j] => i = j

Listed ==
    /\ images \in Seq(Images) /\ Once(images)
    /\ ToSet(images) = Mapped
    /\ Len(images) > 0 /\ images[1] = Program

(* Of a sequence without repetitions: its length is the number of its      *)
(* elements.                                                               *)
LEMMA OnceCount ==
    ASSUME NEW S, NEW s \in Seq(S), Once(s)
    PROVE  Len(s) = Cardinality(ToSet(s))
<1>1. /\ Len(s) \in Nat /\ DOMAIN s = 1 .. Len(s) /\ s \in [1 .. Len(s) -> S]
  BY LenProperties
<1>2. s \in Bijection(1 .. Len(s), ToSet(s))
  BY <1>1 DEF Once, ToSet, Bijection, Injection, Surjection, IsInjective
<1> QED
  BY <1>1, <1>2, FS_CountingElements DEF ExistsBijection

(* An element that is not in it can be appended.                           *)
LEMMA OnceAppend ==
    ASSUME NEW S, NEW s \in Seq(S), Once(s), NEW x \in S, x \notin ToSet(s)
    PROVE  /\ Append(s, x) \in Seq(S) /\ Len(Append(s, x)) = Len(s) + 1
           /\ Once(Append(s, x))
           /\ ToSet(Append(s, x)) = ToSet(s) \cup {x}
           /\ \A p \in 1 .. Len(s) : Append(s, x)[p] = s[p]
<1>1. PICK t : t = Append(s, x)
  OBVIOUS
<1>2. /\ Len(s) \in Nat /\ DOMAIN s = 1 .. Len(s)
      /\ t \in Seq(S) /\ Len(t) = Len(s) + 1
      /\ \A p \in 1 .. Len(s) : t[p] = s[p]
      /\ t[Len(s) + 1] = x
  BY <1>1, AppendProperties, LenProperties
<1>3. DOMAIN t = 1 .. Len(s) + 1
  BY <1>2, LenProperties
<1>4. \A p \in 1 .. Len(s) : t[p] # x
  BY <1>2 DEF ToSet
<1>5. ASSUME NEW i \in 1 .. Len(t), NEW j \in 1 .. Len(t), t[i] = t[j]
      PROVE  i = j
  <2>1. CASE i = Len(s) + 1
    BY <1>2, <1>4, <1>5, <2>1
  <2>2. CASE j = Len(s) + 1
    BY <1>2, <1>4, <1>5, <2>2
  <2>3. CASE i \in 1 .. Len(s) /\ j \in 1 .. Len(s)
    <3>1. s[i] = s[j]
      BY <1>2, <1>5, <2>3
    <3> QED
      BY <2>3, <3>1 DEF Once
  <2> QED
    BY <1>2, <2>1, <2>2, <2>3
<1>6. ToSet(t) = ToSet(s) \cup {x}
  <2>1. ASSUME NEW p \in 1 .. Len(s) + 1 PROVE t[p] \in ToSet(s) \cup {x}
    BY <1>2 DEF ToSet
  <2>2. \A p \in 1 .. Len(s) : s[p] \in ToSet(t)
    BY <1>2, <1>3 DEF ToSet
  <2>3. x \in ToSet(t)
    <3>1. Len(s) + 1 \in DOMAIN t
      BY <1>2, <1>3
    <3> QED
      BY <1>2, <3>1 DEF ToSet
  <2> QED
    BY <1>2, <1>3, <2>1, <2>2, <2>3 DEF ToSet
<1> QED
  BY <1>1, <1>2, <1>5, <1>6 DEF Once

(* An element can be taken out of a sequence.                              *)
LEMMA RemoveAtProperties ==
    ASSUME NEW S, NEW s \in Seq(S), NEW k \in 1 .. Len(s)
    PROVE  /\ RemoveAt(s, k) \in Seq(S) /\ Len(RemoveAt(s, k)) = Len(s) - 1
           /\ \A i \in 1 .. k - 1 : RemoveAt(s, k)[i] = s[i]
           /\ \A i \in k .. Len(s) - 1 : RemoveAt(s, k)[i] = s[i + 1]
<1>1. /\ Len(s) \in Nat /\ \A i \in 1 .. Len(s) : s[i] \in S
  BY LenProperties
<1>2. PICK front : front = SubSeq(s, 1, k - 1)
  OBVIOUS
<1>3. PICK back : back = SubSeq(s, k + 1, Len(s))
  OBVIOUS
<1>4. /\ front \in Seq(S) /\ Len(front) = k - 1
      /\ \A i \in 1 .. k - 1 : front[i] = s[i]
  <2>1. \A i \in 1 .. k - 1 : s[i] \in S
    BY <1>1
  <2>2. /\ front \in Seq(S) /\ Len(front) = IF 1 <= k - 1 THEN k - 1 - 1 + 1 ELSE 0
        /\ \A i \in 1 .. k - 1 - 1 + 1 : front[i] = s[1 + i - 1]
    BY <1>1, <1>2, <2>1, SubSeqProperties
  <2>3. ASSUME NEW i \in 1 .. k - 1 PROVE front[i] = s[i]
    <3>1. i \in 1 .. k - 1 - 1 + 1 /\ 1 + i - 1 = i
      BY <1>1
    <3> QED
      BY <2>2, <3>1
  <2> QED
    BY <1>1, <2>2, <2>3
<1>5. /\ back \in Seq(S) /\ Len(back) = Len(s) - k
      /\ \A i \in 1 .. Len(s) - k : back[i] = s[i + k]
  <2>1. \A i \in k + 1 .. Len(s) : s[i] \in S
    BY <1>1
  <2>2. /\ back \in Seq(S)
        /\ Len(back) = IF k + 1 <= Len(s) THEN Len(s) - (k + 1) + 1 ELSE 0
        /\ \A i \in 1 .. Len(s) - (k + 1) + 1 : back[i] = s[(k + 1) + i - 1]
    BY <1>1, <1>3, <2>1, SubSeqProperties
  <2>3. ASSUME NEW i \in 1 .. Len(s) - k PROVE back[i] = s[i + k]
    <3>1. i \in 1 .. Len(s) - (k + 1) + 1 /\ (k + 1) + i - 1 = i + k
      BY <1>1
    <3> QED
      BY <2>2, <3>1
  <2> QED
    BY <1>1, <2>2, <2>3
<1>6. PICK t : t = front \o back
  OBVIOUS
<1>7. /\ t \in Seq(S) /\ Len(t) = Len(front) + Len(back)
      /\ \A i \in 1 .. Len(front) + Len(back) : t[i] =
            IF i <= Len(front) THEN front[i] ELSE back[i - Len(front)]
  BY <1>4, <1>5, <1>6, ConcatProperties
<1>8. Len(front) + Len(back) = Len(s) - 1
  BY <1>1, <1>4, <1>5
<1>9. ASSUME NEW i \in 1 .. k - 1 PROVE t[i] = s[i]
  <2>1. i \in 1 .. Len(s) - 1 /\ i <= k - 1
    BY <1>1
  <2> QED
    BY <1>4, <1>7, <1>8, <2>1
<1>10. ASSUME NEW i \in k .. Len(s) - 1 PROVE t[i] = s[i + 1]
  <2>1. /\ i \in 1 .. Len(s) - 1 /\ ~(i <= k - 1)
        /\ i - (k - 1) \in 1 .. Len(s) - k /\ i - (k - 1) + k = i + 1
    BY <1>1
  <2>2. t[i] = back[i - (k - 1)]
    BY <1>4, <1>7, <1>8, <2>1
  <2>3. back[i - (k - 1)] = s[i - (k - 1) + k]
    BY <1>5, <2>1
  <2> QED
    BY <2>1, <2>2, <2>3
<1> QED
  BY <1>2, <1>3, <1>6, <1>7, <1>8, <1>9, <1>10 DEF RemoveAt

(* Without repetitions, it is then no longer there, and all others are.    *)
LEMMA OnceRemove ==
    ASSUME NEW S, NEW s \in Seq(S), Once(s), NEW k \in 1 .. Len(s)
    PROVE  /\ Once(RemoveAt(s, k))
           /\ ToSet(RemoveAt(s, k)) = ToSet(s) \ {s[k]}
<1>1. PICK t : t = RemoveAt(s, k)
  OBVIOUS
<1>2. /\ t \in Seq(S) /\ Len(t) = Len(s) - 1
      /\ \A i \in 1 .. k - 1 : t[i] = s[i]
      /\ \A i \in k .. Len(s) - 1 : t[i] = s[i + 1]
  BY <1>1, RemoveAtProperties
<1>3. /\ Len(s) \in Nat /\ DOMAIN s = 1 .. Len(s) /\ DOMAIN t = 1 .. Len(s) - 1
  BY <1>2, LenProperties
<1>4. ASSUME NEW i \in 1 .. Len(s) - 1
      PROVE  \E p \in 1 .. Len(s) :
                p = (IF i < k THEN i ELSE i + 1) /\ t[i] = s[p] /\ p # k
  <2>1. CASE i < k
    <3>1. i \in 1 .. k - 1 /\ i \in 1 .. Len(s) /\ i # k
      BY <1>3, <2>1
    <3> QED
      BY <1>2, <2>1, <3>1
  <2>2. CASE ~(i < k)
    <3>1. i \in k .. Len(s) - 1 /\ i + 1 \in 1 .. Len(s) /\ i + 1 # k
      BY <1>3, <2>2
    <3> QED
      BY <1>2, <2>2, <3>1
  <2> QED
    BY <2>1, <2>2
<1>5. ASSUME NEW i \in 1 .. Len(t), NEW j \in 1 .. Len(t), t[i] = t[j]
      PROVE  i = j
  <2>1. i \in 1 .. Len(s) - 1 /\ j \in 1 .. Len(s) - 1
    BY <1>2
  <2>2. PICK p \in 1 .. Len(s) : p = (IF i < k THEN i ELSE i + 1) /\ t[i] = s[p]
    BY <1>4, <2>1
  <2>3. PICK q \in 1 .. Len(s) : q = (IF j < k THEN j ELSE j + 1) /\ t[j] = s[q]
    BY <1>4, <2>1
  <2>4. p = q
    BY <1>5, <2>2, <2>3 DEF Once
  <2> QED
    BY <1>3, <2>1, <2>2, <2>3, <2>4
<1>6. ASSUME NEW i \in 1 .. Len(s) - 1 PROVE t[i] \in ToSet(s) \ {s[k]}
  <2>1. PICK p \in 1 .. Len(s) : t[i] = s[p] /\ p # k
    BY <1>4
  <2> QED
    BY <1>3, <2>1 DEF Once, ToSet
<1>7. ASSUME NEW p \in 1 .. Len(s), s[p] # s[k] PROVE s[p] \in ToSet(t)
  <2>1. CASE p < k
    <3>1. p \in 1 .. k - 1 /\ p \in 1 .. Len(s) - 1
      BY <1>3, <2>1
    <3> QED
      BY <1>2, <1>3, <3>1 DEF ToSet
  <2>2. CASE p > k
    <3>1. p - 1 \in k .. Len(s) - 1 /\ p - 1 \in 1 .. Len(s) - 1 /\ p - 1 + 1 = p
      BY <1>3, <2>2
    <3>2. t[p - 1] = s[p]
      BY <1>2, <3>1
    <3> QED
      BY <1>3, <3>1, <3>2 DEF ToSet
  <2> QED
    BY <1>3, <1>7, <2>1, <2>2
<1>8. ToSet(t) = ToSet(s) \ {s[k]}
  BY <1>3, <1>6, <1>7 DEF ToSet
<1> QED
  BY <1>1, <1>5, <1>8 DEF Once

-----------------------------------------------------------------------------
(* dlopen adds an image at the end, or none.                               *)
LEMMA DlopenList ==
    ASSUME Listed, refs \in [Images -> Nat], NEW x \in Images, Dlopen(x)
    PROVE  /\ Listed' /\ refs' \in [Images -> Nat]
           /\ \A y \in Images : refs'[y] = refs[y] + Is(y = x)
           /\ Len(images') >= Len(images)
           /\ \A p \in 1 .. Len(images) : images'[p] = images[p]
<1>1. Len(images) \in Nat /\ images \in Seq(Images)
  BY LenProperties DEF Listed
<1>2. /\ refs' \in [Images -> Nat]
      /\ \A y \in Images : refs'[y] = refs[y] + Is(y = x)
  BY DEF Dlopen, Is
<1>3. CASE refs[x] = 0
  <2>1. images' = Append(images, x)
    BY <1>3 DEF Dlopen
  <2>2. x \notin ToSet(images)
    BY <1>3 DEF Listed, Mapped
  <2>3. /\ images' \in Seq(Images) /\ Len(images') = Len(images) + 1
        /\ Once(images')
        /\ ToSet(images') = ToSet(images) \cup {x}
        /\ \A p \in 1 .. Len(images) : images'[p] = images[p]
    BY <1>1, <2>1, <2>2, OnceAppend DEF Listed
  <2>4. Mapped' = Mapped \cup {x}
    BY <1>2, <1>3 DEF Mapped, Is
  <2>5. Len(images') > 0 /\ images'[1] = Program
    BY <1>1, <2>3 DEF Listed
  <2>6. Listed'
    BY <2>3, <2>4, <2>5 DEF Listed, Once
  <2> QED
    BY <1>1, <1>2, <2>3, <2>6
<1>4. CASE refs[x] # 0
  <2>1. images' = images
    BY <1>4 DEF Dlopen
  <2>2. Mapped' = Mapped
    BY <1>2, <1>4 DEF Mapped, Is
  <2>3. Listed'
    BY <2>1, <2>2 DEF Listed, Once
  <2> QED
    BY <1>1, <1>2, <2>1, <2>3
<1> QED
  BY <1>3, <1>4

(* dlclose takes an image out of it, or none.                              *)
LEMMA DlcloseList ==
    ASSUME Listed, refs \in [Images -> Nat], gone \in BOOLEAN, NEW x \in Images,
           refs[x] > Is(x = Program), Dlclose(x)
    PROVE  /\ Listed' /\ refs' \in [Images -> Nat] /\ gone' \in BOOLEAN
           /\ \A y \in Images : refs'[y] = refs[y] - Is(y = x)
           /\ (~gone') => (~gone /\ images' = images)
<1>1. /\ Len(images) \in Nat /\ images \in Seq(Images) /\ DOMAIN images = 1 .. Len(images)
  BY LenProperties DEF Listed
<1>2. /\ refs' \in [Images -> Nat]
      /\ \A y \in Images : refs'[y] = refs[y] - Is(y = x)
  BY DEF Dlclose, Is
<1>3. CASE refs[x] = 1
  <2>1. x # Program
    BY <1>3 DEF Is
  <2>2. PICK k : k = Position(x)
    OBVIOUS
  <2>3. images' = RemoveAt(images, k) /\ gone'
    BY <1>3, <2>2 DEF Dlclose
  <2>4. k \in 1 .. Len(images) /\ images[k] = x
    <3>1. x \in ToSet(images)
      BY <1>3 DEF Listed, Mapped
    <3>2. \E i \in DOMAIN images : images[i] = x
      BY <1>1, <3>1 DEF ToSet
    <3> QED
      BY <1>1, <2>2, <3>2 DEF Position
  <2>5. k # 1
    BY <2>1, <2>4 DEF Listed
  <2>6. /\ images' \in Seq(Images) /\ Len(images') = Len(images) - 1
        /\ \A i \in 1 .. k - 1 : images'[i] = images[i]
    BY <1>1, <2>3, <2>4, RemoveAtProperties
  <2>7. /\ Once(images')
        /\ ToSet(images') = ToSet(images) \ {x}
    BY <1>1, <2>3, <2>4, OnceRemove DEF Listed
  <2>8. Mapped' = Mapped \ {x}
    BY <1>2, <1>3 DEF Mapped, Is
  <2>9. Len(images') > 0 /\ images'[1] = Program
    BY <1>1, <2>4, <2>5, <2>6 DEF Listed
  <2>10. Listed'
    BY <2>6, <2>7, <2>8, <2>9 DEF Listed, Once
  <2>11. gone' = TRUE
    BY <1>3 DEF Dlclose
  <2> QED
    BY <1>2, <2>10, <2>11
<1>4. CASE refs[x] # 1
  <2>1. images' = images /\ gone' = gone
    BY <1>4 DEF Dlclose
  <2>2. Mapped' = Mapped
    BY <1>2, <1>4 DEF Mapped, Is
  <2>3. Listed'
    BY <2>1, <2>2 DEF Listed, Once
  <2> QED
    BY <1>2, <2>1, <2>3
<1> QED
  BY <1>3, <1>4

-----------------------------------------------------------------------------
(* The inductive invariant.                                                *)

Types ==
    /\ host \in Hosts
    /\ lib \in host.libs \cup {NoImage}
    /\ refs \in [Images -> Nat]
    /\ held \subseteq Images
    /\ call \in CallType
    /\ lasterr \in Errors \cup {Ok}
    /\ dlerr \in BOOLEAN /\ gone \in BOOLEAN

(* Every reference of the loader is the process's own, the caller's, of    *)
(* another thread or of the probe of path_from_handle.                     *)
Counted == \A x \in Images :
    refs[x] = Is(x = Program) + Is(x = lib) + Is(x \in held) + Is(x = call.probe)

(* What is known at each step of a call: which handles reach it, that only *)
(* the scan of macOS has a probe and error texts.                          *)
Under ==
    /\ call.probe # NoImage => call.pc = "close"
    /\ dlerr => call.pc \in Scans
    /\ call.op = "library" => call.of \in {lib, NoImage}
    /\ call.pc \in {"handle", "ask"} \cup Scans =>
          host.platform = "windows" \/ (call.op = "library" /\ call.of # NoImage)
    /\ call.pc \in {"handle", "address", "program"} => call.i = 0
    /\ call.pc = "address" => call.op = "symbol"
    /\ call.pc = "program" => call.of = Program
    /\ call.pc \in Scans => host.platform = "macos"

(* The scan for the executable ends with the first image of the list; a    *)
(* probe is the image that was named.                                      *)
FirstIsProgram ==
    call.pc \in Scans /\ call.of = Program =>
       /\ call.i = 0
       /\ call.pc # "name" => call.name = Program
       /\ call.pc = "close" => call.probe = Program

Probed ==
    call.pc = "close" /\ call.probe # NoImage =>
       call.probe = IF call.name = NoImage THEN Program ELSE call.name

(* As long as no image leaves memory, what is asked for is ahead.          *)
Scanning ==
    call.pc \in Scans /\ ~gone =>
      \E p \in 1 .. Len(images) :
        /\ images[p] = call.of /\ call.i < p /\ p <= call.count
        /\ call.pc # "name" => call.name = images[call.i + 1]
        /\ call.pc = "close" => call.probe = call.name

Scan == FirstIsProgram /\ Probed /\ Scanning

IInv == Types /\ Listed /\ Counted /\ Under /\ Scan

(* What follows from it: the caller's library and the executable are in    *)
(* memory, and what is asked of a handle is the caller's library.          *)
LEMMA InMemory ==
    ASSUME IInv
    PROVE  /\ host.platform \in Platforms /\ host.libs \subseteq Images
           /\ lib \in Images \cup {NoImage}
           /\ Program \in Mapped /\ Program \in Images
           /\ lib # NoImage => lib \in Mapped
           /\ call.pc \in {"handle", "ask"} \cup Scans /\ host.platform # "windows"
                => call.op = "library" /\ call.of = lib /\ call.of \in Mapped
                   /\ call.of \in Images
           /\ \A x \in Images : Length[x] \in Nat /\ Length[x] > 0
           /\ NoImage \notin Images /\ Nowhere \notin Images
<1>1. host.platform \in Platforms /\ host.libs \subseteq Images
  BY HostsAssumption DEF IInv, Types
<1>2. lib \in Images \cup {NoImage}
  BY <1>1 DEF IInv, Types
<1>3. /\ Program \in Images /\ NoImage \notin Images /\ Nowhere \notin Images
      /\ \A x \in Images : Length[x] \in Nat /\ Length[x] > 0
  BY LocationsAssumption
<1>4. \A x \in Images : x = Program \/ x = lib => refs[x] > 0
  BY DEF IInv, Counted, Is
<1>5. Program \in Mapped /\ (lib # NoImage => lib \in Mapped)
  BY <1>2, <1>3, <1>4 DEF Mapped
<1>6. ASSUME call.pc \in {"handle", "ask"} \cup Scans, host.platform # "windows"
      PROVE  call.op = "library" /\ call.of = lib /\ call.of # NoImage
  BY <1>6 DEF IInv, Under
<1> QED
  BY <1>1, <1>2, <1>3, <1>5, <1>6

LEMMA InitInv ==
    ASSUME Init
    PROVE  IInv
<1>1. /\ Program \in Images /\ NoImage \notin Images /\ Nowhere \notin Images
  BY LocationsAssumption
<1>2. host.lasterr \in Errors \cup {Ok}
  BY HostsAssumption DEF Init
<1>3. NoCall \in CallType
  BY DEF NoCall, CallType, Ops, Pcs, Things
<1>4. Types
  BY <1>1, <1>2, <1>3 DEF Init, Types
<1>5. Listed
  <2>1. Mapped = {Program}
    BY <1>1 DEF Init, Mapped
  <2>2. /\ images = <<Program>> /\ Len(images) = 1 /\ images[1] = Program
        /\ DOMAIN images = {1}
    BY DEF Init
  <2>3. images \in Seq(Images)
    BY <1>1, <2>2
  <2>4. ToSet(images) = {Program}
    BY <2>2 DEF ToSet
  <2>5. Once(images)
    BY <2>2 DEF Once
  <2> QED
    BY <2>1, <2>2, <2>3, <2>4, <2>5 DEF Listed
<1>6. Counted
  BY <1>1 DEF Init, Counted, Is, NoCall
<1>7. Under /\ Scan
  BY DEF Init, Under, Scan, FirstIsProgram, Probed, Scanning, NoCall, Scans
<1> QED
  BY <1>4, <1>5, <1>6, <1>7 DEF IInv

-----------------------------------------------------------------------------
(* Loads and unloads.                                                      *)

LEMMA LoadStep ==
    ASSUME IInv, NEW x \in host.libs, LoadLibrary(x)
    PROVE  IInv'
<1>1. /\ x \in Images /\ NoImage \notin Images /\ lib = NoImage /\ lib' = x
      /\ call' = call /\ call.pc = "done" /\ host' = host /\ held' = held
      /\ lasterr' = lasterr /\ dlerr' = dlerr /\ gone' = gone
  BY InMemory DEF LoadLibrary
<1>2. /\ Listed' /\ refs' \in [Images -> Nat]
      /\ \A y \in Images : refs'[y] = refs[y] + Is(y = x)
  <2>1. Dlopen(x)
    BY DEF LoadLibrary
  <2> QED
    BY <1>1, <2>1, DlopenList DEF IInv, Types
<1>3. Types'
  BY <1>1, <1>2 DEF IInv, Types
<1>4. Counted'
  <2> SUFFICES ASSUME NEW y \in Images
               PROVE  refs'[y] = Is(y = Program) + Is(y = x) + Is(y \in held)
                                 + Is(y = call.probe)
    BY <1>1 DEF Counted
  <2>1. refs[y] = Is(y = Program) + Is(y = lib) + Is(y \in held) + Is(y = call.probe)
    BY DEF IInv, Counted
  <2>2. refs'[y] = refs[y] + Is(y = x)
    BY <1>2
  <2>3. y # lib
    BY <1>1
  <2> QED
    BY <2>1, <2>2, <2>3 DEF Is
<1>5. Under'
  BY <1>1 DEF IInv, Under, Scans
<1>6. Scan'
  BY <1>1 DEF IInv, Scan, FirstIsProgram, Probed, Scanning, Scans
<1> QED
  BY <1>2, <1>3, <1>4, <1>5, <1>6 DEF IInv

(* Whatever another thread does to the list, the scan still finds what it  *)
(* is looking for, unless an image left memory.                            *)
LEMMA ScanKept ==
    ASSUME IInv, Listed', UNCHANGED call,
           (~gone') => /\ ~gone
                       /\ Len(images') >= Len(images)
                       /\ \A p \in 1 .. Len(images) : images'[p] = images[p]
    PROVE  Scan'
<1>1. FirstIsProgram' /\ Probed'
  BY DEF IInv, Scan, FirstIsProgram, Probed
<1>2. Scanning'
  <2> SUFFICES ASSUME call.pc \in Scans, ~gone'
               PROVE  \E p \in 1 .. Len(images') :
                        /\ images'[p] = call.of /\ call.i < p /\ p <= call.count
                        /\ call.pc # "name" => call.name = images'[call.i + 1]
                        /\ call.pc = "close" => call.probe = call.name
    BY DEF Scanning
  <2>1. PICK p \in 1 .. Len(images) :
          /\ images[p] = call.of /\ call.i < p /\ p <= call.count
          /\ call.pc # "name" => call.name = images[call.i + 1]
          /\ call.pc = "close" => call.probe = call.name
    BY DEF IInv, Scan, Scanning
  <2>2. Len(images) \in Nat /\ Len(images') \in Nat /\ call.i \in Nat
    BY LenProperties DEF IInv, Listed, Types, CallType
  <2>3. p \in 1 .. Len(images') /\ call.i + 1 \in 1 .. Len(images)
    BY <2>1, <2>2
  <2>4. images'[p] = images[p] /\ images'[call.i + 1] = images[call.i + 1]
    BY <2>1, <2>3
  <2> QED
    BY <2>1, <2>3, <2>4
<1> QED
  BY <1>1, <1>2 DEF Scan

LEMMA OtherLoadsStep ==
    ASSUME IInv, NEW x \in Images, OtherLoads(x)
    PROVE  IInv'
<1>1. /\ held' = held \cup {x} /\ x \notin held
      /\ lib' = lib /\ call' = call /\ host' = host
      /\ lasterr' = lasterr /\ dlerr' = dlerr /\ gone' = gone
  BY DEF OtherLoads
<1>2. /\ Listed' /\ refs' \in [Images -> Nat]
      /\ \A y \in Images : refs'[y] = refs[y] + Is(y = x)
      /\ Len(images') >= Len(images)
      /\ \A p \in 1 .. Len(images) : images'[p] = images[p]
  <2>1. Dlopen(x)
    BY DEF OtherLoads
  <2> QED
    BY <2>1, DlopenList DEF IInv, Types
<1>3. Types'
  BY <1>1, <1>2 DEF IInv, Types
<1>4. Counted'
  <2> SUFFICES ASSUME NEW y \in Images
               PROVE  refs'[y] = Is(y = Program) + Is(y = lib) + Is(y \in held')
                                 + Is(y = call.probe)
    BY <1>1 DEF Counted
  <2>1. refs[y] = Is(y = Program) + Is(y = lib) + Is(y \in held) + Is(y = call.probe)
    BY DEF IInv, Counted
  <2>2. refs'[y] = refs[y] + Is(y = x)
    BY <1>2
  <2>3. Is(y \in held') = Is(y \in held) + Is(y = x)
    BY <1>1 DEF Is
  <2> QED
    BY <2>1, <2>2, <2>3 DEF Is
<1>5. Under'
  BY <1>1 DEF IInv, Under
<1>6. Scan'
  BY <1>1, <1>2, ScanKept
<1> QED
  BY <1>2, <1>3, <1>4, <1>5, <1>6 DEF IInv

LEMMA OtherUnloadsStep ==
    ASSUME IInv, NEW x \in Images, OtherUnloads(x)
    PROVE  IInv'
<1>1. /\ held' = held \ {x} /\ x \in held
      /\ lib' = lib /\ call' = call /\ host' = host
      /\ lasterr' = lasterr /\ dlerr' = dlerr
  BY DEF OtherUnloads
<1>2. refs[x] > Is(x = Program)
  BY <1>1 DEF IInv, Counted, Is
<1>3. /\ Listed' /\ refs' \in [Images -> Nat] /\ gone' \in BOOLEAN
      /\ \A y \in Images : refs'[y] = refs[y] - Is(y = x)
      /\ (~gone') => (~gone /\ images' = images)
  <2>1. Dlclose(x)
    BY DEF OtherUnloads
  <2> QED
    BY <1>2, <2>1, DlcloseList DEF IInv, Types
<1>4. Types'
  BY <1>1, <1>3 DEF IInv, Types
<1>5. Counted'
  <2> SUFFICES ASSUME NEW y \in Images
               PROVE  refs'[y] = Is(y = Program) + Is(y = lib) + Is(y \in held')
                                 + Is(y = call.probe)
    BY <1>1 DEF Counted
  <2>1. refs[y] = Is(y = Program) + Is(y = lib) + Is(y \in held) + Is(y = call.probe)
    BY DEF IInv, Counted
  <2>2. refs'[y] = refs[y] - Is(y = x)
    BY <1>3
  <2>3. Is(y \in held') = Is(y \in held) - Is(y = x)
    BY <1>1 DEF Is
  <2> QED
    BY <2>1, <2>2, <2>3 DEF Is
<1>6. Under'
  BY <1>1 DEF IInv, Under
<1>7. Scan'
  <2>1. Len(images) \in Nat
    BY LenProperties DEF IInv, Listed
  <2> QED
    BY <1>1, <1>3, <2>1, ScanKept
<1> QED
  BY <1>3, <1>4, <1>5, <1>6, <1>7 DEF IInv

-----------------------------------------------------------------------------
(* The calls.                                                              *)

LEMMA AnswerIs ==
    ASSUME NEW c \in CallType, NEW x \in Things, NEW n \in Nat, NEW e \in Errors \cup {Ok},
           NEW a, a = Answer(c, x, n, e)
    PROVE  /\ a \in CallType /\ a.pc = "done" /\ a.probe = NoImage
           /\ a.op = c.op /\ a.of = c.of
           /\ a.path = x /\ a.length = n /\ a.ec = e
  BY DEF Answer, CallType, Pcs

(* A step outside the scan that leaves the loader alone.                   *)
LEMMA OffScanStep ==
    ASSUME IInv, NEW c \in CallType, call' = c,
           UNCHANGED <<host, lib, refs, images, held>>,
           gone' \in BOOLEAN, lasterr' \in Errors \cup {Ok},
           dlerr' \in BOOLEAN, dlerr' => dlerr,
           call.pc \notin Scans, c.pc \notin Scans, c.probe = NoImage,
           c.op = "library" => c.of \in {lib, NoImage},
           c.pc \in {"handle", "ask"} =>
              host.platform = "windows" \/ (c.op = "library" /\ c.of # NoImage),
           c.pc \in {"handle", "address", "program"} => c.i = 0,
           c.pc = "address" => c.op = "symbol",
           c.pc = "program" => c.of = Program
    PROVE  IInv'
<1>1. call.probe = NoImage /\ ~dlerr
  BY DEF IInv, Under, Scans
<1>2. Types'
  BY DEF IInv, Types
<1>3. Listed'
  BY DEF IInv, Listed, Mapped, Once
<1>4. Counted'
  BY <1>1 DEF IInv, Counted
<1>5. Under'
  BY <1>1 DEF Under
<1>6. Scan'
  BY DEF Scan, FirstIsProgram, Probed, Scanning, Scans
<1> QED
  BY <1>2, <1>3, <1>4, <1>5, <1>6 DEF IInv

LEMMA CallStep ==
    ASSUME IInv, Call
    PROVE  IInv'
<1> DEFINE Fresh(c) ==
      /\ c \in CallType /\ c.pc \in {"done", "handle", "address", "program"}
      /\ c.probe = NoImage /\ c.i = 0
      /\ c.op = "library" => c.of \in {lib, NoImage}
      /\ c.pc = "handle" => c.op = "library" /\ c.of # NoImage
      /\ c.pc = "address" => c.op = "symbol"
      /\ c.pc = "program" => c.of = Program
<1>1. ASSUME NEW c, Fresh(c), Begin(c)
      PROVE  IInv'
  <2>1. call.pc = "done" /\ call' = c /\ gone' = FALSE
        /\ UNCHANGED <<host, lib, refs, images, held, lasterr, dlerr>>
    BY <1>1 DEF Begin, loader
  <2>2. lasterr' \in Errors \cup {Ok} /\ dlerr' \in BOOLEAN
    BY <2>1 DEF IInv, Types
  <2> QED
    BY <1>1, <2>1, <2>2, OffScanStep DEF Scans
<1>2. ASSUME NEW op \in Ops, NEW of \in Things, NEW pc \in {"handle", "address", "program"}
      PROVE  /\ Calling(op, of, pc) \in CallType
             /\ Calling(op, of, pc).op = op /\ Calling(op, of, pc).of = of
             /\ Calling(op, of, pc).pc = pc
             /\ Calling(op, of, pc).i = 0 /\ Calling(op, of, pc).probe = NoImage
  BY DEF Calling, NoCall, CallType, Things, Ops, Pcs
<1>3. ASSUME NEW c \in CallType, c.i = 0, NEW e \in Errors
      PROVE  /\ Failed(c, e) \in CallType /\ Failed(c, e).pc = "done"
             /\ Failed(c, e).probe = NoImage /\ Failed(c, e).i = 0
             /\ Failed(c, e).op = c.op /\ Failed(c, e).of = c.of
  BY <1>3 DEF Failed, Answer, CallType, Things, Pcs
<1>4. lib \in Things /\ Program \in Things /\ NoImage \in Things
  BY InMemory DEF Things
<1>5. CASE LibraryLocation
  <2>1. PICK c : c = Calling("library", lib, "handle")
    OBVIOUS
  <2>2. /\ c \in CallType /\ c.op = "library" /\ c.of = lib /\ c.pc = "handle"
        /\ c.i = 0 /\ c.probe = NoImage
    BY <1>2, <1>4, <2>1 DEF Ops
  <2>3. PICK d : d = Failed(c, "bad_file_descriptor")
    OBVIOUS
  <2>4. /\ d \in CallType /\ d.pc = "done" /\ d.probe = NoImage /\ d.i = 0
        /\ d.op = "library" /\ d.of = lib
    BY <1>3, <2>2, <2>3 DEF Errors
  <2>5. Begin(IF lib = NoImage THEN d ELSE c)
    BY <1>5, <2>1, <2>3 DEF LibraryLocation
  <2>6. Fresh(IF lib = NoImage THEN d ELSE c)
    BY <2>2, <2>4
  <2> QED
    BY <1>1, <2>5, <2>6
<1>6. ASSUME NEW x \in Mapped \cup {NoImage, Nowhere}, SymbolLocation(x)
      PROVE  IInv'
  <2>1. PICK c : c = Calling("symbol", x, "address")
    OBVIOUS
  <2>2. x \in Things
    BY DEF Mapped, Things
  <2>3. /\ c \in CallType /\ c.op = "symbol" /\ c.of = x /\ c.pc = "address"
        /\ c.i = 0 /\ c.probe = NoImage
    BY <1>2, <2>1, <2>2 DEF Ops
  <2>4. PICK d : d = Failed(c, "bad_address")
    OBVIOUS
  <2>5. /\ d \in CallType /\ d.pc = "done" /\ d.probe = NoImage /\ d.i = 0
        /\ d.op = "symbol"
    BY <1>3, <2>3, <2>4 DEF Errors
  <2>6. Begin(IF x = NoImage THEN d ELSE c)
    BY <1>6, <2>1, <2>4 DEF SymbolLocation
  <2>7. Fresh(IF x = NoImage THEN d ELSE c)
    BY <2>3, <2>5
  <2> QED
    BY <1>1, <2>6, <2>7
<1>7. CASE ProgramLocation
  <2>1. PICK c : c = Calling("program", Program, "program")
    OBVIOUS
  <2>2. /\ c \in CallType /\ c.op = "program" /\ c.of = Program /\ c.pc = "program"
        /\ c.i = 0 /\ c.probe = NoImage
    BY <1>2, <1>4, <2>1 DEF Ops
  <2>3. Begin(c) /\ Fresh(c)
    BY <1>7, <2>1, <2>2 DEF ProgramLocation
  <2> QED
    BY <1>1, <2>3
<1> QED
  BY <1>5, <1>6, <1>7 DEF Call

(* A step that answers.                                                    *)
LEMMA AnswerStep ==
    ASSUME IInv, NEW x \in Things, NEW n \in Nat, NEW e \in Errors \cup {Ok},
           call' = Answer(call, x, n, e),
           UNCHANGED <<host, lib, refs, images, held, gone>>,
           lasterr' \in Errors \cup {Ok}, dlerr' \in BOOLEAN, dlerr' => dlerr,
           call.pc \notin Scans
    PROVE  IInv'
<1>1. PICK c : c = Answer(call, x, n, e)
  OBVIOUS
<1>2. /\ c \in CallType /\ c.pc = "done" /\ c.probe = NoImage
      /\ c.op = call.op /\ c.of = call.of
  BY <1>1, AnswerIs DEF IInv, Types
<1>3. c.op = "library" => c.of \in {lib, NoImage}
  BY <1>2 DEF IInv, Under
<1>4. gone' \in BOOLEAN
  BY DEF IInv, Types
<1> QED
  BY <1>1, <1>2, <1>3, <1>4, OffScanStep DEF Scans

(* A step that goes on.                                                    *)
LEMMA GoOnStep ==
    ASSUME IInv, NEW p \in {"handle", "ask", "program"}, NEW n \in Nat,
           call' = [call EXCEPT !.pc = p, !.size = n],
           UNCHANGED <<host, lib, refs, images, held, gone, dlerr>>,
           lasterr' \in Errors \cup {Ok},
           call.pc \notin Scans,
           p \in {"handle", "ask"} =>
              host.platform = "windows" \/ (call.op = "library" /\ call.of # NoImage),
           p \in {"handle", "program"} => call.i = 0,
           p = "program" => call.of = Program
    PROVE  IInv'
<1>1. PICK c : c = [call EXCEPT !.pc = p, !.size = n]
  OBVIOUS
<1>2. call \in CallType
  BY DEF IInv, Types
<1>3. /\ c \in CallType /\ c.pc = p /\ c.probe = call.probe /\ c.i = call.i
      /\ c.op = call.op /\ c.of = call.of
  BY <1>1, <1>2 DEF CallType, Pcs
<1>4. /\ c.op = "library" => c.of \in {lib, NoImage}
      /\ c.probe = NoImage
  BY <1>3 DEF IInv, Under, Scans
<1>5. gone' \in BOOLEAN /\ dlerr' \in BOOLEAN
  BY DEF IInv, Types
<1>6. p \notin Scans /\ p # "address"
  BY DEF Scans
<1> QED
  BY <1>1, <1>3, <1>4, <1>5, <1>6, OffScanStep

(* Changing the place in the code alone.                                   *)
LEMMA SameSize ==
    ASSUME NEW c \in CallType, NEW p
    PROVE  /\ [c EXCEPT !.pc = p] = [c EXCEPT !.pc = p, !.size = c.size]
           /\ c.size \in Nat
  BY DEF CallType

-----------------------------------------------------------------------------
(* The steps, outside the scan.                                            *)

LEMMA DladdrStep ==
    ASSUME IInv, Dladdr
    PROVE  IInv'
<1>1. /\ UNCHANGED <<host, lib, refs, images, held, lasterr, gone>>
      /\ dlerr' = (dlerr /\ call.of \in Mapped) /\ call.pc = "address"
  BY DEF Dladdr, AtStep, loader
<1>2. lasterr' \in Errors \cup {Ok} /\ dlerr' \in BOOLEAN /\ (dlerr' => dlerr)
  BY <1>1 DEF IInv, Types
<1>3. CASE call.of \in Mapped
  <2>1. call' = Answer(call, call.of, Length[call.of], Ok)
    BY <1>3 DEF Dladdr, Found
  <2>2. call.of \in Things /\ Length[call.of] \in Nat /\ Ok \in Errors \cup {Ok}
    BY <1>3, InMemory DEF Mapped, Things
  <2> QED
    BY <1>1, <1>2, <2>1, <2>2, AnswerStep DEF Scans
<1>4. CASE call.of \notin Mapped
  <2>1. call' = Answer(call, NoImage, 0, "bad_address")
    BY <1>4 DEF Dladdr, Failed
  <2>2. NoImage \in Things /\ "bad_address" \in Errors \cup {Ok}
    BY DEF Things, Errors
  <2> QED
    BY <1>1, <1>2, <2>1, <2>2, AnswerStep DEF Scans
<1> QED
  BY <1>3, <1>4

LEMMA QueryAddressStep ==
    ASSUME IInv, QueryAddress
    PROVE  IInv'
<1>1. /\ UNCHANGED <<host, lib, refs, images, held, gone, dlerr>>
      /\ call.pc = "address" /\ host.platform = "windows"
  BY DEF QueryAddress, AtStep, loader
<1>2. call.i = 0 /\ call \in CallType /\ dlerr \in BOOLEAN /\ lasterr \in Errors \cup {Ok}
  BY <1>1 DEF IInv, Under, Types
<1>3. ASSUME call' = [call EXCEPT !.pc = "handle"], UNCHANGED lasterr
      PROVE  IInv'
  <2>1. call' = [call EXCEPT !.pc = "handle", !.size = call.size] /\ call.size \in Nat
    BY <1>2, <1>3, SameSize
  <2> QED
    BY <1>1, <1>2, <1>3, <2>1, GoOnStep DEF Scans
<1>4. ASSUME lasterr' = "invalid_parameter", call' = Failed(call, lasterr')
      PROVE  IInv'
  <2>1. call' = Answer(call, NoImage, 0, "invalid_parameter")
    BY <1>4 DEF Failed
  <2>2. NoImage \in Things /\ "invalid_parameter" \in Errors \cup {Ok}
    BY DEF Things, Errors
  <2> QED
    BY <1>1, <1>2, <1>4, <2>1, <2>2, AnswerStep DEF Scans
<1> QED
  BY <1>3, <1>4 DEF QueryAddress

LEMMA ReadLinkMapStep ==
    ASSUME IInv, ReadLinkMap
    PROVE  IInv'
<1>1. /\ UNCHANGED <<host, lib, refs, images, held, lasterr, gone, dlerr>>
      /\ call.pc = "handle" /\ host.platform # "windows"
  BY DEF ReadLinkMap, AtStep, OnlyCall, loader
<1>2. call.i = 0 /\ call \in CallType /\ dlerr' \in BOOLEAN /\ lasterr' \in Errors \cup {Ok}
  BY <1>1 DEF IInv, Under, Types
<1>3. CASE call.of = Program
  <2>1. call' = [call EXCEPT !.pc = "program", !.size = call.size] /\ call.size \in Nat
    BY <1>2, <1>3, SameSize DEF ReadLinkMap
  <2> QED
    BY <1>1, <1>2, <1>3, <2>1, GoOnStep DEF Scans
<1>4. CASE call.of # Program
  <2>1. call' = Answer(call, call.of, Length[call.of], Ok)
    BY <1>4 DEF ReadLinkMap, Found
  <2>2. call.of \in Things /\ Length[call.of] \in Nat /\ Ok \in Errors \cup {Ok}
    BY <1>1, InMemory DEF Things
  <2> QED
    BY <1>1, <1>2, <2>1, <2>2, AnswerStep DEF Scans
<1> QED
  BY <1>3, <1>4

(* Android: whichever word is read first, the answer is the image's path.  *)
LEMMA SoinfoIs ==
    ASSUME call \in CallType, call.of \in Images, ReadSoinfo
    PROVE  call' = Answer(call, call.of, Length[call.of], Ok)
<1>1. PICK f : f = Found(call, call.of)
  OBVIOUS
<1>2. PICK g : g = Failed(call, "bad_address")
  OBVIOUS
<1>3. f.ec = Ok /\ g.ec # Ok
  <2>1. f.ec = Ok
    BY <1>1 DEF Found, Answer, CallType
  <2>2. g.ec = "bad_address"
    BY <1>2 DEF Failed, Answer, CallType
  <2> QED
    BY <2>1, <2>2 DEF Ok
<1>4. call' = LET first == IF host.layout = "array" THEN f ELSE g
              IN  IF first.ec # Ok THEN f ELSE first
  BY <1>1, <1>2 DEF ReadSoinfo
<1>5. call' = f
  BY <1>3, <1>4
<1> QED
  BY <1>1, <1>5 DEF Found

LEMMA ReadSoinfoStep ==
    ASSUME IInv, ReadSoinfo
    PROVE  IInv'
<1>1. /\ UNCHANGED <<host, lib, refs, images, held, lasterr, gone, dlerr>>
      /\ call.pc = "handle" /\ host.platform # "windows"
  BY DEF ReadSoinfo, AtStep, OnlyCall, loader
<1>2. call \in CallType /\ dlerr' \in BOOLEAN /\ lasterr' \in Errors \cup {Ok}
  BY <1>1 DEF IInv, Types
<1>3. call.of \in Images /\ call.of \in Things /\ Length[call.of] \in Nat
      /\ Ok \in Errors \cup {Ok}
  BY <1>1, InMemory DEF Things
<1>4. call' = Answer(call, call.of, Length[call.of], Ok)
  BY <1>2, <1>3, SoinfoIs
<1> QED
  BY <1>1, <1>2, <1>3, <1>4, AnswerStep DEF Scans

LEMMA AskNameStep ==
    ASSUME IInv, AskName
    PROVE  IInv'
<1>1. /\ UNCHANGED <<host, lib, refs, images, held, lasterr, gone, dlerr>>
      /\ call.pc = "handle"
  BY DEF AskName, AtStep, OnlyCall, loader
<1>2. PICK n \in Nat : call' = [call EXCEPT !.pc = "ask", !.size = n]
  <2>1. PICK n : n = IF host.platform = "windows" THEN 260 ELSE 4096
    OBVIOUS
  <2>2. n \in Nat /\ call' = [call EXCEPT !.pc = "ask", !.size = n]
    BY <2>1 DEF AskName
  <2> QED
    BY <2>2
<1>3. lasterr' \in Errors \cup {Ok}
  BY <1>1 DEF IInv, Types
<1>4. host.platform = "windows" \/ (call.op = "library" /\ call.of # NoImage)
  BY <1>1 DEF IInv, Under
<1>5. "ask" \in {"handle", "ask", "program"} /\ call.pc \notin Scans
  BY <1>1 DEF Scans
<1> QED
  BY <1>1, <1>2, <1>3, <1>4, <1>5, GoOnStep

(* What GetModuleFileNameW may return.                                     *)
LEMMA NameIs ==
    ASSUME IInv, NEW x, NEW n \in Nat, NEW got, got = GetModuleFileName(x, n)
    PROVE  /\ got.length \in Nat /\ got.err \in Errors \cup {Ok}
           /\ x \notin Mapped => got.length = 0 /\ got.err = "module_not_found"
           /\ x \in Mapped /\ Length[x] < n => got.length = Length[x] /\ got.err = lasterr
           /\ x \in Mapped /\ ~(Length[x] < n)
                => got.length = n /\ got.err = "insufficient_buffer"
  BY InMemory DEF GetModuleFileName, IInv, Types, Mapped, Errors

LEMMA AskWindowsStep ==
    ASSUME IInv, AskWindows
    PROVE  IInv'
<1>1. call \in CallType /\ call.size \in Nat /\ call.of \in Things
  BY DEF IInv, Types, CallType
<1>2. PICK got : got = GetModuleFileName(call.of, call.size)
  OBVIOUS
<1>3. got.length \in Nat /\ got.err \in Errors \cup {Ok}
  BY <1>1, <1>2, NameIs
<1>4. /\ UNCHANGED <<host, lib, refs, images, held, gone, dlerr>>
      /\ call.pc = "ask" /\ host.platform = "windows" /\ lasterr' = got.err
  BY <1>2 DEF AskWindows, AtStep, loader
<1>5. dlerr' \in BOOLEAN /\ lasterr' \in Errors \cup {Ok} /\ NoImage \in Things
  BY <1>3, <1>4 DEF IInv, Types, Things
<1>6. \/ call' = Answer(call, call.of, got.length, Ok)
      \/ call' = [call EXCEPT !.size = Larger(call.size)]
      \/ call' = Answer(call, NoImage, 0, got.err)
  BY <1>2 DEF AskWindows, Failed
<1>7. CASE call' = Answer(call, call.of, got.length, Ok)
  <2>1. Ok \in Errors \cup {Ok}
    OBVIOUS
  <2> QED
    BY <1>1, <1>3, <1>4, <1>5, <1>7, <2>1, AnswerStep DEF Scans
<1>8. CASE call' = [call EXCEPT !.size = Larger(call.size)]
  <2>1. Larger(call.size) \in Nat
    BY <1>1 DEF Larger
  <2>2. call' = [call EXCEPT !.pc = "ask", !.size = Larger(call.size)]
    BY <1>1, <1>4, <1>8 DEF CallType
  <2> QED
    BY <1>4, <1>5, <2>1, <2>2, GoOnStep DEF Scans
<1>9. CASE call' = Answer(call, NoImage, 0, got.err)
  BY <1>3, <1>4, <1>5, <1>9, AnswerStep DEF Scans
<1> QED
  BY <1>6, <1>7, <1>8, <1>9

LEMMA AskCygwinStep ==
    ASSUME IInv, AskCygwin
    PROVE  IInv'
<1>1. call \in CallType /\ call.size \in Nat /\ call.of \in Things
  BY DEF IInv, Types, CallType
<1>2. PICK got : got = GetModuleFileName(call.of, call.size)
  OBVIOUS
<1>3. got.length \in Nat /\ got.err \in Errors \cup {Ok}
  BY <1>1, <1>2, NameIs
<1>4. /\ UNCHANGED <<host, lib, refs, images, held, gone>>
      /\ call.pc = "ask" /\ host.platform = "cygwin" /\ lasterr' = got.err
      /\ dlerr' = (dlerr /\ call'.ec = Ok)
  BY <1>2 DEF AskCygwin, AtStep, loader
<1>5. /\ dlerr' \in BOOLEAN /\ (dlerr' => dlerr) /\ lasterr' \in Errors \cup {Ok}
      /\ NoImage \in Things /\ "bad_file_descriptor" \in Errors \cup {Ok}
  BY <1>3, <1>4 DEF IInv, Types, Things, Errors
<1>6. \/ call' = Answer(call, call.of, got.length, Ok)
      \/ call' = [call EXCEPT !.size = 2 * call.size]
      \/ call' = Answer(call, NoImage, 0, "bad_file_descriptor")
  <2>1. call' = CASE got.err = "insufficient_buffer" -> [call EXCEPT !.size = 2 * call.size]
                  [] got.err = Ok -> Answer(call, call.of, got.length, Ok)
                  [] OTHER -> Answer(call, NoImage, 0, "bad_file_descriptor")
    BY <1>2 DEF AskCygwin, Failed, Twice
  <2>2. CASE got.err = "insufficient_buffer"
    BY <2>1, <2>2 DEF Ok
  <2>3. CASE got.err = Ok
    BY <2>1, <2>3 DEF Ok
  <2>4. CASE got.err # "insufficient_buffer" /\ got.err # Ok
    BY <2>1, <2>4
  <2> QED
    BY <2>2, <2>3, <2>4
<1>7. CASE call' = Answer(call, call.of, got.length, Ok)
  <2>1. Ok \in Errors \cup {Ok}
    OBVIOUS
  <2> QED
    BY <1>1, <1>3, <1>4, <1>5, <1>7, <2>1, AnswerStep DEF Scans
<1>8. CASE call' = [call EXCEPT !.size = 2 * call.size]
  <2>1. 2 * call.size \in Nat /\ ~dlerr
    BY <1>1, <1>4 DEF IInv, Under, Scans
  <2>2. call' = [call EXCEPT !.pc = "ask", !.size = 2 * call.size]
    BY <1>1, <1>4, <1>8 DEF CallType
  <2>3. call.op = "library" /\ call.of # NoImage /\ UNCHANGED dlerr
    BY <1>4, <1>5, <2>1 DEF IInv, Under, Types
  <2> QED
    BY <1>4, <1>5, <2>1, <2>2, <2>3, GoOnStep DEF Scans
<1>9. CASE call' = Answer(call, NoImage, 0, "bad_file_descriptor")
  BY <1>3, <1>4, <1>5, <1>9, AnswerStep DEF Scans
<1> QED
  BY <1>6, <1>7, <1>8, <1>9

LEMMA ResizeFailsStep ==
    ASSUME IInv, ResizeFails
    PROVE  IInv'
<1>1. call \in CallType /\ NoImage \in Things /\ "bad_alloc" \in Errors \cup {Ok}
  BY DEF IInv, Types, Things, Errors
<1>2. /\ UNCHANGED <<host, lib, refs, images, held, gone, lasterr, dlerr>>
      /\ call.pc = "ask" /\ host.platform = "cygwin"
      /\ call' = Answer(call, NoImage, 0, "bad_alloc")
  BY DEF ResizeFails, AtStep, OnlyCall, loader, Failed
<1>3. dlerr' \in BOOLEAN /\ (dlerr' => dlerr) /\ lasterr' \in Errors \cup {Ok}
  BY <1>2 DEF IInv, Types
<1> QED
  BY <1>1, <1>2, <1>3, AnswerStep DEF Scans

LEMMA ProgramSteps ==
    ASSUME IInv, ReadProc \/ AskSystem \/ GetExecName \/ NullHandle
    PROVE  IInv'
<1>1. /\ UNCHANGED <<host, lib, refs, images, held, lasterr, gone, dlerr>>
      /\ call.pc = "program" /\ call.of = Program /\ call.i = 0
  BY DEF ReadProc, AskSystem, GetExecName, NullHandle, AtStep, OnlyCall, loader, IInv, Under
<1>2. /\ call \in CallType /\ dlerr' \in BOOLEAN /\ lasterr' \in Errors \cup {Ok}
      /\ NoImage \in Things /\ Program \in Things /\ Length[Program] \in Nat
      /\ Ok \in Errors \cup {Ok}
      /\ "bad_file_descriptor" \in Errors /\ "no_such_file" \in Errors
  BY <1>1, InMemory DEF IInv, Types, Things, Errors
<1>3. ASSUME NEW n \in Nat, call' = Answer(call, Program, n, Ok)
      PROVE  IInv'
  BY <1>1, <1>2, <1>3, AnswerStep DEF Scans
<1>4. ASSUME NEW e \in Errors, call' = Answer(call, NoImage, 0, e)
      PROVE  IInv'
  BY <1>1, <1>2, <1>4, AnswerStep DEF Scans
<1>5. CASE ReadProc
  BY <1>2, <1>3, <1>4, <1>5 DEF ReadProc, Found, Failed
<1>6. CASE AskSystem
  <2>1. Length[Program] + 1 \in Nat
    BY <1>2
  <2>2. \/ call' = Answer(call, NoImage, 0, "no_such_file")
        \/ call' = Answer(call, Program, Length[Program], Ok)
        \/ call' = Answer(call, Program, Length[Program] + 1, Ok)
    BY <1>6 DEF AskSystem, Found, Failed
  <2> QED
    BY <1>2, <1>3, <1>4, <2>1, <2>2
<1>7. CASE GetExecName
  BY <1>2, <1>3, <1>7 DEF GetExecName, Found
<1>8. CASE NullHandle
  <2>1. call' = [call EXCEPT !.pc = "handle", !.size = call.size] /\ call.size \in Nat
    BY <1>2, <1>8, SameSize DEF NullHandle
  <2>2. host.platform = "windows"
    BY <1>8 DEF NullHandle, AtStep
  <2> QED
    BY <1>1, <1>2, <2>1, <2>2, GoOnStep DEF Scans
<1> QED
  BY <1>5, <1>6, <1>7, <1>8

-----------------------------------------------------------------------------
(* The scan of macOS.                                                      *)

(* What all its steps keep: they ask for the caller's library, and a       *)
(* reference taken or given back is the probe's.                           *)
LEMMA ScanStep ==
    ASSUME IInv, NEW c \in CallType, call' = c,
           UNCHANGED <<host, lib, held, lasterr>>, host.platform = "macos",
           call.pc \in {"handle"} \cup Scans, c.pc \in {"done"} \cup Scans,
           c.op = call.op, c.of = call.of,
           Listed', refs' \in [Images -> Nat], gone' \in BOOLEAN, dlerr' \in BOOLEAN,
           \A y \in Images : refs'[y] = refs[y] + Is(y = c.probe) - Is(y = call.probe),
           c.probe # NoImage => c.pc = "close",
           dlerr' => c.pc \in Scans,
           Scan'
    PROVE  IInv'
<1>1. Types'
  BY DEF IInv, Types
<1>2. Counted'
  <2> SUFFICES ASSUME NEW y \in Images
               PROVE  refs'[y] = Is(y = Program) + Is(y = lib) + Is(y \in held)
                                 + Is(y = c.probe)
    BY DEF Counted
  <2>1. /\ refs[y] = Is(y = Program) + Is(y = lib) + Is(y \in held) + Is(y = call.probe)
        /\ refs'[y] = refs[y] + Is(y = c.probe) - Is(y = call.probe)
    BY DEF IInv, Counted
  <2> QED
    BY <2>1 DEF Is
<1>3. call.op = "library" /\ call.of = lib /\ call.of # NoImage
  <2>1. host.platform # "windows"
    OBVIOUS
  <2> QED
    BY <2>1, InMemory
<1>4. Under'
  BY <1>3 DEF Under, Scans
<1> QED
  BY <1>1, <1>2, <1>4 DEF IInv

(* One that leaves the loader alone.                                       *)
LEMMA QuietScanStep ==
    ASSUME IInv, NEW c \in CallType, call' = c, OnlyCall, host.platform = "macos",
           call.pc \in {"handle"} \cup Scans, call.pc # "close", c.pc \in Scans,
           c.op = call.op, c.of = call.of, c.probe = NoImage,
           Scan'
    PROVE  IInv'
<1>1. UNCHANGED <<host, lib, refs, images, held, lasterr, dlerr, gone>>
  BY DEF OnlyCall, loader
<1>2. call.probe = NoImage
  BY DEF IInv, Under
<1>3. Listed' /\ refs' \in [Images -> Nat] /\ gone' \in BOOLEAN /\ dlerr' \in BOOLEAN
  BY <1>1 DEF IInv, Types, Listed, Mapped, Once
<1>4. \A y \in Images : refs'[y] = refs[y] + Is(y = c.probe) - Is(y = call.probe)
  BY <1>1, <1>2 DEF Is, IInv, Types
<1> QED
  BY <1>1, <1>3, <1>4, ScanStep

LEMMA CountImagesStep ==
    ASSUME IInv, CountImages
    PROVE  IInv'
<1>1. /\ OnlyCall /\ call.pc = "handle" /\ host.platform = "macos"
      /\ images' = images /\ gone' = gone
  BY DEF CountImages, AtStep, OnlyCall, loader
<1>2. PICK c : c = [call EXCEPT !.pc = "name", !.count = Len(images)]
  OBVIOUS
<1>3. /\ call \in CallType /\ call.i = 0 /\ call.probe = NoImage
      /\ Len(images) \in Nat /\ DOMAIN images = 1 .. Len(images)
  BY <1>1, LenProperties DEF IInv, Types, Under, Listed
<1>4. /\ c \in CallType /\ c.pc = "name" /\ c.count = Len(images)
      /\ c.i = 0 /\ c.probe = NoImage /\ c.op = call.op /\ c.of = call.of
  BY <1>2, <1>3 DEF CallType, Pcs, Scans
<1>5. call' = c
  BY <1>2 DEF CountImages
<1>6. call.of \in Mapped
  BY <1>1, InMemory
<1>7. Scan'
  <2>1. FirstIsProgram' /\ Probed'
    BY <1>4, <1>5 DEF FirstIsProgram, Probed
  <2>2. PICK p \in 1 .. Len(images) : images[p] = call.of
    BY <1>3, <1>6 DEF IInv, Listed, ToSet
  <2>3. c.i < p /\ p <= c.count
    BY <1>3, <1>4
  <2>4. Scanning'
    BY <1>1, <1>4, <1>5, <2>2, <2>3 DEF Scanning
  <2> QED
    BY <2>1, <2>4 DEF Scan
<1> QED
  BY <1>1, <1>4, <1>5, <1>7, QuietScanStep DEF Scans

LEMMA ReadNameStep ==
    ASSUME IInv, ReadName
    PROVE  IInv'
<1>1. /\ OnlyCall /\ call.pc = "name" /\ host.platform = "macos"
      /\ images' = images /\ gone' = gone
  BY DEF ReadName, AtStep, OnlyCall, loader
<1>2. PICK n : n = IF call.i < Len(images) THEN images[call.i + 1] ELSE NoImage
  OBVIOUS
<1>3. PICK c : c = [call EXCEPT !.pc = "open", !.name = n]
  OBVIOUS
<1>4. /\ call \in CallType /\ call.i \in Nat /\ call.probe = NoImage
      /\ Len(images) \in Nat /\ \A p \in 1 .. Len(images) : images[p] \in Images
      /\ images[1] = Program /\ Len(images) > 0
  BY <1>1, LenProperties DEF IInv, Types, CallType, Under, Listed
<1>5. n \in Images \cup {NoImage}
  <2>1. CASE call.i < Len(images)
    <3>1. call.i + 1 \in 1 .. Len(images)
      BY <1>4, <2>1
    <3> QED
      BY <1>2, <1>4, <2>1, <3>1
  <2>2. CASE ~(call.i < Len(images))
    BY <1>2, <2>2
  <2> QED
    BY <2>1, <2>2
<1>6. /\ c \in CallType /\ c.pc = "open" /\ c.name = n /\ c.count = call.count
      /\ c.i = call.i /\ c.probe = NoImage /\ c.op = call.op /\ c.of = call.of
  BY <1>3, <1>4, <1>5 DEF CallType, Pcs, Scans
<1>7. call' = c
  BY <1>2, <1>3 DEF ReadName
<1>8. FirstIsProgram'
  <2> SUFFICES ASSUME call.of = Program
               PROVE  c.i = 0 /\ c.name = Program
    BY <1>6, <1>7 DEF FirstIsProgram
  <2>1. call.i = 0
    BY <1>1 DEF IInv, Scan, FirstIsProgram, Scans
  <2> QED
    BY <1>2, <1>4, <1>6, <2>1
<1>9. Probed'
  BY <1>6, <1>7 DEF Probed
<1>10. Scanning'
  <2> SUFFICES ASSUME ~gone
               PROVE  \E p \in 1 .. Len(images) :
                        /\ images[p] = c.of /\ c.i < p /\ p <= c.count
                        /\ c.name = images[c.i + 1]
    BY <1>1, <1>6, <1>7 DEF Scanning
  <2>1. PICK p \in 1 .. Len(images) :
          images[p] = call.of /\ call.i < p /\ p <= call.count
    BY <1>1 DEF IInv, Scan, Scanning, Scans
  <2>2. call.i < Len(images)
    BY <1>4, <2>1
  <2>3. c.name = images[c.i + 1]
    BY <1>2, <1>6, <2>2
  <2> QED
    BY <1>6, <2>1, <2>3
<1>11. Scan'
  BY <1>8, <1>9, <1>10 DEF Scan
<1> QED
  BY <1>1, <1>6, <1>7, <1>11, QuietScanStep DEF Scans

LEMMA OpenImageStep ==
    ASSUME IInv, OpenImage
    PROVE  IInv'
<1>1. /\ UNCHANGED <<host, lib, held, lasterr, gone>>
      /\ call.pc = "open" /\ host.platform = "macos"
  BY DEF OpenImage, AtStep
<1>2. /\ call \in CallType /\ call.i \in Nat /\ call.probe = NoImage
      /\ call.name \in Images \cup {NoImage}
      /\ Len(images) \in Nat
      /\ DOMAIN images = 1 .. Len(images) /\ ToSet(images) = Mapped
  BY <1>1, LenProperties DEF IInv, Types, CallType, Under, Listed
<1>3. gone' \in BOOLEAN
  BY <1>1 DEF IInv, Types
<1>4. ASSUME NEW y \in Images \cup {NoImage}
      PROVE  \E c \in CallType :
               /\ c = [call EXCEPT !.pc = "close", !.probe = y]
               /\ c.pc = "close" /\ c.probe = y /\ c.count = call.count
               /\ c.name = call.name /\ c.i = call.i /\ c.op = call.op /\ c.of = call.of
  <2>1. PICK c : c = [call EXCEPT !.pc = "close", !.probe = y]
    OBVIOUS
  <2>2. c \in CallType
    BY <1>2, <2>1 DEF CallType, Pcs, Scans
  <2>3. /\ c.pc = "close" /\ c.probe = y /\ c.count = call.count
        /\ c.name = call.name /\ c.i = call.i /\ c.op = call.op /\ c.of = call.of
    BY <1>2, <2>1 DEF CallType
  <2> QED
    BY <2>1, <2>2, <2>3
<1>5. call.of = Program => call.i = 0 /\ call.name = Program
  BY <1>1 DEF IInv, Scan, FirstIsProgram, Scans
<1>6. ~gone => \E p \in 1 .. Len(images) :
                  /\ images[p] = call.of /\ call.i < p /\ p <= call.count
                  /\ call.name = images[call.i + 1]
  BY <1>1 DEF IInv, Scan, Scanning, Scans
<1>7. ~gone => call.name \in Mapped
  <2> SUFFICES ASSUME ~gone PROVE call.name \in Mapped
    OBVIOUS
  <2>1. PICK p \in 1 .. Len(images) : call.i < p /\ call.name = images[call.i + 1]
    BY <1>6
  <2>2. call.i + 1 \in DOMAIN images
    BY <1>2, <2>1
  <2> QED
    BY <1>2, <2>1, <2>2 DEF ToSet
<1>8. ASSUME NEW x, x = IF call.name = NoImage THEN Program ELSE call.name,
             Dlopen(x), call' = [call EXCEPT !.pc = "close", !.probe = x], dlerr' = dlerr
      PROVE  IInv'
  <2>1. x \in Images
    BY <1>2, <1>8, InMemory
  <2>2. PICK c \in CallType :
          /\ c = [call EXCEPT !.pc = "close", !.probe = x]
          /\ c.pc = "close" /\ c.probe = x /\ c.count = call.count
          /\ c.name = call.name /\ c.i = call.i /\ c.op = call.op /\ c.of = call.of
    BY <1>4, <2>1
  <2>3. call' = c
    BY <1>8, <2>2
  <2>4. /\ Listed' /\ refs' \in [Images -> Nat]
        /\ \A y \in Images : refs'[y] = refs[y] + Is(y = x)
        /\ Len(images') >= Len(images)
        /\ \A p \in 1 .. Len(images) : images'[p] = images[p]
    BY <1>8, <2>1, DlopenList DEF IInv, Types
  <2>5. \A y \in Images : refs'[y] = refs[y] + Is(y = c.probe) - Is(y = call.probe)
    BY <1>2, <2>2, <2>4, InMemory DEF Is, IInv, Types
  <2>6. FirstIsProgram'
    BY <1>5, <1>8, <2>2, <2>3, InMemory DEF FirstIsProgram
  <2>7. Probed'
    BY <1>8, <2>2, <2>3 DEF Probed
  <2>8. Scanning'
    <3> SUFFICES ASSUME ~gone
                 PROVE  \E p \in 1 .. Len(images') :
                          /\ images'[p] = c.of /\ c.i < p /\ p <= c.count
                          /\ c.name = images'[c.i + 1]
                          /\ c.probe = c.name
      BY <1>1, <2>2, <2>3 DEF Scanning
    <3>1. PICK p \in 1 .. Len(images) :
            /\ images[p] = call.of /\ call.i < p /\ p <= call.count
            /\ call.name = images[call.i + 1]
      BY <1>6
    <3>2. x = call.name
      BY <1>7, <1>8, InMemory DEF Mapped
    <3>3. Len(images') \in Nat
      BY <2>4, LenProperties DEF Listed
    <3>4. p \in 1 .. Len(images') /\ call.i + 1 \in 1 .. Len(images)
      BY <1>2, <2>4, <3>1, <3>3
    <3>5. images'[p] = images[p] /\ images'[call.i + 1] = images[call.i + 1]
      BY <2>4, <3>1, <3>4
    <3> QED
      BY <2>2, <3>1, <3>2, <3>4, <3>5
  <2>9. Scan'
    BY <2>6, <2>7, <2>8 DEF Scan
  <2>10. dlerr' \in BOOLEAN
    BY <1>8 DEF IInv, Types
  <2> QED
    BY <1>1, <1>3, <2>2, <2>3, <2>4, <2>5, <2>9, <2>10, ScanStep DEF Scans
<1>9. ASSUME call.name \notin Mapped \cup {NoImage},
             call' = [call EXCEPT !.pc = "close", !.probe = NoImage],
             dlerr' = TRUE, UNCHANGED loader
      PROVE  IInv'
  <2>1. PICK c \in CallType :
          /\ c = [call EXCEPT !.pc = "close", !.probe = NoImage]
          /\ c.pc = "close" /\ c.probe = NoImage /\ c.count = call.count
          /\ c.name = call.name /\ c.i = call.i /\ c.op = call.op /\ c.of = call.of
    BY <1>4
  <2>2. call' = c /\ UNCHANGED <<refs, images>>
    BY <1>9, <2>1 DEF loader
  <2>3. Listed' /\ refs' \in [Images -> Nat]
    BY <2>2 DEF IInv, Types, Listed, Mapped, Once
  <2>4. \A y \in Images : refs'[y] = refs[y] + Is(y = c.probe) - Is(y = call.probe)
    BY <1>2, <2>1, <2>2 DEF Is, IInv, Types
  <2>5. gone
    BY <1>7, <1>9
  <2>6. call.of # Program
    BY <1>5, <1>9, InMemory
  <2>7. Scan'
    BY <1>1, <2>1, <2>2, <2>5, <2>6 DEF Scan, FirstIsProgram, Probed, Scanning
  <2> QED
    BY <1>1, <1>3, <1>9, <2>1, <2>2, <2>3, <2>4, <2>7, ScanStep DEF Scans
<1> QED
  BY <1>8, <1>9 DEF OpenImage

(* What the comparison makes of the call.                                  *)
LEMMA ComparedIs ==
    ASSUME IInv, call.pc = "close", host.platform = "macos", NEW c, c = Compared
    PROVE  /\ c \in CallType /\ c.probe = NoImage /\ c.op = call.op /\ c.of = call.of
           /\ call.probe = call.of
                => c.pc = "done" /\ c.path = call.name /\ c.ec = Ok
                   /\ c.length = Length[call.of]
           /\ call.probe # call.of /\ call.i < call.count
                => c.pc = "name" /\ c.i = call.i + 1 /\ c.count = call.count
           /\ call.probe # call.of /\ ~(call.i < call.count)
                => c.pc = "done" /\ c.ec = "bad_file_descriptor"
<1>1. /\ call \in CallType /\ call.name \in Things /\ call.i \in Nat
      /\ NoImage \in Things /\ Length[call.of] \in Nat
      /\ Ok \in Errors \cup {Ok} /\ "bad_file_descriptor" \in Errors \cup {Ok}
  BY InMemory DEF IInv, Types, CallType, Things, Errors, Scans
<1>2. CASE call.probe = call.of
  <2>1. c = Answer(call, call.name, Length[call.of], Ok)
    BY <1>2 DEF Compared
  <2> QED
    BY <1>1, <1>2, <2>1, AnswerIs
<1>3. CASE call.probe # call.of /\ call.i < call.count
  <2>1. c = [call EXCEPT !.pc = "name", !.i = call.i + 1, !.probe = NoImage]
    BY <1>3 DEF Compared
  <2>2. PICK j \in Nat : j = call.i + 1
    BY <1>1
  <2>3. c = [call EXCEPT !.pc = "name", !.i = j, !.probe = NoImage]
    BY <2>1, <2>2
  <2>4. c \in CallType
    BY <1>1, <2>3 DEF CallType, Pcs, Scans
  <2>5. /\ c.pc = "name" /\ c.i = j /\ c.probe = NoImage
        /\ c.op = call.op /\ c.of = call.of /\ c.count = call.count
    BY <1>1, <2>3 DEF CallType
  <2> QED
    BY <1>3, <2>2, <2>4, <2>5
<1>4. CASE call.probe # call.of /\ ~(call.i < call.count)
  <2>1. c = Answer(call, NoImage, 0, "bad_file_descriptor")
    BY <1>4 DEF Compared, Failed
  <2> QED
    BY <1>1, <1>4, <2>1, AnswerIs
<1> QED
  BY <1>2, <1>3, <1>4

LEMMA CloseImageStep ==
    ASSUME IInv, CloseImage
    PROVE  IInv'
<1>1. /\ UNCHANGED <<host, lib, held, lasterr>>
      /\ call.pc = "close" /\ host.platform = "macos" /\ call' = Compared
      /\ dlerr' = (call'.pc # "done" /\ (dlerr \/ call.probe = NoImage))
  BY DEF CloseImage, AtStep
<1>2. PICK c : c = Compared
  OBVIOUS
<1>3. /\ c \in CallType /\ c.probe = NoImage /\ c.op = call.op /\ c.of = call.of
      /\ c.pc \in {"name", "done"}
      /\ c.pc = "name" => /\ call.probe # call.of /\ call.i < call.count
                          /\ c.i = call.i + 1 /\ c.count = call.count
  BY <1>1, <1>2, ComparedIs
<1>4. call' = c /\ dlerr' \in BOOLEAN /\ (dlerr' => c.pc = "name")
  BY <1>1, <1>2, <1>3
<1>5. /\ Listed' /\ refs' \in [Images -> Nat] /\ gone' \in BOOLEAN
      /\ \A y \in Images : refs'[y] = refs[y] + Is(y = c.probe) - Is(y = call.probe)
      /\ (~gone') => (~gone /\ images' = images)
  <2>1. CASE call.probe = NoImage
    <3>1. UNCHANGED <<refs, images, gone>>
      BY <2>1 DEF CloseImage, loader
    <3>2. Listed' /\ refs' \in [Images -> Nat] /\ gone' \in BOOLEAN
      BY <3>1 DEF IInv, Types, Listed, Mapped, Once
    <3>3. ASSUME NEW y \in Images
          PROVE  refs'[y] = refs[y] + Is(y = c.probe) - Is(y = call.probe)
      <4>1. refs'[y] = refs[y] /\ refs[y] \in Nat
        BY <3>1 DEF IInv, Types
      <4>2. c.probe = call.probe
        BY <1>3, <2>1
      <4> QED
        BY <4>1, <4>2 DEF Is
    <3> QED
      BY <3>1, <3>2, <3>3
  <2>2. CASE call.probe # NoImage
    <3>1. Dlclose(call.probe)
      BY <2>2 DEF CloseImage
    <3>2. call.probe \in Images
      BY <2>2 DEF IInv, Types, CallType
    <3>3. refs[call.probe] > Is(call.probe = Program)
      BY <3>2 DEF IInv, Counted, Is
    <3>4. /\ Listed' /\ refs' \in [Images -> Nat] /\ gone' \in BOOLEAN
          /\ \A y \in Images : refs'[y] = refs[y] - Is(y = call.probe)
          /\ (~gone') => (~gone /\ images' = images)
      BY <3>1, <3>2, <3>3, DlcloseList DEF IInv, Types
    <3>5. \A y \in Images : y # c.probe
      BY <1>3, InMemory
    <3> QED
      BY <3>4, <3>5 DEF Is, IInv, Types
  <2> QED
    BY <2>1, <2>2
<1>6. FirstIsProgram'
  BY <1>1, <1>3, <1>4 DEF IInv, Scan, FirstIsProgram, Scans
<1>7. Probed'
  BY <1>3, <1>4 DEF Probed
<1>8. Scanning'
  <2> SUFFICES ASSUME c.pc = "name", ~gone'
               PROVE  \E p \in 1 .. Len(images') :
                        images'[p] = c.of /\ c.i < p /\ p <= c.count
    BY <1>3, <1>4 DEF Scanning, Scans
  <2>1. ~gone /\ images' = images
    BY <1>5
  <2>2. PICK p \in 1 .. Len(images) :
          /\ images[p] = call.of /\ call.i < p /\ p <= call.count
          /\ call.name = images[call.i + 1]
          /\ call.probe = call.name
    BY <1>1, <2>1 DEF IInv, Scan, Scanning, Scans
  <2>3. call.i + 1 # p
    BY <1>3, <2>2
  <2>4. call.i \in Nat /\ Len(images) \in Nat
    BY LenProperties DEF IInv, Types, CallType, Listed
  <2>5. call.i + 1 < p
    BY <2>2, <2>3, <2>4
  <2> QED
    BY <1>3, <2>1, <2>2, <2>5
<1>9. Scan'
  BY <1>6, <1>7, <1>8 DEF Scan
<1> QED
  BY <1>1, <1>3, <1>4, <1>5, <1>9, ScanStep DEF Scans

-----------------------------------------------------------------------------
(* Steps of another kind that change nothing.                              *)
LEMMA StutterStep ==
    ASSUME IInv, UNCHANGED vars
    PROVE  IInv'
  BY DEF IInv, Types, Listed, Mapped, Once, Counted, Under, Scan, FirstIsProgram, Probed,
         Scanning, vars

LEMMA NextInv ==
    ASSUME IInv, [Next]_vars
    PROVE  IInv'
<1>1. ASSUME NEW x \in host.libs, LoadLibrary(x) PROVE IInv'
  BY <1>1, LoadStep
<1>2. ASSUME NEW x \in Images, OtherLoads(x) PROVE IInv'
  BY <1>2, OtherLoadsStep
<1>3. ASSUME NEW x \in Images, OtherUnloads(x) PROVE IInv'
  BY <1>3, OtherUnloadsStep
<1>4. ASSUME Call PROVE IInv'
  BY <1>4, CallStep
<1>5. ASSUME Dladdr \/ QueryAddress \/ ReadLinkMap \/ ReadSoinfo PROVE IInv'
  BY <1>5, DladdrStep, QueryAddressStep, ReadLinkMapStep, ReadSoinfoStep
<1>6. ASSUME CountImages \/ ReadName \/ OpenImage \/ CloseImage PROVE IInv'
  BY <1>6, CountImagesStep, ReadNameStep, OpenImageStep, CloseImageStep
<1>7. ASSUME AskName \/ AskWindows \/ AskCygwin \/ ResizeFails PROVE IInv'
  BY <1>7, AskNameStep, AskWindowsStep, AskCygwinStep, ResizeFailsStep
<1>8. ASSUME ReadProc \/ AskSystem \/ GetExecName \/ NullHandle PROVE IInv'
  BY <1>8, ProgramSteps
<1>9. ASSUME UNCHANGED vars PROVE IInv'
  BY <1>9, StutterStep
<1> QED
  BY <1>1, <1>2, <1>3, <1>4, <1>5, <1>6, <1>7, <1>8, <1>9 DEF Next, Step

(* The number of owners among the four kinds there are.                    *)
LEMMA CountOne ==
    ASSUME NEW T, IsFiniteSet(T), NEW x, x \notin T, NEW n \in Nat, Cardinality(T) = n,
           NEW U, NEW k, \/ U = T \cup {x} /\ k = 1
                         \/ U = T /\ k = 0
    PROVE  IsFiniteSet(U) /\ Cardinality(U) = n + k /\ n + k \in Nat
<1>1. CASE U = T \cup {x} /\ k = 1
  <2>1. IsFiniteSet(T \cup {x}) /\ Cardinality(T \cup {x}) = Cardinality(T) + 1
    BY FS_AddElement
  <2> QED
    BY <1>1, <2>1
<1>2. CASE U = T /\ k = 0
  BY <1>2
<1> QED
  BY <1>1, <1>2

LEMMA CountOwners ==
    ASSUME NEW x \in Images
    PROVE  Cardinality({o \in {"program", "lib", "held", "probe"} :
                          \/ o = "program" /\ x = Program
                          \/ o = "lib" /\ x = lib
                          \/ o = "held" /\ x \in held
                          \/ o = "probe" /\ x = call.probe})
             = Is(x = Program) + Is(x = lib) + Is(x \in held) + Is(x = call.probe)
<1>1. PICK A : A = IF x = Program THEN {"program"} ELSE {}
  OBVIOUS
<1>2. PICK B : B = IF x = lib THEN A \cup {"lib"} ELSE A
  OBVIOUS
<1>3. PICK C : C = IF x \in held THEN B \cup {"held"} ELSE B
  OBVIOUS
<1>4. PICK D : D = IF x = call.probe THEN C \cup {"probe"} ELSE C
  OBVIOUS
<1>5. PICK a, b, c, d : /\ a = Is(x = Program) /\ b = Is(x = lib)
                        /\ c = Is(x \in held) /\ d = Is(x = call.probe)
  OBVIOUS
<1>6. IsFiniteSet({}) /\ Cardinality({}) = 0
      /\ IsFiniteSet({"program"}) /\ Cardinality({"program"}) = 1
  BY FS_EmptySet, FS_Singleton
<1>7. IsFiniteSet(A) /\ Cardinality(A) = a /\ a \in Nat
  <2>1. (A = {"program"} /\ a = 1) \/ (A = {} /\ a = 0)
    BY <1>1, <1>5 DEF Is
  <2> QED
    BY <1>6, <2>1
<1>8. IsFiniteSet(B) /\ Cardinality(B) = a + b /\ a + b \in Nat
  <2>1. (B = A \cup {"lib"} /\ b = 1) \/ (B = A /\ b = 0)
    BY <1>2, <1>5 DEF Is
  <2>2. "lib" \notin A
    BY <1>1
  <2> QED
    BY <1>7, <2>1, <2>2, CountOne
<1>9. IsFiniteSet(C) /\ Cardinality(C) = a + b + c /\ a + b + c \in Nat
  <2>1. (C = B \cup {"held"} /\ c = 1) \/ (C = B /\ c = 0)
    BY <1>3, <1>5 DEF Is
  <2>2. "held" \notin B
    BY <1>1, <1>2
  <2> QED
    BY <1>8, <2>1, <2>2, CountOne
<1>10. Cardinality(D) = a + b + c + d
  <2>1. (D = C \cup {"probe"} /\ d = 1) \/ (D = C /\ d = 0)
    BY <1>4, <1>5 DEF Is
  <2>2. "probe" \notin C
    BY <1>1, <1>2, <1>3
  <2> QED
    BY <1>9, <2>1, <2>2, CountOne
<1>11. D = {o \in {"program", "lib", "held", "probe"} :
              \/ o = "program" /\ x = Program
              \/ o = "lib" /\ x = lib
              \/ o = "held" /\ x \in held
              \/ o = "probe" /\ x = call.probe}
  BY <1>1, <1>2, <1>3, <1>4
<1> QED
  BY <1>5, <1>10, <1>11

(* A call leaves the process as it found it, whatever other threads load   *)
(* and unload: every reference is somebody's, and no error text is left.   *)
LEMMA IInvIsEnough ==
    ASSUME IInv
    PROVE  LocationInv
<1>1. LocationTypeOK
  <2>1. host \in Hosts /\ host.platform \in Platforms /\ lib \in Images \cup {NoImage}
    BY InMemory DEF IInv, Types
  <2>2. /\ call.pc \in {"done", "handle", "address", "program", "name", "open", "close", "ask"}
        /\ call.ec \in Errors \cup {Ok}
    BY DEF IInv, Types, CallType, Pcs, Scans
  <2>3. ToSet(images) = Mapped /\ Len(images) = Cardinality(Mapped)
    BY OnceCount DEF IInv, Listed
  <2> QED
    BY <2>1, <2>2, <2>3 DEF LocationTypeOK, IInv, Types
<1>2. ReferencesAreKept
  <2> SUFFICES ASSUME NEW x \in Images
               PROVE  refs[x] = Cardinality({o \in {"program", "lib", "held", "probe"} :
                                  \/ o = "program" /\ x = Program
                                  \/ o = "lib" /\ x = lib
                                  \/ o = "held" /\ x \in held
                                  \/ o = "probe" /\ x = call.probe})
    BY DEF ReferencesAreKept
  <2>1. refs[x] = Is(x = Program) + Is(x = lib) + Is(x \in held) + Is(x = call.probe)
    BY DEF IInv, Counted
  <2> QED
    BY <2>1, CountOwners
<1>3. NoTextLeft
  BY DEF NoTextLeft, IInv, Under, Scans
<1> QED
  BY <1>1, <1>2, <1>3 DEF LocationInv

(* For any images, hosts and number of changes: the loader's references    *)
(* are those of the process, the caller, other threads and a probe that is *)
(* still open, and a call that is over leaves no text for dlerror().       *)
THEOREM LocationInvCorrect == Spec => []LocationInv
<1>1. Init => IInv
  BY InitInv
<1>2. IInv /\ [Next]_vars => IInv'
  BY NextInv
<1>3. IInv => LocationInv
  BY IInvIsEnough
<1> QED
  BY <1>1, <1>2, <1>3, PTL DEF Spec

-----------------------------------------------------------------------------
(* Which answers are right.  Right and Good say of a call what             *)
(* AnswersAreRight and LoadedIsFound say of the call there is.             *)

Right(c) ==
    c.pc = "done" /\ c.op # "none" /\ c.ec = Ok
      => c.path = c.of /\ c.length = Length[c.path]

Good(c) ==
    c.pc = "done" /\ c.op = "library" /\ c.of # NoImage
      => c.ec = Ok \/ (c.of = Program /\ ~host.proc)

LEMMA RightIs == AnswersAreRight <=> Right(call)
  BY DEF AnswersAreRight, Right

LEMMA GoodIs == LoadedIsFound <=> (gone \/ ~LastErrorTells \/ Good(call))
  BY DEF LoadedIsFound, Good

(* An answer that names what was asked for is both; an error is right.     *)
LEMMA FoundIsRight ==
    ASSUME call \in CallType, call.of \in Images, LocationsAssumption,
           call' = Answer(call, call.of, Length[call.of], Ok)
    PROVE  Right(call') /\ Good(call')
<1>1. call.of \in Things /\ Length[call.of] \in Nat /\ Ok \in Errors \cup {Ok}
  BY DEF LocationsAssumption, Things
<1>2. /\ call'.of = call.of /\ call'.path = call.of
      /\ call'.length = Length[call.of] /\ call'.ec = Ok
  BY <1>1, AnswerIs
<1> QED
  BY <1>2 DEF Right, Good

LEMMA ErrorIsRight ==
    ASSUME call \in CallType, NEW e \in Errors, call' = Answer(call, NoImage, 0, e)
    PROVE  Right(call') /\ call'.of = call.of /\ call'.op = call.op
<1>1. call'.ec = e /\ call'.of = call.of /\ call'.op = call.op
  <2>1. NoImage \in Things /\ 0 \in Nat /\ e \in Errors \cup {Ok}
    BY DEF Things
  <2> QED
    BY <2>1, AnswerIs
<1>2. e # Ok
  BY DEF Errors, Ok
<1> QED
  BY <1>1, <1>2 DEF Right

(* A call that goes on is both.                                            *)
LEMMA GoingOnIsRight ==
    ASSUME call'.pc # "done"
    PROVE  Right(call') /\ Good(call')
  BY DEF Right, Good

(* Calls that begin: what fails at once fails with an error, and is asked  *)
(* of no library.                                                          *)
LEMMA BeginsRight ==
    ASSUME IInv, Call
    PROVE  Right(call') /\ Good(call')
<1>1. lib \in Things /\ Program \in Things /\ NoImage \in Things
  BY InMemory DEF Things
<1>2. ASSUME NEW op \in Ops, NEW of \in Things, NEW pc \in {"handle", "address", "program"},
             NEW c, c = Calling(op, of, pc)
      PROVE  c \in CallType /\ c.op = op /\ c.of = of /\ c.pc = pc
  BY <1>2 DEF Calling, NoCall, CallType, Things, Ops, Pcs
<1>3. ASSUME NEW c \in CallType, NEW e \in Errors, NEW d, d = Failed(c, e)
      PROVE  d.ec = e /\ d.of = c.of /\ d.op = c.op
  BY <1>1, <1>3, AnswerIs DEF Failed
<1>4. "bad_file_descriptor" # Ok /\ "bad_address" # Ok
      /\ "bad_file_descriptor" \in Errors /\ "bad_address" \in Errors
  BY DEF Errors, Ok
<1>5. CASE LibraryLocation
  <2>1. PICK c : c = Calling("library", lib, "handle")
    OBVIOUS
  <2>2. PICK d : d = Failed(c, "bad_file_descriptor")
    OBVIOUS
  <2>3. call' = IF lib = NoImage THEN d ELSE c
    BY <1>5, <2>1, <2>2 DEF LibraryLocation, Begin
  <2>4. c \in CallType /\ c.of = lib /\ c.pc = "handle"
    BY <1>1, <1>2, <2>1 DEF Ops
  <2>5. d.ec = "bad_file_descriptor" /\ d.of = lib
    BY <1>3, <1>4, <2>2, <2>4
  <2> QED
    BY <1>4, <2>3, <2>4, <2>5 DEF Right, Good
<1>6. ASSUME NEW x \in Mapped \cup {NoImage, Nowhere}, SymbolLocation(x)
      PROVE  Right(call') /\ Good(call')
  <2>1. PICK c : c = Calling("symbol", x, "address")
    OBVIOUS
  <2>2. PICK d : d = Failed(c, "bad_address")
    OBVIOUS
  <2>3. call' = IF x = NoImage THEN d ELSE c
    BY <1>6, <2>1, <2>2 DEF SymbolLocation, Begin
  <2>4. x \in Things
    BY DEF Mapped, Things
  <2>5. c \in CallType /\ c.op = "symbol" /\ c.pc = "address"
    BY <1>2, <2>1, <2>4 DEF Ops
  <2>6. d.ec = "bad_address" /\ d.op = "symbol"
    BY <1>3, <1>4, <2>2, <2>5
  <2> QED
    BY <1>4, <2>3, <2>5, <2>6 DEF Right, Good
<1>7. CASE ProgramLocation
  <2>1. PICK c : c = Calling("program", Program, "program")
    OBVIOUS
  <2>2. c.pc = "program" /\ call' = c
    BY <1>1, <1>2, <1>7, <2>1 DEF Ops, ProgramLocation, Begin
  <2> QED
    BY <2>2 DEF Right, Good
<1> QED
  BY <1>5, <1>6, <1>7 DEF Call

(* What no platform distinguishes.                                         *)
LEMMA RightEverywhere ==
    ASSUME IInv, Right(call),
           \/ \E x \in host.libs : LoadLibrary(x)
           \/ \E x \in Images : OtherLoads(x) \/ OtherUnloads(x)
           \/ Call \/ UNCHANGED vars
           \/ Dladdr \/ QueryAddress \/ ReadLinkMap \/ ReadSoinfo
           \/ CountImages \/ ReadName \/ OpenImage \/ CloseImage
           \/ AskName \/ GetExecName \/ NullHandle
    PROVE  Right(call')
<1>1. call \in CallType
  BY DEF IInv, Types
<1>2. ASSUME call' = call PROVE Right(call')
  BY <1>2
<1>3. ASSUME \E x \in host.libs : LoadLibrary(x) PROVE call' = call
  BY <1>3 DEF LoadLibrary
<1>4. ASSUME \E x \in Images : OtherLoads(x) \/ OtherUnloads(x) PROVE call' = call
  BY <1>4 DEF OtherLoads, OtherUnloads
<1>5. ASSUME UNCHANGED vars PROVE call' = call
  BY <1>5 DEF vars
<1>6. ASSUME Call PROVE Right(call')
  BY <1>6, BeginsRight
<1>7. ASSUME Dladdr PROVE Right(call')
  <2>1. CASE call.of \in Mapped
    <3>1. call.of \in Images /\ call' = Answer(call, call.of, Length[call.of], Ok)
      BY <1>7, <2>1 DEF Dladdr, Found, Mapped
    <3> QED
      BY <1>1, <3>1, FoundIsRight, LocationsAssumption
  <2>2. CASE call.of \notin Mapped
    <3>1. call' = Answer(call, NoImage, 0, "bad_address") /\ "bad_address" \in Errors
      BY <1>7, <2>2 DEF Dladdr, Failed, Errors
    <3> QED
      BY <1>1, <3>1, ErrorIsRight
  <2> QED
    BY <2>1, <2>2
<1>8. ASSUME QueryAddress PROVE Right(call')
  <2>1. ASSUME call' = [call EXCEPT !.pc = "handle"] PROVE Right(call')
    <3>1. call'.pc = "handle"
      BY <1>1, <2>1 DEF CallType
    <3> QED
      BY <3>1, GoingOnIsRight
  <2>2. ASSUME lasterr' = "invalid_parameter", call' = Failed(call, lasterr')
        PROVE  Right(call')
    <3>1. /\ call' = Answer(call, NoImage, 0, "invalid_parameter")
          /\ "invalid_parameter" \in Errors
      BY <2>2 DEF Failed, Errors
    <3> QED
      BY <1>1, <3>1, ErrorIsRight
  <2> QED
    BY <1>8, <2>1, <2>2 DEF QueryAddress
<1>9. ASSUME ReadLinkMap PROVE Right(call')
  <2>1. CASE call.of = Program
    <3>1. call' = [call EXCEPT !.pc = "program"]
      BY <1>9, <2>1 DEF ReadLinkMap
    <3>2. call'.pc = "program"
      BY <1>1, <3>1 DEF CallType
    <3> QED
      BY <3>2, GoingOnIsRight
  <2>2. CASE call.of # Program
    <3>1. call' = Answer(call, call.of, Length[call.of], Ok)
      BY <1>9, <2>2 DEF ReadLinkMap, Found
    <3>2. call.of \in Images
      BY <1>9, InMemory DEF ReadLinkMap, AtStep
    <3> QED
      BY <1>1, <3>1, <3>2, FoundIsRight, LocationsAssumption
  <2> QED
    BY <2>1, <2>2
<1>10. ASSUME ReadSoinfo PROVE Right(call')
  <2>1. call.of \in Images
    BY <1>10, InMemory DEF ReadSoinfo, AtStep
  <2>2. call' = Answer(call, call.of, Length[call.of], Ok)
    BY <1>1, <1>10, <2>1, SoinfoIs
  <2> QED
    BY <1>1, <2>1, <2>2, FoundIsRight, LocationsAssumption
<1>11. ASSUME CountImages PROVE Right(call')
  <2>1. call'.pc = "name"
    BY <1>1, <1>11 DEF CountImages, CallType
  <2> QED
    BY <2>1, GoingOnIsRight
<1>12. ASSUME ReadName PROVE Right(call')
  <2>1. PICK n : call' = [call EXCEPT !.pc = "open", !.name = n]
    BY <1>12 DEF ReadName
  <2>2. call'.pc = "open"
    BY <1>1, <2>1 DEF CallType
  <2> QED
    BY <2>2, GoingOnIsRight
<1>13. ASSUME OpenImage PROVE Right(call')
  <2>1. PICK y : call' = [call EXCEPT !.pc = "close", !.probe = y]
    BY <1>13 DEF OpenImage
  <2>2. call'.pc = "close"
    BY <1>1, <2>1 DEF CallType
  <2> QED
    BY <2>2, GoingOnIsRight
<1>14. ASSUME CloseImage PROVE Right(call')
  <2>1. PICK c : c = Compared
    OBVIOUS
  <2>2. call' = c /\ call.pc = "close" /\ host.platform = "macos"
    BY <1>14, <2>1 DEF CloseImage, AtStep
  <2>3. CASE call.probe = call.of
    <3>1. c.of = call.of /\ c.path = call.name /\ c.length = Length[call.of]
      BY <2>1, <2>2, <2>3, ComparedIs
    <3>2. call.of \in Images
      BY <2>2, InMemory DEF Scans
    <3>3. call.name = call.of
      BY <2>2, <2>3, <3>2, InMemory
        DEF IInv, Scan, Probed, FirstIsProgram, Scans
    <3> QED
      BY <2>2, <3>1, <3>3 DEF Right
  <2>4. CASE call.probe # call.of
    <3>1. c.pc = "name" \/ c.ec = "bad_file_descriptor"
      BY <2>1, <2>2, <2>4, ComparedIs
    <3> QED
      BY <2>2, <3>1 DEF Right, Ok
  <2> QED
    BY <2>3, <2>4
<1>15. ASSUME AskName PROVE Right(call')
  <2>1. PICK n : n = IF host.platform = "windows" THEN 260 ELSE 4096
    OBVIOUS
  <2>2. call' = [call EXCEPT !.pc = "ask", !.size = n]
    BY <1>15, <2>1 DEF AskName
  <2>3. call'.pc = "ask"
    BY <1>1, <2>2 DEF CallType
  <2> QED
    BY <2>3, GoingOnIsRight
<1>16. ASSUME GetExecName PROVE Right(call')
  <2>1. call.of = Program
    BY <1>16 DEF GetExecName, AtStep, IInv, Under
  <2>2. call' = Answer(call, call.of, Length[call.of], Ok)
    BY <1>16, <2>1 DEF GetExecName, Found
  <2> QED
    BY <1>1, <2>1, <2>2, FoundIsRight, LocationsAssumption
<1>17. ASSUME NullHandle PROVE Right(call')
  <2>1. call'.pc = "handle"
    BY <1>1, <1>17 DEF NullHandle, CallType
  <2> QED
    BY <2>1, GoingOnIsRight
<1> QED
  BY <1>2, <1>3, <1>4, <1>5, <1>6, <1>7, <1>8, <1>9, <1>10, <1>11, <1>12, <1>13, <1>14,
     <1>15, <1>16, <1>17

(* The buffers of Windows and Cygwin: what fits is the whole path.         *)
LEMMA AskedRight ==
    ASSUME IInv, AskWindows \/ AskCygwin
    PROVE  Right(call')
<1>1. call \in CallType /\ call.size \in Nat /\ call.of \in Things /\ NoImage \in Things
  BY DEF IInv, Types, CallType, Things
<1>2. PICK got : got = GetModuleFileName(call.of, call.size)
  OBVIOUS
<1>3. /\ got.length \in Nat /\ got.err \in Errors \cup {Ok}
      /\ call.of \notin Mapped => got.length = 0 /\ got.err = "module_not_found"
      /\ call.of \in Mapped /\ Length[call.of] < call.size
           => got.length = Length[call.of] /\ got.err = lasterr
      /\ call.of \in Mapped /\ ~(Length[call.of] < call.size)
           => got.length = call.size /\ got.err = "insufficient_buffer"
  BY <1>1, <1>2, NameIs
<1>4. ASSUME call.of \in Mapped, Length[call.of] < call.size,
             call' = Answer(call, call.of, got.length, Ok)
      PROVE  Right(call')
  <2>1. call.of \in Images /\ got.length = Length[call.of]
    BY <1>3, <1>4 DEF Mapped
  <2> QED
    BY <1>1, <1>4, <2>1, FoundIsRight, LocationsAssumption
<1>5. ASSUME NEW n, call' = [call EXCEPT !.size = n], call.pc = "ask"
      PROVE  Right(call')
  <2>1. call'.pc = "ask"
    BY <1>1, <1>5 DEF CallType
  <2> QED
    BY <2>1, GoingOnIsRight
<1>6. CASE AskWindows
  <2>1. CASE Fits(got, call.size)
    <3>1. call' = Answer(call, call.of, got.length, Ok)
      BY <1>2, <1>6, <2>1 DEF AskWindows
    <3>2. call.of \in Mapped /\ Length[call.of] < call.size
      BY <1>3, <2>1 DEF Fits
    <3> QED
      BY <1>4, <3>1, <3>2
  <2>2. CASE ~Fits(got, call.size)
    <3>1. got.err # Ok
      <4>1. ASSUME call.of \in Mapped, Length[call.of] < call.size PROVE FALSE
        <5>1. got.length # 0 /\ got.length < call.size
          BY <1>3, <4>1, InMemory DEF Mapped
        <5> QED
          BY <2>2, <5>1 DEF Fits
      <4> QED
        BY <1>3, <4>1 DEF Ok
    <3>2. \/ call' = [call EXCEPT !.size = Larger(call.size)]
          \/ call' = Answer(call, NoImage, 0, got.err)
      BY <1>2, <1>6, <2>2 DEF AskWindows, Failed
    <3>3. call.pc = "ask" /\ got.err \in Errors
      BY <1>3, <1>6, <3>1 DEF AskWindows, AtStep
    <3> QED
      BY <1>1, <1>5, <3>2, <3>3, ErrorIsRight
  <2> QED
    BY <2>1, <2>2
<1>7. CASE AskCygwin
  <2>1. call' = CASE got.err = "insufficient_buffer" -> [call EXCEPT !.size = 2 * call.size]
                  [] got.err = Ok -> Answer(call, call.of, got.length, Ok)
                  [] OTHER -> Answer(call, NoImage, 0, "bad_file_descriptor")
    BY <1>2, <1>7 DEF AskCygwin, Failed, Twice
  <2>2. CASE got.err = "insufficient_buffer"
    <3>1. call' = [call EXCEPT !.size = 2 * call.size] /\ call.pc = "ask"
      BY <1>7, <2>1, <2>2 DEF Ok, AskCygwin, AtStep
    <3> QED
      BY <1>5, <3>1
  <2>3. CASE got.err = Ok
    <3>1. call' = Answer(call, call.of, got.length, Ok)
      BY <2>1, <2>3 DEF Ok
    <3>2. call.of \in Mapped /\ Length[call.of] < call.size
      BY <1>3, <2>3 DEF Ok
    <3> QED
      BY <1>4, <3>1, <3>2
  <2>4. CASE got.err # "insufficient_buffer" /\ got.err # Ok
    <3>1. call' = Answer(call, NoImage, 0, "bad_file_descriptor")
          /\ "bad_file_descriptor" \in Errors
      BY <2>1, <2>4 DEF Errors
    <3> QED
      BY <1>1, <3>1, ErrorIsRight
  <2> QED
    BY <2>2, <2>3, <2>4
<1> QED
  BY <1>6, <1>7

(* The executable's path where its length is answered with the buffer of   *)
(* 1024 characters; AskSystem answers a longer one with its final null.    *)
ProgramFits ==
    \A h \in Hosts : h.platform \in {"macos", "freebsd"} => Length[Program] < 1024

LEMMA ProgramRight ==
    ASSUME IInv, ProgramFits, ReadProc \/ AskSystem
    PROVE  Right(call')
<1>1. call \in CallType /\ call.of = Program /\ Program \in Images
      /\ "bad_file_descriptor" \in Errors /\ "no_such_file" \in Errors
  BY InMemory DEF IInv, Types, Under, ReadProc, AskSystem, AtStep, Errors
<1>2. \/ call' = Answer(call, call.of, Length[call.of], Ok)
      \/ \E e \in Errors : call' = Answer(call, NoImage, 0, e)
  <2>1. CASE ReadProc
    BY <1>1, <2>1 DEF ReadProc, Found, Failed
  <2>2. CASE AskSystem
    <3>1. Length[Program] < 1024
      BY <2>2 DEF AskSystem, AtStep, ProgramFits, IInv, Types
    <3> QED
      BY <1>1, <2>2, <3>1 DEF AskSystem, Found, Failed
  <2> QED
    BY <2>1, <2>2
<1> QED
  BY <1>1, <1>2, FoundIsRight, ErrorIsRight, LocationsAssumption

LEMMA NextRight ==
    ASSUME ProgramFits, IInv, AnswersAreRight, [Next]_vars
    PROVE  AnswersAreRight'
<1>1. Right(call)
  BY RightIs
<1>2. Right(call')
  <2>1. ASSUME ReadProc \/ AskSystem PROVE Right(call')
    BY <2>1, ProgramRight
  <2>2. ASSUME AskWindows \/ AskCygwin PROVE Right(call')
    BY <2>2, AskedRight
  <2>4. ASSUME ResizeFails PROVE Right(call')
    <3>1. /\ call' = Answer(call, NoImage, 0, "bad_alloc")
          /\ call \in CallType /\ "bad_alloc" \in Errors
      BY <2>4 DEF ResizeFails, Failed, IInv, Types, Errors
    <3> QED
      BY <3>1, ErrorIsRight
  <2>3. ASSUME \/ \E x \in host.libs : LoadLibrary(x)
               \/ \E x \in Images : OtherLoads(x) \/ OtherUnloads(x)
               \/ Call \/ UNCHANGED vars
               \/ Dladdr \/ QueryAddress \/ ReadLinkMap \/ ReadSoinfo
               \/ CountImages \/ ReadName \/ OpenImage \/ CloseImage
               \/ AskName \/ GetExecName \/ NullHandle
        PROVE  Right(call')
    BY <1>1, <2>3, RightEverywhere
  <2> QED
    BY <2>1, <2>2, <2>3, <2>4 DEF Next, Step
<1> QED
  BY <1>2 DEF AnswersAreRight, Right

(* A location that is answered without an error is the whole path of what  *)
(* was asked for, whatever other threads load and unload and whichever     *)
(* size paths have: provided the executable's own path fits the buffer of  *)
(* 1024 characters where program_location_impl starts with one.            *)
THEOREM AnswersAreRightCorrect == ProgramFits /\ Spec => []AnswersAreRight
<1>1. Init => AnswersAreRight
  <2> SUFFICES ASSUME Init PROVE call.op = "none"
    BY DEF AnswersAreRight
  <2> QED
    BY DEF Init, NoCall
<1>2. ASSUME ProgramFits
      PROVE  IInv /\ AnswersAreRight /\ [Next]_vars => AnswersAreRight'
  BY <1>2, NextRight
<1>3. Init => IInv
  BY InitInv
<1>4. IInv /\ [Next]_vars => IInv'
  BY NextInv
<1>5. CASE ProgramFits
  BY <1>1, <1>2, <1>3, <1>4, <1>5, PTL DEF Spec
<1> QED
  BY <1>5

-----------------------------------------------------------------------------
(* Which libraries are found.                                              *)

(* The libraries whose path Windows can be asked for: it is below the      *)
(* largest buffer (paths have fewer than 32768 characters there).          *)
PathsFit ==
    \A h \in Hosts : h.platform = "windows" => \A x \in h.libs : Length[x] < 512 * 1024

(* Cygwin: if the last error is clear at first and the first buffer is     *)
(* large enough, then the last error stays clear.                          *)
NoErrorLeft ==
    host.platform = "cygwin" /\ LastErrorTells =>
      lasterr = Ok /\ (call.pc = "ask" => call.size = 4096)

LEMMA CygwinGot ==
    ASSUME IInv, NoErrorLeft, AskCygwin, LastErrorTells
    PROVE  lasterr' = Ok /\ call' = Answer(call, call.of, Length[call.of], Ok)
<1>1. /\ call.pc = "ask" /\ host.platform = "cygwin" /\ call.size \in Nat
      /\ call.size = 4096 /\ lasterr = Ok
  BY DEF AskCygwin, AtStep, NoErrorLeft, IInv, Types, CallType
<1>2. /\ call.of = lib /\ call.of \in Mapped /\ Length[call.of] \in Nat
  BY <1>1, InMemory
<1>3. Length[call.of] < 4096
  <2>1. lib # NoImage
    BY <1>2, LocationsAssumption DEF Mapped, LocationsAssumption
  <2> QED
    BY <1>1, <1>2, <2>1 DEF LastErrorTells
<1>4. PICK got : got = GetModuleFileName(call.of, call.size)
  OBVIOUS
<1>5. got.length = Length[call.of] /\ got.err = Ok
  BY <1>1, <1>2, <1>3, <1>4, NameIs
<1> QED
  BY <1>4, <1>5 DEF AskCygwin, Ok

LEMMA NoErrorLeftKept ==
    ASSUME IInv, NoErrorLeft, [Next]_vars
    PROVE  NoErrorLeft'
<1> SUFFICES ASSUME host'.platform = "cygwin", LastErrorTells'
             PROVE  lasterr' = Ok /\ (call'.pc = "ask" => call'.size = 4096)
  BY DEF NoErrorLeft
<1>1. host' = host /\ (lib' = lib \/ lib = NoImage)
  BY DEF Next, LoadLibrary, OtherLoads, OtherUnloads, Call, LibraryLocation, SymbolLocation,
         ProgramLocation, Begin, Step, Dladdr, QueryAddress, ReadLinkMap, ReadSoinfo,
         CountImages, ReadName, OpenImage, CloseImage, AskName, AskWindows, AskCygwin,
         ResizeFails, ReadProc, AskSystem, GetExecName, NullHandle, OnlyCall, vars
<1>2. /\ host.platform = "cygwin" /\ lasterr = Ok /\ LastErrorTells
      /\ (call.pc = "ask" => call.size = 4096) /\ call \in CallType
  BY <1>1 DEF NoErrorLeft, LastErrorTells, IInv, Types
<1>3. ASSUME lasterr' = lasterr, call'.pc # "ask"
      PROVE  lasterr' = Ok /\ (call'.pc = "ask" => call'.size = 4096)
  BY <1>2, <1>3
<1>4. ASSUME lasterr' = lasterr, call' = call
      PROVE  lasterr' = Ok /\ (call'.pc = "ask" => call'.size = 4096)
  BY <1>2, <1>4
<1>5. ASSUME NEW x, NEW n, NEW e, call' = Answer(call, x, n, e) PROVE call'.pc = "done"
  BY <1>2, <1>5 DEF Answer, CallType
<1>6. ASSUME \/ \E x \in host.libs : LoadLibrary(x)
             \/ \E x \in Images : OtherLoads(x) \/ OtherUnloads(x)
             \/ UNCHANGED vars
      PROVE  lasterr' = lasterr /\ call' = call
  BY <1>6 DEF LoadLibrary, OtherLoads, OtherUnloads, vars
<1>7. ASSUME Call PROVE lasterr' = lasterr /\ call'.pc # "ask"
  <2>1. ASSUME NEW op, NEW of, NEW pc \in {"handle", "address", "program"}, NEW e,
               NEW c, c = Calling(op, of, pc), NEW d, d = Failed(c, e)
        PROVE  c.pc # "ask" /\ d.pc # "ask"
    BY <2>1 DEF Calling, NoCall, Failed, Answer
  <2>2. ASSUME NEW op, NEW of, NEW pc \in {"handle", "address", "program"}, NEW e, NEW b,
               Begin(IF b THEN Failed(Calling(op, of, pc), e) ELSE Calling(op, of, pc))
        PROVE  lasterr' = lasterr /\ call'.pc # "ask"
    BY <2>1, <2>2 DEF Begin
  <2>3. ASSUME LibraryLocation PROVE lasterr' = lasterr /\ call'.pc # "ask"
    BY <2>2, <2>3 DEF LibraryLocation
  <2>4. ASSUME NEW x, SymbolLocation(x) PROVE lasterr' = lasterr /\ call'.pc # "ask"
    BY <2>2, <2>4 DEF SymbolLocation
  <2>5. ASSUME ProgramLocation PROVE lasterr' = lasterr /\ call'.pc # "ask"
    BY <2>1, <2>5 DEF ProgramLocation, Begin
  <2> QED
    BY <1>7, <2>3, <2>4, <2>5 DEF Call
<1>8. ASSUME Dladdr \/ ReadSoinfo \/ ReadLinkMap \/ CountImages \/ ReadName \/ OpenImage
             \/ CloseImage \/ QueryAddress \/ AskWindows \/ GetExecName \/ AskSystem
             \/ NullHandle
      PROVE  lasterr' = lasterr /\ call'.pc # "ask"
  <2>1. Dladdr
    BY <1>2, <1>8 DEF ReadSoinfo, ReadLinkMap, CountImages, ReadName, OpenImage, CloseImage,
                      QueryAddress, AskWindows, GetExecName, AskSystem, NullHandle, AtStep
  <2> QED
    BY <1>5, <2>1 DEF Dladdr, Found, Failed
<1>9. ASSUME AskName PROVE lasterr' = Ok /\ call'.size = 4096
  <2>1. call' = [call EXCEPT !.pc = "ask", !.size = 4096] /\ lasterr' = lasterr
    BY <1>2, <1>9 DEF AskName, OnlyCall
  <2> QED
    BY <1>2, <2>1 DEF CallType
<1>10. ASSUME AskCygwin PROVE lasterr' = Ok /\ call'.pc # "ask"
  BY <1>2, <1>5, <1>10, CygwinGot
<1>11. ASSUME ReadProc PROVE lasterr' = lasterr /\ call'.pc # "ask"
  BY <1>5, <1>11 DEF ReadProc, Found, Failed, OnlyCall
<1>12. ~ResizeFails
  BY <1>2, LocationsAssumption DEF ResizeFails, AtStep
<1> QED
  BY <1>3, <1>4, <1>6, <1>7, <1>8, <1>9, <1>10, <1>11, <1>12 DEF Next, Step

(* Windows: as long as the path does not fit, there is a larger buffer.    *)
LEMMA WindowsGot ==
    ASSUME PathsFit, IInv, AskWindows, call.op = "library", call.of # NoImage
    PROVE  Good(call')
<1>1. /\ call.pc = "ask" /\ host.platform = "windows" /\ call.size \in Nat
      /\ call \in CallType
  BY DEF AskWindows, AtStep, IInv, Types, CallType
<1>2. call.of = lib /\ lib \in Mapped /\ lib \in Images /\ lib \in host.libs /\ host \in Hosts
  BY InMemory DEF IInv, Under, Types
<1>3. Length[call.of] < 512 * 1024 /\ Length[call.of] \in Nat /\ Length[call.of] > 0
  BY <1>1, <1>2, InMemory DEF PathsFit
<1>4. PICK got : got = GetModuleFileName(call.of, call.size)
  OBVIOUS
<1>5. CASE Length[call.of] < call.size
  <2>1. got.length = Length[call.of]
    BY <1>1, <1>2, <1>4, <1>5, NameIs
  <2>2. Fits(got, call.size)
    BY <1>3, <1>5, <2>1 DEF Fits
  <2>3. call' = Answer(call, call.of, Length[call.of], Ok)
    BY <1>4, <2>1, <2>2 DEF AskWindows
  <2> QED
    BY <1>1, <1>2, <2>3, FoundIsRight, LocationsAssumption
<1>6. CASE ~(Length[call.of] < call.size)
  <2>1. got.length = call.size /\ got.err = "insufficient_buffer"
    BY <1>1, <1>2, <1>4, <1>6, NameIs
  <2>2. ~Fits(got, call.size)
    BY <1>1, <2>1 DEF Fits
  <2>3. Larger(call.size) < 1024 * 1024
    BY <1>1, <1>3, <1>6 DEF Larger
  <2>4. call' = [call EXCEPT !.size = Larger(call.size)]
    BY <1>4, <2>1, <2>2, <2>3 DEF AskWindows
  <2>5. call'.pc = "ask"
    BY <1>1, <2>4 DEF CallType
  <2> QED
    BY <2>5, GoingOnIsRight
<1> QED
  BY <1>5, <1>6

LEMMA NextGood ==
    ASSUME PathsFit, IInv, NoErrorLeft, LoadedIsFound, [Next]_vars
    PROVE  LoadedIsFound'
<1>1. call \in CallType
  BY DEF IInv, Types
<1> DEFINE Goal == LoadedIsFound'
<1>2. ASSUME Good(call'), host' = host PROVE Goal
  BY <1>2 DEF LoadedIsFound, Good
<1>3. ASSUME call' = call, host' = host, gone => gone', LastErrorTells' => LastErrorTells
      PROVE  Goal
  BY <1>3 DEF LoadedIsFound
<1>25. ASSUME host' = host, lib' = lib PROVE LastErrorTells' <=> LastErrorTells
  BY <1>25 DEF LastErrorTells
<1>4. ASSUME NEW x, NEW n, NEW e, call' = Answer(call, x, n, e),
             call.op # "library" \/ call.of = NoImage
      PROVE  Good(call')
  BY <1>1, <1>4 DEF Answer, CallType, Good
<1>5. ASSUME call' = Answer(call, call.of, Length[call.of], Ok)
      PROVE  Good(call')
  <2>1. call'.ec = Ok
    BY <1>1, <1>5 DEF Answer, CallType
  <2> QED
    BY <2>1 DEF Good
<1> HIDE DEF Goal
<1>6. ASSUME NEW x \in host.libs, LoadLibrary(x) PROVE Goal
  <2>1. LastErrorTells' => LastErrorTells
    BY <1>6 DEF LoadLibrary, LastErrorTells
  <2> QED
    BY <1>3, <1>6, <2>1 DEF LoadLibrary
<1>7. ASSUME NEW x \in Images, OtherLoads(x) PROVE Goal
  BY <1>3, <1>7, <1>25 DEF OtherLoads
<1>8. ASSUME NEW x \in Images, OtherUnloads(x) PROVE Goal
  BY <1>3, <1>8, <1>25 DEF OtherUnloads, Dlclose
<1>9. ASSUME UNCHANGED vars PROVE Goal
  BY <1>3, <1>9, <1>25 DEF vars
<1>10. ASSUME Call PROVE Goal
  <2>1. host' = host
    BY <1>10 DEF Call, LibraryLocation, SymbolLocation, ProgramLocation, Begin
  <2> QED
    BY <1>2, <1>10, <2>1, BeginsRight
<1>11. ASSUME Dladdr PROVE Goal
  <2>1. call.op # "library" /\ host' = host
    BY <1>11 DEF Dladdr, AtStep, IInv, Under
  <2>2. Good(call')
    BY <1>4, <1>11, <2>1 DEF Dladdr, Found, Failed
  <2> QED
    BY <1>2, <2>1, <2>2
<1>12. ASSUME QueryAddress PROVE Goal
  <2>1. call.op # "library" /\ host' = host
    BY <1>12 DEF QueryAddress, AtStep, IInv, Under
  <2>2. ASSUME call' = [call EXCEPT !.pc = "handle"] PROVE Good(call')
    <3>1. call'.pc = "handle"
      BY <1>1, <2>2 DEF CallType
    <3> QED
      BY <3>1, GoingOnIsRight
  <2>3. Good(call')
    BY <1>4, <1>12, <2>1, <2>2 DEF QueryAddress, Failed
  <2> QED
    BY <1>2, <2>1, <2>3
<1>13. ASSUME ReadLinkMap PROVE Goal
  <2>1. host' = host
    BY <1>13 DEF ReadLinkMap, OnlyCall
  <2>2. ASSUME call' = [call EXCEPT !.pc = "program"] PROVE Good(call')
    <3>1. call'.pc = "program"
      BY <1>1, <2>2 DEF CallType
    <3> QED
      BY <3>1, GoingOnIsRight
  <2>3. Good(call')
    BY <1>5, <1>13, <2>2 DEF ReadLinkMap, Found
  <2> QED
    BY <1>2, <2>1, <2>3
<1>14. ASSUME ReadSoinfo PROVE Goal
  <2>1. host' = host /\ call.of \in Images
    BY <1>14, InMemory DEF ReadSoinfo, OnlyCall, AtStep
  <2>2. Good(call')
    BY <1>1, <1>5, <1>14, <2>1, SoinfoIs
  <2> QED
    BY <1>2, <2>1, <2>2
<1>15. ASSUME CountImages PROVE Goal
  <2>1. call'.pc = "name" /\ host' = host
    BY <1>1, <1>15 DEF CountImages, CallType, OnlyCall
  <2> QED
    BY <1>2, <2>1, GoingOnIsRight
<1>16. ASSUME ReadName PROVE Goal
  <2>1. PICK n : call' = [call EXCEPT !.pc = "open", !.name = n]
    BY <1>16 DEF ReadName
  <2>2. call'.pc = "open" /\ host' = host
    BY <1>1, <1>16, <2>1 DEF CallType, ReadName, OnlyCall
  <2> QED
    BY <1>2, <2>2, GoingOnIsRight
<1>17. ASSUME OpenImage PROVE Goal
  <2>1. PICK y : call' = [call EXCEPT !.pc = "close", !.probe = y]
    BY <1>17 DEF OpenImage
  <2>2. call'.pc = "close" /\ host' = host
    BY <1>1, <1>17, <2>1 DEF CallType, OpenImage
  <2> QED
    BY <1>2, <2>2, GoingOnIsRight
<1>18. ASSUME CloseImage PROVE Goal
  <2>1. PICK c : c = Compared
    OBVIOUS
  <2>2. /\ call' = c /\ host' = host /\ call.pc = "close" /\ host.platform = "macos"
    BY <1>18, <2>1 DEF CloseImage, AtStep
  <2>3. gone => gone'
    BY <1>18 DEF CloseImage, Dlclose
  <2>4. CASE gone
    BY <2>3, <2>4 DEF Goal, LoadedIsFound
  <2>5. CASE ~gone
    <3>1. PICK p \in 1 .. Len(images) :
            /\ images[p] = call.of /\ call.i < p /\ p <= call.count
            /\ call.name = images[call.i + 1] /\ call.probe = call.name
      BY <2>2, <2>5 DEF IInv, Scan, Scanning, Scans
    <3>2. call.i \in Nat /\ call.count \in Nat /\ Len(images) \in Nat
      BY <1>1, LenProperties DEF CallType, IInv, Listed
    <3>3. call.i < call.count
      BY <3>1, <3>2
    <3>4. c.ec = Ok \/ c.pc = "name"
      BY <2>1, <2>2, <3>3, ComparedIs
    <3>5. Good(call')
      BY <2>2, <3>4 DEF Good
    <3> QED
      BY <1>2, <2>2, <3>5
  <2> QED
    BY <2>4, <2>5
<1>19. ASSUME AskName PROVE Goal
  <2>1. PICK n : n = IF host.platform = "windows" THEN 260 ELSE 4096
    OBVIOUS
  <2>2. call' = [call EXCEPT !.pc = "ask", !.size = n] /\ host' = host
    BY <1>19, <2>1 DEF AskName, OnlyCall
  <2>3. call'.pc = "ask"
    BY <1>1, <2>2 DEF CallType
  <2> QED
    BY <1>2, <2>2, <2>3, GoingOnIsRight
<1>20. ASSUME AskWindows PROVE Goal
  <2>1. host' = host
    BY <1>20 DEF AskWindows
  <2>2. CASE call.op = "library" /\ call.of # NoImage
    BY <1>2, <1>20, <2>1, <2>2, WindowsGot
  <2>3. CASE ~(call.op = "library" /\ call.of # NoImage)
    <3>1. call'.op = call.op /\ call'.of = call.of
      BY <1>1, <1>20 DEF AskWindows, Answer, Failed, CallType
    <3>2. Good(call')
      BY <2>3, <3>1 DEF Good
    <3> QED
      BY <1>2, <2>1, <3>2
  <2> QED
    BY <2>2, <2>3
<1>21. ASSUME AskCygwin PROVE Goal
  <2>1. host' = host /\ lib' = lib
    BY <1>21 DEF AskCygwin
  <2>2. CASE LastErrorTells
    BY <1>2, <1>5, <1>21, <2>1, <2>2, CygwinGot
  <2>3. CASE ~LastErrorTells
    BY <1>25, <2>1, <2>3 DEF Goal, LoadedIsFound
  <2> QED
    BY <2>2, <2>3
<1>26. ASSUME ResizeFails PROVE Goal
  <2>1. host' = host /\ lib' = lib /\ host.platform = "cygwin" /\ call.pc = "ask"
    BY <1>26 DEF ResizeFails, OnlyCall, AtStep
  <2>2. ~LastErrorTells
    BY <1>26, <2>1, LocationsAssumption DEF NoErrorLeft, ResizeFails
  <2> QED
    BY <1>25, <2>1, <2>2 DEF Goal, LoadedIsFound
<1>22. ASSUME ReadProc \/ AskSystem \/ GetExecName PROVE Goal
  <2>1. host' = host /\ call.of = Program
    BY <1>22 DEF ReadProc, AskSystem, GetExecName, OnlyCall, AtStep, IInv, Under
  <2>2. \/ ~host.proc
        \/ \E n : call' = Answer(call, Program, n, Ok)
    BY <1>22 DEF ReadProc, AskSystem, GetExecName, Found
  <2>3. ASSUME NEW x, NEW n, NEW e, call' = Answer(call, x, n, e)
        PROVE  call'.of = call.of /\ call'.ec = e
    BY <1>1, <2>3 DEF Answer, CallType
  <2>4. call'.of = call.of
    BY <1>22, <2>3 DEF ReadProc, AskSystem, GetExecName, Found, Failed
  <2>5. Good(call')
    BY <2>1, <2>2, <2>3, <2>4 DEF Good
  <2> QED
    BY <1>2, <2>1, <2>5
<1>23. ASSUME NullHandle PROVE Goal
  <2>1. call'.pc = "handle" /\ host' = host
    BY <1>1, <1>23 DEF NullHandle, CallType, OnlyCall
  <2> QED
    BY <1>2, <2>1, GoingOnIsRight
<1>24. Goal
  BY <1>6, <1>7, <1>8, <1>9, <1>10, <1>11, <1>12, <1>13, <1>14, <1>15, <1>16, <1>17, <1>18,
     <1>19, <1>20, <1>21, <1>22, <1>23, <1>26 DEF Next, Step
<1> QED
  BY <1>24 DEF Goal

(* A library that is loaded is found on every platform, unless an image    *)
(* leaves memory during the call or, on Cygwin, the last error does not    *)
(* tell: provided its path fits the largest buffer of Windows.             *)
THEOREM LoadedIsFoundCorrect == PathsFit /\ Spec => []LoadedIsFound
<1>1. Init => LoadedIsFound
  <2> SUFFICES ASSUME Init PROVE call.op = "none"
    BY DEF LoadedIsFound
  <2> QED
    BY DEF Init, NoCall
<1>2. Init => NoErrorLeft
  <2> SUFFICES ASSUME Init PROVE NoErrorLeft
    OBVIOUS
  <2>1. call.pc = "done" /\ lasterr = host.lasterr
    BY DEF Init, NoCall
  <2> QED
    BY <2>1 DEF NoErrorLeft, LastErrorTells
<1>3. IInv /\ NoErrorLeft /\ [Next]_vars => NoErrorLeft'
  BY NoErrorLeftKept
<1>4. ASSUME PathsFit
      PROVE  IInv /\ NoErrorLeft /\ LoadedIsFound /\ [Next]_vars => LoadedIsFound'
  BY <1>4, NextGood
<1>5. Init => IInv
  BY InitInv
<1>6. IInv /\ [Next]_vars => IInv'
  BY NextInv
<1>7. CASE PathsFit
  BY <1>1, <1>2, <1>3, <1>4, <1>5, <1>6, <1>7, PTL DEF Spec
<1> QED
  BY <1>7
=============================================================================
