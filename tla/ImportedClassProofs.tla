-------------------------- MODULE ImportedClassProofs --------------------------
(***************************************************************************)
(* Objects of imported classes and values of import_mangled, for every     *)
(* number of libraries, objects, blocks and values, every way to import    *)
(* and every class.                                                        *)
(***************************************************************************)
EXTENDS ImportedClass, FiniteSetTheorems, TLAPS

(* A constructor or destructor that is at work was called.                 *)
Called == \A i \in Classes : stage[i] # "none" => call[i] \in Calls

(* What data_ points to is an object, of the library that lib_ owns.       *)
Held == \A i \in Classes : data_[i] # None =>
    /\ heap[data_[i]].status = "object"
    /\ heap[data_[i]].image = owns[i]
    /\ owns[i] # None

OneHolder == \A i, j \in Classes : data_[i] # None /\ data_[i] = data_[j] => i = j

NoneLost == \A b \in Blocks :
    heap[b].status = "object" => \E i \in Classes : data_[i] = b

(* The inductive invariant.  That an object's image is the one its owner's *)
(* lib_ owns, and not just some image in memory, is what a step of another *)
(* object or of the program's libraries cannot disturb.                    *)
IInv == ClassTypeOK /\ Called /\ Held /\ OneHolder /\ NoneLost

HeapType == [Blocks -> [status : {"free", "raw", "object"}, by : {"array", "class"},
                        image : Images \cup {None}]]

-----------------------------------------------------------------------------
LEMMA InitIInv == Init => IInv
<1> SUFFICES ASSUME Init PROVE IInv
  OBVIOUS
<1>1. heap \in HeapType
  BY DEF Init, Free, HeapType
<1>2. ClassTypeOK
  BY <1>1 DEF Init, ClassTypeOK, HeapType, Stages, Sizes
<1>3. \A b \in Blocks : heap[b].status # "object"
  BY DEF Init, Free
<1> QED
  BY <1>2, <1>3 DEF Init, IInv, Called, Held, OneHolder, NoneLost

(* The first step of a constructor, before the object has data_.           *)
LEMMA BeginKeepsIInv ==
    ASSUME IInv, NEW i \in Classes, NEW c \in Calls, NEW size \in Sizes,
           c.kind = "rvalue" => c.from \in Libs, Begin(i, c, size)
    PROVE  IInv'
<1>1. /\ stage[i] = "none" /\ data_[i] = None
      /\ stage' = [stage EXCEPT ![i] = "lib"]
      /\ call' = [call EXCEPT ![i] = c]
      /\ size_' = [size_ EXCEPT ![i] = size]
      /\ UNCHANGED <<data_, ti_, heap, value>>
  BY DEF Begin, IInv, ClassTypeOK
<1>2. /\ owns' \in [Owners -> Images \cup {None}]
      /\ \A j \in Classes : j # i => owns'[j] = owns[j]
  <2>1. CASE c.kind = "rvalue"
    <3>1. owns' = [owns EXCEPT ![i] = owns[c.from], ![c.from] = None]
      BY <2>1 DEF Begin
    <3>2. c.from \in Owners /\ c.from \notin Classes
      BY <2>1, ClassAssumption DEF Calls
    <3> QED
      BY <3>1, <3>2 DEF IInv, ClassTypeOK, Owners
  <2>2. CASE c.kind # "rvalue"
    <3>1. PICK f \in IF owns[c.from] = None THEN {None} ELSE Reload[owns[c.from]] :
            owns' = [owns EXCEPT ![i] = f]
      BY <2>2 DEF Begin
    <3>2. f \in Images \cup {None}
      <4>1. owns[c.from] \in Images \cup {None}
        BY DEF IInv, ClassTypeOK, Calls
      <4> QED
        BY <4>1, ClassAssumption
    <3> QED
      BY <3>1, <3>2 DEF IInv, ClassTypeOK, Owners
  <2> QED
    BY <2>1, <2>2
<1>3. ClassTypeOK'
  BY <1>1, <1>2 DEF IInv, ClassTypeOK, Stages
<1>4. Called'
  BY <1>1 DEF IInv, ClassTypeOK, Called
<1>5. Held'
  BY <1>1, <1>2 DEF IInv, Held
<1>6. OneHolder' /\ NoneLost'
  BY <1>1 DEF IInv, OneHolder, NoneLost
<1> QED
  BY <1>3, <1>4, <1>5, <1>6 DEF IInv

LEMMA ImportKeepsIInv ==
    ASSUME IInv, NEW i \in Classes, NEW l \in Libs,
           NEW rvalue \in BOOLEAN, NEW sized \in BOOLEAN, Import(i, l, rvalue, sized)
    PROVE  IInv'
<1> DEFINE c == [kind |-> IF rvalue THEN "rvalue" ELSE "lvalue", from |-> l, sized |-> sized]
           size == IF sized THEN "whole" ELSE "zero"
<1>1. c \in Calls /\ (c.kind = "rvalue" => c.from \in Libs) /\ size \in Sizes
  BY DEF Calls, Kinds, Owners, Sizes
<1>2. Begin(i, c, size)
  BY DEF Import
<1> HIDE DEF c, size
<1> QED
  BY <1>1, <1>2, BeginKeepsIInv

LEMMA CopyObjectKeepsIInv ==
    ASSUME IInv, NEW i \in Classes, NEW j \in Classes, CopyObject(i, j)
    PROVE  IInv'
<1> DEFINE c == [kind |-> "copy", from |-> j, sized |-> ~call[j].sized]
           size == IF call[j].sized THEN "zero" ELSE size_[j]
<1>1. call[j] \in Calls
  BY DEF CopyObject, Whole, IInv, Called
<1>2. c \in Calls /\ c.kind # "rvalue" /\ size \in Sizes
  BY <1>1 DEF Calls, Kinds, Owners, Sizes, IInv, ClassTypeOK
<1>3. Begin(i, c, size)
  BY DEF CopyObject
<1> HIDE DEF c, size
<1> QED
  BY <1>2, <1>3, BeginKeepsIInv

(* A step that moves only one object's constructor along.                  *)
LEMMA StageKeepsIInv ==
    ASSUME IInv, NEW i \in Classes, stage[i] # "none",
           NEW s \in {"done", "unwind"}, stage' = [stage EXCEPT ![i] = s],
           ti_' \in [Classes -> Images \cup {None}],
           UNCHANGED <<owns, call, data_, size_, heap, value>>
    PROVE  IInv'
<1>1. ClassTypeOK'
  BY DEF IInv, ClassTypeOK, Stages
<1>2. Called'
  BY DEF IInv, ClassTypeOK, Called
<1> QED
  BY <1>1, <1>2 DEF IInv, Held, OneHolder, NoneLost

LEMMA TypeInfoKeepsIInv ==
    ASSUME IInv, NEW i \in Classes, TypeInfo(i)
    PROVE  IInv'
<1>1. call[i].from \in Owners
  BY DEF TypeInfo, IInv, Called, Calls
<1>2. PICK s \in {"done", "unwind"} : stage' = [stage EXCEPT ![i] = s]
  BY DEF TypeInfo
<1>3. ti_' \in [Classes -> Images \cup {None}]
  BY <1>1 DEF TypeInfo, IInv, ClassTypeOK
<1> QED
  BY <1>2, <1>3, StageKeepsIInv DEF TypeInfo

LEMMA MakeDataKeepsIInv ==
    ASSUME IInv, NEW i \in Classes, MakeData(i)
    PROVE  IInv'
<1>1. /\ stage[i] = "lib" /\ owns[i] \in Images /\ data_[i] = None
      /\ stage' = [stage EXCEPT ![i] = "data"]
      /\ UNCHANGED <<owns, call, ti_, size_, value>>
  BY DEF MakeData, Constructs, Has, IInv, ClassTypeOK, Owners
<1>2. PICK b \in Blocks :
        /\ heap[b].status = "free"
        /\ heap' = [heap EXCEPT ![b] = Object(i)]
        /\ data_' = [data_ EXCEPT ![i] = b]
  BY DEF MakeData
<1>3. /\ Object(i) \in [status : {"free", "raw", "object"}, by : {"array", "class"},
                       image : Images \cup {None}]
      /\ Object(i).status = "object" /\ Object(i).image = owns[i]
  BY <1>1 DEF Object
<1>4. ClassTypeOK'
  <2>1. heap' \in HeapType
    BY <1>2, <1>3 DEF IInv, ClassTypeOK, HeapType
  <2> QED
    BY <1>1, <1>2, <2>1 DEF IInv, ClassTypeOK, HeapType, Stages
<1>5. Called'
  BY <1>1 DEF IInv, ClassTypeOK, Called
<1>6. owns[i] # None /\ b # None
  BY <1>1, ClassAssumption
<1>7. \A j \in Classes : data_[j] # b
  BY <1>2, <1>6 DEF IInv, Held
<1>8. /\ \A j \in Classes : data_'[j] = IF j = i THEN b ELSE data_[j]
      /\ \A x \in Blocks : heap'[x] = IF x = b THEN Object(i) ELSE heap[x]
  BY <1>2 DEF IInv, ClassTypeOK
<1>9. Held'
  <2> SUFFICES ASSUME NEW j \in Classes, data_'[j] # None
               PROVE  /\ heap'[data_'[j]].status = "object"
                      /\ heap'[data_'[j]].image = owns'[j] /\ owns'[j] # None
    BY DEF Held
  <2>1. CASE j = i
    BY <1>1, <1>3, <1>6, <1>8, <2>1
  <2>2. CASE j # i
    <3>1. data_'[j] = data_[j] /\ data_[j] \in Blocks /\ data_[j] # b
      BY <1>7, <1>8, <2>2 DEF IInv, ClassTypeOK
    <3> QED
      BY <1>1, <1>8, <3>1 DEF IInv, Held
  <2> QED
    BY <2>1, <2>2
<1>10. OneHolder'
  BY <1>7, <1>8 DEF IInv, OneHolder
<1>11. NoneLost'
  <2> SUFFICES ASSUME NEW x \in Blocks, heap'[x].status = "object"
               PROVE  \E j \in Classes : data_'[j] = x
    BY DEF NoneLost
  <2>1. CASE x = b
    BY <1>8, <2>1
  <2>2. CASE x # b
    <3>1. PICK j \in Classes : data_[j] = x
      BY <1>8, <2>2 DEF IInv, NoneLost
    <3>2. j # i
      BY <1>1, <3>1, ClassAssumption
    <3> QED
      BY <1>8, <3>1, <3>2
  <2> QED
    BY <2>1, <2>2
<1> QED
  BY <1>4, <1>5, <1>9, <1>10, <1>11 DEF IInv

(* What a throwing constructor leaves behind is not an object.             *)
LEMMA ConstructorThrowsKeepsIInv ==
    ASSUME IInv, NEW i \in Classes, ConstructorThrows(i)
    PROVE  IInv'
<1>1. /\ stage[i] = "lib"
      /\ stage' = [stage EXCEPT ![i] = "unwind"]
      /\ UNCHANGED <<owns, call, data_, ti_, size_, value>>
  BY DEF ConstructorThrows, Constructs
<1>2. /\ heap' \in HeapType
      /\ \A b \in Blocks : \/ heap'[b] = heap[b]
                           \/ heap[b].status = "free" /\ heap'[b].status = "raw"
  <2>1. CASE UNCHANGED heap
    BY <2>1 DEF IInv, ClassTypeOK, HeapType
  <2>2. ASSUME NEW b \in Blocks, heap[b].status = "free",
               heap' = [heap EXCEPT ![b] = [Free EXCEPT !.status = "raw"]]
        PROVE  <1>2
    BY <2>2 DEF IInv, ClassTypeOK, HeapType, Free
  <2> QED
    BY <2>1, <2>2 DEF ConstructorThrows
<1>3. ClassTypeOK'
  BY <1>1, <1>2 DEF IInv, ClassTypeOK, HeapType, Stages
<1>4. Called'
  BY <1>1 DEF IInv, ClassTypeOK, Called
<1>5. Held'
  BY <1>1, <1>2 DEF IInv, Held, ClassTypeOK
<1>6. OneHolder' /\ NoneLost'
  BY <1>1, <1>2 DEF IInv, OneHolder, NoneLost
<1> QED
  BY <1>3, <1>4, <1>5, <1>6 DEF IInv

LEMMA DestroyDataKeepsIInv ==
    ASSUME IInv, NEW i \in Classes, DestroyData(i)
    PROVE  IInv'
<1>1. /\ stage[i] \in {"unwind", "done"}
      /\ stage' = [stage EXCEPT ![i] = "release"]
      /\ data_' = [data_ EXCEPT ![i] = None]
      /\ UNCHANGED <<owns, call, ti_, size_, value>>
  BY DEF DestroyData
<1>2. /\ heap' \in HeapType
      /\ \A b \in Blocks : IF b = data_[i] THEN heap'[b].status = "free"
                           ELSE heap'[b] = heap[b]
  <2>1. CASE data_[i] = None
    <3>1. None \notin Blocks /\ heap' = heap
      BY <2>1, ClassAssumption DEF DestroyData
    <3> QED
      BY <2>1, <3>1 DEF IInv, ClassTypeOK, HeapType
  <2>2. CASE data_[i] # None
    <3>1. /\ heap' = [heap EXCEPT ![data_[i]] = [@ EXCEPT !.status = "free"]]
          /\ heap[data_[i]] \in [status : {"free", "raw", "object"}, by : {"array", "class"},
                                image : Images \cup {None}]
      BY <2>2 DEF DestroyData, IInv, ClassTypeOK
    <3> QED
      BY <2>2, <3>1 DEF IInv, ClassTypeOK, HeapType
  <2> QED
    BY <2>1, <2>2
<1>3. \A j \in Classes : data_'[j] = IF j = i THEN None ELSE data_[j]
  BY <1>1 DEF IInv, ClassTypeOK
<1>4. ClassTypeOK'
  BY <1>1, <1>2 DEF IInv, ClassTypeOK, HeapType, Stages
<1>5. Called'
  BY <1>1 DEF IInv, ClassTypeOK, Called
<1>6. Held'
  <2> SUFFICES ASSUME NEW j \in Classes, data_'[j] # None
               PROVE  /\ heap'[data_'[j]].status = "object"
                      /\ heap'[data_'[j]].image = owns'[j] /\ owns'[j] # None
    BY DEF Held
  <2>1. /\ j # i /\ data_'[j] = data_[j] /\ data_[j] \in Blocks /\ data_[j] # data_[i]
    BY <1>3 DEF IInv, ClassTypeOK, OneHolder
  <2> QED
    BY <1>1, <1>2, <2>1 DEF IInv, Held
<1>7. OneHolder'
  BY <1>3 DEF IInv, OneHolder
<1>8. NoneLost'
  <2> SUFFICES ASSUME NEW b \in Blocks, heap'[b].status = "object"
               PROVE  \E j \in Classes : data_'[j] = b
    BY DEF NoneLost
  <2>1. b # data_[i] /\ heap[b].status = "object"
    BY <1>2
  <2> QED
    BY <1>3, <2>1 DEF IInv, NoneLost
<1> QED
  BY <1>4, <1>5, <1>6, <1>7, <1>8 DEF IInv

LEMMA ReleaseLibKeepsIInv ==
    ASSUME IInv, NEW i \in Classes, ReleaseLib(i)
    PROVE  IInv'
<1>1. /\ stage[i] = "release" /\ data_[i] = None
      /\ owns' = [owns EXCEPT ![i] = None]
      /\ stage' = [stage EXCEPT ![i] = "none"]
      /\ call' = [call EXCEPT ![i] = None]
      /\ ti_' = [ti_ EXCEPT ![i] = None]
      /\ size_' = [size_ EXCEPT ![i] = "zero"]
      /\ UNCHANGED <<data_, heap, value>>
  BY DEF ReleaseLib, IInv, ClassTypeOK
<1>2. ClassTypeOK'
  BY <1>1 DEF IInv, ClassTypeOK, Stages, Sizes, Owners
<1>3. Called'
  BY <1>1 DEF IInv, ClassTypeOK, Called
<1>4. Held'
  BY <1>1 DEF IInv, ClassTypeOK, Held, Owners
<1> QED
  BY <1>1, <1>2, <1>3, <1>4 DEF IInv, OneHolder, NoneLost

LEMMA MoveConstructKeepsIInv ==
    ASSUME IInv, NEW i \in Classes, NEW j \in Classes, MoveConstruct(i, j)
    PROVE  IInv'
<1>1. /\ i # j /\ stage[i] = "none" /\ stage[j] = "done" /\ data_[i] = None
      /\ owns' = [owns EXCEPT ![i] = owns[j], ![j] = None]
      /\ data_' = [data_ EXCEPT ![i] = data_[j], ![j] = None]
      /\ stage' = [stage EXCEPT ![i] = "done"]
      /\ call' = [call EXCEPT ![i] = call[j]]
      /\ ti_' = [ti_ EXCEPT ![i] = ti_[j]]
      /\ size_' = [size_ EXCEPT ![i] = size_[j]]
      /\ UNCHANGED <<heap, value>>
  BY DEF MoveConstruct, IInv, ClassTypeOK
<1>2. \A k \in Classes :
        /\ data_'[k] = IF k = j THEN None ELSE IF k = i THEN data_[j] ELSE data_[k]
        /\ owns'[k] = IF k = j THEN None ELSE IF k = i THEN owns[j] ELSE owns[k]
  BY <1>1 DEF IInv, ClassTypeOK, Owners
<1>3. ClassTypeOK'
  BY <1>1 DEF IInv, ClassTypeOK, Stages, Sizes, Owners
<1>4. Called'
  BY <1>1 DEF IInv, ClassTypeOK, Called
<1>5. Held'
  <2> SUFFICES ASSUME NEW k \in Classes, data_'[k] # None
               PROVE  /\ heap'[data_'[k]].status = "object"
                      /\ heap'[data_'[k]].image = owns'[k] /\ owns'[k] # None
    BY DEF Held
  <2>1. k # j
    BY <1>2
  <2>2. PICK h \in Classes : data_'[k] = data_[h] /\ owns'[k] = owns[h]
    BY <1>2, <2>1
  <2>3. data_[h] # None
    BY <2>2
  <2> QED
    BY <1>1, <2>2, <2>3 DEF IInv, Held
<1>6. OneHolder'
  BY <1>1, <1>2 DEF IInv, OneHolder
<1>7. NoneLost'
  <2> SUFFICES ASSUME NEW b \in Blocks, heap'[b].status = "object"
               PROVE  \E k \in Classes : data_'[k] = b
    BY DEF NoneLost
  <2>1. PICK k \in Classes : data_[k] = b
    BY <1>1 DEF IInv, NoneLost
  <2>2. k # i
    BY <1>1, <2>1, ClassAssumption
  <2> QED
    BY <1>1, <1>2, <2>1, <2>2
<1> QED
  BY <1>3, <1>4, <1>5, <1>6, <1>7 DEF IInv

(* What the program does with its own libraries and its imported values.   *)
LEMMA ProgramKeepsIInv ==
    ASSUME IInv,
           \/ \E l \in Libs : UseLibrary(l)
           \/ \E v \in Values :
                \/ \E o \in Owners : ImportMangled(v, o)
                \/ \E w \in Values : CopyValue(v, w)
                \/ DropValue(v)
    PROVE  IInv'
<1>1. /\ owns' \in [Owners -> Images \cup {None}]
      /\ \A i \in Classes : owns'[i] = owns[i]
  <2>1. CASE UNCHANGED owns
    BY <2>1 DEF IInv, ClassTypeOK
  <2>2. ASSUME NEW l \in Libs, UseLibrary(l) PROVE <1>1
    <3>1. PICK f \in Images \cup {None} : owns' = [owns EXCEPT ![l] = f]
      BY <2>2 DEF UseLibrary
    <3>2. l \in Owners /\ l \notin Classes
      BY ClassAssumption DEF Owners
    <3> QED
      BY <3>1, <3>2 DEF IInv, ClassTypeOK
  <2> QED
    BY <2>1, <2>2 DEF ImportMangled, CopyValue, DropValue
<1>2. value' \in [Values -> Imported \cup {None}]
  <2>1. ASSUME NEW v \in Values, NEW o \in Owners, ImportMangled(v, o)
        PROVE  <1>2
    <3>1. owns[o] \in Images
      BY <2>1 DEF ImportMangled, IInv, ClassTypeOK
    <3>2. PICK f \in Reload[owns[o]] :
            value' = [value EXCEPT ![v] = [box |-> f, points |-> owns[o]]]
      BY <2>1 DEF ImportMangled
    <3>3. f \in Images
      BY <3>1, <3>2, ClassAssumption
    <3> QED
      BY <3>1, <3>2, <3>3 DEF IInv, ClassTypeOK, Imported
  <2>2. ASSUME NEW v \in Values,
               (\E w \in Values : CopyValue(v, w)) \/ DropValue(v)
        PROVE  <1>2
    BY <2>2 DEF CopyValue, DropValue, IInv, ClassTypeOK
  <2>3. ASSUME NEW l \in Libs, UseLibrary(l) PROVE <1>2
    BY <2>3 DEF UseLibrary, IInv, ClassTypeOK
  <2> QED
    BY <2>1, <2>2, <2>3
<1>3. UNCHANGED <<stage, call, data_, ti_, size_, heap>>
  BY DEF UseLibrary, ImportMangled, CopyValue, DropValue
<1>4. ClassTypeOK'
  BY <1>1, <1>2, <1>3 DEF IInv, ClassTypeOK
<1>5. Held'
  BY <1>1, <1>3 DEF IInv, Held
<1> QED
  BY <1>3, <1>4, <1>5 DEF IInv, Called, OneHolder, NoneLost

LEMMA NextIInv == IInv /\ [Next]_classVars => IInv'
<1> SUFFICES ASSUME IInv, [Next]_classVars PROVE IInv'
  OBVIOUS
<1>1. CASE UNCHANGED classVars
  BY <1>1 DEF classVars, IInv, ClassTypeOK, Called, Held, OneHolder, NoneLost
<1>2. ASSUME NEW i \in Classes, NEW l \in Libs, NEW m \in Imports,
             Import(i, l, m.rvalue, m.sized)
      PROVE  IInv'
  BY <1>2, ClassAssumption, ImportKeepsIInv
<1>3. ASSUME NEW i \in Classes, NEW j \in Classes, CopyObject(i, j)
      PROVE  IInv'
  BY <1>3, CopyObjectKeepsIInv
<1>4. ASSUME NEW i \in Classes, NEW j \in Classes, MoveConstruct(i, j)
      PROVE  IInv'
  BY <1>4, MoveConstructKeepsIInv
<1>5. ASSUME NEW i \in Classes, MakeDataFails(i) PROVE IInv'
  BY <1>5, StageKeepsIInv DEF MakeDataFails, IInv, ClassTypeOK
<1>6. ASSUME NEW i \in Classes, MakeData(i) PROVE IInv'
  BY <1>6, MakeDataKeepsIInv
<1>7. ASSUME NEW i \in Classes, ConstructorThrows(i) PROVE IInv'
  BY <1>7, ConstructorThrowsKeepsIInv
<1>8. ASSUME NEW i \in Classes, TypeInfo(i) PROVE IInv'
  BY <1>8, TypeInfoKeepsIInv
<1>9. ASSUME NEW i \in Classes, DestroyData(i) PROVE IInv'
  BY <1>9, DestroyDataKeepsIInv
<1>10. ASSUME NEW i \in Classes, ReleaseLib(i) PROVE IInv'
  BY <1>10, ReleaseLibKeepsIInv
<1> QED
  BY <1>1, <1>2, <1>3, <1>4, <1>5, <1>6, <1>7, <1>8, <1>9, <1>10,
     ProgramKeepsIInv DEF Next

-----------------------------------------------------------------------------
(* Every object that was constructed has one owner, between any two steps  *)
(* of the constructors and destructors.                                    *)
THEOREM ClassInvCorrect == Spec => []ClassInv
<1>1. ASSUME IInv, NEW b \in Blocks
      PROVE  Cardinality({i \in Classes : data_[i] = b})
               = IF heap[b].status = "object" THEN 1 ELSE 0
  <2>1. b # None
    BY ClassAssumption
  <2>2. CASE heap[b].status = "object"
    <3>1. PICK i \in Classes : data_[i] = b
      BY <1>1, <2>2 DEF IInv, NoneLost
    <3>2. {j \in Classes : data_[j] = b} = {i}
      BY <1>1, <2>1, <3>1 DEF IInv, OneHolder
    <3> QED
      BY <2>2, <3>2, FS_Singleton
  <2>3. CASE heap[b].status # "object"
    <3>1. {j \in Classes : data_[j] = b} = {}
      BY <1>1, <2>1, <2>3 DEF IInv, Held
    <3> QED
      BY <2>3, <3>1, FS_EmptySet
  <2> QED
    BY <2>2, <2>3
<1>2. IInv => ClassInv
  BY <1>1 DEF IInv, ClassInv, ObjectsHaveOneOwner
<1> QED
  BY <1>2, InitIInv, NextIInv, PTL DEF Spec

(* The code of an object is in memory as long as the object is.            *)
THEOREM ClassesStayMappedCorrect == Spec => []ClassesStayMapped
<1>1. IInv => ClassesStayMapped
  BY DEF IInv, Held, ClassesStayMapped, Resident, Owners
<1> QED
  BY <1>1, InitIInv, NextIInv, PTL DEF Spec

-----------------------------------------------------------------------------
(* With a loader that matches names, a copy by path is its source's image  *)
(* (CopyIsEqualCorrect of SharedLibraryProofs).                            *)
NamesMatch == \A f \in Images : Reload[f] \subseteq {f}

(* As long as a constructor runs, the library it was given is what it was  *)
(* then: the same as lib_, or empty if lib_ was moved out of it.           *)
Sourced == \A i \in Classes : stage[i] \in {"lib", "data"} =>
    /\ call[i].from \in Classes => stage[call[i].from] = "done"
    /\ owns[call[i].from] = IF call[i].kind = "rvalue" THEN None ELSE owns[i]

Typed == \A i \in Classes : Whole(i) => ti_[i] = owns[i]

Boxed == \A v \in Values : value[v] # None => value[v].points = value[v].box

LibInv == IInv /\ Sourced /\ Typed /\ Boxed

(* Nobody but the constructor itself touches what it reads.                *)
LEMMA BeginKeepsLibInv ==
    ASSUME NamesMatch, LibInv, NEW i \in Classes, NEW c \in Calls, NEW size \in Sizes,
           c.from # i, c.kind = "rvalue" => c.from \in Libs /\ ~Read(c.from),
           c.from \in Classes => stage[c.from] = "done", Begin(i, c, size)
    PROVE  Sourced' /\ Typed' /\ Boxed'
<1>1. /\ stage[i] = "none"
      /\ stage' = [stage EXCEPT ![i] = "lib"]
      /\ call' = [call EXCEPT ![i] = c]
      /\ UNCHANGED <<data_, ti_, heap, value>>
  BY DEF Begin
<1>2. /\ i \in Owners /\ c.from \in Owners
      /\ c.kind = "rvalue" => c.from \notin Classes
  BY ClassAssumption DEF Owners, Calls
<1>3. /\ \A o \in Owners : o # i /\ owns'[o] # owns[o] => o = c.from /\ c.kind = "rvalue"
      /\ owns'[c.from] = IF c.kind = "rvalue" THEN None ELSE owns'[i]
  <2>1. CASE c.kind = "rvalue"
    <3>1. owns' = [owns EXCEPT ![i] = owns[c.from], ![c.from] = None]
      BY <2>1 DEF Begin
    <3> QED
      BY <1>2, <2>1, <3>1 DEF LibInv, IInv, ClassTypeOK
  <2>2. CASE c.kind # "rvalue"
    <3>1. PICK f \in IF owns[c.from] = None THEN {None} ELSE Reload[owns[c.from]] :
            owns' = [owns EXCEPT ![i] = f]
      BY <2>2 DEF Begin
    <3>2. owns[c.from] \in Images \cup {None}
      BY <1>2 DEF LibInv, IInv, ClassTypeOK
    <3>3. f = owns[c.from]
      BY <3>1, <3>2 DEF NamesMatch
    <3> QED
      BY <1>2, <2>2, <3>1, <3>3 DEF LibInv, IInv, ClassTypeOK
  <2> QED
    BY <2>1, <2>2
<1>4. /\ \A k \in Classes : stage'[k] = IF k = i THEN "lib" ELSE stage[k]
      /\ \A k \in Classes : call'[k] = IF k = i THEN c ELSE call[k]
  BY <1>1 DEF LibInv, IInv, ClassTypeOK
<1>5. Sourced'
  <2> SUFFICES ASSUME NEW k \in Classes, stage'[k] \in {"lib", "data"}
               PROVE  /\ call'[k].from \in Classes => stage'[call'[k].from] = "done"
                      /\ owns'[call'[k].from]
                           = IF call'[k].kind = "rvalue" THEN None ELSE owns'[k]
    BY DEF Sourced
  <2>1. CASE k = i
    BY <1>3, <1>4, <2>1
  <2>2. CASE k # i
    <3>1. /\ stage[k] \in {"lib", "data"} /\ call'[k] = call[k]
          /\ call[k] \in Calls /\ call[k].from \in Owners /\ k \in Owners
      BY <1>4, <2>2 DEF LibInv, IInv, Called, Calls, Owners
    <3>2. call[k].from # i
      BY <1>1, <3>1 DEF LibInv, Sourced
    <3>3. owns'[call[k].from] = owns[call[k].from]
      BY <1>3, <3>1, <3>2 DEF Read
    <3>4. owns'[k] = owns[k]
      BY <1>2, <1>3, <2>2, <3>1
    <3> QED
      BY <1>4, <3>1, <3>2, <3>3, <3>4 DEF LibInv, Sourced
  <2> QED
    BY <2>1, <2>2
<1>6. Typed'
  <2> SUFFICES ASSUME NEW k \in Classes, Whole(k)' PROVE ti_'[k] = owns'[k]
    BY DEF Typed
  <2>1. k # i /\ Whole(k)
    BY <1>1, <1>4 DEF Whole
  <2>2. owns'[k] = owns[k]
    BY <1>2, <1>3, <2>1 DEF Owners
  <2> QED
    BY <1>1, <2>1, <2>2 DEF LibInv, Typed
<1> QED
  BY <1>1, <1>5, <1>6 DEF LibInv, Boxed

LEMMA ImportKeepsLibInv ==
    ASSUME NamesMatch, LibInv, NEW i \in Classes, NEW l \in Libs,
           NEW rvalue \in BOOLEAN, NEW sized \in BOOLEAN, Import(i, l, rvalue, sized)
    PROVE  Sourced' /\ Typed' /\ Boxed'
<1> DEFINE c == [kind |-> IF rvalue THEN "rvalue" ELSE "lvalue", from |-> l, sized |-> sized]
           size == IF sized THEN "whole" ELSE "zero"
<1>1. /\ c \in Calls /\ size \in Sizes /\ c.from # i /\ c.from \notin Classes
      /\ c.kind = "rvalue" => c.from \in Libs /\ ~Read(c.from)
  BY ClassAssumption DEF Import, Calls, Kinds, Owners, Sizes
<1>2. Begin(i, c, size)
  BY DEF Import
<1> HIDE DEF c, size
<1> QED
  BY <1>1, <1>2, BeginKeepsLibInv

LEMMA CopyObjectKeepsLibInv ==
    ASSUME NamesMatch, LibInv, NEW i \in Classes, NEW j \in Classes, CopyObject(i, j)
    PROVE  Sourced' /\ Typed' /\ Boxed'
<1> DEFINE c == [kind |-> "copy", from |-> j, sized |-> ~call[j].sized]
           size == IF call[j].sized THEN "zero" ELSE size_[j]
<1>1. call[j] \in Calls
  BY DEF CopyObject, Whole, LibInv, IInv, Called
<1>2. /\ c \in Calls /\ c.kind # "rvalue" /\ size \in Sizes
      /\ c.from # i /\ stage[c.from] = "done"
  BY <1>1 DEF CopyObject, Whole, Calls, Kinds, Owners, Sizes, LibInv, IInv, ClassTypeOK
<1>3. Begin(i, c, size)
  BY DEF CopyObject
<1> HIDE DEF c, size
<1> QED
  BY <1>2, <1>3, BeginKeepsLibInv

(* A step of one object that leaves every library as it is, and that is    *)
(* not a step of an object somebody reads.                                 *)
LEMMA StageKeepsLibInv ==
    ASSUME LibInv, NEW i \in Classes, NEW s, s # "lib",
           s = "data" => stage[i] = "lib",
           s = "done" => ti_'[i] = owns[i],
           stage[i] # "done" \/ ~Read(i),
           stage' = [stage EXCEPT ![i] = s],
           \A k \in Classes : k # i => data_'[k] = data_[k] /\ ti_'[k] = ti_[k],
           UNCHANGED <<owns, call, value>>
    PROVE  Sourced' /\ Typed' /\ Boxed'
<1>1. \A k \in Classes : stage'[k] = IF k = i THEN s ELSE stage[k]
  BY DEF LibInv, IInv, ClassTypeOK
<1>2. Sourced'
  <2> SUFFICES ASSUME NEW k \in Classes, stage'[k] \in {"lib", "data"}
               PROVE  /\ call[k].from \in Classes => stage'[call[k].from] = "done"
                      /\ owns[call[k].from]
                           = IF call[k].kind = "rvalue" THEN None ELSE owns[k]
    BY DEF Sourced
  <2>1. stage[k] \in {"lib", "data"}
    BY <1>1
  <2>2. call[k].from # i \/ i \notin Classes
    BY <2>1 DEF LibInv, Sourced, Read
  <2> QED
    BY <1>1, <2>1, <2>2 DEF LibInv, Sourced
<1>3. Typed'
  BY <1>1 DEF LibInv, Typed, Whole
<1> QED
  BY <1>2, <1>3 DEF LibInv, Boxed

LEMMA StepKeepsLibInv ==
    ASSUME LibInv, NEW i \in Classes,
           \/ MakeDataFails(i) \/ MakeData(i) \/ ConstructorThrows(i)
           \/ TypeInfo(i) \/ DestroyData(i)
    PROVE  Sourced' /\ Typed' /\ Boxed'
<1>1. CASE MakeDataFails(i) \/ ConstructorThrows(i)
  <2>1. /\ stage[i] = "lib" /\ stage' = [stage EXCEPT ![i] = "unwind"]
        /\ UNCHANGED <<owns, call, data_, ti_, value>>
    BY <1>1 DEF MakeDataFails, ConstructorThrows, Constructs
  <2> QED
    BY <2>1, StageKeepsLibInv
<1>2. CASE MakeData(i)
  <2>1. /\ stage[i] = "lib" /\ stage' = [stage EXCEPT ![i] = "data"]
        /\ \A k \in Classes : k # i => data_'[k] = data_[k]
        /\ UNCHANGED <<owns, call, ti_, value>>
    BY <1>2 DEF MakeData, Constructs, LibInv, IInv, ClassTypeOK
  <2> QED
    BY <2>1, StageKeepsLibInv
<1>3. CASE TypeInfo(i)
  <2>1. stage[i] = "data" /\ UNCHANGED <<owns, call, data_, value>>
    BY <1>3 DEF TypeInfo
  <2>2. CASE Has(call[i].from, {"typeinfo"})
    <3>1. /\ ti_' = [ti_ EXCEPT ![i] = owns[call[i].from]]
          /\ stage' = [stage EXCEPT ![i] = "done"]
      BY <1>3, <2>2 DEF TypeInfo
    <3>2. owns[call[i].from] = owns[i]
      BY <2>1, <2>2 DEF Has, LibInv, Sourced
    <3>3. ti_'[i] = owns[i] /\ \A k \in Classes : k # i => ti_'[k] = ti_[k]
      BY <3>1, <3>2 DEF LibInv, IInv, ClassTypeOK
    <3> QED
      BY <2>1, <3>1, <3>3, StageKeepsLibInv
  <2>3. CASE ~Has(call[i].from, {"typeinfo"})
    <3>1. stage' = [stage EXCEPT ![i] = "unwind"] /\ UNCHANGED ti_
      BY <1>3, <2>3 DEF TypeInfo
    <3> QED
      BY <2>1, <3>1, StageKeepsLibInv
  <2> QED
    BY <2>2, <2>3
<1>4. CASE DestroyData(i)
  <2>1. /\ stage[i] = "unwind" \/ ~Read(i)
        /\ stage' = [stage EXCEPT ![i] = "release"]
        /\ \A k \in Classes : k # i => data_'[k] = data_[k]
        /\ UNCHANGED <<owns, call, ti_, value>>
    BY <1>4 DEF DestroyData, LibInv, IInv, ClassTypeOK
  <2> QED
    BY <2>1, StageKeepsLibInv
<1> QED
  BY <1>1, <1>2, <1>3, <1>4

LEMMA ReleaseLibKeepsLibInv ==
    ASSUME LibInv, NEW i \in Classes, ReleaseLib(i)
    PROVE  Sourced' /\ Typed' /\ Boxed'
<1>1. /\ stage[i] = "release" /\ UNCHANGED <<data_, heap, value>>
      /\ \A k \in Classes : stage'[k] = IF k = i THEN "none" ELSE stage[k]
      /\ \A k \in Classes : k # i => call'[k] = call[k] /\ ti_'[k] = ti_[k]
      /\ \A o \in Owners : o # i => owns'[o] = owns[o]
  BY DEF ReleaseLib, LibInv, IInv, ClassTypeOK
<1>2. Sourced'
  <2> SUFFICES ASSUME NEW k \in Classes, stage'[k] \in {"lib", "data"}
               PROVE  /\ call'[k].from \in Classes => stage'[call'[k].from] = "done"
                      /\ owns'[call'[k].from]
                           = IF call'[k].kind = "rvalue" THEN None ELSE owns'[k]
    BY DEF Sourced
  <2>1. /\ k # i /\ stage[k] \in {"lib", "data"} /\ call'[k] = call[k]
        /\ call[k].from \in Owners /\ k \in Owners
    BY <1>1 DEF LibInv, IInv, Called, Calls, Owners
  <2>2. call[k].from # i
    BY <1>1, <2>1 DEF LibInv, Sourced
  <2> QED
    BY <1>1, <2>1, <2>2 DEF LibInv, Sourced
<1>3. Typed'
  BY <1>1 DEF LibInv, Typed, Whole, Owners
<1> QED
  BY <1>1, <1>2, <1>3 DEF LibInv, Boxed

LEMMA MoveConstructKeepsLibInv ==
    ASSUME LibInv, NEW i \in Classes, NEW j \in Classes, MoveConstruct(i, j)
    PROVE  Sourced' /\ Typed' /\ Boxed'
<1>1. /\ i # j /\ stage[i] = "none" /\ stage[j] = "done" /\ ~Read(j)
      /\ UNCHANGED <<heap, value>>
      /\ \A k \in Classes :
            /\ data_'[k] = IF k = j THEN None ELSE IF k = i THEN data_[j] ELSE data_[k]
            /\ stage'[k] = IF k = i THEN "done" ELSE stage[k]
            /\ call'[k] = IF k = i THEN call[j] ELSE call[k]
            /\ ti_'[k] = IF k = i THEN ti_[j] ELSE ti_[k]
      /\ \A o \in Owners :
            owns'[o] = IF o = j THEN None ELSE IF o = i THEN owns[j] ELSE owns[o]
  BY DEF MoveConstruct, LibInv, IInv, ClassTypeOK, Owners
<1>2. Sourced'
  <2> SUFFICES ASSUME NEW k \in Classes, stage'[k] \in {"lib", "data"}
               PROVE  /\ call'[k].from \in Classes => stage'[call'[k].from] = "done"
                      /\ owns'[call'[k].from]
                           = IF call'[k].kind = "rvalue" THEN None ELSE owns'[k]
    BY DEF Sourced
  <2>1. /\ k # i /\ k # j /\ stage[k] \in {"lib", "data"} /\ call'[k] = call[k]
        /\ call[k].from \in Owners /\ k \in Owners
    BY <1>1 DEF LibInv, IInv, Called, Calls, Owners
  <2>2. call[k].from # i /\ call[k].from # j
    BY <1>1, <2>1 DEF LibInv, Sourced, Read
  <2> QED
    BY <1>1, <2>1, <2>2 DEF LibInv, Sourced
<1>3. Typed'
  <2> SUFFICES ASSUME NEW k \in Classes, Whole(k)' PROVE ti_'[k] = owns'[k]
    BY DEF Typed
  <2>1. k # j /\ k \in Owners
    BY <1>1 DEF Whole, Owners
  <2>2. CASE k = i
    BY <1>1, <2>1, <2>2 DEF LibInv, Typed, Whole
  <2>3. CASE k # i
    BY <1>1, <2>1, <2>3 DEF LibInv, Typed, Whole
  <2> QED
    BY <2>2, <2>3
<1> QED
  BY <1>1, <1>2, <1>3 DEF LibInv, Boxed

LEMMA ProgramKeepsLibInv ==
    ASSUME NamesMatch, LibInv,
           \/ \E l \in Libs : UseLibrary(l)
           \/ \E v \in Values :
                \/ \E o \in Owners : ImportMangled(v, o)
                \/ \E w \in Values : CopyValue(v, w)
                \/ DropValue(v)
    PROVE  Sourced' /\ Typed' /\ Boxed'
<1>1. UNCHANGED <<stage, call, data_, ti_, size_, heap>>
  BY DEF UseLibrary, ImportMangled, CopyValue, DropValue
<1>2. \A o \in Owners : owns'[o] # owns[o] => o \in Libs /\ ~Read(o)
  <2>1. ASSUME NEW l \in Libs, UseLibrary(l) PROVE <1>2
    BY <2>1 DEF UseLibrary, LibInv, IInv, ClassTypeOK
  <2> QED
    BY <2>1 DEF ImportMangled, CopyValue, DropValue
<1>3. Sourced'
  <2> SUFFICES ASSUME NEW k \in Classes, stage[k] \in {"lib", "data"}
               PROVE  /\ call[k].from \in Classes => stage[call[k].from] = "done"
                      /\ owns'[call[k].from]
                           = IF call[k].kind = "rvalue" THEN None ELSE owns'[k]
    BY <1>1 DEF Sourced
  <2>1. call[k].from \in Owners /\ Read(call[k].from)
    BY DEF LibInv, IInv, Called, Calls, Read
  <2>2. k \in Owners /\ k \notin Libs
    BY ClassAssumption DEF Owners
  <2> QED
    BY <1>2, <2>1, <2>2 DEF LibInv, Sourced
<1>4. Typed'
  BY <1>1, <1>2, ClassAssumption DEF LibInv, Typed, Whole, Owners
<1>5. Boxed'
  <2>1. ASSUME NEW v \in Values, NEW o \in Owners, ImportMangled(v, o)
        PROVE  Boxed'
    <3>1. owns[o] \in Images
      BY <2>1 DEF ImportMangled, LibInv, IInv, ClassTypeOK
    <3>2. value' = [value EXCEPT ![v] = [box |-> owns[o], points |-> owns[o]]]
      BY <2>1, <3>1 DEF ImportMangled, NamesMatch
    <3> QED
      BY <3>2 DEF LibInv, IInv, ClassTypeOK, Boxed
  <2>2. ASSUME NEW v \in Values, (\E w \in Values : CopyValue(v, w)) \/ DropValue(v)
        PROVE  Boxed'
    BY <2>2 DEF CopyValue, DropValue, LibInv, IInv, ClassTypeOK, Boxed
  <2>3. ASSUME NEW l \in Libs, UseLibrary(l) PROVE Boxed'
    BY <2>3 DEF UseLibrary, LibInv, Boxed
  <2> QED
    BY <2>1, <2>2, <2>3
<1> QED
  BY <1>3, <1>4, <1>5

LEMMA NextLibInv ==
    ASSUME NamesMatch PROVE LibInv /\ [Next]_classVars => LibInv'
<1> SUFFICES ASSUME LibInv, [Next]_classVars PROVE Sourced' /\ Typed' /\ Boxed'
  BY NextIInv DEF LibInv
<1>1. CASE UNCHANGED classVars
  BY <1>1 DEF classVars, LibInv, Sourced, Typed, Boxed, Whole
<1>2. ASSUME NEW i \in Classes, NEW l \in Libs, NEW m \in Imports,
             Import(i, l, m.rvalue, m.sized)
      PROVE  Sourced' /\ Typed' /\ Boxed'
  BY <1>2, ClassAssumption, ImportKeepsLibInv
<1>3. ASSUME NEW i \in Classes, NEW j \in Classes, CopyObject(i, j)
      PROVE  Sourced' /\ Typed' /\ Boxed'
  BY <1>3, CopyObjectKeepsLibInv
<1>4. ASSUME NEW i \in Classes, NEW j \in Classes, MoveConstruct(i, j)
      PROVE  Sourced' /\ Typed' /\ Boxed'
  BY <1>4, MoveConstructKeepsLibInv
<1>5. ASSUME NEW i \in Classes,
             \/ MakeDataFails(i) \/ MakeData(i) \/ ConstructorThrows(i)
             \/ TypeInfo(i) \/ DestroyData(i)
      PROVE  Sourced' /\ Typed' /\ Boxed'
  BY <1>5, StepKeepsLibInv
<1>6. ASSUME NEW i \in Classes, ReleaseLib(i) PROVE Sourced' /\ Typed' /\ Boxed'
  BY <1>6, ReleaseLibKeepsLibInv
<1> QED
  BY <1>1, <1>2, <1>3, <1>4, <1>5, <1>6, ProgramKeepsLibInv DEF Next

LEMMA InitLibInv == Init => LibInv
<1> SUFFICES ASSUME Init PROVE Sourced /\ Typed /\ Boxed
  BY InitIInv DEF LibInv
<1> QED
  BY DEF Init, Sourced, Typed, Boxed, Whole

(* The type information of an object is that of its own library, also when *)
(* the constructor asked another smart_library for it, and so in memory.   *)
THEOREM TypeInfoStaysMappedCorrect == NamesMatch /\ Spec => []TypeInfoStaysMapped
<1>1. LibInv => TypeInfoStaysMapped
  BY DEF LibInv, IInv, Held, Typed, TypeInfoStaysMapped, Whole, Resident, Owners
<1>2. CASE NamesMatch
  BY <1>1, <1>2, InitLibInv, NextLibInv, PTL DEF Spec
<1> QED
  BY <1>2

(* What a value of import_mangled points into is in memory while the value *)
(* or a copy of it is.                                                     *)
THEOREM ValuesStayMappedCorrect == NamesMatch /\ Spec => []ValuesStayMapped
<1>1. LibInv => ValuesStayMapped
  <2> SUFFICES ASSUME LibInv, NEW v \in Values, value[v] # None
               PROVE  value[v].points \in Resident
    BY DEF ValuesStayMapped
  <2>1. value[v] \in Imported /\ value[v].points = value[v].box
    BY DEF LibInv, IInv, ClassTypeOK, Boxed
  <2>2. value[v].box \in Images /\ value[v].box # None
    BY <2>1, ClassAssumption DEF Imported
  <2> QED
    BY <2>1, <2>2 DEF Resident
<1>2. CASE NamesMatch
  BY <1>1, <1>2, InitLibInv, NextLibInv, PTL DEF Spec
<1> QED
  BY <1>2
=============================================================================
