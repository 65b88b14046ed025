-------------------------- MODULE SmartLibraryProofs --------------------------
(***************************************************************************)
(* What smart_library adds to its library keeps the library's references   *)
(* in order, and, with files that stay, the table of symbols and the       *)
(* library together.                                                       *)
(***************************************************************************)
EXTENDS SmartLibrary, SharedLibraryProofs

CallType == [op : Constructs \cup {"load"}, obj : Smart, path : Path,
             reports : Reports, decorations : BOOLEAN, search : BOOLEAN]
LastType == [op : SmartCalls, obj : Smart, reports : Reports,
             how : {"returned", "thrown", "terminated"}]

SmartTypes ==
    /\ table \in [Objs -> Readable \cup {NoFile}]
    /\ call = NoCall \/ call \in CallType
    /\ last \in LastType
    /\ \A s \in Plain : table[s] = NoFile

(* A load() that has read the table goes on with what it was called with.  *)
Asked == call # NoCall /\ call.op = "load"
            => /\ call.path \in Paths /\ call.search \in Searches
               /\ call.decorations \in Decorations

CallInv == IInv /\ SmartTypes /\ Asked

LEMMA SmartObjs == Smart \subseteq Objs /\ Plain \subseteq Objs
BY SmartAssumption DEF Smart

-----------------------------------------------------------------------------
(* Every step is a step of the library, or leaves it alone.                *)
LEMMA SmartStep ==
    ASSUME CallInv, [SmartNext]_smartVars PROVE [Next]_vars
<1>1. ASSUME NEW o \in Objs, NEW p \in Paths, NEW search \in Searches,
             NEW decorations \in BOOLEAN, NEW throws \in BOOLEAN,
             Load(o, p, decorations, search, throws)
      PROVE  Next
  BY <1>1 DEF Next
<1>2. ASSUME NEW o \in Objs, NEW s \in Objs,
             \/ Unload(o) \/ AssignSame(o, s) \/ AssignNothing(o, s)
             \/ AssignLoaded(o, s, TRUE) \/ AssignUnlocated(o, s, TRUE)
             \/ MoveConstruct(o, s) \/ Swap(o, s)
      PROVE  Next
  BY <1>2 DEF Next
<1>3. Decorations \subseteq BOOLEAN
  BY SmartAssumption
<1>4. CASE UNCHANGED smartVars
  BY <1>4 DEF smartVars
<1>5. ASSUME NEW o \in Smart, NEW p \in Paths, NEW search \in Searches,
             NEW decorations \in Decorations, NEW reports \in {"throw", "ec"},
             \/ ConstructLibrary(o, p, decorations, search)
             \/ LoadTable(o, p, decorations, search, reports)
      PROVE  [Next]_vars
  BY <1>1, <1>3, <1>5, SmartObjs DEF ConstructLibrary, LoadTable
<1>6. ASSUME NEW o \in Smart, NEW s \in Plain,
             ConstructByCopy(o, s) \/ ConstructByMove(o, s)
      PROVE  Next
  BY <1>2, <1>6, SmartObjs DEF ConstructByCopy, ConstructByMove
<1>7. ASSUME NEW o \in Smart, NEW s \in Smart,
             SmartUnload(o) \/ SmartAssign(o, s) \/ SmartMove(o, s) \/ SmartSwap(o, s)
      PROVE  Next
  BY <1>2, <1>7, SmartObjs DEF SmartUnload, SmartAssign, SmartMove, SmartSwap
<1>8. CASE ConstructTable
  <2>1. call.obj \in Objs
    BY <1>8, SmartObjs DEF ConstructTable, CallInv, SmartTypes, CallType
  <2>2. UNCHANGED vars \/ Unload(call.obj)
    BY <1>8 DEF ConstructTable
  <2> QED
    BY <1>2, <2>1, <2>2
<1>9. CASE LoadLibrary
  <2>1. /\ call.obj \in Objs /\ call.decorations \in BOOLEAN
        /\ call.path \in Paths /\ call.search \in Searches
    BY <1>9, SmartObjs DEF LoadLibrary, CallInv, SmartTypes, CallType, Asked
  <2>2. /\ Load(call.obj, call.path, call.decorations, call.search,
                call.reports = "throw")
        /\ (call.reports = "throw") \in BOOLEAN
    BY <1>9 DEF LoadLibrary
  <2> QED
    BY <1>1, <2>1, <2>2
<1>10. ASSUME NEW s \in Plain, PlainCall(s) PROVE Next
  BY <1>1, <1>2, <1>3, <1>10, SmartObjs DEF PlainCall
<1>11. CASE FilesChange
  BY <1>11 DEF FilesChange, Next
<1> QED
  BY <1>4, <1>5, <1>6, <1>7, <1>8, <1>9, <1>10, <1>11 DEF SmartNext

(* Where an object's library is, is a path that a call can go on with.     *)
LEMMA LocationIsPath ==
    ASSUME IInv, NEW s \in Objs, IsLoaded(s)
    PROVE  Location(handle[s]) \in Path
<1>1. handle[s] \in Files
  BY IInvTypes DEF IsLoaded, Handle
<1>2. ld.lname[handle[s]] \in Path \cup {NoPath}
  BY <1>1, IInvTypes DEF LoaderState
<1> QED
  BY <1>2, ProgramLocationType DEF Location

(* A call that is begun is one that is left to do. *)
LEMMA BegunType ==
    ASSUME NEW op \in Constructs \cup {"load"}, NEW o \in Smart, NEW p \in Path,
           NEW reports \in Reports, NEW decorations \in BOOLEAN,
           NEW search \in BOOLEAN, Begun(op, o, p, reports, decorations, search)
    PROVE  /\ call' \in CallType /\ call' # NoCall /\ last' = last
           /\ call'.op = op /\ call'.obj = o /\ call'.path = p
           /\ call'.search = search /\ call'.decorations = decorations
<1>1. call' \in CallType
  BY DEF Begun, CallType
<1>2. NoCall \notin CallType
  BY SmartAssumption DEF CallType, Smart, Constructs, Reports
<1> QED
  BY <1>1, <1>2 DEF Begun

LEMMA EndedType ==
    ASSUME NEW op \in SmartCalls, NEW o \in Smart, NEW reports \in Reports,
           \/ \E how \in {"returned", "thrown"} : Ended(op, o, reports, how)
           \/ Thrown(op, o, reports)
    PROVE  call' = NoCall /\ last' \in LastType /\ last'.op = op
BY DEF Ended, Thrown, LastType

LEMMA TableType ==
    ASSUME NEW p PROVE TableOf(p) \in Readable \cup {NoFile}
BY DEF TableOf, CanRead

(* Every call leaves the table, what is left to do and the last call with  *)
(* their types.                                                            *)
LEMMA SmartTypesKept ==
    ASSUME CallInv, [SmartNext]_smartVars PROVE SmartTypes' /\ Asked'
<1>1. /\ table \in [Objs -> Readable \cup {NoFile}]
      /\ call = NoCall \/ call \in CallType
      /\ last \in LastType
      /\ \A s \in Plain : table[s] = NoFile
  BY DEF CallInv, SmartTypes
<1>2. ASSUME call' = NoCall, last' \in LastType,
             table' \in [Objs -> Readable \cup {NoFile}],
             \A s \in Plain : table'[s] = NoFile
      PROVE  SmartTypes' /\ Asked'
  BY <1>2 DEF SmartTypes, Asked
<1>3. ASSUME call' \in CallType, last' = last,
             call'.op = "load" => /\ call'.path \in Paths /\ call'.search \in Searches
                                  /\ call'.decorations \in Decorations,
             table' \in [Objs -> Readable \cup {NoFile}],
             \A s \in Plain : table'[s] = NoFile
      PROVE  SmartTypes' /\ Asked'
  BY <1>1, <1>3 DEF SmartTypes, Asked
<1>4. ASSUME UNCHANGED <<table, call, last>> PROVE SmartTypes' /\ Asked'
  BY <1>4 DEF SmartTypes, Asked, CallInv
<1>5. ASSUME UNCHANGED table
      PROVE  /\ table' \in [Objs -> Readable \cup {NoFile}]
             /\ \A s \in Plain : table'[s] = NoFile
  BY <1>1, <1>5
<1>6. ASSUME NEW o \in Smart, NEW t \in Readable \cup {NoFile},
             table' = [table EXCEPT ![o] = t]
      PROVE  /\ table' \in [Objs -> Readable \cup {NoFile}]
             /\ \A s \in Plain : table'[s] = NoFile
  BY <1>1, <1>6, SmartObjs DEF Smart
<1>7. Decorations \subseteq BOOLEAN /\ Paths \subseteq Path /\ Searches \subseteq BOOLEAN
  BY SmartAssumption, LibraryAssumption
<1>8. CASE UNCHANGED smartVars
  BY <1>4, <1>8 DEF smartVars
<1>9. ASSUME NEW o \in Smart, NEW p \in Paths, NEW search \in Searches,
             NEW decorations \in Decorations, ConstructLibrary(o, p, decorations, search)
      PROVE  SmartTypes' /\ Asked'
  <2>1. /\ UNCHANGED table
        /\ \/ Begun("construct", o, p, "throw", decorations, search)
           \/ Thrown("construct", o, "throw")
    BY <1>9 DEF ConstructLibrary
  <2>2. CASE Thrown("construct", o, "throw")
    BY <1>2, <1>5, <2>1, <2>2, EndedType DEF SmartCalls, Constructs, Reports
  <2>3. CASE Begun("construct", o, p, "throw", decorations, search)
    BY <1>3, <1>5, <1>7, <2>1, <2>3, BegunType DEF Constructs, Reports
  <2> QED
    BY <2>1, <2>2, <2>3
<1>10. ASSUME NEW o \in Smart, NEW s \in Plain, ConstructByCopy(o, s)
       PROVE  SmartTypes' /\ Asked'
  <2>1. /\ UNCHANGED table
        /\ \/ /\ IsLoaded(s)
              /\ Begun("copy", o, Location(handle[s]), "none", FALSE, FALSE)
           \/ Thrown("copy", o, "none")
    BY <1>10 DEF ConstructByCopy
  <2>2. CASE Thrown("copy", o, "none")
    BY <1>2, <1>5, <2>1, <2>2, EndedType DEF SmartCalls, Constructs, Reports
  <2>3. CASE /\ IsLoaded(s)
             /\ Begun("copy", o, Location(handle[s]), "none", FALSE, FALSE)
    <3>1. Location(handle[s]) \in Path
      BY <2>3, SmartObjs, LocationIsPath DEF CallInv
    <3> QED
      BY <1>3, <1>5, <2>1, <2>3, <3>1, BegunType DEF Constructs, Reports
  <2> QED
    BY <2>1, <2>2, <2>3
<1>11. ASSUME NEW o \in Smart, NEW s \in Plain, ConstructByMove(o, s)
       PROVE  SmartTypes' /\ Asked'
  BY <1>2, <1>5, <1>11, EndedType DEF ConstructByMove, SmartCalls, Constructs, Reports
<1>12. CASE ConstructTable
  <2>1. /\ call.obj \in Smart /\ call.op \in SmartCalls /\ call.reports \in Reports
        /\ table' = [table EXCEPT ![call.obj] = TableOf(call.path)]
        /\ \/ Ended(call.op, call.obj, call.reports, "returned")
           \/ Thrown(call.op, call.obj, call.reports)
    BY <1>1, <1>12 DEF ConstructTable, CallType, SmartCalls
  <2> QED
    BY <1>2, <1>6, <2>1, TableType, EndedType
<1>13. ASSUME NEW o \in Smart, NEW p \in Paths, NEW search \in Searches,
              NEW decorations \in Decorations, NEW reports \in {"throw", "ec"},
              LoadTable(o, p, decorations, search, reports)
       PROVE  SmartTypes' /\ Asked'
  <2>1. /\ table' = [table EXCEPT ![o] = TableOf(p)]
        /\ \/ Begun("load", o, p, reports, decorations, search)
           \/ Thrown("load", o, reports)
    BY <1>13 DEF LoadTable
  <2>2. CASE Thrown("load", o, reports)
    BY <1>2, <1>6, <2>1, <2>2, TableType, EndedType DEF SmartCalls, Reports
  <2>3. CASE Begun("load", o, p, reports, decorations, search)
    <3>1. /\ "load" \in Constructs \cup {"load"} /\ reports \in Reports
          /\ p \in Path /\ decorations \in BOOLEAN /\ search \in BOOLEAN
      BY <1>7 DEF Reports
    <3>2. /\ call' \in CallType /\ last' = last
          /\ call'.path = p /\ call'.search = search
          /\ call'.decorations = decorations
      BY <2>3, <3>1, BegunType
    <3>3. TableOf(p) \in Readable \cup {NoFile}
      BY TableType
    <3> QED
      BY <1>3, <1>6, <2>1, <3>2, <3>3
  <2> QED
    BY <2>1, <2>2, <2>3
<1>14. CASE LoadLibrary
  <2>1. /\ call.obj \in Smart /\ call.reports \in Reports /\ UNCHANGED table
        /\ \/ Thrown("load", call.obj, "throw")
           \/ Ended("load", call.obj, call.reports, "returned")
    BY <1>1, <1>14 DEF LoadLibrary, CallType
  <2> QED
    BY <1>2, <1>5, <2>1, EndedType DEF SmartCalls, Reports
<1>15. ASSUME NEW o \in Smart, SmartUnload(o) PROVE SmartTypes' /\ Asked'
  BY <1>2, <1>6, <1>15, EndedType DEF SmartUnload, SmartCalls, Reports
<1>16. ASSUME NEW o \in Smart, NEW s \in Smart, SmartAssign(o, s)
       PROVE  SmartTypes' /\ Asked'
  <2>1. /\ \/ table' = [table EXCEPT ![o] = table[s]]
           \/ UNCHANGED table
        /\ \/ Ended("assign", o, "throw", "returned")
           \/ Thrown("assign", o, "throw")
    BY <1>16 DEF SmartAssign
  <2>2. table[s] \in Readable \cup {NoFile}
    BY <1>1, SmartObjs
  <2> QED
    BY <1>2, <1>5, <1>6, <2>1, <2>2, EndedType DEF SmartCalls, Reports
<1>17. ASSUME NEW o \in Smart, NEW s \in Smart, SmartMove(o, s) \/ SmartSwap(o, s)
       PROVE  SmartTypes' /\ Asked'
  <2>1. /\ \/ table' = [table EXCEPT ![s] = NoFile, ![o] = table[s]]
           \/ table' = [table EXCEPT ![o] = table[s], ![s] = table[o]]
        /\ \E op \in {"move", "swap"} : Ended(op, o, "none", "returned")
    BY <1>17 DEF SmartMove, SmartSwap
  <2>2. /\ table' \in [Objs -> Readable \cup {NoFile}]
        /\ \A q \in Plain : table'[q] = NoFile
    BY <1>1, <2>1, SmartObjs DEF Smart
  <2> QED
    BY <1>2, <2>1, <2>2, EndedType DEF SmartCalls, Constructs, Reports
<1>18. ASSUME NEW s \in Plain, PlainCall(s) \/ FilesChange
       PROVE  SmartTypes' /\ Asked'
  BY <1>4, <1>18 DEF PlainCall, FilesChange
<1>19. CASE FilesChange
  BY <1>4, <1>19 DEF FilesChange
<1> QED
  BY <1>8, <1>9, <1>10, <1>11, <1>12, <1>13, <1>14, <1>15, <1>16, <1>17, <1>18, <1>19
     DEF SmartNext

LEMMA InitCallInv == SmartInit => CallInv
<1> SUFFICES ASSUME SmartInit PROVE CallInv
  OBVIOUS
<1>1. IInv
  BY InitIInv DEF SmartInit
<1>2. SmartTypes /\ Asked
  BY SmartObjs DEF SmartInit, SmartTypes, Asked, LastType, SmartCalls, Reports
<1> QED
  BY <1>1, <1>2 DEF CallInv

LEMMA NextCallInv == CallInv /\ [SmartNext]_smartVars => CallInv'
BY SmartStep, SmartTypesKept, NextIInv DEF CallInv

(* Also when a constructor or load() is left by an exception of the symbol *)
(* table, the libraries in memory are those that the objects own.          *)
THEOREM SmartImplementsOwnersCorrect == SmartSpec => SmartImplementsOwners
<1>1. SmartInit => Init
  BY DEF SmartInit
<1>2. CallInv /\ [SmartNext]_smartVars => [Next]_vars
  BY SmartStep
<1>3. SmartSpec => Spec
  BY <1>1, <1>2, InitCallInv, NextCallInv, PTL DEF SmartSpec, Spec
<1> QED
  BY <1>3, ImplementsOwnersCorrect DEF SmartImplementsOwners

(* When the copy of the library throws, assign() has changed neither the   *)
(* library nor the table of any object.                                    *)
THEOREM FailedAssignKeepsBothCorrect == SmartSpec => FailedAssignKeepsBoth
<1> DEFINE Failed == /\ ret'.op = "assign" /\ ret'.ec # Ok
                     /\ last'.op = "assign" /\ call' = NoCall
           Keeps == Failed => UNCHANGED <<handle, table>>
<1>1. ASSUME CallInv, [SmartNext]_smartVars PROVE Keeps \/ UNCHANGED smartVars
  <2>1. ASSUME NEW o \in Objs, NEW p, NEW search, NEW decorations, NEW throws,
               Load(o, p, decorations, search, throws) \/ Unload(o)
        PROVE  Keeps
    <3>1. ret'.op \in {"load", "unload"}
      <4>1. CASE Load(o, p, decorations, search, throws)
        BY <4>1, ReportedSays DEF Load
      <4>2. CASE Unload(o)
        BY <4>2 DEF Unload, Returned
      <4> QED
        BY <2>1, <4>1, <4>2
    <3> QED
      BY <3>1
  <2>2. ASSUME NEW o \in Objs, NEW s \in Objs,
               \/ AssignSame(o, s) \/ AssignNothing(o, s)
               \/ AssignLoaded(o, s, TRUE) \/ AssignUnlocated(o, s, TRUE)
        PROVE  ret'.ec # Ok => UNCHANGED handle
    <3>1. CASE AssignSame(o, s) \/ AssignNothing(o, s)
      BY <3>1 DEF AssignSame, AssignNothing, Returned
    <3>2. CASE AssignLoaded(o, s, TRUE)
      BY <3>2, ReportedSays DEF AssignLoaded
    <3>3. CASE AssignUnlocated(o, s, TRUE)
      BY <3>3, UnlocatedSays
    <3> QED
      BY <2>2, <3>1, <3>2, <3>3
  <2>3. ASSUME NEW o \in Objs, NEW s \in Objs, MoveConstruct(o, s) \/ Swap(o, s)
        PROVE  Keeps
    BY <2>3 DEF MoveConstruct, Swap, Returned
  <2>4. ASSUME NEW o \in Smart, NEW p \in Paths, NEW search \in Searches,
               NEW decorations \in Decorations, NEW reports \in {"throw", "ec"},
               LoadTable(o, p, decorations, search, reports)
        PROVE  Keeps
    <3>1. \/ Begun("load", o, p, reports, decorations, search)
          \/ Thrown("load", o, reports)
      BY <2>4 DEF LoadTable
    <3>2. /\ Decorations \subseteq BOOLEAN /\ Paths \subseteq Path
          /\ Searches \subseteq BOOLEAN
      BY SmartAssumption, LibraryAssumption
    <3>3. CASE Begun("load", o, p, reports, decorations, search)
      BY <3>2, <3>3, BegunType DEF Reports
    <3>4. CASE Thrown("load", o, reports)
      BY <3>4 DEF Thrown, Ended
    <3> QED
      BY <3>1, <3>3, <3>4
  <2>5. ASSUME NEW o \in Smart, NEW s \in Plain, ConstructByCopy(o, s) PROVE Keeps
    <3>1. CASE ret'.ec = Ok
      BY <3>1
    <3>2. CASE ret'.ec # Ok
      BY <2>5, <3>2 DEF ConstructByCopy, Thrown, Ended
    <3> QED
      BY <3>1, <3>2
  <2>6. CASE ConstructTable
    <3>1. CASE CanRead(call.path)
      BY <2>6, <3>1 DEF ConstructTable, Ended, Constructs
    <3>2. CASE ~CanRead(call.path)
      BY <2>6, <3>2 DEF ConstructTable, Thrown, Ended, Constructs
    <3> QED
      BY <3>1, <3>2
  <2>7. CASE LoadLibrary
    BY <2>7 DEF LoadLibrary, Thrown, Ended
  <2>8. ASSUME NEW o \in Smart, NEW s \in Smart, SmartAssign(o, s) PROVE Keeps
    BY <2>2, <2>8, SmartObjs DEF SmartAssign
  <2>9. CASE FilesChange
    <3>1. ret'.ec = Ok
      BY <2>9, IInvTypes DEF FilesChange, Environment, CallInv, RetType
    <3> QED
      BY <3>1
  <2>10. ASSUME NEW o \in Smart, NEW p \in Paths, NEW search \in Searches,
                NEW decorations \in Decorations,
                ConstructLibrary(o, p, decorations, search)
         PROVE  Keeps
    BY <2>1, <2>10, SmartObjs DEF ConstructLibrary
  <2>11. ASSUME NEW o \in Smart, NEW s \in Objs,
                \/ ConstructByMove(o, s) \/ SmartUnload(o)
                \/ SmartMove(o, s) \/ SmartSwap(o, s)
         PROVE  Keeps
    BY <2>1, <2>3, <2>11, SmartObjs
       DEF ConstructByMove, SmartUnload, SmartMove, SmartSwap
  <2>12. ASSUME NEW s \in Plain, PlainCall(s) PROVE Keeps
    BY <2>1, <2>12, SmartObjs DEF PlainCall
  <2> HIDE DEF Keeps
  <2>13. CASE SmartNext
    BY <2>4, <2>5, <2>6, <2>7, <2>8, <2>9, <2>10, <2>11, <2>12, <2>13, SmartObjs
       DEF SmartNext
  <2> QED
    BY <1>1, <2>13
<1>2. CallInv /\ [SmartNext]_smartVars => [Keeps]_smartVars
  BY <1>1
<1> QED
  BY <1>2, InitCallInv, NextCallInv, PTL DEF SmartSpec, FailedAssignKeepsBoth
-----------------------------------------------------------------------------
(* The library that is loaded by a path is the file of that path, as long  *)
(* as the mapped images are the files of their names.                      *)
Named(l) ==
    /\ l.lname[Program] = NoPath
    /\ \A f \in Mapped(l) \ {Program} :
          /\ l.lname[f] \in Path /\ l.lname[f].dir # Bare
          /\ FileAt(l.lname[f]) = f

(* No call but the one that is being executed leaves a library with the    *)
(* table of another file ...                                               *)
TablesMatch ==
    \A o \in Smart :
        /\ call = NoCall \/ o # call.obj
        /\ table[o] # NoFile /\ IsLoaded(o)
        => table[o] = handle[o]

(* ... and that one has the library or the table of its path already.      *)
HalfDone ==
    call # NoCall =>
        /\ call.op \in Constructs => handle[call.obj] = FileAt(call.path)
        /\ call.op = "load" => table[call.obj] = TableOf(call.path)

Undisturbed == steps = 0 => Named(ld) /\ TablesMatch /\ HalfDone


LEMMA ClosedNamed ==
    ASSUME NEW l \in LoaderState, NEW h \in Handle, Named(l)
    PROVE  Named(Closed(l, h))
<1>1. CASE h = NoHandle
  BY <1>1 DEF Closed
<1>2. CASE h # NoHandle
  <2> DEFINE k == Closed(l, h)
  <2>1. h \in Files
    BY <1>2 DEF Handle
  <2>2. k.lname[Program] = NoPath
    BY <1>2, <2>1, LoaderAssumption DEF Closed, LoaderState, Named
  <2>3. ASSUME NEW f \in Mapped(k)
        PROVE  f \in Mapped(l) /\ k.lname[f] = l.lname[f]
    BY <1>2, <2>1, <2>3 DEF Closed, Mapped, LoaderState
  <2> HIDE DEF k
  <2>4. Named(k)
    BY <2>2, <2>3 DEF Named
  <2> QED
    BY <2>4 DEF k
<1> QED
  BY <1>1, <1>2

LEMMA OpenedNamed ==
    ASSUME NEW l \in LoaderState, NEW h \in Handle, NEW p \in Path, p.dir # Bare,
           Named(l), Program \in Mapped(l),
           h # NoHandle => h = Program \/ h = Dlopen(l, p)
    PROVE  Named(Opened(l, h, p))
<1> DEFINE k == Opened(l, h, p)
<1>1. CASE h = NoHandle
  BY <1>1 DEF Opened
<1>2. CASE h # NoHandle /\ h \in Mapped(l)
  <2>1. h \in Files /\ l.refs[h] > 0
    BY <1>2 DEF Mapped
  <2>2. Mapped(k) = Mapped(l) /\ k.lname = l.lname
    BY <1>2, <2>1 DEF Opened, Mapped, LoaderState
  <2> HIDE DEF k
  <2>3. Named(k)
    BY <2>2 DEF Named
  <2> QED
    BY <2>3 DEF k
<1>3. CASE h # NoHandle /\ h \notin Mapped(l)
  <2>1. h = Searched(p) /\ h \in Files /\ h # Program
    BY <1>3, DlopenCases, LoaderAssumption DEF Namesakes, Handle
  <2>2. RealName(p) = p /\ FileAt(p) = h
    BY <2>1, RealNameDir DEF Searched
  <2>3. /\ k.lname[Program] = NoPath
        /\ \A f \in Files : f # h => k.refs[f] = l.refs[f] /\ k.lname[f] = l.lname[f]
    BY <1>3, <2>1, LoaderAssumption DEF Opened, LoaderState, Named
  <2>4. h \in Mapped(k) => k.lname[h] = p
    <3>1. l.refs[h] \in Int /\ ~(l.refs[h] > 0)
      BY <1>3, <2>1 DEF Mapped, LoaderState
    <3>2. k.refs[h] = l.refs[h] + 1
      BY <1>3, <2>1 DEF Opened, LoaderState
    <3>3. h \in Mapped(k) => l.refs[h] = 0
      BY <2>1, <3>1, <3>2 DEF Mapped
    <3> QED
      BY <1>3, <2>1, <2>2, <3>3 DEF Opened, LoaderState
  <2> HIDE DEF k
  <2>5. ASSUME NEW f \in Mapped(k), f # Program
        PROVE  /\ k.lname[f] \in Path /\ k.lname[f].dir # Bare
               /\ FileAt(k.lname[f]) = f
    <3>1. CASE f = h
      BY <2>2, <2>4, <2>5, <3>1
    <3>2. CASE f # h
      <4>1. f \in Mapped(l) /\ k.lname[f] = l.lname[f]
        BY <2>3, <2>5, <3>2 DEF Mapped
      <4> QED
        BY <2>5, <4>1 DEF Named
    <3> QED
      BY <3>1, <3>2
  <2>6. Named(k)
    BY <2>3, <2>5 DEF Named
  <2> QED
    BY <2>6 DEF k
<1> QED
  BY <1>1, <1>2, <1>3

LEMMA LoadFinds ==
    ASSUME cwd \in Dirs, NEW l, Named(l), NEW p \in Path,
           LoadOutcome(l, p, FALSE, FALSE).handle # NoHandle
    PROVE  LET r == LoadOutcome(l, p, FALSE, FALSE)
           IN  /\ r.handle = FileAt(p)
               /\ r.path \in Path /\ r.path.dir # Bare
<1> DEFINE sl == Anchored(p, FALSE)
           r  == LoadOutcome(l, p, FALSE, FALSE)
<1>1. /\ sl \in Path /\ sl.dir # Bare
      /\ FileAt(sl) = FileAt(p)
  BY LoaderAssumption DEF Anchored, Path, FileAt
<1>2. p # NoPath
  BY LoaderAssumption DEF Path
<1>3. r = LoadExact(l, sl)
  BY <1>2 DEF LoadOutcome
<1>4. r.handle # NoHandle
  OBVIOUS
<1> HIDE DEF sl, r
<1>5. RealName(sl) = sl
  BY <1>1, RealNameDir
<1>6. Dlopen(l, sl) # NoHandle => Dlopen(l, sl) = FileAt(sl)
  <2> SUFFICES ASSUME Dlopen(l, sl) # NoHandle PROVE Dlopen(l, sl) = FileAt(sl)
    OBVIOUS
  <2>1. CASE Dlopen(l, sl) \in Namesakes(l, sl)
    <3>1. PICK f \in Mapped(l) : f = Dlopen(l, sl) /\ l.lname[f] = sl
      BY <1>5, <2>1 DEF Namesakes
    <3>2. f # Program
      BY <1>1, <3>1, LoaderAssumption DEF Named, Path
    <3> QED
      BY <3>1, <3>2 DEF Named
  <2>2. CASE Dlopen(l, sl) = Searched(sl)
    BY <1>5, <2>2 DEF Searched
  <2> QED
    BY <2>1, <2>2, DlopenCases
<1>7. r.handle = FileAt(sl) /\ r.path = sl
  BY <1>3, <1>4, <1>6 DEF LoadExact, Attempt
<1> QED
  BY <1>1, <1>7 DEF r

(* Where a mapped image is, there is its file or, for an executable that   *)
(* was removed, none.                                                      *)
LEMMA LocationIsHere ==
    ASSUME IInv, Named(ld), NEW f \in Mapped(ld)
    PROVE  FileAt(Location(f)) \in {f, NoFile}
<1>1. CASE f # Program
  <2>1. ld.lname[f] \in Path /\ FileAt(ld.lname[f]) = f
    BY <1>1 DEF Named
  <2>2. ld.lname[f] # NoPath
    BY <2>1, LoaderAssumption DEF Path
  <2> QED
    BY <2>1, <2>2 DEF Location
<1>2. CASE f = Program
  <2> DEFINE here == {q \in [dir : Dirs, name : Names] : FileAt(q) = Program}
  <2>1. Location(f) = ProgramLocation
    BY <1>2 DEF Location, Named
  <2>2. CASE here # {}
    <3>1. ProgramLocation \in here
      BY <2>2 DEF ProgramLocation
    <3> QED
      BY <1>2, <2>1, <3>1
  <2>3. CASE here = {}
    <3>1. ProgramLocation.dir = Nowhere
      BY <2>3 DEF ProgramLocation
    <3> QED
      BY <2>1, <3>1 DEF FileAt
  <2> QED
    BY <2>2, <2>3
<1> QED
  BY <1>1, <1>2

LEMMA NamedKept ==
    ASSUME UNCHANGED <<fs, cwd>>, Named(ld') PROVE Named(ld)'
BY DEF Named, FileAt, Mapped

(* A load that succeeds ends with the file of its path. *)
LEMMA LoadDoes ==
    ASSUME IInv, Named(ld), NEW o \in Objs, NEW p \in Path, NEW throws \in BOOLEAN,
           Load(o, p, FALSE, FALSE, throws)
    PROVE  /\ Named(ld)' /\ UNCHANGED <<fs, cwd, steps>>
           /\ handle'[o] \in {NoHandle, FileAt(p)}
           /\ ret'.ec = Ok => handle'[o] = FileAt(p)
           /\ \A q \in Objs \ {o} : handle'[q] = handle[q]
<1> DEFINE l == Closed(ld, handle[o])
           r == LoadOutcome(l, p, FALSE, FALSE)
<1>1. /\ r.handle \in Handle
      /\ r.handle # NoHandle => r.path \in Path
      /\ r.ec = Ok <=> r.handle # NoHandle
  BY LoadOutcomeType DEF IInv
<1>2. r.handle # NoHandle => r.handle = Program \/ r.handle = Dlopen(l, r.path)
  BY LoadOutcomeSource
<1>3. /\ ld' = Opened(l, r.handle, r.path)
      /\ handle' = [handle EXCEPT ![o] = r.handle]
      /\ ret'.ec = r.ec
      /\ UNCHANGED <<fs, cwd, steps>>
  BY ReportedSays DEF Load
<1>4. l \in LoaderState /\ Program \in Mapped(l)
  BY ProgramStays
<1>5. Named(l)
  BY IInvTypes, ClosedNamed
<1>6. r.handle # NoHandle => /\ r.handle = FileAt(p)
                             /\ r.path \in Path /\ r.path.dir # Bare
  BY <1>5, IInvTypes, LoadFinds
<1> HIDE DEF l, r
<1>7. Named(ld')
  <2>1. CASE r.handle = NoHandle
    BY <1>3, <1>5, <2>1 DEF Opened
  <2>2. CASE r.handle # NoHandle
    BY <1>1, <1>2, <1>3, <1>4, <1>5, <1>6, <2>2, OpenedNamed
  <2> QED
    BY <2>1, <2>2
<1>8. Named(ld)'
  BY <1>3, <1>7, NamedKept
<1> QED
  BY <1>1, <1>3, <1>6, <1>8, IInvTypes

(* A copy that succeeds ends with the library it was made of, and that is  *)
(* the file at its location.                                               *)
LEMMA AssignDoes ==
    ASSUME IInv, Named(ld), NEW o \in Objs, NEW s \in Objs,
           \/ AssignSame(o, s) \/ AssignNothing(o, s)
           \/ AssignLoaded(o, s, TRUE) \/ AssignUnlocated(o, s, TRUE)
    PROVE  /\ Named(ld)' /\ UNCHANGED <<fs, cwd, steps>>
           /\ ret'.ec = Ok => handle'[o] = handle[s]
           /\ ret'.ec # Ok => handle' = handle
           /\ \A q \in Objs \ {o} : handle'[q] = handle[q]
           /\ AssignLoaded(o, s, TRUE) /\ ret'.ec = Ok
                => handle[s] = FileAt(Location(handle[s]))
<1>1. CASE AssignSame(o, s)
  <2>1. UNCHANGED <<fs, cwd, ld, handle, steps>> /\ handle[o] = handle[s]
    BY <1>1 DEF AssignSame, loaderVars
  <2>2. Named(ld)'
    BY <2>1, NamedKept
  <2>3. ret'.ec = Ok
    BY <1>1 DEF AssignSame, Returned
  <2>4. ~AssignLoaded(o, s, TRUE)
    BY <2>1 DEF AssignLoaded
  <2> QED
    BY <2>1, <2>2, <2>3, <2>4
<1>2. CASE AssignNothing(o, s)
  <2>1. /\ UNCHANGED <<fs, cwd, steps>> /\ ld' = Closed(ld, handle[o])
        /\ handle' = [handle EXCEPT ![o] = NoHandle] /\ handle[s] = NoHandle
        /\ ret'.ec = Ok
    BY <1>2 DEF AssignNothing, IsLoaded, Returned
  <2>2. Named(ld)'
    BY <2>1, NamedKept, ClosedNamed, IInvTypes
  <2>3. ~AssignLoaded(o, s, TRUE)
    BY <2>1 DEF AssignLoaded, IsLoaded
  <2> QED
    BY <2>1, <2>2, <2>3, IInvTypes
<1>3. CASE AssignLoaded(o, s, TRUE)
  <2> DEFINE p == Location(handle[s])
             r == LoadOutcome(ld, p, FALSE, FALSE)
  <2>1. IsLoaded(s) /\ p \in Path
    BY <1>3, LocationIsPath DEF AssignLoaded
  <2>2. /\ r.handle \in Handle
        /\ r.handle # NoHandle => r.path \in Path
        /\ r.ec = Ok <=> r.handle # NoHandle
    BY <2>1, LoadOutcomeType DEF IInv
  <2>3. r.handle # NoHandle => r.handle = Program \/ r.handle = Dlopen(ld, r.path)
    BY LoadOutcomeSource
  <2>4. r.handle # NoHandle => /\ r.handle = FileAt(p)
                               /\ r.path \in Path /\ r.path.dir # Bare
    BY <2>1, IInvTypes, LoadFinds
  <2>5. /\ r.ec = Ok => /\ handle' = [handle EXCEPT ![o] = r.handle]
                        /\ ld' = Closed(Opened(ld, r.handle, r.path), handle[o])
        /\ r.ec # Ok => UNCHANGED <<handle, ld>>
        /\ ret'.ec = r.ec
        /\ UNCHANGED <<fs, cwd, steps>>
    BY <1>3, ReportedSays DEF AssignLoaded
  <2>6. ld \in LoaderState /\ Program \in Mapped(ld) /\ handle[o] \in Handle
    BY IInvTypes, ProgramStays
  <2>7. handle[s] \in Mapped(ld)
    BY <2>1, IInvTypes, MappedIsResident DEF IsLoaded, Handle
  <2>8. FileAt(p) \in {handle[s], NoFile}
    BY <2>7, LocationIsHere
  <2> HIDE DEF r, p
  <2>9. r.handle # NoHandle => r.handle = handle[s]
    BY <2>2, <2>4, <2>8, LoaderAssumption DEF Handle
  <2>10. CASE r.ec = Ok
    <3> DEFINE k == Opened(ld, r.handle, r.path)
    <3>1. k \in LoaderState /\ Named(k)
      BY <2>2, <2>3, <2>4, <2>6, <2>10, OpenedNamed, OpenedRefs
    <3> HIDE DEF k
    <3>2. Named(Closed(k, handle[o]))
      BY <2>6, <3>1, ClosedNamed
    <3>3. Named(ld)'
      BY <2>5, <2>10, <3>2, NamedKept DEF k
    <3> QED
      BY <2>2, <2>4, <2>5, <2>9, <2>10, <3>3, IInvTypes DEF p
  <2>11. CASE r.ec # Ok
    <3>1. Named(ld)'
      BY <2>5, <2>11, NamedKept
    <3> QED
      BY <2>5, <2>11, <3>1
  <2> QED
    BY <2>10, <2>11
<1>4. CASE AssignUnlocated(o, s, TRUE)
  <2>1. UNCHANGED <<fs, cwd, ld, handle, steps>> /\ ret'.ec # Ok
    BY <1>4, UnlocatedSays
  <2>2. Named(ld)'
    BY <2>1, NamedKept
  <2> QED
    BY <2>1, <2>2
<1> QED
  BY <1>1, <1>2, <1>3, <1>4

LEMMA UnloadDoes ==
    ASSUME IInv, Named(ld), NEW o \in Objs, Unload(o)
    PROVE  /\ Named(ld)' /\ UNCHANGED <<fs, cwd, steps>>
           /\ handle'[o] = NoHandle
           /\ \A q \in Objs \ {o} : handle'[q] = handle[q]
<1>1. /\ UNCHANGED <<fs, cwd, steps>> /\ ld' = Closed(ld, handle[o])
      /\ handle' = [handle EXCEPT ![o] = NoHandle]
  BY DEF Unload
<1>2. Named(ld)'
  BY <1>1, NamedKept, ClosedNamed, IInvTypes
<1> QED
  BY <1>1, <1>2, IInvTypes

LEMMA TradeDoes ==
    ASSUME IInv, Named(ld), NEW o \in Objs, NEW s \in Objs,
           MoveConstruct(o, s) \/ Swap(o, s)
    PROVE  /\ Named(ld)' /\ UNCHANGED <<fs, cwd, steps>>
           /\ handle'[o] = handle[s] /\ handle'[s] = handle[o]
           /\ \A q \in Objs \ {o, s} : handle'[q] = handle[q]
<1>1. UNCHANGED <<fs, cwd, ld, steps>>
  BY DEF MoveConstruct, Swap, loaderVars
<1>2. handle' = [handle EXCEPT ![o] = handle[s], ![s] = handle[o]]
  BY IInvTypes DEF MoveConstruct, Swap, Trade, IsLoaded
<1>3. Named(ld)'
  BY <1>1, NamedKept
<1> QED
  BY <1>1, <1>2, <1>3, IInvTypes

(* The environment counts its changes, and no call does. *)
LEMMA StepsOfNext ==
    ASSUME [Next]_vars PROVE UNCHANGED steps \/ Environment
<1>1. CASE UNCHANGED vars
  BY <1>1 DEF vars
<1>2. ASSUME NEW o, NEW p, NEW search, NEW decorations, NEW throws,
             \/ Load(o, p, decorations, search, throws) \/ Unload(o) \/ Adopt(o, p)
      PROVE  UNCHANGED steps
  BY <1>2 DEF Load, Unload, Adopt
<1>3. ASSUME NEW o, NEW s, NEW throws, NEW y,
             \/ AssignSame(o, s) \/ AssignNothing(o, s)
             \/ AssignLoaded(o, s, throws) \/ AssignUnlocated(o, s, throws)
             \/ MoveConstruct(o, s) \/ MoveAssign(o, s) \/ Swap(o, s)
             \/ Has(o, y) \/ Get(o, y)
      PROVE  UNCHANGED steps
  BY <1>3 DEF AssignSame, AssignNothing, AssignLoaded, AssignUnlocated,
              MoveConstruct, MoveAssign, Swap, Has, Get
<1> QED
  BY <1>1, <1>2, <1>3 DEF Next

(* A call of object o leaves the tables of the others as they are, and its *)
(* own table is either right or not to be asked for yet.                   *)
LEMMA OthersMatch ==
    ASSUME TablesMatch, NEW o \in Smart, call = NoCall \/ call.obj = o,
           \A q \in Smart \ {o} : table'[q] = table[q] /\ handle'[q] = handle[q],
           \/ call' # NoCall /\ call'.obj = o
           \/ table'[o] # NoFile /\ handle'[o] # NoHandle => table'[o] = handle'[o]
    PROVE  TablesMatch'
BY DEF TablesMatch, IsLoaded

LEMMA ConstructMatches ==
    ASSUME CallInv, Named(ld), TablesMatch,
           NEW o \in Smart, NEW p \in Paths, ConstructLibrary(o, p, FALSE, FALSE)
    PROVE  Named(ld)' /\ TablesMatch' /\ HalfDone'
<1>1. /\ call = NoCall /\ table[o] = NoFile /\ UNCHANGED table
      /\ Load(o, p, FALSE, FALSE, TRUE)
      /\ \/ ret'.ec = Ok /\ Begun("construct", o, p, "throw", FALSE, FALSE)
         \/ Thrown("construct", o, "throw")
  BY DEF ConstructLibrary, Ready, Empty
<1>2. o \in Objs /\ p \in Path
  BY SmartObjs, LibraryAssumption
<1>3. /\ Named(ld)' /\ UNCHANGED <<fs, cwd>>
      /\ ret'.ec = Ok => handle'[o] = FileAt(p)
      /\ \A q \in Objs \ {o} : handle'[q] = handle[q]
  BY <1>1, <1>2, LoadDoes DEF CallInv
<1>4. TablesMatch'
  BY <1>1, <1>3, SmartObjs, OthersMatch
<1>5. HalfDone'
  <2>1. CASE Thrown("construct", o, "throw")
    BY <2>1 DEF Thrown, Ended, HalfDone
  <2>2. CASE ret'.ec = Ok /\ Begun("construct", o, p, "throw", FALSE, FALSE)
    <3>1. call'.obj = o /\ call'.path = p /\ call'.op = "construct"
      BY <2>2 DEF Begun
    <3>2. handle'[call'.obj] = FileAt(call.path)'
      BY <1>3, <2>2, <3>1 DEF FileAt
    <3> QED
      BY <3>1, <3>2 DEF HalfDone
  <2> QED
    BY <1>1, <2>1, <2>2
<1> QED
  BY <1>3, <1>4, <1>5

LEMMA ConstructByCopyMatches ==
    ASSUME CallInv, Named(ld), TablesMatch,
           NEW o \in Smart, NEW s \in Plain, ConstructByCopy(o, s)
    PROVE  Named(ld)' /\ TablesMatch' /\ HalfDone'
<1> DEFINE p == Location(handle[s])
<1>1. /\ call = NoCall /\ table[o] = NoFile /\ handle[o] = NoHandle
      /\ UNCHANGED table
      /\ AssignSame(o, s) \/ AssignLoaded(o, s, TRUE) \/ AssignUnlocated(o, s, TRUE)
      /\ \/ /\ ret'.ec = Ok /\ IsLoaded(s)
            /\ Begun("copy", o, p, "none", FALSE, FALSE)
         \/ Thrown("copy", o, "none")
  BY DEF ConstructByCopy, Ready, Empty, IsLoaded
<1>2. o \in Objs /\ s \in Objs
  BY SmartObjs
<1>3. /\ Named(ld)' /\ UNCHANGED <<fs, cwd>>
      /\ ret'.ec = Ok => handle'[o] = handle[s]
      /\ \A q \in Objs \ {o} : handle'[q] = handle[q]
      /\ AssignLoaded(o, s, TRUE) /\ ret'.ec = Ok => handle[s] = FileAt(p)
  BY <1>1, <1>2, AssignDoes DEF CallInv
<1>4. TablesMatch'
  BY <1>1, <1>3, SmartObjs, OthersMatch
<1>5. HalfDone'
  <2>1. CASE Thrown("copy", o, "none")
    BY <2>1 DEF Thrown, Ended, HalfDone
  <2>2. CASE /\ ret'.ec = Ok /\ IsLoaded(s)
             /\ Begun("copy", o, p, "none", FALSE, FALSE)
    <3>1. call'.obj = o /\ call'.path = p /\ call'.op = "copy"
      BY <2>2 DEF Begun
    <3>2. AssignLoaded(o, s, TRUE)
      BY <1>1, <2>2, UnlocatedSays DEF AssignSame, IsLoaded
    <3> HIDE DEF p
    <3>3. handle'[call'.obj] = FileAt(call.path)'
      BY <1>3, <2>2, <3>1, <3>2 DEF FileAt
    <3> QED
      BY <3>1, <3>3 DEF HalfDone
  <2> QED
    BY <1>1, <2>1, <2>2
<1> QED
  BY <1>3, <1>4, <1>5

LEMMA ConstructTableMatches ==
    ASSUME CallInv, Named(ld), TablesMatch, HalfDone, ConstructTable
    PROVE  Named(ld)' /\ TablesMatch' /\ HalfDone'
<1>1. /\ call # NoCall /\ call.op \in Constructs /\ call' = NoCall
      /\ table' = [table EXCEPT ![call.obj] = TableOf(call.path)]
      /\ CanRead(call.path) => UNCHANGED vars
      /\ ~CanRead(call.path) => Unload(call.obj)
  BY DEF ConstructTable, Thrown, Ended
<1>2. PICK o \in Smart : o = call.obj
  BY <1>1 DEF CallInv, SmartTypes, CallType
<1>3. /\ o \in Objs /\ table'[o] = TableOf(call.path)
      /\ \A q \in Smart \ {o} : table'[q] = table[q]
  BY <1>1, <1>2, SmartObjs DEF CallInv, SmartTypes
<1>4. HalfDone'
  BY <1>1 DEF HalfDone
<1>5. CASE CanRead(call.path)
  <2>1. UNCHANGED <<fs, cwd, ld, handle>>
    BY <1>1, <1>5 DEF vars, loaderVars
  <2>2. table'[o] = handle'[o]
    BY <1>1, <1>2, <1>3, <1>5, <2>1 DEF HalfDone, TableOf
  <2>3. TablesMatch'
    BY <1>2, <1>3, <2>1, <2>2, OthersMatch
  <2> QED
    BY <1>4, <2>1, <2>3, NamedKept
<1>6. CASE ~CanRead(call.path)
  <2>1. /\ Named(ld)' /\ handle'[o] = NoHandle
        /\ \A q \in Objs \ {o} : handle'[q] = handle[q]
    BY <1>1, <1>2, <1>3, <1>6, UnloadDoes DEF CallInv
  <2>2. TablesMatch'
    BY <1>2, <1>3, <2>1, SmartObjs, OthersMatch
  <2> QED
    BY <1>4, <2>1, <2>2
<1> QED
  BY <1>5, <1>6

LEMMA LoadTableMatches ==
    ASSUME CallInv, Named(ld), TablesMatch, NEW o \in Smart, NEW p \in Paths,
           NEW reports \in {"throw", "ec"}, LoadTable(o, p, FALSE, FALSE, reports)
    PROVE  Named(ld)' /\ TablesMatch' /\ HalfDone'
<1>1. /\ call = NoCall /\ table' = [table EXCEPT ![o] = TableOf(p)]
      /\ UNCHANGED <<fs, cwd, ld, handle>>
      /\ \/ Begun("load", o, p, reports, FALSE, FALSE)
         \/ ~CanRead(p) /\ Thrown("load", o, reports)
  BY DEF LoadTable, Ready, vars, loaderVars
<1>2. /\ p \in Path /\ table'[o] = TableOf(p)
      /\ \A q \in Smart \ {o} : table'[q] = table[q]
  BY <1>1, SmartObjs, LibraryAssumption DEF CallInv, SmartTypes
<1>3. Named(ld)'
  BY <1>1, NamedKept
<1>4. CASE Begun("load", o, p, reports, FALSE, FALSE)
  <2>1. /\ call' # NoCall /\ call'.op = "load" /\ call'.obj = o
        /\ call'.path = p
    <3>1. /\ "load" \in Constructs \cup {"load"} /\ reports \in Reports
          /\ FALSE \in BOOLEAN
      BY DEF Reports
    <3> QED
      BY <1>2, <1>4, <3>1, BegunType
  <2>2. TablesMatch'
    BY <1>1, <1>2, <2>1, OthersMatch
  <2>3. table'[call'.obj] = TableOf(call.path)'
    BY <1>1, <1>2, <2>1 DEF TableOf, CanRead, FileAt
  <2>4. HalfDone'
    BY <2>1, <2>3 DEF HalfDone, Constructs
  <2> QED
    BY <1>3, <2>2, <2>4
<1>5. CASE ~CanRead(p) /\ Thrown("load", o, reports)
  <2>1. table'[o] = NoFile
    BY <1>2, <1>5 DEF TableOf
  <2>2. call' = NoCall
    BY <1>5 DEF Thrown, Ended
  <2>3. TablesMatch'
    BY <1>1, <1>2, <2>1, OthersMatch
  <2> QED
    BY <1>3, <2>2, <2>3 DEF HalfDone
<1> QED
  BY <1>1, <1>4, <1>5

LEMMA LoadLibraryMatches ==
    ASSUME CallInv, Named(ld), TablesMatch, HalfDone,
           call.decorations = FALSE, call.search = FALSE, LoadLibrary
    PROVE  Named(ld)' /\ TablesMatch' /\ HalfDone'
<1>1. /\ call # NoCall /\ call.op = "load" /\ call' = NoCall /\ UNCHANGED table
      /\ Load(call.obj, call.path, FALSE, FALSE, call.reports = "throw")
  BY DEF LoadLibrary, Thrown, Ended
<1>2. PICK o \in Smart, p \in Path : o = call.obj /\ p = call.path
  BY <1>1 DEF CallInv, SmartTypes, CallType
<1> (call.reports = "throw") \in BOOLEAN
  OBVIOUS
<1>3. /\ Named(ld)' /\ handle'[o] \in {NoHandle, FileAt(p)}
      /\ \A q \in Objs \ {o} : handle'[q] = handle[q]
  BY <1>1, <1>2, SmartObjs, LoadDoes DEF CallInv
<1>4. table'[o] # NoFile => table'[o] = FileAt(p)
  BY <1>1, <1>2 DEF HalfDone, TableOf
<1>5. TablesMatch'
  BY <1>1, <1>2, <1>3, <1>4, SmartObjs, OthersMatch
<1> QED
  BY <1>1, <1>3, <1>5 DEF HalfDone

LEMMA MembersMatch ==
    ASSUME CallInv, Named(ld), TablesMatch, NEW o \in Smart, NEW s \in Smart,
           SmartUnload(o) \/ SmartAssign(o, s) \/ SmartMove(o, s) \/ SmartSwap(o, s)
    PROVE  Named(ld)' /\ TablesMatch' /\ HalfDone'
<1>1. o \in Objs /\ s \in Objs /\ table \in [Objs -> Readable \cup {NoFile}]
  BY SmartObjs DEF CallInv, SmartTypes
<1>2. call = NoCall /\ call' = NoCall /\ HalfDone'
  BY DEF SmartUnload, SmartAssign, SmartMove, SmartSwap, Ready, Thrown, Ended, HalfDone
<1>3. CASE SmartUnload(o)
  <2>1. Unload(o) /\ table' = [table EXCEPT ![o] = NoFile]
    BY <1>3 DEF SmartUnload
  <2>2. /\ Named(ld)' /\ handle'[o] = NoHandle
        /\ \A q \in Objs \ {o} : handle'[q] = handle[q]
    BY <1>1, <2>1, UnloadDoes DEF CallInv
  <2>3. TablesMatch'
    BY <1>1, <1>2, <2>1, <2>2, SmartObjs, OthersMatch
  <2> QED
    BY <1>2, <2>2, <2>3
<1>4. CASE SmartAssign(o, s)
  <2>1. /\ \/ AssignSame(o, s) \/ AssignNothing(o, s)
           \/ AssignLoaded(o, s, TRUE) \/ AssignUnlocated(o, s, TRUE)
        /\ ret'.ec = Ok => table' = [table EXCEPT ![o] = table[s]]
        /\ ret'.ec # Ok => UNCHANGED table
    BY <1>4 DEF SmartAssign
  <2>2. /\ Named(ld)'
        /\ ret'.ec = Ok => handle'[o] = handle[s]
        /\ ret'.ec # Ok => handle' = handle
        /\ \A q \in Objs \ {o} : handle'[q] = handle[q]
    BY <1>1, <2>1, AssignDoes DEF CallInv
  <2>3. /\ \A q \in Smart \ {o} : table'[q] = table[q]
        /\ ret'.ec = Ok => table'[o] = table[s]
        /\ ret'.ec # Ok => table'[o] = table[o]
    BY <1>1, <2>1, SmartObjs
  <2>4. table'[o] # NoFile /\ handle'[o] # NoHandle => table'[o] = handle'[o]
    BY <1>2, <2>2, <2>3 DEF TablesMatch, IsLoaded
  <2>5. TablesMatch'
    BY <1>2, <2>2, <2>3, <2>4, SmartObjs, OthersMatch
  <2> QED
    BY <1>2, <2>2, <2>5
<1>5. CASE SmartMove(o, s) \/ SmartSwap(o, s)
  <2>1. MoveConstruct(o, s) \/ Swap(o, s)
    BY <1>5 DEF SmartMove, SmartSwap
  <2>2. /\ Named(ld)' /\ handle'[o] = handle[s] /\ handle'[s] = handle[o]
        /\ \A q \in Objs \ {o, s} : handle'[q] = handle[q]
    BY <1>1, <2>1, TradeDoes DEF CallInv
  <2>3. /\ table'[o] = table[s] /\ table'[s] = table[o]
        /\ \A q \in Objs \ {o, s} : table'[q] = table[q]
    BY <1>1, <1>5 DEF SmartMove, SmartSwap, Empty
  <2>4. ASSUME NEW q \in Smart, table'[q] # NoFile, handle'[q] # NoHandle
        PROVE  table'[q] = handle'[q]
    BY <1>2, <2>2, <2>3, <2>4, SmartObjs DEF TablesMatch, IsLoaded
  <2>5. TablesMatch'
    BY <2>4 DEF TablesMatch, IsLoaded
  <2> QED
    BY <1>2, <2>2, <2>5
<1> QED
  BY <1>3, <1>4, <1>5

(* What the program does with its plain objects, and constructions that do *)
(* not come to be.                                                         *)
LEMMA PlainMatches ==
    ASSUME Decorations \subseteq {FALSE}, Searches \subseteq {FALSE},
           CallInv, Named(ld), TablesMatch, NEW s \in Plain,
           PlainCall(s) \/ \E o \in Smart : ConstructByMove(o, s)
    PROVE  Named(ld)' /\ TablesMatch' /\ HalfDone'
<1>1. s \in Objs /\ s \notin Smart
  BY SmartObjs DEF Smart
<1>2. call = NoCall /\ call' = NoCall /\ UNCHANGED table /\ HalfDone'
  BY DEF PlainCall, ConstructByMove, Ready, Thrown, Ended, HalfDone
<1>3. CASE PlainCall(s)
  <2>1. (\E p \in Path : Load(s, p, FALSE, FALSE, TRUE)) \/ Unload(s)
    BY <1>3, LibraryAssumption DEF PlainCall
  <2>2. Named(ld)' /\ \A q \in Objs \ {s} : handle'[q] = handle[q]
    <3>1. CASE Unload(s)
      BY <1>1, <3>1, UnloadDoes DEF CallInv
    <3>2. ASSUME NEW p \in Path, Load(s, p, FALSE, FALSE, TRUE)
          PROVE  Named(ld)' /\ \A q \in Objs \ {s} : handle'[q] = handle[q]
      BY <1>1, <3>2, LoadDoes DEF CallInv
    <3> QED
      BY <2>1, <3>1, <3>2
  <2>3. \A q \in Smart : handle'[q] = handle[q]
    BY <1>1, <2>2, SmartObjs
  <2>4. TablesMatch'
    BY <1>2, <2>3 DEF TablesMatch, IsLoaded
  <2> QED
    BY <1>2, <2>2, <2>4
<1>4. ASSUME NEW o \in Smart, ConstructByMove(o, s)
      PROVE  Named(ld)' /\ TablesMatch' /\ HalfDone'
  <2>1. o \in Objs /\ MoveConstruct(o, s) /\ table'[o] = NoFile
    BY <1>2, <1>4, SmartObjs DEF ConstructByMove, Empty
  <2>2. Named(ld)' /\ \A q \in Objs \ {o, s} : handle'[q] = handle[q]
    BY <1>1, <2>1, TradeDoes DEF CallInv
  <2>3. \A q \in Smart \ {o} : handle'[q] = handle[q]
    BY <1>1, <2>2, SmartObjs
  <2>4. TablesMatch'
    BY <1>2, <2>1, <2>3, OthersMatch
  <2> QED
    BY <1>2, <2>2, <2>4
<1> QED
  BY <1>3, <1>4

LEMMA UndisturbedKept ==
    ASSUME Decorations \subseteq {FALSE}, Searches \subseteq {FALSE},
           CallInv, Undisturbed, [SmartNext]_smartVars
    PROVE  Undisturbed'
<1> SUFFICES ASSUME steps' = 0 PROVE Named(ld)' /\ TablesMatch' /\ HalfDone'
  BY DEF Undisturbed
<1> DEFINE Goal == Named(ld)' /\ TablesMatch' /\ HalfDone'
<1>1. ~Environment
  BY IInvTypes, LibraryAssumption DEF CallInv, Environment
<1>2. Named(ld) /\ TablesMatch /\ HalfDone
  BY <1>1, SmartStep, StepsOfNext DEF Undisturbed
<1>3. CASE UNCHANGED smartVars
  <2>1. UNCHANGED <<fs, cwd, ld, handle, table, call>>
    BY <1>3 DEF smartVars, vars, loaderVars
  <2> QED
    BY <1>2, <2>1 DEF Named, TablesMatch, HalfDone, TableOf, CanRead, FileAt,
                      Mapped, IsLoaded
<1>4. ASSUME NEW o \in Smart, NEW p \in Paths, NEW search \in Searches,
             NEW decorations \in Decorations, NEW reports \in {"throw", "ec"},
             \/ ConstructLibrary(o, p, decorations, search)
             \/ LoadTable(o, p, decorations, search, reports)
      PROVE  Goal
  <2>1. search = FALSE /\ decorations = FALSE
    BY <1>4
  <2> QED
    BY <1>2, <1>4, <2>1, ConstructMatches, LoadTableMatches
<1>5. ASSUME NEW o \in Smart, NEW s \in Plain, ConstructByCopy(o, s) PROVE Goal
  BY <1>2, <1>5, ConstructByCopyMatches
<1>6. ASSUME ConstructTable PROVE Goal
  BY <1>2, <1>6, ConstructTableMatches
<1>7. ASSUME NEW s \in Plain, PlainCall(s) \/ \E o \in Smart : ConstructByMove(o, s)
      PROVE  Goal
  BY <1>2, <1>7, PlainMatches
<1>8. ASSUME NEW o \in Smart, NEW s \in Smart,
             SmartUnload(o) \/ SmartAssign(o, s) \/ SmartMove(o, s) \/ SmartSwap(o, s)
      PROVE  Goal
  BY <1>2, <1>8, MembersMatch
<1>9. ~FilesChange
  BY <1>1 DEF FilesChange
<1>10. ASSUME LoadLibrary PROVE Goal
  <2>1. call.decorations = FALSE /\ call.search = FALSE
    BY <1>10 DEF LoadLibrary, CallInv, Asked
  <2> QED
    BY <1>2, <1>10, <2>1, LoadLibraryMatches
<1> HIDE DEF Goal
<1>11. ASSUME SmartNext PROVE Goal
  <2>1. ASSUME NEW o \in Smart, NEW s \in Plain, ConstructByMove(o, s) PROVE Goal
    BY <1>7, <2>1
  <2>2. ASSUME NEW o \in Smart, SmartUnload(o) PROVE Goal
    BY <1>8, <2>2
  <2>3. ASSUME NEW o \in Smart, NEW p \in Paths, NEW search \in Searches,
               NEW decorations \in Decorations,
               ConstructLibrary(o, p, decorations, search)
        PROVE  Goal
    BY <1>4, <2>3
  <2>4. ASSUME NEW s \in Plain, PlainCall(s) PROVE Goal
    BY <1>7, <2>4
  <2>5. ASSUME NEW o \in Smart, NEW p \in Paths, NEW search \in Searches,
               NEW decorations \in Decorations, NEW reports \in {"throw", "ec"},
               LoadTable(o, p, decorations, search, reports)
        PROVE  Goal
    BY <1>4, <2>5
  <2>6. ASSUME NEW o \in Smart, NEW s \in Smart,
               SmartAssign(o, s) \/ SmartMove(o, s) \/ SmartSwap(o, s)
        PROVE  Goal
    BY <1>8, <2>6
  <2> QED
    BY <1>5, <1>6, <1>9, <1>10, <1>11, <2>1, <2>2, <2>3, <2>4, <2>5, <2>6
       DEF SmartNext
<1>12. Goal
  BY <1>3, <1>11 DEF Goal
<1> QED
  BY <1>12 DEF Goal
-----------------------------------------------------------------------------
(* Without decorations and without search a path means one file to the     *)
(* table and to the loader; the other modes are the findings.              *)
OneFilePerPath == Decorations \subseteq {FALSE} /\ Searches \subseteq {FALSE}

(* The types, and with files that stay: between any two calls, whichever   *)
(* of them failed, the table of a loaded smart_library is its library's.   *)
THEOREM SmartInvCorrect == OneFilePerPath /\ SmartSpec => []SmartInv
<1>1. SmartInit => Undisturbed
  <2> SUFFICES ASSUME SmartInit PROVE Named(ld) /\ TablesMatch /\ HalfDone
    BY DEF Undisturbed
  <2>1. ld.lname[Program] = NoPath /\ Mapped(ld) = {Program}
    BY LoaderAssumption DEF SmartInit, Init, LoaderInit, Mapped
  <2>2. \A o \in Smart : table[o] = NoFile
    BY SmartObjs DEF SmartInit
  <2> QED
    BY <2>1, <2>2 DEF SmartInit, Named, TablesMatch, HalfDone
<1>2. ASSUME OneFilePerPath
      PROVE  CallInv /\ Undisturbed /\ [SmartNext]_smartVars => Undisturbed'
  BY <1>2, UndisturbedKept DEF OneFilePerPath
<1>3. CallInv /\ Undisturbed => SmartInv
  <2>1. CallInv => SmartTypeOK
    BY DEF CallInv, IInv, SmartTypes, SmartTypeOK, CallType, LastType
  <2>2. Undisturbed => TableIsTheLibrary
    BY DEF Undisturbed, TableIsTheLibrary, TablesMatch, Ready
  <2> QED
    BY <2>1, <2>2 DEF SmartInv
<1>4. CASE OneFilePerPath
  BY <1>1, <1>2, <1>3, <1>4, InitCallInv, NextCallInv, PTL DEF SmartSpec
<1> QED
  BY <1>4

=============================================================================
