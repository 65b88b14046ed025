---------------------------- MODULE LibraryOwners ----------------------------
(***************************************************************************)
(* What the documentation of shared_library promises, without a loader,    *)
(* counts or paths: every object owns at most one library, and a library   *)
(* stays in memory exactly as long as some object owns it ("the actual     *)
(* DLL/DSO won't be unloaded until there is at least one instance that     *)
(* references the DLL/DSO", shared_library.hpp).  An operation changes the *)
(* objects it names and no others.                                         *)
(***************************************************************************)
CONSTANTS Objs, Libs, Program, None

VARIABLES
    owns,       \* owns[o]: the library object o owns, or None
    resident    \* the libraries in memory

ownerVars == <<owns, resident>>

Init ==
    /\ owns = [o \in Objs |-> None]
    /\ resident = {Program}

(* The executable itself is always in memory. *)
Resident(own) == {x \in Libs : \E o \in Objs : own[o] = x} \cup {Program}

Become(own) ==
    /\ owns' = own
    /\ resident' = Resident(own)

(* Load, copy and adopt: o gives up what it owned and owns x. *)
Acquire(o, x) == Become([owns EXCEPT ![o] = x])

(* Move and swap: two objects trade what they own. *)
Exchange(o, s) == Become([owns EXCEPT ![o] = owns[s], ![s] = owns[o]])

Next == \E o \in Objs :
    \/ \E x \in Libs \cup {None} : Acquire(o, x)
    \/ \E s \in Objs : Exchange(o, s)

Spec == Init /\ [][Next]_ownerVars
=============================================================================
