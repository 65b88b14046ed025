---------------------------- MODULE MangledImport ----------------------------
(***************************************************************************)
(* import_mangled_helpers.hpp: which sequences of types import_mangled     *)
(* takes for overloads of a member function, and how a sequence of a       *)
(* class, functions and qualified versions of the class becomes the list   *)
(* of member functions to look up.  A type is a function or a class with   *)
(* cv-qualifiers.                                                          *)
(***************************************************************************)
EXTENDS Integers, Sequences, SequencesExt

IsFunction(t) == t.kind = "function"
IsObject(t) == t.kind = "class"
UnqualifiedIsSame(t, u) == IsObject(t) /\ IsObject(u) /\ t.type = u.type

(* The class and one function; after them functions and versions of the    *)
(* class, and a function at the end.                                       *)
IsMemFnSeq(seq) ==
    /\ Len(seq) >= 2
    /\ IsObject(seq[1]) /\ IsFunction(seq[2])
    /\ IsFunction(Last(seq))
    /\ \A k \in 3 .. Len(seq) : IsFunction(seq[k]) \/ UnqualifiedIsSame(seq[1], seq[k])

MemFnDef(class, func) == [class |-> class, func |-> func]

(* Mutant: a qualified class is used for one function only.                *)
MakeMemFnSeqOnce(seq) ==
    LET make[left \in 0 .. Len(seq) - 1] == [c \in DOMAIN seq |->
            LET k == Len(seq) - left + 1
            IN  IF left = 0 THEN <<>>
                ELSE IF left = 1 THEN <<MemFnDef(seq[c], seq[k])>>
                ELSE IF UnqualifiedIsSame(seq[c], seq[k])
                THEN <<MemFnDef(seq[k], seq[k + 1])>> \o make[left - 2][c]
                ELSE <<MemFnDef(seq[c], seq[k])>> \o make[left - 1][c]]
    IN  make[Len(seq) - 1][1]

(* make_mem_fn_seq<T0, T1, T2, Args...>, of the T0 at c and as many types  *)
(* as are left, which begin at k: is T1 another version of T0?             *)
MakeMemFnSeq(seq) ==
    LET make[left \in 0 .. Len(seq) - 1] == [c \in DOMAIN seq |->
            LET k == Len(seq) - left + 1
            IN  IF left = 0 THEN <<>>
                ELSE IF left = 1 THEN <<MemFnDef(seq[c], seq[k])>>
                ELSE IF UnqualifiedIsSame(seq[c], seq[k])
                THEN <<MemFnDef(seq[k], seq[k + 1])>> \o make[left - 2][k]
                ELSE <<MemFnDef(seq[c], seq[k])>> \o make[left - 1][c]]
    IN  make[Len(seq) - 1][1]
=============================================================================
