------------------------------ MODULE MsvcNames ------------------------------
(***************************************************************************)
(* detail::parser of msvc.hpp: how a declaration, as __unDName shows it,   *)
(* is compared with what a look-up asks for.  Names are sequences of       *)
(* tokens, as in MangledStorage.                                           *)
(*                                                                         *)
(* A string_view that the parser consumes from is the set of what is left  *)
(* to consume: {} once a step has failed, and {<<>>} when all is matched.  *)
(***************************************************************************)
EXTENDS Integers, Sequences, SequencesExt, FiniteSetsExt

Unscoped(class) == SubSeq(class, SelectLastInSeq(class, LAMBDA t : t = "::") + 1, Len(class))

-----------------------------------------------------------------------------
(* What __unDName shows.  A type is [key, name, rule]: "class Cls const &".*)
(* e.word is the width of a pointer in the library.                        *)
VoidType == [key |-> <<>>, name |-> <<"void">>, rule |-> <<>>]

Shown(type, word) ==
    type.key \o type.name \o type.rule
      \o IF word = 64 /\ ToSet(type.rule) \cap {" &", " &&"} # {} THEN <<" ", "__ptr64">>
         ELSE <<>>

ShownArgs(args, word) ==
    <<"(">> \o (IF args = <<>> THEN <<"void">>
                ELSE FlattenSeq([k \in DOMAIN args |->
                    (IF k = 1 THEN <<>> ELSE <<",">>) \o Shown(args[k], word)])) \o <<")">>

Undecorated(e) ==
    LET own      == IF e.class = <<>> THEN e.name ELSE e.class \o <<"::">> \o e.name
        virtual  == IF e.virtual THEN <<" virtual">> ELSE <<>>
        thiscall == IF e.word = 64 THEN "__cdecl " ELSE "__thiscall "
        this     == e.quals \o IF e.word = 32 THEN <<>>
                    ELSE IF e.quals = <<>> THEN <<" ", "__ptr64">> ELSE <<"__ptr64">>
        args     == ShownArgs(e.args, e.word)
        type     == Shown(e.type, e.word)
        method   == <<e.access>> \o virtual \o <<" ">> \o type \o <<" ", thiscall>>
                      \o own \o args \o this
    IN  CASE e.kind = "function" -> type \o <<" ", "__cdecl ">> \o own \o args
          [] e.kind = "static"   ->
                 <<e.access, " static ">> \o type \o <<" ", "__cdecl ">> \o own \o args
          [] e.kind = "member"   -> method
          [] e.kind = "thunk"    -> <<"[thunk]:">> \o method
          [] e.kind = "variable" -> type \o <<" ">> \o own
          [] e.kind = "static data" -> <<e.access, " static ">> \o type \o <<" ">> \o own
          [] e.kind \in {"ctor", "dtor"} ->
                 <<e.access>> \o virtual \o <<" ", thiscall>> \o e.class
                   \o (IF e.kind = "dtor" THEN <<"::", "~">> ELSE <<"::">>)
                   \o Unscoped(e.class) \o args \o this
          [] e.kind = "vtable" -> <<"const ">> \o e.class \o <<"::`vftable'">>
          [] e.kind = "c"      -> e.name

-----------------------------------------------------------------------------
TryConsume(S, prefix) ==
    {SubSeq(s, Len(prefix) + 1, Len(s)) : s \in {t \in S : IsPrefix(prefix, t)}}

IgnorePrefix(S, prefix) ==
    {s \in S : ~IsPrefix(prefix, s)} \cup TryConsume(S, prefix)

(* All blanks and __ptr32, __ptr64 in front. *)
IgnorePtrs(S) ==
    LET First(s) == SelectInSeq(s, LAMBDA t : t \notin {" ", "__ptr32", "__ptr64"})
    IN  {IF First(s) = 0 THEN <<>> ELSE SubSeq(s, First(s), Len(s)) : s \in S}

Visibilities == {"public:", "protected:", "private:"}
TryConsumeVisibility(S) == UNION {TryConsume(S, <<v>>) : v \in Visibilities}

(* A variable or function: if it shows a visibility, it is a static member.*)
NoneOrStatic(S) ==
    IF TryConsumeVisibility(S) = {} THEN S
    ELSE TryConsume(TryConsumeVisibility(S), <<" static ">>)

(* trim_typename *)
Trimmed(name) ==
    IF name # <<>> /\ Head(name) \in {"class ", "struct "} THEN Tail(name) ELSE name

(* type is [name, rule], the rule in the order const, volatile, && or &.   *)
TryConsumeType(S, type) ==
    IF type = [name |-> <<"void">>, rule |-> <<>>] THEN TryConsume(S, <<"void">>)
    ELSE IgnorePtrs(TryConsume(
             IgnorePrefix(IgnorePrefix(S, <<"class ">>), <<"struct ">>),
             Trimmed(type.name) \o type.rule))

TryConsumeThiscall(S) ==
    UNION {TryConsume(IgnorePrefix(S, <<" ">>), <<c>>) : c \in {"__cdecl ", "__thiscall "}}

TryConsumeArgs(S, types) ==
    IF types = <<>> THEN TryConsume(S, <<"void">>)
    ELSE FoldLeftDomain(LAMBDA rest, k :
             TryConsumeType(IF k = 1 THEN rest ELSE TryConsume(rest, <<",">>), types[k]),
             S, types)

TryConsumeParameters(S, types) ==
    TryConsume(TryConsumeArgs(TryConsume(S, <<"(">>), types), <<")">>)

Matched(S) == <<>> \in S

-----------------------------------------------------------------------------
IsDestructorWithName(s, name) ==
    Matched(IgnorePtrs(TryConsume(TryConsumeThiscall(
        IgnorePrefix(TryConsumeVisibility({s}), <<" virtual">>)), name)))

IsVariableWithName(s, name, type) ==
    Matched(TryConsume(TryConsumeType(NoneOrStatic({s}), type), name))

IsConstructorWithName(s, name, types) ==
    Matched(IgnorePtrs(TryConsumeParameters(
        TryConsume(TryConsumeThiscall(TryConsumeVisibility({s})), name), types)))

IsFunctionWithName(s, name, result, types) ==
    LET rest == TryConsume(IgnorePrefix(TryConsumeType(NoneOrStatic({s}), result), <<" ">>),
                           <<"__cdecl ">> \o name)
    IN  Matched(IgnorePtrs(TryConsumeParameters(rest, types)))

(* Mutant: what follows the qualifiers that are asked for is ignored.      *)
IsMemFnWithNameAnyRest(s, class, name, result, types, quals) ==
    LET from == TryConsume(IgnorePrefix(TryConsumeVisibility({s}), <<" virtual">>), <<" ">>)
        own  == TryConsumeType(TryConsumeThiscall(TryConsumeType(from, result)), class)
        rest == TryConsumeParameters(TryConsume(own, <<"::">> \o name), types)
    IN  TryConsume(rest, quals) # {}

(* quals: "const " and "volatile " if the class is const or volatile.      *)
IsMemFnWithName(s, class, name, result, types, quals) ==
    LET from == TryConsume(IgnorePrefix(TryConsumeVisibility({s}), <<" virtual">>), <<" ">>)
        own  == TryConsumeType(TryConsumeThiscall(TryConsumeType(from, result)), class)
        rest == TryConsumeParameters(TryConsume(own, <<"::">> \o name), types)
    IN  Matched(IgnorePtrs(TryConsume(rest, quals)))
=============================================================================
