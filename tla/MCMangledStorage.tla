--------------------------- MODULE MCMangledStorage ---------------------------
(* Libraries for MangledStorage: classes whose names end alike, overloads, *)
(* instances of templates, and the variants of constructors.               *)
EXTENDS MangledStorage, TLC

CONSTANTS a, b,
    Doubtful   \* does a class inherit from two others, and are constructors
               \* of instances of class templates asked for?

Cls == <<"Cls">>
OuterCls == <<"Outer", "::", "Cls">>
TmplOfInt == <<"Outer", "::", "Cls<int>">>
MCClassTemplate == "Cls<int>" :> "Cls"
AnInt == <<"int">>
ConstRefTo == <<" const", "&">>
MCPretty(names, type) ==
    IF type = "Tmpl" THEN TmplOfInt
    ELSE IF type # "Cls" THEN <<type>> ELSE IF names = "msvc" THEN <<"class ">> \o Cls ELSE Cls
MCAliases == {[type |-> "Host", name |-> Cls], [type |-> "Host", name |-> OuterCls]}

E(kind, class, name, args, quals, variant) ==
    [kind |-> kind, class |-> class, name |-> name, args |-> args,
     quals |-> quals, variant |-> variant]
Of(kind, class, name, args, quals) == E(kind, class, name, args, quals, "")
Special(kind, class, args, variant) == E(kind, class, "", args, <<>>, variant)

ThunkOf(class) == Of("thunk", class, "f", <<AnInt>>, <<>>)
Methods(class) ==
    <<Of("member", class, "f", <<AnInt>>, <<" const">>),
      Of("member", class, "f", <<AnInt>>, <<>>),
      Of("instance", class, "g<int>", <<>>, <<>>)>>
Specials(class) ==
    <<Special("ctor", class, <<>>, "C1"), Special("ctor", class, <<>>, "C2"),
      Special("ctor", class, <<AnInt, AnInt>>, "C2"),
      Special("ctor", class, <<class \o ConstRefTo>>, "C1"),
      Special("dtor", class, <<>>, "D0"),
      Special("dtor", class, <<>>, "D1"), Special("typeinfo", class, <<>>, "")>>
Plain == <<Of("c", <<>>, "f", <<>>, <<>>), Of("function", <<>>, "f", <<AnInt>>, <<>>),
           Of("variable", Cls, "v", <<>>, <<>>)>>

Full(class, other) ==
    (IF Doubtful THEN <<ThunkOf(class)>> ELSE <<>>)
      \o Methods(other) \o Specials(other) \o Plain \o Methods(class) \o Specials(class)

ItaniumLibraries == {Full(Cls, OuterCls), Full(OuterCls, Cls),
                Methods(OuterCls) \o Specials(OuterCls), Plain,
                Methods(TmplOfInt) \o Specials(TmplOfInt) \o Specials(OuterCls)}

Q(op, type, name, args, quals, variant) ==
    [op |-> op, type |-> type, name |-> name, args |-> args, quals |-> quals,
     variant |-> variant]
OfInt == [type |-> "int", rule |-> <<>>]
ConstRef(type) == [type |-> type, rule |-> ConstRefTo]
ItaniumQueries ==
    {Q("variable", "", n, <<>>, <<>>, "") : n \in {<<"f">>, <<"Cls", "::", "v">>}}
    \cup {Q("function", "", n, <<OfInt>>, <<>>, "") : n \in {<<"f">>, OuterCls \o <<"::", "f">>}}
    \cup {Q("member", t, "f", <<OfInt>>, quals, "") :
             t \in {"Cls", "Host", "Tmpl"}, quals \in {<<>>, <<" const">>}}
    \cup {Q("member", t, "g<int>", <<>>, <<>>, "") : t \in {"Cls", "Host"}}
    \cup {Q("ctor", t, "", args, <<>>, v) :
             t \in {"Cls", "Host"},
             args \in {<<>>, <<OfInt, OfInt>>, <<ConstRef("Cls")>>, <<ConstRef("Host")>>},
             v \in {"C1", "C2", "C3"}}
    \cup {Q("dtor", t, "", <<>>, <<>>, v) : t \in {"Cls", "Host"}, v \in {"D0", "D1", "D2"}}
    \cup {Q("typeinfo", t, "", <<>>, <<>>, "") : t \in {"Cls", "Host", "Tmpl"}}
    \cup {Q("ctor", "Tmpl", "", <<>>, <<>>, "C1") : d \in {TRUE} \cap {Doubtful}}

-----------------------------------------------------------------------------
(* MSVC: 32 and 64 bit libraries.                                          *)
Type(key, name, rule) == [key |-> key, name |-> name, rule |-> rule]
PlainInt == Type(<<>>, AnInt, <<>>)
IntConst == Type(<<>>, AnInt, <<" const">>)
RefTo(class) == Type(<<"class ">>, class, <<" const", " &">>)

D(kind, class, name, type, args, quals, virtual, word) ==
    [kind |-> kind, class |-> class, name |-> name, type |-> type, args |-> args,
     quals |-> quals, access |-> "public:", virtual |-> virtual, word |-> word]

MsvcMembers(class, w) ==
    <<D("static", class, <<"f">>, PlainInt, <<PlainInt>>, <<>>, FALSE, w),
      D("thunk", class, <<"f">>, PlainInt, <<PlainInt>>, <<>>, TRUE, w),
      D("member", class, <<"f">>, PlainInt, <<PlainInt>>, <<"const ">>, TRUE, w),
      D("member", class, <<"f">>, PlainInt, <<PlainInt>>, <<"const ", "volatile ">>, FALSE, w),
      D("member", class, <<"f">>, RefTo(class), <<RefTo(class), PlainInt>>, <<>>, FALSE, w),
      D("member", class, <<"f">>, VoidType, <<PlainInt>>, <<>>, FALSE, w),
      D("member", class, <<"f">>, PlainInt, <<PlainInt>>, <<>>, TRUE, w),
      D("static data", class, <<"v">>, PlainInt, <<>>, <<>>, FALSE, w),
      D("vtable", class, <<>>, VoidType, <<>>, <<>>, FALSE, w),
      D("ctor", class, <<>>, VoidType, <<RefTo(class)>>, <<>>, FALSE, w),
      D("ctor", class, <<>>, VoidType, <<>>, <<>>, FALSE, w),
      D("dtor", class, <<>>, VoidType, <<>>, <<>>, TRUE, w)>>
MsvcPlain(w) ==
    <<D("c", <<>>, <<"f">>, PlainInt, <<>>, <<>>, FALSE, w),
      D("variable", <<>>, <<"v">>, IntConst, <<>>, <<>>, FALSE, w),
      D("function", <<>>, <<"f">>, VoidType, <<>>, <<>>, FALSE, w),
      D("function", <<>>, <<"f">>, PlainInt, <<PlainInt>>, <<>>, FALSE, w)>>
MsvcLibraries ==
    {MsvcMembers(OuterCls, 64) \o MsvcPlain(64) \o MsvcMembers(Cls, 64),
     MsvcMembers(Cls, 32) \o MsvcMembers(OuterCls, 32), MsvcPlain(32),
     MsvcMembers(OuterCls, 64)}

MQ(op, type, name, result, args, quals) ==
    [op |-> op, type |-> type, name |-> name, result |-> result, args |-> args,
     quals |-> quals]
OfType(type, rule) == [type |-> type, rule |-> rule]
MsvcConstRef(type) == OfType(type, <<" const", " &">>)
Void == OfType("void", <<>>)
MsvcQueries ==
    {MQ("variable", "", n, r, <<>>, <<>>) :
        n \in {<<"v">>, Cls \o <<"::", "v">>}, r \in {OfInt, OfType("int", <<" const">>)}}
    \cup {MQ("function", "", n, r, args, <<>>) :
              n \in {<<"f">>, OuterCls \o <<"::", "f">>}, r \in {OfInt, Void},
              args \in {<<>>, <<OfInt>>}}
    \cup {MQ("member", t, <<"f">>, r, <<OfInt>>, quals) :
              t \in {"Cls", "Host"}, r \in {OfInt, Void},
              quals \in {<<>>, <<"const ">>, <<"const ", "volatile ">>}}
    \cup {MQ("member", t, <<"f">>, MsvcConstRef(t), <<MsvcConstRef(t), OfInt>>, <<>>) :
              t \in {"Cls", "Host"}}
    \cup {MQ("ctor", t, <<>>, Void, args, <<>>) : t \in {"Cls", "Host"},
              args \in {<<>>, <<OfInt>>, <<MsvcConstRef("Cls")>>, <<MsvcConstRef("Host")>>}}
    \cup {MQ(op, t, <<>>, Void, <<>>, <<>>) : op \in {"dtor", "vtable"}, t \in {"Cls", "Host"}}

MCLibraries == "itanium" :> ItaniumLibraries @@ "msvc" :> MsvcLibraries
MCQueries == "itanium" :> ItaniumQueries @@ "msvc" :> MsvcQueries

-----------------------------------------------------------------------------
(* What import_mangled may be given: a class, and then functions, the      *)
(* class again and its const version in any order.                         *)
Func(name, args) == [kind |-> "function", name |-> name, args |-> args, result |-> OfInt]
ClassType(quals) == [kind |-> "class", type |-> "Cls", quals |-> quals]
SeqsOf(types) ==
    {<<ClassType(<<>>)>> \o rest : rest \in UNION {[1 .. n -> types] : n \in 1 .. 4}}
MCOverloads ==
    "itanium" :> SeqsOf({ClassType(<<>>), ClassType(<<" const">>), Func("f", <<OfInt>>)})
    @@ "msvc" :> SeqsOf({ClassType(<<>>), ClassType(<<"const ">>), Func(<<"f">>, <<OfInt>>)})

(* These names are what the proofs ask for, but where they are doubtful. *)
MCWords == STRING \ Separators
ASSUME MCNamesAsProved ==
    /\ AreWords(MCWords)
    /\ ~Doubtful => EntitiesSpelled(MCWords) /\ QueriesSpelled(MCWords)
=============================================================================
