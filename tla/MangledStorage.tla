---------------------------- MODULE MangledStorage ----------------------------
(***************************************************************************)
(* detail::mangled_storage_impl: the table of (mangled, demangled) names   *)
(* of a library, aliases of types, and the look-ups by demangled name that *)
(* smart_library and import_mangled make.  The table is the same for both  *)
(* kinds of names, the look-ups are itanium.hpp's and msvc.hpp's.          *)
(*                                                                         *)
(* A symbol of a library is the entity it is for; the entity stands for    *)
(* its mangled name, too, since mangled names are unique.  A demangled     *)
(* name is the sequence of its tokens: comparing names compares tokens.    *)
(***************************************************************************)
EXTENDS MsvcNames, MangledImport, Functions

CONSTANTS
    Storages,       \* (bound) the objects
    Libraries,      \* (bound) abi -> what files list: sequences of entities
    Aliases,        \* (bound) the aliases added: [type, name]
    Queries,        \* (bound) abi -> the look-ups
    Overloads,      \* (bound) abi -> the types import_mangled is given
    ClassTemplate,  \* the names of instances of class templates -> the template's
    Pretty(_, _)    \* ctti_type_index::pretty_name of a type of the program

ASSUME StorageAssumption ==
    /\ \A a \in Aliases : a = [type |-> a.type, name |-> a.name]
    /\ \A names \in {"itanium", "msvc"} : \A seq \in Overloads[names] :
           seq \in Seq({seq[k] : k \in DOMAIN seq})

VARIABLES
    abi,            \* the kind of names the program was built for
    storage_,       \* storage -> sequence of [mangled, demangled]
    aliases_,       \* storage -> partial function from types to names
    shown,          \* storage -> the library it was filled from, <<>> if none
    added           \* the last call, if it was add_alias: {[storage, alias]}

storageVars == <<abi, storage_, aliases_, shown, added>>

StorageInit ==
    /\ abi \in {"itanium", "msvc"}
    /\ storage_ = [o \in Storages |-> <<>>]
    /\ aliases_ = [o \in Storages |-> <<>>]
    /\ shown = [o \in Storages |-> <<>>]
    /\ added = {}

-----------------------------------------------------------------------------
(* Names, as the Itanium ABI and its demangler form them.                  *)

(* The names of the types of the parameters are separated by ", ".         *)
Parameters(args) == <<"(">> \o FlattenSeq([k \in DOMAIN args |->
    IF k = 1 THEN args[k] ELSE <<", ">> \o args[k]]) \o <<")">>

Scoped(e) == IF e.class = <<>> THEN <<e.name>> ELSE e.class \o <<"::", e.name>>

(* Constructors of an instance have the name of its template: the whole    *)
(* name is Cls<int>::Cls().                                                *)
IsInstance(class) == \E w \in DOMAIN ClassTemplate : Unscoped(class) = <<w>>
SourceName(class) ==
    IF IsInstance(class) THEN <<ClassTemplate[Unscoped(class)[1]]>> ELSE Unscoped(class)

(* A template's instance is shown with the type it returns.                *)
Demangled(e) ==
    LET member == Scoped(e) \o Parameters(e.args) \o e.quals
    IN  CASE e.kind \in {"function", "member"} -> member
          [] e.kind = "variable" -> Scoped(e)
          [] e.kind = "instance" -> <<"void", " ">> \o member
          [] e.kind = "thunk"    -> <<"non-virtual thunk to", " ">> \o member
          [] e.kind = "ctor"     ->
                 e.class \o <<"::">> \o SourceName(e.class) \o Parameters(e.args)
          [] e.kind = "dtor"     ->
                 e.class \o <<"::", "~">> \o SourceName(e.class) \o <<"(", ")">>
          [] e.kind = "typeinfo" -> <<"typeinfo for">> \o e.class
          [] e.kind = "c"        -> <<>>

(* A name of the C language has no other form: it is stored for itself. *)
Entry(e) ==
    [mangled |-> e, demangled |-> IF abi = "msvc" THEN Undecorated(e)
                                  ELSE IF Demangled(e) = <<>> THEN <<e.name>>
                                  ELSE Demangled(e)]

AddSymbols(storage, symbols) ==
    storage \o [k \in DOMAIN symbols |-> Entry(symbols[k])]

-----------------------------------------------------------------------------
(* The look-ups.  Nothing is the empty string.                             *)
Nothing == [kind |-> "nothing"]

GetName(o, type) ==
    IF type \in DOMAIN aliases_[o] THEN aliases_[o][type] ELSE Pretty(abi, type)

(* arg_list(): the name of each parameter's type and then its rule, as in  *)
(* "Cls const&"; aliases are applied to types of parameters as well.  The  *)
(* arguments of a template are part of its name here.                      *)
ArgList(o, types) == [k \in DOMAIN types |-> GetName(o, types[k].type) \o types[k].rule]

FindIf(o, Match(_)) ==
    LET k == SelectInSeq(storage_[o], Match)
    IN  IF k = 0 THEN Nothing ELSE storage_[o][k].mangled

GetVariable(o, name) == FindIf(o, LAMBDA e : e.demangled = name)

GetFunction(o, name, types) ==
    FindIf(o, LAMBDA e : e.demangled = name \o Parameters(ArgList(o, types)))

(* Mutant: any name that ends so will do.                                  *)
FullNameAnySuffix(matcher, demangled) == IsSuffix(matcher, demangled)

(* The name itself, or what follows the type that an instance of a         *)
(* template returns.                                                       *)
FullName(matcher, demangled) ==
    \/ demangled = matcher
    \/ /\ IsSuffix(matcher, demangled)
       /\ demangled[Len(demangled) - Len(matcher)] = " "

GetMemFn(o, type, name, types, quals) ==
    LET matcher == GetName(o, type) \o <<"::", name>>
                     \o Parameters(ArgList(o, types)) \o quals
    IN  FindIf(o, LAMBDA e : FullName(matcher, e.demangled))

(* mangled.find(unscoped_cname + "C1E") and the like.  In the mangled name *)
(* of an instance the arguments follow its template's name.                *)
MarkedAs(mangled, kind, variant, class) ==
    /\ mangled.kind = kind /\ mangled.variant = variant
    /\ Unscoped(mangled.class) = Unscoped(class) /\ ~IsInstance(mangled.class)

(* Of several entries the last one stays. *)
LastMarked(o, demangled, kind, variant, class) ==
    LET k == SelectLastInSeq(storage_[o], LAMBDA e :
                 e.demangled = demangled /\ MarkedAs(e.mangled, kind, variant, class))
    IN  IF k = 0 THEN Nothing ELSE storage_[o][k].mangled

GetConstructor(o, type, types) ==
    LET class == GetName(o, type)
        name  == class \o <<"::">> \o Unscoped(class) \o Parameters(ArgList(o, types))
    IN  [v \in {"C1", "C2", "C3"} |-> LastMarked(o, name, "ctor", v, class)]

GetDestructor(o, type) ==
    LET class == GetName(o, type)
        name  == class \o <<"::", "~">> \o Unscoped(class) \o <<"(", ")">>
    IN  [v \in {"D0", "D1", "D2"} |-> LastMarked(o, name, "dtor", v, class)]

GetTypeInfo(o, type) ==
    FindIf(o, LAMBDA e : e.demangled = <<"typeinfo for">> \o GetName(o, type))

-----------------------------------------------------------------------------
(* The same look-ups over the names of MSVC, which show the types of       *)
(* variables and of what functions return; types are [type, rule].         *)
TypeName(o, t) == [name |-> GetName(o, t.type), rule |-> t.rule]
TypeNames(o, types) == [k \in DOMAIN types |-> TypeName(o, types[k])]
ClassName(o, type) == Trimmed(GetName(o, type))

MsvcVariable(o, name, type) ==
    FindIf(o, LAMBDA e : IsVariableWithName(e.demangled, name, TypeName(o, type)))

MsvcFunction(o, name, result, types) ==
    FindIf(o, LAMBDA e : IsFunctionWithName(e.demangled, name, TypeName(o, result),
                                            TypeNames(o, types)))

MsvcMemFn(o, type, name, result, types, quals) ==
    FindIf(o, LAMBDA e : IsMemFnWithName(e.demangled, TypeName(o, [type |-> type, rule |-> <<>>]),
                             name, TypeName(o, result), TypeNames(o, types), quals))

MsvcConstructor(o, type, types) ==
    LET class == ClassName(o, type)
    IN  FindIf(o, LAMBDA e : IsConstructorWithName(
            e.demangled, class \o <<"::">> \o Unscoped(class), TypeNames(o, types)))

MsvcDestructor(o, type) ==
    LET class == ClassName(o, type)
    IN  FindIf(o, LAMBDA e : IsDestructorWithName(e.demangled,
            class \o <<"::", "~">> \o Unscoped(class) \o <<"(", "void", ")">>))

MsvcVtable(o, type) ==
    FindIf(o, LAMBDA e :
        e.demangled = <<"const ">> \o ClassName(o, type) \o <<"::`vftable'">>)

-----------------------------------------------------------------------------
(* Mutant: load() adds to what is there.                                   *)
LoadAdds(o, library) ==
    /\ storage_' = [storage_ EXCEPT ![o] = AddSymbols(storage_[o], library)]
    /\ shown' = [shown EXCEPT ![o] = library]
    /\ added' = {}
    /\ UNCHANGED <<abi, aliases_>>

Load(o, library) ==
    /\ storage_' = [storage_ EXCEPT ![o] = AddSymbols(<<>>, library)]
    /\ shown' = [shown EXCEPT ![o] = library]
    /\ added' = {}
    /\ UNCHANGED <<abi, aliases_>>

(* library_info throws: the storage is empty by then. *)
LoadThrows(o) ==
    /\ storage_' = [storage_ EXCEPT ![o] = <<>>]
    /\ shown' = [shown EXCEPT ![o] = <<>>]
    /\ added' = {}
    /\ UNCHANGED <<abi, aliases_>>

(* emplace(): a type that has an alias keeps it. *)
AddAlias(o, a) ==
    /\ aliases_' = [aliases_ EXCEPT ![o] =
           IF a.type \in DOMAIN @ THEN @
           ELSE [t \in DOMAIN @ \cup {a.type} |-> IF t = a.type THEN a.name ELSE @[t]]]
    /\ added' = {[storage |-> o, alias |-> a]}
    /\ UNCHANGED <<abi, storage_, shown>>

Clear(o) ==
    /\ storage_' = [storage_ EXCEPT ![o] = <<>>]
    /\ aliases_' = [aliases_ EXCEPT ![o] = <<>>]
    /\ shown' = [shown EXCEPT ![o] = <<>>]
    /\ added' = {}
    /\ UNCHANGED abi

(* The copy constructor and assign(). *)
Assign(o, p) ==
    /\ storage_' = [storage_ EXCEPT ![o] = storage_[p]]
    /\ aliases_' = [aliases_ EXCEPT ![o] = aliases_[p]]
    /\ shown' = [shown EXCEPT ![o] = shown[p]]
    /\ added' = {}
    /\ UNCHANGED abi

Swap(o, p) ==
    /\ storage_' = [storage_ EXCEPT ![o] = storage_[p], ![p] = storage_[o]]
    /\ aliases_' = [aliases_ EXCEPT ![o] = aliases_[p], ![p] = aliases_[o]]
    /\ shown' = [shown EXCEPT ![o] = shown[p], ![p] = shown[o]]
    /\ added' = {}
    /\ UNCHANGED abi

StorageNext ==
    \E o \in Storages :
        \/ \E library \in Libraries[abi] : Load(o, library)
        \/ LoadThrows(o)
        \/ \E a \in Aliases : AddAlias(o, a)
        \/ Clear(o)
        \/ \E p \in Storages : Assign(o, p) \/ Swap(o, p)

StorageSpec == StorageInit /\ [][StorageNext]_storageVars

-----------------------------------------------------------------------------
(* What a look-up asks for, by what the entities are rather than by how    *)
(* their names are spelled.                                                *)
Answer(o, q) ==
    CASE q.op = "variable" -> GetVariable(o, q.name)
      [] q.op = "function" -> GetFunction(o, q.name, q.args)
      [] q.op = "member"   -> GetMemFn(o, q.type, q.name, q.args, q.quals)
      [] q.op = "ctor"     -> GetConstructor(o, q.type, q.args)[q.variant]
      [] q.op = "dtor"     -> GetDestructor(o, q.type)[q.variant]
      [] q.op = "typeinfo" -> GetTypeInfo(o, q.type)

MsvcAnswer(o, q) ==
    CASE q.op = "variable" -> MsvcVariable(o, q.name, q.result)
      [] q.op = "function" -> MsvcFunction(o, q.name, q.result, q.args)
      [] q.op = "member"   -> MsvcMemFn(o, q.type, q.name, q.result, q.args, q.quals)
      [] q.op = "ctor"     -> MsvcConstructor(o, q.type, q.args)
      [] q.op = "dtor"     -> MsvcDestructor(o, q.type)
      [] q.op = "vtable"   -> MsvcVtable(o, q.type)

(* mangled_import_type::make: the member functions that a sequence of      *)
(* types asks for, one look-up each.                                       *)
Member(class, func) ==
    [op |-> "member", type |-> class.type, name |-> func.name, args |-> func.args,
     quals |-> class.quals, result |-> func.result]
Lookup(o, q) == IF abi = "msvc" THEN MsvcAnswer(o, q) ELSE Answer(o, q)
ImportMemFns(o, seq) ==
    [k \in DOMAIN MakeMemFnSeq(seq) |->
        Lookup(o, Member(MakeMemFnSeq(seq)[k].class, MakeMemFnSeq(seq)[k].func))]

Asked(o, q, e) ==
    CASE q.op = "variable" -> e.kind \in {"variable", "c"} /\ Scoped(e) = q.name
      [] q.op = "function" -> /\ e.kind \in {"function", "member"} /\ e.quals = <<>>
                              /\ Scoped(e) = q.name /\ e.args = ArgList(o, q.args)
      [] q.op = "member"   -> /\ e.kind \in {"member", "instance"}
                              /\ e.class = GetName(o, q.type) /\ e.name = q.name
                              /\ e.args = ArgList(o, q.args) /\ e.quals = q.quals
      [] q.op = "ctor"     -> /\ e.kind = "ctor" /\ e.variant = q.variant
                              /\ e.class = GetName(o, q.type) /\ e.args = ArgList(o, q.args)
      [] q.op = "dtor"     -> /\ e.kind = "dtor" /\ e.variant = q.variant
                              /\ e.class = GetName(o, q.type)
      [] q.op = "typeinfo" -> e.kind = "typeinfo" /\ e.class = GetName(o, q.type)

SameType(t, want) == t.name = Trimmed(want.name) /\ t.rule = want.rule
SameArgs(o, e, q) ==
    /\ Len(e.args) = Len(q.args)
    /\ \A k \in DOMAIN e.args : SameType(e.args[k], TypeName(o, q.args[k]))

MsvcAsked(o, q, e) ==
    CASE q.op = "variable" -> /\ e.kind \in {"variable", "static data"}
                              /\ (IF e.class = <<>> THEN e.name
                                  ELSE e.class \o <<"::">> \o e.name) = q.name
                              /\ SameType(e.type, TypeName(o, q.result))
      [] q.op = "function" -> /\ e.kind \in {"function", "static"}
                              /\ (IF e.class = <<>> THEN e.name
                                  ELSE e.class \o <<"::">> \o e.name) = q.name
                              /\ SameType(e.type, TypeName(o, q.result)) /\ SameArgs(o, e, q)
      [] q.op = "member"   -> /\ e.kind = "member" /\ e.name = q.name /\ e.quals = q.quals
                              /\ e.class = ClassName(o, q.type)
                              /\ SameType(e.type, TypeName(o, q.result)) /\ SameArgs(o, e, q)
      [] q.op = "ctor"     -> /\ e.kind = "ctor" /\ e.class = ClassName(o, q.type)
                              /\ SameArgs(o, e, q)
      [] q.op \in {"dtor", "vtable"} -> e.kind = q.op /\ e.class = ClassName(o, q.type)

StorageTypeOK ==
    /\ shown \in [Storages -> Libraries[abi] \cup {<<>>}]
    /\ \A o \in Storages :
           /\ storage_[o] = AddSymbols(<<>>, shown[o])
           /\ \A t \in DOMAIN aliases_[o] :
                  [type |-> t, name |-> aliases_[o][t]] \in Aliases

(* A look-up finds a symbol of the library that was loaded last if there   *)
(* is one that it asks for, and no other: whatever nested classes, const   *)
(* overloads, instances of templates or variants there are.  Of names of   *)
(* MSVC the types of results and variables, static members, virtual        *)
(* functions, 32 and 64 bit libraries are told apart as well ("When        *)
(* mangled, MSVC will also check the return type", smart_library.hpp).     *)
FindsWhatIsAsked ==
    \A o \in Storages : \A q \in Queries[abi] :
        LET asked(e)   == IF abi = "itanium" THEN Asked(o, q, e) ELSE MsvcAsked(o, q, e)
            candidates == {e \in ToSet(shown[o]) : asked(e)}
        IN  IF candidates = {} THEN Lookup(o, q) = Nothing ELSE Lookup(o, q) \in candidates

(* "All following signatures after the redefinition will use this, i.e.    *)
(* the latest" (import_mangled.hpp): of a sequence of types that           *)
(* import_mangled accepts, the k-th function is looked up in the version   *)
(* of the class that precedes it most closely.                             *)
OverloadsHaveTheirClass ==
    \A o \in Storages : \A seq \in Overloads[abi] :
        LET members == ImportMemFns(o, seq)
            nth(k)  == Cardinality({j \in 1 .. k : IsFunction(seq[j])})
            of(k)   == CHOOSE j \in 1 .. k : IsObject(seq[j])
                                           /\ \A i \in j + 1 .. k : IsFunction(seq[i])
        IN  /\ IsMemFnSeq(seq)
            /\ \A k \in DOMAIN seq : IsObject(seq[k]) => IsFunction(seq[k + 1])
            => /\ DOMAIN members = 1 .. nth(Len(seq))
               /\ \A k \in DOMAIN seq : IsFunction(seq[k]) =>
                     members[nth(k)] = Lookup(o, Member(seq[of(k)], seq[k]))

(* What holds of the tables, whatever was loaded, assigned and swapped.    *)
StorageInv == StorageTypeOK /\ OverloadsHaveTheirClass

(* "when using MyAlias, the library will look for MyClass" (add_type_alias *)
(* of smart_library.hpp).                                                  *)
AliasIsUsed ==
    \A r \in added : GetName(r.storage, r.alias.type) = r.alias.name
-----------------------------------------------------------------------------
(* Names of the Itanium ABI that say what they are names of.  The tokens a *)
(* demangler puts between the parts of a name are no parts themselves.     *)
Separators == {"(", ")", ", ", " ", "~", "typeinfo for"}
AreWords(words) ==
    /\ {"::", "void"} \subseteq words /\ words \cap Separators = {}
    /\ \A w \in DOMAIN ClassTemplate : ClassTemplate[w] \in words \ {"::"}
ClassNames ==
    {a.name : a \in Aliases} \cup UNION {{Pretty("itanium", q.type)}
        \cup {Pretty("itanium", q.args[k].type) : k \in DOMAIN q.args} :
            q \in Queries["itanium"]}

(* There are no thunks, and a function outside of classes is not in one    *)
(* that is asked for.                                                      *)
EntitySpelled(words, e) ==
    /\ e.kind \in {"function", "member", "instance", "variable", "ctor", "dtor",
                   "typeinfo", "c"}
    /\ e.class \in Seq(words) /\ e.name \in words \ {"::"} /\ e.quals \in Seq(words)
    /\ e.args \in Seq(Seq(words) \ {<<>>})
    /\ e.kind = "function" => e.class \notin ClassNames
    /\ e.kind = "c" => e.class = <<>>
EntitiesSpelled(words) ==
    \A library \in Libraries["itanium"] :
        /\ library \in Seq(ToSet(library))
        /\ \A e \in ToSet(library) : EntitySpelled(words, e)

(* A function that is asked for has not the name of its class, and no      *)
(* constructors of instances of class templates are asked for.             *)
NoInstance(type) ==
    /\ ~IsInstance(Pretty("itanium", type))
    /\ \A a \in Aliases : a.type = type => ~IsInstance(a.name)
QuerySpelled(words, q) ==
    /\ q.op \in {"variable", "function", "member", "ctor", "dtor", "typeinfo"}
    /\ q.args \in Seq({q.args[k] : k \in DOMAIN q.args})
    /\ \A k \in DOMAIN q.args : q.args[k].rule \in Seq(words)
    /\ q.quals \in Seq(words)
    /\ q.op \in {"variable", "function"} => q.name \in Seq(words)
    /\ q.op = "function" => \A library \in Libraries["itanium"] :
          \A e \in ToSet(library) : e.kind = "ctor" =>
              q.name # e.class \o <<"::">> \o SourceName(e.class)
    /\ q.op = "member" => /\ q.name \in words \ {"::"}
                          /\ \A class \in ClassNames : SourceName(class) # <<q.name>>
    /\ q.op = "ctor" => q.variant \in {"C1", "C2", "C3"}
    /\ q.op = "dtor" => q.variant \in {"D0", "D1", "D2"}
    /\ q.op \in {"ctor", "dtor"} => NoInstance(q.type)
QueriesSpelled(words) ==
    /\ ClassNames \subseteq Seq(words) \ {<<>>}
    /\ \A q \in Queries["itanium"] : QuerySpelled(words, q)
=============================================================================
