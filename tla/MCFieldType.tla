---------------------------- MODULE MCFieldType ----------------------------
(***************************************************************************)
(* Small symbol tables for FieldType: one enum, two generated types, three *)
(* alias names in two scopes with every choice of targets, and fields in   *)
(* three nested namespaces.                                                *)
(***************************************************************************)
EXTENDS FieldType, FiniteSets, Functions, Relation

Name(path) == Spelling("name", path, FALSE, <<>>, TRUE, FALSE)
Global(path) == Spelling("name", path, TRUE, <<>>, TRUE, FALSE)
Scalar(kind) == Spelling(kind, <<>>, FALSE, <<>>, TRUE, FALSE)
One(form, arg) == Spelling(form, <<>>, FALSE, <<arg>>, TRUE, arg.commas)
MapOf(key, val) == Spelling("map", <<>>, FALSE, <<key, val>>, TRUE, TRUE)
ArrayOf(arg, extentOk) == Spelling("array", <<>>, FALSE, <<arg>>, extentOk, TRUE)

X == Name(<<"X">>)
Y == Name(<<"Y">>)
String == Scalar("string")

AliasNames == {<<"X">>, <<"a", "X">>, <<"a", "Y">>}

AliasTargets ==
    {String, Scalar("signed"), Name(<<"T">>), X, Global(<<"X">>), Y, One("vector", X),
     MapOf(String, Global(<<"X">>))}

AliasTables == UNION {[names -> AliasTargets] : names \in SUBSET AliasNames}

FieldSpellings ==
    {X, Y, Name(<<"a", "Y">>), Name(<<"E">>), Name(<<"a", "E">>), Name(<<"T">>), Global(<<"T">>),
     One("vector", Y), One("optional", Scalar("bool")), MapOf(X, Name(<<"U">>)),
     MapOf(Y, X), ArrayOf(X, TRUE), ArrayOf(X, FALSE),
     ArrayOf(MapOf(String, X), TRUE), MapOf(One("vector", ArrayOf(X, TRUE)), Y)}

\* With their arguments, which are nested up to three deep.
MCSpellings ==
    LET types == FieldSpellings \cup AliasTargets
        all == types \cup Arguments(types) \cup Arguments(Arguments(types))
                     \cup Arguments(Arguments(Arguments(types)))
    IN  {type \in all : TRUE}

Calls ==
    {[ns |-> ns, aliases |-> aliases, enums |-> {<<"a", "E">>},
      types |-> {<<"T">>, <<"a", "T">>}, spelling |-> spelling] :
        ns \in {<<>>, <<"a">>, <<"a", "b">>}, aliases \in AliasTables,
        spelling \in FieldSpellings}

\* What the field and every alias mean is defined: the header compiles.
Compiles(c) ==
    /\ CppMeaning(c, c.spelling, <<>>) # Meaningless
    /\ \A name \in DOMAIN c.aliases : CppMeaning(c, c.aliases[name], name) # Meaningless

-----------------------------------------------------------------------------
(* How aliases lead to one another under the lookup of the code. *)

NamesOf(spelling) ==
    IF spelling.form = "name" THEN {spelling.path}
    ELSE {spelling.args[k].path : k \in {j \in DOMAIN spelling.args : spelling.args[j].form = "name"}}

Leads(c) ==
    {<<p, q>> \in (DOMAIN c.aliases) \X (DOMAIN c.aliases) :
        \E path \in NamesOf(c.aliases[p]) :
            q = IF c.ns \o path \in DOMAIN c.aliases THEN c.ns \o path ELSE path}

\* No container alias leads back to itself: the recursion is finite.
Grounded(c) ==
    LET closure == TransitiveClosure([pq \in (DOMAIN c.aliases) \X (DOMAIN c.aliases) |-> pq \in Leads(c)], DOMAIN c.aliases)
    IN  \A p \in DOMAIN c.aliases :
           c.aliases[p].form \in Containers => ~closure[p, p]

GroundedCalls == {c \in Calls : Grounded(c)}
CompilingCalls == {c \in Calls : Compiles(c)}
=============================================================================
