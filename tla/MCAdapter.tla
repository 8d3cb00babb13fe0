----------------------------- MODULE MCAdapter -----------------------------
(***************************************************************************)
(* Headers around one struct with a varied body: at the top, in nested     *)
(* namespaces next to an enum, an alias and a second struct, inside a      *)
(* class, and in a nameless struct; and headers no tree is built for.      *)
(***************************************************************************)
EXTENDS Adapter

MCNames == {"a", "b", "S", "T", "E", "x", "y"}

Part(kind, declared, static, function, json) ==
    [kind |-> kind, declared |-> declared, static |-> static, function |-> function,
     json |-> json, place |-> "below"]

Direct(name) == [name |-> name, direct |-> TRUE]
Behind(name) == [name |-> name, direct |-> FALSE]

Plain(declared) == Part("field", declared, FALSE, FALSE, FALSE)

Items(name) ==
    { Plain(<<Direct(name)>>),                        \* int x;
      Plain(<<Behind(name)>>),                        \* int *x;
      Plain(<<Direct(name), Direct("y")>>),           \* int x, y;
      Plain(<<Behind("y"), Direct(name)>>),           \* int *y, x;
      Plain(<<>>),                                    \* struct T { ... };
      Part("field", <<Direct(name)>>, TRUE, FALSE, FALSE),   \* static int x;
      Part("field", <<>>, FALSE, TRUE, FALSE),               \* void x();
      Part("declaration", <<>>, FALSE, FALSE, FALSE),
      Part("preproc", <<>>, FALSE, FALSE, TRUE),
      Part("preproc", <<>>, FALSE, FALSE, FALSE),
      Part("other", <<>>, FALSE, FALSE, FALSE) }

Comments ==
    {[Part("comment", <<>>, FALSE, FALSE, json) EXCEPT !.place = place] :
        json \in BOOLEAN, place \in {"spaced", "adjoining", "below"}}

MaybeComment == {<<>>} \cup {<<c>> : c \in Comments}

JsonComments == {c \in Comments : c.json}
TrailingTags == {c \in JsonComments : c.place = "spaced"}

Bodies ==
    {<<>>} \cup {c \o <<item>> \o d : c \in MaybeComment, item \in Items("x"), d \in MaybeComment}
    \cup {<<first>> \o c \o <<second>> \o d :
             first \in Items("x"), c \in {<<>>} \cup {<<e>> : e \in JsonComments},
             second \in Items("y"), d \in {<<>>} \cup {<<e>> : e \in TrailingTags}}

Syntax(kind, name, parts, children, members) ==
    [kind |-> kind, name |-> name, parts |-> parts, children |-> children, members |-> members]

Inner(kind, parts, children) == Syntax(kind, "", parts, children, <<>>)
Leaf(kind, name, members) == Syntax(kind, name, <<>>, <<>>, members)

TopLevel(body) == <<Inner("other", <<>>, <<2>>), Leaf("struct", "S", body)>>

Nested(body) ==
    << Inner("other", <<>>, <<2, 7>>),
       Inner("namespace", <<"a", "b">>, <<3, 6>>),
       Inner("namespace", <<"a">>, <<4, 5>>),
       Leaf("struct", "S", body),
       Leaf("enum", "E", <<>>),
       Leaf("alias", "T", <<>>),
       Inner("namespace", <<"b">>, <<8, 9>>),
       Leaf("struct", "T", <<Plain(<<Direct("x")>>)>>),
       Leaf("enum", "", <<>>) >>

InClass(body) ==
    << Inner("other", <<>>, <<2, 4, 6>>),
       Inner("other", <<>>, <<3>>), Leaf("struct", "S", body),
       Inner("namespace", <<>>, <<5>>), Leaf("struct", "", body),
       Leaf("alias", "E", <<>>) >>

Header(nodes) ==
    [readable |-> TRUE, engine |-> "ready", malformed |-> FALSE, nodes |-> nodes]

Short(body) == Len(body) <= 3

Candidates ==
    {Header(TopLevel(body)) : body \in Bodies}
    \cup {Header(Nested(body)) : body \in {b \in Bodies : Short(b)}}
    \cup {Header(InClass(body)) : body \in {b \in Bodies : Short(b)}}
    \cup {[Header(TopLevel(<<>>)) EXCEPT !.readable = r, !.engine = e, !.malformed = f] :
             r \in BOOLEAN, e \in {"ready", "no_parser", "no_language", "no_tree"},
             f \in BOOLEAN}

\* The inputs: headers of at most MaxNodes nodes.
MaxNodes == 9
MCHeaders == {header_ \in Candidates : Len(header_.nodes) <= MaxNodes}
=============================================================================
