-------------------------- MODULE MCObjectDecode --------------------------
(***************************************************************************)
(* Three models nested in one another and a bounded set of texts for them. *)
(* Integers are scaled down: int64 is -4..3, uint64 is 0..7, the narrow    *)
(* signed field is -2..1 and the narrow unsigned field 0..2, so that every *)
(* relation between a JSON integer, the 64-bit type it is first read as    *)
(* and the field's own type occurs.                                        *)
(***************************************************************************)
EXTENDS ObjectDecode, FiniteSets, SequencesExt

MCInt64Min == -4
MCInt64Max == 3
MCUInt64Max == 7

MCKeys == {"id", "opt", "child", "tag", "flag", "leaf", "n", "s", "other"}
MCModels == {"Root", "Child", "Leaf"}

LOCAL Plain(key, kind) ==
    [key |-> key, kind |-> kind, ignored |-> FALSE, min |-> 0, max |-> 0, model |-> "Leaf"]

MCFields ==
    [Root |-> << [Plain("id", "signed") EXCEPT !.min = -2, !.max = 1],
                 Plain("opt", "optional"),
                 [Plain("tag", "string") EXCEPT !.ignored = TRUE],
                 [Plain("child", "object") EXCEPT !.model = "Child"] >>,
     Child |-> << Plain("flag", "bool"), Plain("opt", "optional"), Plain("leaf", "object") >>,
     Leaf |-> << [Plain("n", "unsigned") EXCEPT !.max = 2], Plain("s", "string") >>]

-----------------------------------------------------------------------------
(* Trees of JSON objects, easier to enumerate than texts.  A member's tree *)
(* is <<>> unless its value is an object that a decoder opens.             *)

Leafless(key, kind, v) == [key |-> key, kind |-> kind, v |-> v, tree |-> <<>>]
Sub(key, tree) == [key |-> key, kind |-> "object", v |-> 0, tree |-> tree]
Tree(members, closed) == [members |-> members, closed |-> closed]

\* The objects of a tree whose own number is n, in document order: the members
\* are read from the left, `own` collecting those of the tree's root and
\* `inner` the objects opened inside them by Open.
FlattenWith(Open(_, _, _, _), tree, model, at, n) ==
    LET Read(acc, m) ==
            IF m.tree = <<>>
            THEN [acc EXCEPT !.own = Append(@, [key |-> m.key, value |-> [kind |-> m.kind, v |-> m.v]])]
            ELSE LET number == n + 1 + Len(acc.inner)
                 IN  [own |-> Append(acc.own,
                                 [key |-> m.key, value |-> [kind |-> "object", v |-> number]]),
                      inner |-> acc.inner
                          \o Open(m.tree, FieldFor(model, m.key).model, Append(at, m.key), number)]
        read == FoldLeft(Read, [own |-> <<>>, inner |-> <<>>], tree.members)
    IN  << [model |-> model, at |-> at, closed |-> tree.closed, members |-> read.own] >>
            \o read.inner

\* Three levels of nesting are enough for these models.
FlattenNone(tree, model, at, n) == <<>>
FlattenLeaf(tree, model, at, n) == FlattenWith(FlattenNone, tree, model, at, n)
FlattenChild(tree, model, at, n) == FlattenWith(FlattenLeaf, tree, model, at, n)
Flatten(tree, model, at, n) == FlattenWith(FlattenChild, tree, model, at, n)

UpTo(S, n) == UNION {[1 .. k -> S] : k \in 0 .. n}

\* Objects of up to n members, and of up to n - 1 when the text breaks off.
TreesOf(members, n) ==
    {Tree(s, TRUE) : s \in UpTo(members, n)} \cup {Tree(s, FALSE) : s \in UpTo(members, n - 1)}

LeafMembers ==
    {Leafless("n", "integer", v) : v \in {-1, 2, 3, 8}}
        \cup {Leafless("n", "fraction", 0), Leafless("s", "string", 0),
              Leafless("s", "string", 1), Leafless("s", "null", 0), Leafless("other", "null", 0)}

GoodLeaf == Tree(<<Leafless("s", "string", 0), Leafless("n", "integer", 2)>>, TRUE)
ShortLeaf == Tree(<<Leafless("n", "integer", 1)>>, TRUE)
BrokenLeaf == Tree(<<Leafless("n", "integer", 0)>>, FALSE)
WideLeaf == Tree(<<Leafless("n", "integer", 3)>>, TRUE)

ChildMembers ==
    {Leafless("flag", "bool", 0), Leafless("flag", "bool", 1), Leafless("flag", "string", 0),
     Leafless("opt", "null", 0), Leafless("opt", "integer", 3), Leafless("opt", "integer", 4),
     Leafless("leaf", "string", 0)}
        \cup {Sub("leaf", leaf) : leaf \in {GoodLeaf, ShortLeaf, BrokenLeaf, WideLeaf}}

Flag == Leafless("flag", "bool", 1)

RootMembers ==
    {Leafless("id", "integer", v) : v \in {-5, -2, 2}}
        \cup {Leafless("tag", "null", 0), Leafless("opt", "integer", 1), Leafless("child", "null", 0)}
        \cup {Sub("child", Tree(s, TRUE)) : s \in
                 { <<Flag, Sub("leaf", GoodLeaf)>>,
                   <<Sub("leaf", GoodLeaf), Leafless("opt", "integer", 2), Flag>>,
                   <<Sub("leaf", GoodLeaf)>>,
                   <<Flag, Sub("leaf", ShortLeaf)>>,
                   <<Flag, Sub("leaf", BrokenLeaf)>> }}

Text(target, tree, trailing) ==
    [target |-> target, parses |-> TRUE, root |-> "object", trailing |-> trailing,
     objects |-> Flatten(tree, target, <<>>, 1)]

Refused(target, parses, root) ==
    [target |-> target, parses |-> parses, root |-> root, trailing |-> FALSE, objects |-> <<>>]

Candidates ==
    {Text("Leaf", t, trailing) : t \in TreesOf(LeafMembers, 2), trailing \in BOOLEAN}
        \cup {Text("Child", t, FALSE) : t \in TreesOf(ChildMembers, 3)}
        \cup {Text("Root", t, FALSE) : t \in TreesOf(RootMembers, 3)}
        \cup {Refused("Root", FALSE, "other"), Refused("Root", TRUE, "other"),
              Refused("Root", TRUE, "broken")}

\* At most two nested objects under the root, each with one of its own.
MaxObjects == 5

MCTexts == {t \in Candidates : Len(t.objects) <= MaxObjects}

MCEarlierErrors ==
    {NoError, [code |-> "expected_integer", path |-> <<"child", "opt">>, runtime |-> TRUE]}
=============================================================================
