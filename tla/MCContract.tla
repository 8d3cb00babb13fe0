---------------------------- MODULE MCContract ----------------------------
(***************************************************************************)
(* Projects of two structs of one or two fields.  Fields have the name x   *)
(* or names made to look like the descriptors of x; types are nested up to *)
(* three deep; namespaces are chosen so that two of them join to one name. *)
(***************************************************************************)
EXTENDS ContractGenerator

Plain == [arguments |-> <<>>, values |-> FALSE]
Status == [arguments |-> <<>>, values |-> TRUE]
Of(types) == [arguments |-> types, values |-> FALSE]

FieldTypes ==
    {Plain, Status, Of(<<Status>>), Of(<<Plain, Status>>),
     Of(<<Plain, Of(<<Of(<<Plain, Plain>>)>>)>>)}

\* With the arguments of the deepest one.
MCTypes == FieldTypes \cup {Of(<<Of(<<Plain, Plain>>)>>), Of(<<Plain, Plain>>)}

MCParts == {"a", "b", "_", "C", "x", "_type", "_arg0"}

FieldNames == {<<"x">>, <<"x", "_type">>, <<"x", "_type", "_arg0">>}

FieldOf(name, type, ignored) == [name |-> name, type |-> type, ignored |-> ignored]

FieldLists ==
    {<<FieldOf(<<"x">>, type, FALSE)>> : type \in FieldTypes}
        \cup UNION {{<<FieldOf(a, s, FALSE), FieldOf(b, t, ignored)>> :
                        s \in FieldTypes, t \in {Plain, Of(<<Status>>), Of(<<Plain, Status>>)},
                        ignored \in BOOLEAN} :
                    <<a, b>> \in {p \in FieldNames \X FieldNames : p[1] # p[2]}}

Struct(path, fields) == [path |-> path, name |-> <<"C">>, fields |-> fields]

\* Paths of a first struct, C of a::b, and of a second one.
Paths == {<<>>, <<<<"a">>>>, <<<<"a", "_", "b">>>>, <<<<"b">>, <<"a">>>>}

MCProjects ==
    {<<Struct(<<<<"a">>, <<"b">>>>, fields)>> : fields \in FieldLists}
        \cup {<<Struct(<<<<"a">>, <<"b">>>>, <<FieldOf(<<"x">>, s, FALSE)>>),
                Struct(path, <<FieldOf(<<"x">>, t, FALSE)>>)>> :
                    s \in FieldTypes, t \in FieldTypes, path \in Paths}
=============================================================================
