---------------------------- MODULE MCAnalysis ----------------------------
(***************************************************************************)
(* Small projects: a struct A with up to two fields, a struct B with up to *)
(* one, a struct C without fields or an enum C, in one file or in two, B   *)
(* first or last.                                                          *)
(***************************************************************************)
EXTENDS Analysis

MCTypeNames == {"A", "B", "C"}
MCWords == {"", "x", "y", "-", "omitempty", "string"}

Comment(json, quoted, options) == [json |-> json, quoted |-> quoted, options |-> options]

TagComments ==
    { <<>>,
      <<Comment(FALSE, FALSE, <<>>)>>,
      <<Comment(FALSE, FALSE, <<>>), Comment(TRUE, TRUE, <<"y">>), Comment(TRUE, FALSE, <<>>)>>,
      <<Comment(TRUE, TRUE, <<"-">>)>>,
      <<Comment(TRUE, TRUE, <<"", "omitempty">>)>>,
      <<Comment(TRUE, TRUE, <<"", "">>)>>,
      <<Comment(TRUE, TRUE, <<"x", "string">>)>> }

Named(name) == [kind |-> "named", name |-> name]
ScalarType == [kind |-> "scalar", name |-> ""]

\* std::map<int, B>
UnsupportedType == [kind |-> "unsupported", name |-> "B"]

\* The tags of a second field: absent, renaming, ignoring and with an option.
SecondTags ==
    {tags \in TagComments : tags = <<>> \/ Len(tags) = 3
                            \/ tags[1].options \in {<<"-">>, <<"", "omitempty">>}}

FieldsNamed(name, tags) ==
    {[name |-> name, comments |-> comments, type |-> type] :
        comments \in tags,
        type \in {ScalarType, Named("B"), Named("C"), UnsupportedType}}

Plain(name, type) == [name |-> name, comments |-> <<>>, type |-> type]

FieldsOfA ==
    {<<>>} \cup {<<x>> : x \in FieldsNamed("x", TagComments)}
    \cup (FieldsNamed("x", TagComments) \X FieldsNamed("y", SecondTags))

FieldsOfB ==
    {<<>>, <<Plain("x", ScalarType)>>, <<Plain("x", Named("A"))>>, <<Plain("x", Named("B"))>>}

Struct(name, members) == [name |-> name, fields |-> members]
File(declarations, enumNames) == [declarations |-> declarations, enums |-> enumNames]

Projects ==
    {<<>>}
    \cup {<<File(<<Struct("A", a), Struct("B", b), Struct("C", <<>>)>>, <<>>)>> :
             a \in FieldsOfA, b \in FieldsOfB}
    \cup {<<File(<<Struct("B", b)>>, <<>>), File(<<Struct("A", a)>>, <<"C">>)>> :
             a \in FieldsOfA, b \in FieldsOfB}
    \cup {<<File(<<Struct("A", a)>>, <<>>), File(<<Struct("B", b), Struct("A", <<Plain("x", Named("C"))>>)>>, <<"C">>)>> :
             a \in {<<>>} \cup {<<x>> : x \in FieldsNamed("x", TagComments)}, b \in FieldsOfB}

\* The inputs: at most MaxFiles headers at a time.
MaxFiles == 2
MCInputs == {project \in Projects : Len(project) <= MaxFiles}
=============================================================================
