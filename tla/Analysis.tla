------------------------------ MODULE Analysis ------------------------------
(***************************************************************************)
(* analyze_source_files of semantic/analysis.cpp: from the syntax of a set *)
(* of headers to the project model, or to diagnostics and no model.        *)
(*                                                                         *)
(* The loops over files, declarations and fields become a state machine,   *)
(* one action for each way a field can be handled; the ordering of the     *)
(* types at the end is the module TypeOrder, run on this module's types.   *)
(*                                                                         *)
(* Names are qualified.  Analysing the type of a field (module FieldType)  *)
(* is taken at its result: a scalar is supported, a named type is when     *)
(* its name is a declared struct or enum, an "unsupported" type never is.  *)
(***************************************************************************)
EXTENDS Integers, Sequences

CONSTANTS
    TypeNames,   \* qualified names of structs and enums
    Words,       \* names of fields and parts of tags
    Inputs       \* the parsed files analyze_source_files may be called with

NoName == ""

ASSUME WordsAssumption == NoName \in Words

\* The name of a named type, or of a type that an unsupported one has among its
\* arguments, as std::map<int, B>; a scalar has none.
Fields ==
    [name : Words,
     type : [kind : {"scalar", "named", "unsupported"}, name : TypeNames \cup {NoName}],
     comments : Seq([json : BOOLEAN, quoted : BOOLEAN, options : Seq(Words)])]
Declarations == [name : TypeNames, fields : Seq(Fields)]
Files == [declarations : Seq(Declarations), enums : Seq(TypeNames)]

ASSUME InputsAssumption == Inputs \subseteq Seq(Files)

VARIABLES
    files,      \* the parameter: a sequence of [declarations, enums]
    k,          \* the file merged next
    merged,     \* the one file that is analysed
    d, f,       \* the declaration and the field of the two loops
    jsonNames,  \* json_names of the current declaration
    fields,     \* type.fields of the current declaration
    types,      \* result.project.types
    enums,      \* result.project.enums
    diags,      \* result.diagnostics, by kind
    success,    \* result.success
    pc,         \* "merge", "fields", "order" or "done"
    \* the locals of order_types_by_dependency
    ordered, orderedNames, i, progress, sweep

sweepVars == <<ordered, orderedNames, i, progress, sweep>>

vars == <<files, k, merged, d, f, jsonNames, fields, types, enums, diags, success, pc,
          ordered, orderedNames, i, progress, sweep>>

FieldModels ==
    [name : Words, json : Words, ignored : BOOLEAN, omitEmpty : BOOLEAN,
     uses : SUBSET TypeNames]
TypeModels == [name : TypeNames, fields : Seq(FieldModels), uses : SUBSET TypeNames]

Order == INSTANCE TypeOrder WITH Inputs <- Seq(TypeModels), pc <- sweep

Diagnostics == {"metadata", "duplicate_json_name", "type", "cyclic_dependency"}

-----------------------------------------------------------------------------
(* parse_json_field_metadata.  A comment is [json, quoted, options]: it has *)
(* the prefix json:, a quoted body, and the parts of the body between the  *)
(* commas (none when the body is empty).                                   *)

NoTag == [found |-> FALSE, valid |-> TRUE, name |-> NoName, ignored |-> FALSE, omitEmpty |-> FALSE]

Later(options) == {options[n] : n \in 2 .. Len(options)}

Parse(comment) ==
    LET options == comment.options
        omits == "omitempty" \in Later(options)
        valid == /\ comment.quoted
                 /\ options # <<>>
                 /\ Later(options) \subseteq {"omitempty", NoName}
                 /\ options[1] = NoName => omits
    IN  IF valid
        THEN [found |-> TRUE, valid |-> TRUE, name |-> options[1],
              ignored |-> options[1] = "-", omitEmpty |-> omits]
        ELSE [NoTag EXCEPT !.found = TRUE, !.valid = FALSE]

JsonComments(field) == {n \in DOMAIN field.comments : field.comments[n].json}

\* The first comment with the prefix decides; later ones are not looked at.
Tag(field) ==
    IF JsonComments(field) = {} THEN NoTag
    ELSE Parse(field.comments[CHOOSE n \in JsonComments(field) :
                                 \A m \in JsonComments(field) : n <= m])

\* field_json_name: a missing or empty name is the name of the field.
JsonName(field) == IF Tag(field).name = NoName THEN field.name ELSE Tag(field).name

-----------------------------------------------------------------------------

\* collect_type_symbols: every declaration counts, with or without fields.
GeneratedTypes == {merged.declarations[n].name : n \in DOMAIN merged.declarations}
EnumNames == {merged.enums[n] : n \in DOMAIN merged.enums}

Supported(type) ==
    type.kind = "scalar" \/ (type.kind = "named" /\ type.name \in GeneratedTypes \cup EnumNames)

\* The generated types a resolved field type depends on.  Of a type that is not
\* supported the arguments are kept.
Uses(type) ==
    IF type.kind # "scalar" /\ type.name \in GeneratedTypes \ EnumNames THEN {type.name} ELSE {}

FieldModel(field) ==
    [name |-> field.name, json |-> IF Tag(field).ignored THEN NoName ELSE JsonName(field),
     ignored |-> Tag(field).ignored, omitEmpty |-> Tag(field).omitEmpty /\ ~Tag(field).ignored,
     uses |-> Uses(field.type)]

TypeModel(name, members) ==
    [name |-> name, fields |-> members, uses |-> UNION {members[n].uses : n \in DOMAIN members}]

-----------------------------------------------------------------------------

Init ==
    /\ files \in Inputs
    /\ k = 1
    /\ merged = [declarations |-> <<>>, enums |-> <<>>]
    /\ d = 1 /\ f = 1
    /\ jsonNames = {}
    /\ fields = <<>>
    /\ types = <<>> /\ enums = <<>>
    /\ diags = <<>>
    /\ success = TRUE
    /\ pc = "merge"
    /\ ordered = <<>> /\ orderedNames = {} /\ i = 1 /\ progress = FALSE /\ sweep = "check"

\* if (files.empty()) return result;
NoFiles ==
    /\ pc = "merge" /\ files = <<>>
    /\ pc' = "done"
    /\ UNCHANGED <<files, k, merged, d, f, jsonNames, fields, types, enums, diags, success, sweepVars>>

MergeFile ==
    /\ pc = "merge" /\ k <= Len(files)
    /\ merged' = [declarations |-> merged.declarations \o files[k].declarations,
                  enums |-> merged.enums \o files[k].enums]
    /\ k' = k + 1
    /\ UNCHANGED <<files, d, f, jsonNames, fields, types, enums, diags, success, pc, sweepVars>>

\* analyze_source_file(merged): the enums are kept as they are.
BeginAnalysis ==
    /\ pc = "merge" /\ files # <<>> /\ k > Len(files)
    /\ enums' = merged.enums
    /\ pc' = "fields"
    /\ UNCHANGED <<files, k, merged, d, f, jsonNames, fields, types, diags, success, sweepVars>>

(* analyze_field, for the current field. *)

AtDeclaration == pc = "fields" /\ d <= Len(merged.declarations)
Declaration == merged.declarations[d]
AtField == AtDeclaration /\ f <= Len(Declaration.fields)
Field == Declaration.fields[f]

NextField ==
    /\ f' = f + 1
    /\ UNCHANGED <<files, k, merged, d, types, enums, pc, sweepVars>>

Refuse(kind) ==
    /\ success' = FALSE
    /\ diags' = Append(diags, kind)
    /\ UNCHANGED fields

Include ==
    /\ fields' = Append(fields, FieldModel(Field))
    /\ UNCHANGED success

RejectMetadata ==
    /\ AtField
    /\ ~Tag(Field).valid
    /\ Refuse("metadata")
    /\ UNCHANGED jsonNames
    /\ NextField

\* Mutation of IncludeIgnored: an ignored field is no field of its type.
LeaveOutIgnored ==
    /\ AtField
    /\ Tag(Field).valid /\ Tag(Field).ignored
    /\ diags' = IF Supported(Field.type) THEN diags ELSE Append(diags, "type")
    /\ UNCHANGED <<fields, success, jsonNames>>
    /\ NextField

\* An ignored field is included without a JSON name.  Its type is analysed for
\* what it resolves to; that failing leaves a diagnostic but is no failure.
IncludeIgnored ==
    /\ AtField
    /\ Tag(Field).valid /\ Tag(Field).ignored
    /\ Include
    /\ diags' = IF Supported(Field.type) THEN diags ELSE Append(diags, "type")
    /\ UNCHANGED jsonNames
    /\ NextField

Active == AtField /\ Tag(Field).valid /\ ~Tag(Field).ignored

RejectDuplicateName ==
    /\ Active
    /\ JsonName(Field) \in jsonNames
    /\ Refuse("duplicate_json_name")
    /\ UNCHANGED jsonNames
    /\ NextField

\* The JSON name of a field is taken before its type is found unsupported.
RejectType ==
    /\ Active
    /\ JsonName(Field) \notin jsonNames
    /\ ~Supported(Field.type)
    /\ jsonNames' = jsonNames \cup {JsonName(Field)}
    /\ Refuse("type")
    /\ NextField

IncludeField ==
    /\ Active
    /\ JsonName(Field) \notin jsonNames
    /\ Supported(Field.type)
    /\ jsonNames' = jsonNames \cup {JsonName(Field)}
    /\ Include
    /\ UNCHANGED diags
    /\ NextField

\* Mutation of EndDeclaration: JSON names are shared by all structs.
EndDeclarationKeepingNames ==
    /\ AtDeclaration /\ f > Len(Declaration.fields)
    /\ types' = IF fields = <<>> THEN types
                ELSE Append(types, TypeModel(Declaration.name, fields))
    /\ d' = d + 1 /\ f' = 1
    /\ fields' = <<>>
    /\ UNCHANGED <<files, k, merged, jsonNames, enums, diags, success, pc, sweepVars>>

\* Mutation of EndDeclaration: a struct without fields is not passed over.
EndDeclarationWithFields ==
    /\ AtDeclaration /\ f > Len(Declaration.fields)
    /\ types' = IF fields = <<>> THEN types
                ELSE Append(types, TypeModel(Declaration.name, fields))
    /\ d' = IF fields = <<>> THEN d ELSE d + 1
    /\ f' = IF fields = <<>> THEN f ELSE 1
    /\ jsonNames' = {} /\ fields' = <<>>
    /\ UNCHANGED <<files, k, merged, enums, diags, success, pc, sweepVars>>

\* if (!type.fields.empty()) types.push_back(type)
EndDeclaration ==
    /\ AtDeclaration /\ f > Len(Declaration.fields)
    /\ types' = IF fields = <<>> THEN types
                ELSE Append(types, TypeModel(Declaration.name, fields))
    /\ d' = d + 1 /\ f' = 1
    /\ jsonNames' = {} /\ fields' = <<>>
    /\ UNCHANGED <<files, k, merged, enums, diags, success, pc, sweepVars>>

AllAnalysed == pc = "fields" /\ d > Len(merged.declarations)

\* Mutation of ExposeNothing: the enums stay.
ExposeEnums == types' = <<>> /\ pc' = "done" /\ UNCHANGED enums

ExposeNothing == types' = <<>> /\ enums' = <<>> /\ pc' = "done"

FailAnalysis ==
    /\ AllAnalysed
    /\ ~success
    /\ ExposeNothing
    /\ UNCHANGED <<files, k, merged, d, f, jsonNames, fields, diags, success, sweepVars>>

BeginOrder ==
    /\ AllAnalysed
    /\ success
    /\ pc' = "order"
    /\ UNCHANGED <<files, k, merged, d, f, jsonNames, fields, types, enums, diags, success, sweepVars>>

\* A step of order_types_by_dependency(result.project.types).
OrderStep ==
    /\ pc = "order" /\ sweep \in {"check", "scan"}
    /\ Order!Next
    /\ UNCHANGED <<files, k, merged, d, f, jsonNames, fields, enums, diags, success, pc>>

\* Mutation of AcceptOrder: the types keep their source order.
AcceptSourceOrder ==
    /\ pc = "order" /\ sweep = "done"
    /\ pc' = "done"
    /\ UNCHANGED <<files, k, merged, d, f, jsonNames, fields, types, enums, diags, success, sweepVars>>

AcceptOrder ==
    /\ pc = "order" /\ sweep = "done"
    /\ types' = ordered
    /\ pc' = "done"
    /\ UNCHANGED <<files, k, merged, d, f, jsonNames, fields, enums, diags, success, sweepVars>>

FailOrder ==
    /\ pc = "order" /\ sweep = "failed"
    /\ success' = FALSE
    /\ diags' = Append(diags, "cyclic_dependency")
    /\ ExposeNothing
    /\ UNCHANGED <<files, k, merged, d, f, jsonNames, fields, sweepVars>>

Returned == pc = "done" /\ UNCHANGED vars

Next ==
    \/ NoFiles \/ MergeFile \/ BeginAnalysis
    \/ RejectMetadata \/ IncludeIgnored \/ RejectDuplicateName \/ RejectType \/ IncludeField
    \/ EndDeclaration \/ FailAnalysis
    \/ BeginOrder \/ OrderStep \/ AcceptOrder \/ FailOrder
    \/ Returned

\* One thread runs the function and never waits.
Spec == Init /\ [][Next]_vars /\ WF_vars(Next)

-----------------------------------------------------------------------------

\* The state has its types: positions stay in their sequences, and the models
\* built hold declared names only.
TypeOK ==
    /\ files \in Inputs
    /\ k \in 1 .. Len(files) + 1
    /\ merged \in Files
    /\ d \in 1 .. Len(merged.declarations) + 1
    /\ f \in Nat \ {0}
    /\ AtDeclaration => f <= Len(Declaration.fields) + 1
    /\ fields \in Seq(FieldModels)
    /\ types \in Seq(TypeModels)
    /\ enums \in Seq(TypeNames)
    /\ diags \in Seq(Diagnostics)
    /\ success \in BOOLEAN
    /\ pc \in {"merge", "fields", "order", "done"}

-----------------------------------------------------------------------------
(* What the source says, without the order in which the code looks at it.  *)

SourceDeclarations ==
    UNION {{<<n, m>> : m \in DOMAIN files[n].declarations} : n \in DOMAIN files}

At(nm) == files[nm[1]].declarations[nm[2]]

WithFields == {nm \in SourceDeclarations : At(nm).fields # <<>>}

DeclaredStructs == {At(nm).name : nm \in SourceDeclarations}
DeclaredEnums == UNION {{files[n].enums[m] : m \in DOMAIN files[n].enums} : n \in DOMAIN files}

\* The structs that a declaration's fields mention, ignored fields included.
Mentions(declaration) ==
    {declaration.fields[n].type.name :
        n \in {m \in DOMAIN declaration.fields : declaration.fields[m].type.kind # "scalar"}}
      \cap (DeclaredStructs \ DeclaredEnums)

\* A declaration is understood: each tag is well formed, no two fields have one
\* JSON name, and each field that is not ignored has a supported type.
Understood(declaration) ==
    LET own == declaration.fields
        active == {n \in DOMAIN own : ~Tag(own[n]).ignored}
    IN  /\ \A n \in DOMAIN own : Tag(own[n]).valid
        /\ \A n, m \in active : JsonName(own[n]) = JsonName(own[m]) => n = m
        /\ \A n \in active :
              \/ own[n].type.kind = "scalar"
              \/ own[n].type.kind = "named" /\ own[n].type.name \in DeclaredStructs \cup DeclaredEnums

RepeatedName ==
    \E nm, qm \in WithFields : nm # qm /\ At(nm).name = At(qm).name

CircularUse ==
    \E S \in SUBSET {At(nm).name : nm \in WithFields} :
        /\ S # {}
        /\ \A name \in S : \E nm \in WithFields :
              At(nm).name = name /\ (Mentions(At(nm)) \cap S) \ {name} # {}

\* The verdict is a function of what the files declare: neither the order of
\* files, declarations and fields nor an earlier failure changes it, and
\* nothing that is not understood is accepted ("fail closed").
VerdictMatchesSource ==
    pc = "done" =>
        (success <=> /\ \A nm \in SourceDeclarations : Understood(At(nm))
                     /\ ~RepeatedName
                     /\ ~CircularUse)

\* "Do not expose partial Metadata IR when semantic analysis failed": and a
\* failure always has a diagnostic to show.
FailureExposesNothing ==
    pc = "done" /\ ~success => types = <<>> /\ enums = <<>> /\ diags # <<>>

\* "... without silently dropping fields": every struct with fields is a type
\* of the project, with all its fields, in their order.
NothingIsDropped ==
    pc = "done" /\ success =>
        \A nm \in WithFields : \E n \in DOMAIN types :
            /\ types[n].name = At(nm).name
            /\ Len(types[n].fields) = Len(At(nm).fields)
            /\ \A m \in DOMAIN types[n].fields : types[n].fields[m].name = At(nm).fields[m].name

\* The types of the project come in dependency order, through the ordering.
ProjectIsOrdered ==
    pc = "done" =>
        \A n \in DOMAIN types : \A m \in n + 1 .. Len(types) :
            types[m].name \notin types[n].uses

\* The analysis of any set of files ends.
Termination == <>(pc = "done")
=============================================================================
