-------------------------- MODULE SchemaGenerator --------------------------
(***************************************************************************)
(* generate_schema of the schema backend: the JSON Schema of a project,    *)
(* and what the schema says of a document.                                 *)
(*                                                                         *)
(* A project is the sequence of its structs, as the semantic analysis has  *)
(* ordered them.  Texts are left out: a schema is a record of its keywords,*)
(* the $defs a sequence of pairs, since nothing in the code keeps two of   *)
(* them from having one name.                                              *)
(***************************************************************************)
EXTENDS ModelData

\* is_supported_enum_schema_type: the enum of the field has enumerators.
SupportedEnum(type) == type.of \in DOMAIN Enumerators /\ Enumerators[type.of] # <<>>

\* find_type_model
InProject(project, type) == type.of \in Range(project)

\* is_supported_schema_type, for the types of a project, given the same for the
\* types inside.
SupportedType(supported, project, type) ==
    CASE type.kind \in ScalarKinds -> TRUE
      [] type.kind \in {"vector", "array", "optional", "map"} -> supported[Inner(type)]
      [] type.kind = "enum" -> SupportedEnum(type)
      [] type.kind = "object" -> InProject(project, type)

Supported(project) ==
    LET supported[type \in Types] == SupportedType(supported, project, type)
    IN  supported

\* generate_schema_fragment, for a supported type, given the fragments of the
\* types inside.
TypeFragment(fragment, type) ==
    CASE type.kind = "bool" -> [type |-> "boolean"]
      [] type.kind \in IntegerKinds -> [type |-> "integer"]
      [] type.kind = "float" -> [type |-> "number"]
      [] type.kind = "string" -> [type |-> "string"]
      [] type.kind = "vector" -> [type |-> "array", items |-> fragment[Inner(type)]]
      [] type.kind = "array" ->
            [type |-> "array", items |-> fragment[Inner(type)], extent |-> type.extent]
      [] type.kind = "optional" -> [orNull |-> fragment[Inner(type)]]
      [] type.kind = "map" -> [type |-> "object", additional |-> fragment[Inner(type)]]
      [] type.kind = "enum" -> [type |-> "string", enum |-> Range(Enumerators[type.of])]
      [] type.kind = "object" -> [ref |-> Name[type.of]]

Fragment[type \in Types] == TypeFragment(Fragment, type)

\* The fields listed under properties.
Listed(project, model) ==
    {field \in Managed(model) : Supported(project)[field.type]}

\* Mutation of Required: every listed field is required.
RequiredAll(project, model) == Listed(project, model)

\* is_required_schema_field
Required(project, model) ==
    {field \in Listed(project, model) : field.type.kind # "optional"}

\* generate_type_schema and generate_object_definition, which write the same
\* keywords for one struct.
ObjectSchema(project, model) ==
    [type |-> "object",
     properties |-> [key \in {field.key : field \in Listed(project, model)} |->
                        Fragment[FieldOf(model, key).type]],
     required |-> {field.key : field \in Required(project, model)}]

\* Mutation of Definitions: the second struct is left out, too.
DefinitionsFromThird(project) ==
    [n \in 1 .. Len(project) - 2 |->
        [name |-> Name[project[n + 2]], schema |-> ObjectSchema(project, project[n + 2])]]

\* $defs: every struct but the first.
Definitions(project) ==
    [n \in 1 .. Len(project) - 1 |->
        [name |-> Name[project[n + 1]], schema |-> ObjectSchema(project, project[n + 1])]]

\* generate_schema, of a project with a struct: the first one is the root.
Schema(project) ==
    [title |-> Name[project[1]],
     root |-> ObjectSchema(project, project[1]),
     defs |-> Definitions(project)]

-----------------------------------------------------------------------------
(* The meaning of a schema (JSON Schema 2020-12, the keywords used).       *)

\* What a reference to #/$defs/name may stand for.
Resolved(defs, name) == {def.schema : def \in {d \in Range(defs) : d.name = name}}

\* j validates against a schema with properties.
ValidObject(validates, schema, j) ==
    /\ j.t = "object"
    /\ schema.required \subseteq DOMAIN j.members
    /\ \A key \in DOMAIN schema.properties \cap DOMAIN j.members :
          validates[schema.properties[key]][j.members[key]]

\* minItems and maxItems, of a fixed array.
FitsExtent(schema, items) == "extent" \in DOMAIN schema => Len(items) = schema.extent

\* j validates against the schema of a type, given which parts of it do.
Valid(defs, validates, schema, j) ==
    CASE "ref" \in DOMAIN schema ->
            \E definition \in Resolved(defs, schema.ref) : ValidObject(validates, definition, j)
      [] "orNull" \in DOMAIN schema -> j.t = "null" \/ validates[schema.orNull][j]
      [] "enum" \in DOMAIN schema -> j.t = "string" /\ j.s \in schema.enum
      [] "items" \in DOMAIN schema ->
            /\ j.t = "array"
            /\ FitsExtent(schema, j.items)
            /\ \A n \in DOMAIN j.items : validates[schema.items][j.items[n]]
      [] "additional" \in DOMAIN schema ->
            /\ j.t = "object"
            /\ \A key \in DOMAIN j.members : validates[schema.additional][j.members[key]]
      [] DOMAIN schema = {"type"} ->
            CASE schema.type = "boolean" -> j.t = "bool"
              [] schema.type = "string" -> j.t = "string"
              [] schema.type = "integer" -> IsNumber(j) /\ ~HasFraction(j)
              [] schema.type = "number" -> IsNumber(j)
=============================================================================
