---------------------------- MODULE JsonMapping ----------------------------
(***************************************************************************)
(* Two backends for one project: what the generated nlohmann functions     *)
(* write and read, against the JSON Schema generated for the same structs. *)
(***************************************************************************)
EXTENDS NlohmannCodec, SchemaGenerator

CONSTANT Projects   \* the projects: sequences of structs, ordered

VARIABLE project

\* The structs that a type mentions.
Mentions[type \in Types] ==
    CASE type.kind = "object" -> {type.of}
      [] type.kind \in {"optional", "vector", "array", "map"} -> Mentions[Inner(type)]
      [] OTHER -> {}

Uses(m) == UNION {Mentions[field.type] : field \in Range(Fields[m])}

\* What a successful analysis hands to the backends: TypeOrder's theorem
\* DependenciesPrecedeUsers.
ASSUME ProjectsAssumption ==
    /\ Projects \subseteq Seq(Models)
    /\ \A p \in Projects : \A n \in DOMAIN p :
          Uses(p[n]) \subseteq {p[m] : m \in 1 .. n}

MappingInit == Init /\ project \in {p \in Projects : model \in Range(p)}
MappingNext == Next /\ UNCHANGED project
MappingSpec == MappingInit /\ [][MappingNext]_<<vars, project>> /\ WF_<<vars, project>>(MappingNext)

-----------------------------------------------------------------------------
(* Writing and reading back.                                               *)

\* Somewhere an engaged optional is written as null, its content being an empty
\* optional, or a struct of which nothing is written; or a floating value is none of
\* the library's floating type, as some of long double are not.
LossyPart(lossy, write, type, value) ==
    CASE type.kind \in ScalarKinds -> Stored(type, value) # value
      [] type.kind = "enum" -> FALSE
      [] type.kind = "optional" ->
            \E x \in DOMAIN value : \/ write[Inner(type)][value[x]].j = JsonNull
                                   \/ lossy[Inner(type)][value[x]]
      [] type.kind \in {"vector", "array", "map"} ->
            \E x \in DOMAIN value : lossy[Inner(type)][value[x]]
      [] type.kind = "object" ->
            \E field \in Managed(type.of) :
                IF Omittable(field)
                THEN \E x \in DOMAIN value[field.name] :
                        lossy[Inner(field.type)][value[field.name][x]]
                ELSE lossy[field.type][value[field.name]]

Lossy[n \in 0 .. Depth] ==
    [type \in Types |-> [value \in Objects[type] |->
        n # 0 /\ LossyPart(Lossy[n - 1], WriteValue[n - 1], type, value)]]

\* A value with every ignored field as in a new object.
Restoring(restored, type, value) ==
    CASE type.kind \in ScalarKinds \cup {"enum"} -> value
      [] type.kind \in {"optional", "vector", "array", "map"} ->
            [x \in DOMAIN value |-> restored[Inner(type)][value[x]]]
      [] type.kind = "object" ->
            [name \in Members(type.of) |->
                LET field == Member(type.of, name)
                IN  CASE field.ignored -> Fresh[field.type]
                      [] ~field.ignored /\ Omittable(field) ->
                            [x \in DOMAIN value[name] |->
                                restored[Inner(field.type)][value[name][x]]]
                      [] ~field.ignored /\ ~Omittable(field) ->
                            restored[field.type][value[name]]]

Restored[n \in 0 .. Depth] ==
    [type \in Types |-> [value \in Objects[type] |->
        IF n = 0 THEN value ELSE Restoring(Restored[n - 1], type, value)]]

\* What to_json writes, from_json reads: it never throws on such a document,
\* and yields the object written, but for its ignored fields.  The
\* exceptions are an engaged optional that is written as null, and a long double
\* that is no double.
RoundTrip ==
    origin = "writer" =>
        /\ pc # "readThrew"
        /\ pc = "done" /\ ~Lossy[Depth][Object(model)][given] =>
              target = Restored[Depth][Object(model)][given]

\* What there should be in an object of m behind the reading of j: what there
\* would be in a new one, but for the ignored fields and for the optionals with
\* omitempty that j does not have.
KeptMembers(kept, read, m, j, old) ==
    [name \in Members(m) |->
        LET field == Member(m, name)
        IN  CASE field.ignored \/ (Omittable(field) /\ ~Contains(j, field.key)) -> old[name]
              [] ~field.ignored /\ field.type.kind = "object" ->
                    kept[field.type.of][j.members[field.key]][old[name]]
              [] OTHER -> read[Object(m)][j][Fresh[Object(m)]].value[name]]

Kept[n \in 0 .. Depth] ==
    [m \in Models |-> [j \in Documents |-> [old \in Objects[Object(m)] |->
        IF n = 0 THEN old ELSE KeptMembers(Kept[n - 1], ReadInto[n], m, j, old)]]]

\* Reading into an object that is in use leaves nothing of it but ignored fields
\* and the optionals with omitempty that the document does not mention, at any
\* depth of nested structs.
OldValuesSurviveOnlyIfAbsent ==
    origin = "outside" /\ pc = "done" => target = Kept[Depth][model][doc][given]

-----------------------------------------------------------------------------
(* The schema.                                                             *)

\* The name of a struct means the struct in the $defs, and it alone.
Defined(m) ==
    Resolved(Schema(project).defs, Name[m]) = {ObjectSchema(project, m)}

\* Each reference of the schema stands for the struct of its field, unless that
\* struct is the root, which has no definition, or another struct has the same
\* unqualified name.
ReferencesMeanTheirType ==
    \A m \in Range(project) : \A u \in Uses(m) \cap Range(project) :
        Defined(u) \/ u = project[1] \/ \E w \in Range(project) \ {u} : Name[w] = Name[u]

\* As in the codec, the index bounds the nesting that is left.  There is more of
\* it than in the codec: a field with omitempty is read without a level for its
\* optional, but is not validated without one.
Validates ==
    LET validates[n \in 0 .. 2 * Depth] ==
            [schema \in {Fragment[type] : type \in Types} |-> [j \in Documents |->
                n # 0 /\ Valid(Schema(project).defs, validates[n - 1], schema, j)]]
    IN  validates

\* The places in an object where the reader and the schema part ways: fields the
\* schema leaves out; a key that only the reader wants; a null that only the
\* schema takes; and structs of which the reader looks at nothing when they are
\* not objects.
ContestedObject(contested, m, j) ==
    \/ /\ j.t # "object"
       /\ \A field \in Managed(m) : Omittable(field)
    \/ /\ j.t = "object"
       /\ \E field \in Managed(m) :
            \/ ~Supported(project)[field.type]
            \/ /\ field.key \notin DOMAIN j.members
               /\ field.type.kind = "optional" /\ ~field.omitEmpty
            \/ /\ field.key \in DOMAIN j.members
               /\ Omittable(field)
               /\ \/ j.members[field.key].t = "null"
                  \/ contested[Inner(field.type)][j.members[field.key]]
            \/ /\ field.key \in DOMAIN j.members
               /\ ~Omittable(field) /\ field.type.kind # "enum"
               /\ contested[field.type][j.members[field.key]]

\* The other places: a number with a fraction for an integer; a boolean for a number,
\* unless its C++ type is one the library holds numbers in; the number or the text of
\* an enum inside of a container; the extra elements of a fixed array; references
\* that lead nowhere.
ContestedPart(contested, type, j) ==
    LET inside(member) == contested[Inner(type)][member]
    IN  CASE type.kind \in ScalarKinds ->
                \/ type.kind \in IntegerKinds /\ HasFraction(j)
                \/ type.kind \in ArithmeticKinds /\ type.of \notin Wide /\ j.t = "bool"
          [] type.kind = "enum" -> IsNumber(j) \/ j.t = "string"
          [] type.kind = "optional" -> j.t # "null" /\ inside(j)
          [] type.kind \in {"vector", "array"} ->
                /\ j.t = "array"
                /\ \/ type.kind = "array" /\ Len(j.items) > type.extent
                   \/ \E x \in DOMAIN j.items : inside(j.items[x])
          [] type.kind = "map" ->
                j.t = "object" /\ \E key \in DOMAIN j.members : inside(j.members[key])
          [] type.kind = "object" ->
                ~Defined(type.of) \/ ContestedObject(contested, type.of, j)

Contested ==
    LET contested[n \in 0 .. Depth] ==
            [type \in Types |-> [j \in Documents |->
                n # 0 /\ ContestedPart(contested[n - 1], type, j)]]
    IN  contested

\* Everywhere else the generated reader takes exactly the documents that the
\* generated schema describes.
ReaderAndSchemaAgree ==
    /\ origin = "outside" /\ pc \in {"done", "readThrew"}
    /\ ~ContestedObject(Contested[Depth - 1], model, doc)
    => LET valid(n) == ValidObject(Validates[n], ObjectSchema(project, model), doc)
       IN  /\ pc = "done" => valid(2 * Depth)
           /\ valid(Depth - 1) => pc = "done"
=============================================================================
