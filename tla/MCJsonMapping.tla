--------------------------- MODULE MCJsonMapping ---------------------------
(***************************************************************************)
(* Six small structs, two of them of one unqualified name, whose fields    *)
(* are of every kind, alone and inside of each other; values and documents *)
(* with every member right, wrong in a few ways, null or absent.           *)
(***************************************************************************)
EXTENDS JsonMapping, TLC

Sets == INSTANCE FiniteSetsExt

MCModels == {"a::Leaf", "a::Note", "a::User", "b::Leaf", "a::Bag", "a::Tree"}

MCName ==
    [m \in Models |->
        CASE m \in {"a::Leaf", "b::Leaf"} -> "Leaf" [] m = "a::Note" -> "Note"
          [] m = "a::User" -> "User" [] m = "a::Bag" -> "Bag" [] m = "a::Tree" -> "Tree"]

\* Types of two bits, of which the second is one that the library has, and the
\* underlying types of the enums.
MCLeast == "int" :> -2 @@ "std::uint64_t" :> 0 @@ "a::State" :> 0 @@ "a::Empty" :> 0
MCGreatest == "int" :> 1 @@ "std::uint64_t" :> 3 @@ "a::State" :> 2 @@ "a::Empty" :> 2
MCWide == {"std::uint64_t", "double"}
MCUndefined(name, m) == Least[name]

\* A long double is a number of quarters, a double of halves, and a float is whole.
MCRounded(name, m) ==
    m - (m % (CASE name = "long double" -> 1 [] name = "double" -> 2 [] name = "float" -> 4))

MCEnumerators ==
    [e \in {"a::State", "a::Empty"} |-> IF e = "a::State" THEN <<"on", "off">> ELSE <<>>]

FieldTable ==
    [m \in Models |->
        CASE m = "a::Leaf" ->
                << Field("x", "x", Scalar("signed", "int")),
                   OmitEmpty(Field("o", "other", Optional(String))) >>
          [] m = "a::Note" ->
                << Ignored(Field("i", "-", Scalar("signed", "int"))),
                   Field("f", "f", Scalar("float", "float")),
                   OmitEmpty(Field("n", "n", Optional(Scalar("bool", "")))) >>
          [] m = "a::User" ->
                << Field("leaf", "leaf", Object("a::Leaf")),
                   Field("note", "note", Optional(Object("a::Note"))),
                   Field("state", "state", Enum("a::State")) >>
          [] m = "b::Leaf" ->
                << Field("states", "states", Vector(Enum("a::State"))),
                   Field("pair", "pair", Array(Scalar("unsigned", "std::uint64_t"), 2)) >>
          [] m = "a::Bag" ->
                << Field("leaves", "leaves", Map(Object("b::Leaf"))),
                   OmitEmpty(Field("more", "more", Optional(Vector(Object("a::Leaf"))))),
                   Field("twice", "twice", Optional(Optional(Scalar("float", "long double")))) >>
          [] m = "a::Tree" ->
                << Field("next", "next", Vector(Object("a::Tree"))),
                   Field("none", "none", Optional(Enum("a::Empty"))) >>]

MCFields == FieldTable

\* Every place a struct can have in a project: the first, which becomes the root
\* of the schema, a later one, behind or before another of its name.
MCProjects ==
    { <<"a::Leaf">>, <<"b::Leaf">>, <<"a::Tree">>,
      <<"a::Leaf", "a::Note", "a::User">>,
      <<"a::Note", "a::Tree", "a::Leaf", "a::User">>,
      <<"a::Note", "b::Leaf", "a::Leaf", "a::Bag">> }

-----------------------------------------------------------------------------

RECURSIVE Within(_), HeightOf(_), FreshOf(_)

\* A type with all that it is made of.
Within(type) == {type} \cup UNION {Within(argument) : argument \in Range(type.arguments)}

TypeTable ==
    {Object(m) : m \in Models}
        \cup UNION {UNION {Within(field.type) : field \in Range(Fields[m])} : m \in Models}

MCTypes == TypeTable

HeightOf(type) == IF type.arguments = <<>> THEN 0 ELSE 1 + HeightOf(Inner(type))

MCHeight == [type \in Types |-> HeightOf(type)]

\* As in ObjectsAssumption.
FreshOf(type) ==
    CASE type.kind = "bool" -> JsonBool(FALSE)
      [] type.kind \in IntegerKinds -> JsonInteger(0)
      [] type.kind = "float" -> JsonReal(0)
      [] type.kind = "string" -> JsonString("")
      [] type.kind = "enum" -> 0
      [] type.kind \in {"optional", "vector"} -> <<>>
      [] type.kind = "array" -> [n \in 1 .. type.extent |-> FreshOf(Inner(type))]
      [] type.kind = "map" -> [key \in {} |-> 0]
      [] type.kind = "object" ->
            [name \in {field.name : field \in Range(Fields[type.of])} |->
                FreshOf((CHOOSE field \in Range(Fields[type.of]) : field.name = name).type)]

FreshTable == [type \in Types |-> FreshOf(type)] @@ <<>>

MCFresh == FreshTable

-----------------------------------------------------------------------------

RECURSIVE Product(_)
\* The functions that choose for each x one of choices[x].
Product(choices) ==
    IF DOMAIN choices = {} THEN {<<>>}
    ELSE LET x == CHOOSE y \in DOMAIN choices : TRUE
             rest == Product([y \in DOMAIN choices \ {x} |-> choices[y]])
         IN  {(x :> choice) @@ f : choice \in choices[x], f \in rest}

RECURSIVE ValuesOf(_, _), DocumentsOf(_, _)

\* A few values of a type; depth bounds the nesting of structs.
ValuesOf(type, depth) ==
    CASE type.kind = "bool" -> {JsonBool(TRUE)}
      [] type.kind \in IntegerKinds -> {JsonInteger(Least[type.of]), JsonInteger(1)}
      [] type.kind = "float" -> {JsonReal(Rounded(type.of, 5)), JsonReal(4)}
      [] type.kind = "string" -> {JsonString("s")}
      [] type.kind = "enum" -> 0 .. Len(Enumerators[type.of])
      [] type.kind = "optional" -> {<<>>} \cup {<<v>> : v \in ValuesOf(Inner(type), depth)}
      [] type.kind = "vector" ->
            {<<>>} \cup {<<v>> : v \in ValuesOf(Inner(type), depth)}
      [] type.kind = "array" -> [1 .. type.extent -> ValuesOf(Inner(type), depth)]
      [] type.kind = "map" ->
            {<<>>} \cup {"p" :> v : v \in ValuesOf(Inner(type), depth)}
      [] type.kind = "object" ->
            IF depth = 0 THEN {}
            ELSE Product([name \in {field.name : field \in Range(Fields[type.of])} |->
                    ValuesOf((CHOOSE field \in Range(Fields[type.of]) : field.name = name).type,
                             depth - 1)])

\* A number of halves.
Half(n) == JsonReal(n * (Scale \div 2))

\* A few documents at the place of a value of a type, good and bad.
DocumentsOf(type, depth) ==
    LET inner == DocumentsOf(Inner(type), depth)
    IN  CASE type.kind = "bool" -> {JsonBool(TRUE), JsonInteger(0)}
          [] type.kind \in IntegerKinds ->
                {JsonInteger(Greatest[type.of] + 1), JsonReal(-4 * Scale), Half(3), JsonBool(TRUE)}
          [] type.kind = "float" -> {JsonInteger(5), Half(3), JsonBool(TRUE)}
          [] type.kind = "string" -> {JsonString("s"), JsonNull}
          [] type.kind = "enum" -> {JsonString("on"), JsonString("s"), Half(1)}
          [] type.kind = "optional" -> {JsonNull} \cup inner
          [] type.kind = "vector" ->
                {JsonString("s"), JsonArray(<<>>)} \cup {JsonArray(<<j>>) : j \in inner}
          [] type.kind = "array" ->
                {JsonArray([n \in 1 .. len |-> JsonInteger(1)]) :
                        len \in 1 .. type.extent + 1}
                    \cup {JsonArray(<<JsonInteger(-1), j>>) :
                            j \in {Half(2), Half(3), JsonBool(TRUE)}}
          [] type.kind = "map" ->
                {JsonNull, JsonObject(NoMembers)} \cup {JsonObject("p" :> j) : j \in inner}
          [] type.kind = "object" ->
                {JsonNull, JsonInteger(0)} \cup
                IF depth = 0 THEN {}
                ELSE UNION {
                        {JsonObject(members) :
                            members \in Product([key \in keys |->
                                DocumentsOf(FieldOf(type.of, key).type, depth - 1)])} :
                        keys \in SUBSET Keys(type.of)}

RECURSIVE WrittenAs(_, _)
\* What a value is written as.
WrittenAs(type, value) ==
    CASE type.kind \in ScalarKinds -> Stored(type, value)
      [] type.kind = "enum" -> JsonInteger(value)
      [] type.kind = "optional" ->
            IF value = <<>> THEN JsonNull ELSE WrittenAs(Inner(type), value[1])
      [] type.kind \in {"vector", "array"} ->
            JsonArray([n \in DOMAIN value |-> WrittenAs(Inner(type), value[n])])
      [] type.kind = "map" ->
            JsonObject([key \in DOMAIN value |-> WrittenAs(Inner(type), value[key])])
      [] type.kind = "object" ->
            LET sent == {field \in Managed(type.of) : ~Omitted(field, value[field.name])}
                written(field) ==
                    CASE field.type.kind = "enum" ->
                            IF IsEnumerator(field.type.of, value[field.name])
                            THEN EnumText(field.type.of, value[field.name])
                            ELSE JsonNull
                      [] Omittable(field) -> WrittenAs(Inner(field.type), value[field.name][1])
                      [] OTHER -> WrittenAs(field.type, value[field.name])
            IN  IF sent = {} THEN JsonNull
                ELSE JsonObject([key \in {field.key : field \in sent} |->
                                    written(FieldOf(type.of, key))])

\* The values and the documents with all that they are made of.
ObjectTable == [type \in Types |-> {Fresh[type]} \cup ValuesOf(type, 3)] @@ <<>>

MCObjects == ObjectTable

DocumentTable ==
    LET of[types \in SUBSET Types] ==
            IF types = {} THEN {JsonNull, JsonInteger(1), JsonInteger(-1), Half(2), JsonString("off")}
            ELSE LET type == CHOOSE t \in types : TRUE
                 IN  DocumentsOf(type, 3)
                         \cup {WrittenAs(type, value) : value \in Objects[type]}
                         \cup of[types \ {type}]
    IN  of[Types]

MCDocuments == DocumentTable

Structs(m) == IF m = "a::Tree" THEN 2 ELSE 3

\* The union of the sets of(x).
All(of(_), set) == Sets!FoldSet(LAMBDA x, all : of(x) \cup all, {}, set)

MCWritings ==
    All(LAMBDA m : {[model |-> m, value |-> v] : v \in ValuesOf(Object(m), Structs(m))}, Models)

\* An object that was in use: no field of it is as in a new one.
Used(m) ==
    CHOOSE v \in ValuesOf(Object(m), Structs(m)) :
        \A field \in Range(Fields[m]) :
            field.type.kind # "enum" => v[field.name] # Fresh[field.type]

MCReadings ==
    All(LAMBDA m : {[model |-> m, doc |-> d, target |-> old] :
                        d \in DocumentsOf(Object(m), Structs(m)),
                        old \in {Fresh[Object(m)], Used(m)}}, Models)

-----------------------------------------------------------------------------
(* Claims of the documents.                                                *)

RECURSIVE References(_)
\* The names a schema refers to.
References(schema) ==
    CASE "ref" \in DOMAIN schema -> {schema.ref}
      [] "orNull" \in DOMAIN schema -> References(schema.orNull)
      [] "items" \in DOMAIN schema -> References(schema.items)
      [] "additional" \in DOMAIN schema -> References(schema.additional)
      [] "properties" \in DOMAIN schema ->
            UNION {References(schema.properties[key]) : key \in DOMAIN schema.properties}
      [] OTHER -> {}

\* golden/nested_object.expected.schema.json: the schema of structs that refer
\* to each other defines every struct that it refers to.
ReferencesAreDefined ==
    LET schema == Schema(project)
        schemas == {schema.root} \cup {def.schema : def \in Range(schema.defs)}
    IN  \A s \in schemas : \A name \in References(s) : Resolved(schema.defs, name) # {}
=============================================================================
