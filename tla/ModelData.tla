----------------------------- MODULE ModelData -----------------------------
(***************************************************************************)
(* What the backends are given and what the generated code works on: the   *)
(* fields and types of core/ir/model.hpp, the C++ values of those types    *)
(* and JSON documents.                                                     *)
(*                                                                         *)
(* A C++ value of a scalar type is the JSON scalar that stands for it; of  *)
(* an enum its number; of an optional a sequence of at most one value; of  *)
(* a vector or an array a sequence; of a map a function from strings; of a *)
(* struct a function from the names of its fields.                         *)
(*                                                                         *)
(* A floating number is a multiple of 1/Scale, as every finite one is, and *)
(* given by how many times that; infinities and NaN are left out.          *)
(***************************************************************************)
EXTENDS Integers, Sequences, Functions

CONSTANTS
    Models,      \* generated structs, by qualified name
    Name,        \* the unqualified name of each
    Fields,      \* the fields of each, in declaration order
    Enumerators, \* for each enum, by qualified name, its enumerators in order
    Least, Greatest, \* the range of each C++ integer type and underlying type of an enum
    Scale,           \* one is Scale times the smallest floating number
    Rounded(_, _),   \* what a floating type makes of a floating number
    Types,       \* the types of fields, what they are made of, and the structs
    Height,      \* of each type: its arguments are below it
    Fresh,       \* of each type T{}: what a value-initialised object holds
    Objects,     \* the C++ values of each type that occur, with all they are made of
    Depth        \* how deep calls are nested in writing and in reading

IntegerKinds == {"signed", "unsigned"}
ArithmeticKinds == IntegerKinds \cup {"float"}
ScalarKinds == ArithmeticKinds \cup {"bool", "string"}

\* metadata::FieldType: of names the enum or struct of a type that is one, and the
\* C++ type of a number.
Type(kind, of, arguments, extent) ==
    [kind |-> kind, of |-> of, arguments |-> arguments, extent |-> extent]

Scalar(kind, of) == Type(kind, of, <<>>, 0)
String == Scalar("string", "")
Enum(name) == Type("enum", name, <<>>, 0)
Object(m) == Type("object", m, <<>>, 0)
Vector(type) == Type("vector", "", <<type>>, 0)
Array(type, extent) == Type("array", "", <<type>>, extent)
Map(type) == Type("map", "", <<String, type>>, 0)
Optional(type) == Type("optional", "", <<type>>, 0)

\* The last argument: the value type of a map, the element type of the others.
Inner(type) == type.arguments[Len(type.arguments)]

\* metadata::FieldModel with its JsonFieldMetadata.
Field(name, key, type) ==
    [name |-> name, key |-> key, type |-> type, ignored |-> FALSE, omitEmpty |-> FALSE]
Ignored(field) == [field EXCEPT !.ignored = TRUE]
OmitEmpty(field) == [field EXCEPT !.omitEmpty = TRUE]

\* The fields that take part in JSON, and the one a key belongs to: JSON names
\* are unique in a struct (analyze_field rejects duplicates).
Managed(m) == {field \in Range(Fields[m]) : ~field.ignored}
Keys(m) == {field.key : field \in Managed(m)}
FieldOf(m, key) == CHOOSE field \in Managed(m) : field.key = key

Members(m) == {field.name : field \in Range(Fields[m])}
Member(m, name) == CHOOSE field \in Range(Fields[m]) : field.name = name

\* What the analysis hands over: types are finite trees; C++ names the members of
\* a struct and the enumerators of an enum apart.
ASSUME ModelsAssumption ==
    /\ Height \in [Types -> Nat]
    /\ \E highest \in Types : \A type \in Types : Height[type] <= Height[highest]
    /\ \A type \in Types :
          \/ /\ type.kind \in ScalarKinds /\ type = Scalar(type.kind, type.of)
             /\ type.kind \in IntegerKinds => type.of \in DOMAIN Least
             /\ type.kind = "unsigned" => Least[type.of] = 0
          \/ type = Enum(type.of) /\ type.of \in DOMAIN Enumerators
          \/ type = Object(type.of) /\ type.of \in Models
          \/ \E inner \in Types :
                /\ Height[inner] < Height[type]
                /\ type.extent \in Nat
                /\ type \in {Vector(inner), Array(inner, type.extent), Map(inner), Optional(inner)}
    /\ \A m \in Models : Object(m) \in Types
    /\ Fields \in [Models -> Seq([name : STRING, key : STRING, type : Types,
                                 ignored : BOOLEAN, omitEmpty : BOOLEAN])]
    /\ \A m \in Models : \A g, h \in DOMAIN Fields[m] :
          g # h => /\ Fields[m][g].name # Fields[m][h].name
                   /\ \/ Fields[m][g].ignored
                      \/ Fields[m][h].ignored
                      \/ Fields[m][g].key # Fields[m][h].key
    /\ \A enum \in DOMAIN Enumerators :
          /\ Enumerators[enum] \in Seq(STRING)
          /\ \A g, h \in DOMAIN Enumerators[enum] :
                Enumerators[enum][g] = Enumerators[enum][h] => g = h
    /\ DOMAIN Enumerators \subseteq DOMAIN Least
    /\ Least \in [DOMAIN Least -> Int] /\ Greatest \in [DOMAIN Least -> Int]
    /\ \A name \in DOMAIN Least : Least[name] <= Greatest[name]
    /\ Scale \in Nat \ {0}

-----------------------------------------------------------------------------
(* JSON documents, as the library holds them: a number written without     *)
(* fraction and exponent is an integer, unless 64 bits do not hold it; any *)
(* other number is real.                                                   *)

JsonNull == [t |-> "null"]
JsonBool(b) == [t |-> "bool", b |-> b]
JsonInteger(n) == [t |-> "integer", n |-> n]
JsonReal(m) == [t |-> "real", m |-> m]
JsonString(s) == [t |-> "string", s |-> s]
JsonArray(items) == [t |-> "array", items |-> items]
JsonObject(members) == [t |-> "object", members |-> members]

IsNumber(j) == j.t \in {"integer", "real"}
HasFraction(j) == j.t = "real" /\ j.m % Scale # 0

NoMembers == [key \in {} |-> JsonNull]

\* j[key] = member, on an object or on a null, which becomes an object.
Put(j, key, member) ==
    LET old == IF j.t = "object" THEN j.members ELSE NoMembers
    IN  JsonObject([x \in DOMAIN old \cup {key} |-> IF x = key THEN member ELSE old[x]])

\* j.contains(key): false for everything but an object.
Contains(j, key) == j.t = "object" /\ key \in DOMAIN j.members

-----------------------------------------------------------------------------
(* C++ values.                                                             *)

\* The values of an integer type.
NumbersOf(name) == Least[name] .. Greatest[name]

\* A value of a type.
IsValue(type, value) ==
    CASE type.kind = "bool" -> value \in {JsonBool(b) : b \in BOOLEAN}
      [] type.kind \in IntegerKinds -> value.n \in NumbersOf(type.of) /\ value = JsonInteger(value.n)
      [] type.kind = "float" ->
            value.m \in Int /\ Rounded(type.of, value.m) = value.m /\ value = JsonReal(value.m)
      [] type.kind = "string" -> value.s \in STRING /\ value = JsonString(value.s)
      [] type.kind = "enum" -> value \in NumbersOf(type.of)
      [] type.kind = "optional" -> value = <<>> \/ value \in [1 .. 1 -> Objects[Inner(type)]]
      [] type.kind = "vector" -> value \in Seq(Objects[Inner(type)])
      [] type.kind = "array" -> value \in [1 .. type.extent -> Objects[Inner(type)]]
      [] type.kind = "map" ->
            DOMAIN value \subseteq STRING /\ value \in [DOMAIN value -> Objects[Inner(type)]]
      [] type.kind = "object" ->
            /\ value = [name \in Members(type.of) |-> value[name]]
            /\ \A field \in Range(Fields[type.of]) : value[field.name] \in Objects[field.type]

\* T{}, given the same for the types inside: a struct member by member, an array
\* element by element.
ValueInitialised(fresh, type) ==
    CASE type.kind = "bool" -> JsonBool(FALSE)
      [] type.kind \in IntegerKinds -> JsonInteger(0)
      [] type.kind = "float" -> JsonReal(0)
      [] type.kind = "string" -> JsonString("")
      [] type.kind = "enum" -> 0
      [] type.kind \in {"optional", "vector"} -> <<>>
      [] type.kind = "array" -> [n \in 1 .. type.extent |-> fresh[Inner(type)]]
      [] type.kind = "map" -> [key \in {} |-> 0]
      [] type.kind = "object" ->
            [name \in Members(type.of) |-> fresh[Member(type.of, name).type]]

ASSUME ObjectsAssumption ==
    /\ Depth \in Nat \ {0}
    /\ \A type \in Types :
          /\ \A value \in Objects[type] : IsValue(type, value)
          /\ Fresh[type] \in Objects[type]
          /\ Fresh[type] = ValueInitialised(Fresh, type)
=============================================================================
