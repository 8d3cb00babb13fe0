--------------------------- MODULE NlohmannCodec ---------------------------
(***************************************************************************)
(* The to_json and from_json functions that the nlohmann backend generates *)
(* for a struct, called one after the other: a value is written to a       *)
(* document field by field, and a document, this one or any other, is read *)
(* into an object field by field, until a conversion throws.               *)
(*                                                                         *)
(* What j = x and j.get_to(x) do for a type that is not a generated struct *)
(* belongs to the library: Writing and Reading.  They come back to the     *)
(* generated functions for structs inside of containers.  What they do     *)
(* with the parts of a value is a parameter, and WriteValue and ReadInto   *)
(* tie the knot: their first index is how deep calls may still be nested,  *)
(* and what is nested deeper throws.                                       *)
(***************************************************************************)
EXTENDS ModelData, FiniteSets

CONSTANTS
    Wide,       \* the C++ types that the library holds numbers in
    Undefined(_, _),  \* what becomes of a real number in an integer type too small for it
    Documents,  \* the documents that occur, with all they are made of
    Writings,   \* [model, value]: the objects that may be written
    Readings    \* [model, doc, target]: documents, and the objects read into

\* A JSON document.
IsDocument(j) ==
    \/ j = JsonNull
    \/ j.t = "bool" /\ j.b \in BOOLEAN /\ j = JsonBool(j.b)
    \/ j.t = "integer" /\ j.n \in Int /\ j = JsonInteger(j.n)
    \/ j.t = "real" /\ j.m \in Int /\ j = JsonReal(j.m)
    \/ j.t = "string" /\ j.s \in STRING /\ j = JsonString(j.s)
    \/ j.t = "array" /\ j.items \in Seq(Documents) /\ j = JsonArray(j.items)
    \/ /\ j.t = "object" /\ j = JsonObject(j.members)
       /\ DOMAIN j.members \subseteq STRING /\ j.members \in [DOMAIN j.members -> Documents]

ASSUME DocumentsAssumption == \A j \in Documents : IsDocument(j)

\* A build of the program makes some number of the type of it.
ASSUME UndefinedAssumption ==
    \A j \in Documents : j.t = "real" =>
        \A name \in DOMAIN Least : Undefined(name, j.m) \in NumbersOf(name)

ASSUME CallsAssumption ==
    /\ \A w \in Writings : w.model \in Models /\ w.value \in Objects[Object(w.model)]
    /\ \A r \in Readings :
          r.model \in Models /\ r.doc \in Documents /\ r.target \in Objects[Object(r.model)]

VARIABLES
    model,    \* the struct whose functions run
    given,    \* the object written, or the object before the reading
    doc,      \* j: the document
    target,   \* value: the object read into
    k,        \* the field the generated function has reached
    origin,   \* whether the document comes from the "writer" or from "outside"
    pc        \* "write", "read", "done", "writeThrew" or "readThrew"

vars == <<model, given, doc, target, k, origin, pc>>

-----------------------------------------------------------------------------
(* Writing.                                                                *)

Written(ok, j) == [ok |-> ok, j |-> j]

\* cjm_to_json_string: the text of an enumerator; other numbers throw.
IsEnumerator(name, number) == number \in 0 .. Len(Enumerators[name]) - 1
EnumText(name, number) == JsonString(Enumerators[name][number + 1])

\* The fields that to_json may leave out, and from_json does without.
Omittable(field) == field.type.kind = "optional" /\ field.omitEmpty

\* Mutation of Omitted: the tag is not looked at in to_json.
OmittedAnyOptional(field, member) == field.type.kind = "optional" /\ member = <<>>

Omitted(field, member) == Omittable(field) /\ member = <<>>

\* What a field is written as, unless it is left out: an enum is its text.
WrittenField(write, field, member) ==
    CASE field.type.kind = "enum" ->
            IF IsEnumerator(field.type.of, member)
            THEN Written(TRUE, EnumText(field.type.of, member))
            ELSE Written(FALSE, JsonNull)
      [] Omittable(field) -> write[Inner(field.type)][member[1]]
      [] OTHER -> write[field.type][member]

\* generate_to_json_field: the lines generated for one field.
WriteField(write, j, field, value) ==
    LET result == WrittenField(write, field, value[field.name])
    IN  IF field.ignored \/ Omitted(field, value[field.name]) THEN Written(TRUE, j)
        ELSE IF result.ok THEN Written(TRUE, Put(j, field.key, result.j))
        ELSE Written(FALSE, j)

\* to_json of a struct, called with a null document, after each of its fields.
WriteFields(write, m, value) ==
    LET after[n \in 0 .. Len(Fields[m])] ==
            IF n = 0 THEN Written(TRUE, JsonNull)
            ELSE IF after[n - 1].ok THEN WriteField(write, after[n - 1].j, Fields[m][n], value)
            ELSE after[n - 1]
    IN  after

\* A floating value goes through the floating type of the library.
Stored(type, value) ==
    IF type.kind = "float" THEN JsonReal(Rounded("double", value.m)) ELSE value

\* j = value, where the static type of value is type.  The library writes an
\* enum as its number.
Writing(write, type, value) ==
    CASE type.kind \in ScalarKinds -> Written(TRUE, Stored(type, value))
      [] type.kind = "enum" -> Written(TRUE, JsonInteger(value))
      [] type.kind = "optional" ->
            IF value = <<>> THEN Written(TRUE, JsonNull) ELSE write[Inner(type)][value[1]]
      [] type.kind \in {"vector", "array"} ->
            Written(\A n \in DOMAIN value : write[Inner(type)][value[n]].ok,
                    JsonArray([n \in DOMAIN value |-> write[Inner(type)][value[n]].j]))
      [] type.kind = "map" ->
            Written(\A key \in DOMAIN value : write[Inner(type)][value[key]].ok,
                    JsonObject([key \in DOMAIN value |-> write[Inner(type)][value[key]].j]))
      [] type.kind = "object" ->
            WriteFields(write, type.of, value)[Len(Fields[type.of])]

WriteValue[n \in 0 .. Depth] ==
    [type \in Types |-> [value \in Objects[type] |->
        IF n = 0 THEN Written(FALSE, JsonNull) ELSE Writing(WriteValue[n - 1], type, value)]]

\* What is written may be read.
ASSUME WritingsAssumption ==
    \A n \in 0 .. Depth, type \in Types : \A value \in Objects[type] :
        WriteValue[n][type][value].ok => WriteValue[n][type][value].j \in Documents

-----------------------------------------------------------------------------
(* Reading.  The value of a result is what the destination holds behind    *)
(* the call, whether it returned or threw.                                 *)

Read(ok, value) == [ok |-> ok, value |-> value]
Threw(value) == Read(FALSE, value)

\* static_cast of an integer to an integer type: no range check.
Wrap(name, n) == Least[name] + ((n - Least[name]) % (Greatest[name] - Least[name] + 1))

\* What is left of a real number without its fraction.
Truncated(m) == IF m >= 0 THEN m \div Scale ELSE -((-m) \div Scale)

\* static_cast of a number to an integer type, or to the underlying type of an enum.
Cast(name, j) ==
    CASE j.t = "integer" -> Wrap(name, j.n)
      [] j.t = "real" /\ Truncated(j.m) \in NumbersOf(name) -> Truncated(j.m)
      [] j.t = "real" /\ Truncated(j.m) \notin NumbersOf(name) -> Undefined(name, j.m)

\* The scalars that the library's from_json takes, and what becomes of them: a
\* number of any kind is cast to the type of the field, and a C++ type that the
\* library does not hold numbers in also takes true and false.
Takes(type, j) ==
    \/ type.kind \in {"bool", "string"} /\ j.t = type.kind
    \/ type.kind \in ArithmeticKinds /\ IsNumber(j)
    \/ type.kind \in ArithmeticKinds /\ j.t = "bool" /\ type.of \notin Wide
Converted(type, j) ==
    LET bit == IF j.b THEN 1 ELSE 0
        times == CASE j.t = "bool" -> Scale * bit [] j.t = "integer" -> Scale * j.n
                   [] j.t = "real" -> j.m
    IN  CASE type.kind \in IntegerKinds ->
                JsonInteger(IF j.t = "bool" THEN bit ELSE Cast(type.of, j))
          [] type.kind = "float" -> JsonReal(Rounded(type.of, times))
          [] OTHER -> j

\* cjm_from_json_string: the enumerators with a text, which differ, so that there
\* is one at most.
EnumNumbers(name, j) ==
    {number \in 0 .. Len(Enumerators[name]) - 1 : EnumText(name, number) = j}
EnumNumber(name, j) == CHOOSE number \in EnumNumbers(name, j) : TRUE

\* What becomes of a field that was old, if the document has it as member: an
\* optional with omitempty gets a value of the type inside.
ReadMember(read, field, member, old) ==
    LET contained == read[Inner(field.type)][member][Fresh[Inner(field.type)]]
    IN  CASE field.type.kind = "enum" ->
                IF EnumNumbers(field.type.of, member) = {} THEN Threw(old)
                ELSE Read(TRUE, EnumNumber(field.type.of, member))
          [] Omittable(field) ->
                IF contained.ok THEN Read(TRUE, <<contained.value>>) ELSE Threw(old)
          [] OTHER -> read[field.type][member][old]

\* Mutation of ReadField: any field may be missing.
ReadFieldIfThere(read, j, field, value) ==
    LET result == ReadMember(read, field, j.members[field.key], value[field.name])
    IN  IF field.ignored \/ ~Contains(j, field.key) THEN Read(TRUE, value)
        ELSE Read(result.ok, [value EXCEPT ![field.name] = result.value])

\* generate_from_json_field: the lines generated for one field.
ReadField(read, j, field, value) ==
    LET result == ReadMember(read, field, j.members[field.key], value[field.name])
    IN  IF field.ignored THEN Read(TRUE, value)
        ELSE IF Contains(j, field.key)
        THEN Read(result.ok, [value EXCEPT ![field.name] = result.value])
        ELSE Read(Omittable(field), value)

\* from_json of a struct, after each of its fields.
ReadFields(read, m, j, old) ==
    LET after[n \in 0 .. Len(Fields[m])] ==
            IF n = 0 THEN Read(TRUE, old)
            ELSE IF after[n - 1].ok THEN ReadField(read, j, Fields[m][n], after[n - 1].value)
            ELSE after[n - 1]
    IN  after

\* j.get_to(old).  Elements are read by get, into fresh objects; only an array
\* and a struct are read in place.
Reading(read, type, j, old) ==
    LET get(element) == read[Inner(type)][element][Fresh[Inner(type)]]
    IN  CASE type.kind \in ScalarKinds ->
                IF Takes(type, j) THEN Read(TRUE, Converted(type, j)) ELSE Threw(old)
          [] type.kind = "enum" ->
                IF IsNumber(j) THEN Read(TRUE, Cast(type.of, j)) ELSE Threw(old)
          [] type.kind = "optional" ->
                IF j.t = "null" THEN Read(TRUE, <<>>)
                ELSE IF get(j).ok THEN Read(TRUE, <<get(j).value>>)
                ELSE Threw(old)
          [] type.kind = "vector" ->
                IF j.t = "array" /\ \A n \in DOMAIN j.items : get(j.items[n]).ok
                THEN Read(TRUE, [n \in DOMAIN j.items |-> get(j.items[n]).value])
                ELSE Threw(old)
          [] type.kind = "map" ->
                IF j.t = "object" /\ \A key \in DOMAIN j.members : get(j.members[key]).ok
                THEN Read(TRUE, [key \in DOMAIN j.members |-> get(j.members[key]).value])
                ELSE Threw(old)
          [] type.kind = "array" ->
                IF j.t # "array" THEN Threw(old)
                ELSE LET missing == {n \in 1 .. type.extent :
                                        n \notin DOMAIN j.items \/ ~get(j.items[n]).ok}
                     IN  Read(missing = {},
                              [n \in 1 .. type.extent |->
                                  IF \E m \in missing : m <= n THEN old[n]
                                  ELSE get(j.items[n]).value])
          [] type.kind = "object" ->
                ReadFields(read, type.of, j, old)[Len(Fields[type.of])]

ReadInto[n \in 0 .. Depth] ==
    [type \in Types |-> [j \in Documents |-> [old \in Objects[type] |->
        IF n = 0 THEN Threw(old) ELSE Reading(ReadInto[n - 1], type, j, old)]]]

-----------------------------------------------------------------------------

Init ==
    /\ k = 1
    /\ \/ \E w \in Writings :
             /\ model = w.model
             /\ given = w.value
             /\ target = Fresh[Object(w.model)]
             /\ doc = JsonNull
             /\ origin = "writer"
             /\ pc = "write"
       \/ \E r \in Readings :
             /\ model = r.model
             /\ given = r.target
             /\ target = r.target
             /\ doc = r.doc
             /\ origin = "outside"
             /\ pc = "read"

Current == Fields[model][k]
More == k <= Len(Fields[model])

\* One field of to_json.
WriteNext ==
    /\ pc = "write" /\ More
    /\ LET result == WriteField(WriteValue[Depth - 1], doc, Current, given)
       IN  /\ doc' = result.j
           /\ IF result.ok THEN k' = k + 1 /\ pc' = pc ELSE k' = k /\ pc' = "writeThrew"
    /\ UNCHANGED <<model, given, target, origin>>

\* to_json returns; what it wrote is read into a new object.
EndWrite ==
    /\ pc = "write" /\ ~More
    /\ pc' = "read"
    /\ k' = 1
    /\ UNCHANGED <<model, given, doc, target, origin>>

\* One field of from_json.
ReadNext ==
    /\ pc = "read" /\ More
    /\ LET result == ReadField(ReadInto[Depth - 1], doc, Current, target)
       IN  /\ target' = result.value
           /\ IF result.ok THEN k' = k + 1 /\ pc' = pc ELSE k' = k /\ pc' = "readThrew"
    /\ UNCHANGED <<model, given, doc, origin>>

EndRead ==
    /\ pc = "read" /\ ~More
    /\ pc' = "done"
    /\ UNCHANGED <<model, given, doc, target, k, origin>>

Returned == pc \in {"done", "writeThrew", "readThrew"} /\ UNCHANGED vars

Next == WriteNext \/ EndWrite \/ ReadNext \/ EndRead \/ Returned
=============================================================================
