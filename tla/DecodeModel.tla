---------------------------- MODULE DecodeModel ----------------------------
(***************************************************************************)
(* The vocabulary of decoding: the generated C++ models, the JSON texts,   *)
(* and which defects a text has for a model.                               *)
(*                                                                         *)
(* A text is what simdjson On-Demand shows a decoder: whether iterate()    *)
(* accepts it, what its root is, whether something follows the root, and   *)
(* the objects a decoder of the target may open, in document order.  An    *)
(* object lists its members; it is "closed" when the text is well formed   *)
(* to its closing brace, and otherwise reading the member after the last   *)
(* one listed fails.  Objects no decoder opens (under an unknown key, or   *)
(* where a scalar is expected) are opaque values: v is 0.                  *)
(***************************************************************************)
EXTENDS Integers, Sequences

CONSTANTS
    Keys,        \* JSON member names
    Models,      \* generated object types
    Fields,      \* for each model its fields, in declaration order
    Texts,       \* the JSON texts from_json may be called with
    Int64Min, Int64Max, UInt64Max   \* the ranges of get_int64 and get_uint64

FieldKinds == {"bool", "string", "signed", "unsigned", "optional", "object"}

\* metadata::FieldModel, as far as the generated decoder depends on it: min
\* and max are the limits of an integer field's C++ type, model the type of an
\* "object" field.
FieldModels ==
    [key : Keys, kind : FieldKinds, ignored : BOOLEAN,
     min : Int, max : Int, model : Models]

\* JSON values: v tells scalars of one kind apart, and numbers the opened
\* object of a value that is one.
Values ==
    [kind : {"null", "bool", "string", "integer", "fraction", "object"}, v : Int]

Objects ==
    [model : Models, at : Seq(Keys),
     members : Seq([key : Keys, value : Values]), closed : BOOLEAN]

AllTexts ==
    [target : Models, parses : BOOLEAN, root : {"object", "other", "broken"},
     trailing : BOOLEAN, objects : Seq(Objects)]

-----------------------------------------------------------------------------

\* The field of a model that a JSON key selects: an ignored field has no
\* branch in the generated dispatch, so its key is unknown.
Selects(f, key) == f.key = key /\ ~f.ignored

FieldOf(model, key) == {k \in DOMAIN Fields[model] : Selects(Fields[model][k], key)}

Known(model, key) == FieldOf(model, key) # {}

\* JSON names are unique in a model (analyze_field rejects duplicates).
FieldFor(model, key) == Fields[model][CHOOSE k \in FieldOf(model, key) : TRUE]

\* requires_presence_check
Required(f) == ~f.ignored /\ f.kind # "optional"

ModelsAreWellFormed ==
    /\ Fields \in [Models -> Seq(FieldModels)]
    /\ \A m \in Models : \A k, l \in DOMAIN Fields[m] :
          Fields[m][k].key = Fields[m][l].key
             /\ ~Fields[m][k].ignored /\ ~Fields[m][l].ignored => k = l

\* The value of member p of object n is opened by the decoder of n's model.
Opens(text, n, p) ==
    LET object == text.objects[n]
        member == object.members[p]
    IN  /\ Known(object.model, member.key)
        /\ FieldFor(object.model, member.key).kind = "object"
        /\ member.value.kind = "object"

TextIsWellFormed(text) ==
    LET objects == text.objects
    IN  /\ text \in AllTexts
        /\ IF text.parses /\ text.root = "object"
           THEN /\ Len(objects) > 0
                /\ objects[1].at = <<>>
                /\ objects[1].model = text.target
           ELSE objects = <<>>
        /\ \A n \in DOMAIN objects : \A p \in DOMAIN objects[n].members :
              LET member == objects[n].members[p]
                  child == member.value.v
              IN  Opens(text, n, p) =>
                     /\ child \in n + 1 .. Len(objects)
                     /\ objects[child].at = Append(objects[n].at, member.key)
                     /\ objects[child].model = FieldFor(objects[n].model, member.key).model
        /\ \A c \in DOMAIN objects : c = 1 \/
              \E n \in 1 .. c - 1 : \E p \in DOMAIN objects[n].members :
                  Opens(text, n, p) /\ objects[n].members[p].value.v = c

ASSUME ModelsAssumption == ModelsAreWellFormed
ASSUME TextsAssumption == \A text \in Texts : TextIsWellFormed(text)
ASSUME RangesAssumption ==
    /\ Int64Min \in Int /\ Int64Max \in Int /\ UInt64Max \in Int
    /\ Int64Min < 0 /\ 0 < Int64Max /\ Int64Max < UInt64Max

\* A field's own type is no wider than the 64 bits it is read as.
ASSUME LimitsAssumption ==
    \A m \in Models : \A k \in DOMAIN Fields[m] :
        LET f == Fields[m][k]
        IN  /\ f.kind = "signed" => Int64Min <= f.min /\ f.max <= Int64Max
            /\ f.kind = "unsigned" => f.max <= UInt64Max

-----------------------------------------------------------------------------

Codes ==
    {"none", "syntax_error", "trailing_content", "expected_object",
     "expected_bool", "expected_string", "expected_integer",
     "expected_unsigned_integer", "integer_overflow",
     "missing_required_field"}

Int64 == Int64Min .. Int64Max
UInt64 == 0 .. UInt64Max

\* The codes a backend may report for a value that field f cannot take; none
\* when it can.  An integer no 64-bit type holds may be reported either as
\* an overflow or as not being an integer.
Faults(f, value) ==
    CASE f.kind = "bool" -> IF value.kind = "bool" THEN {} ELSE {"expected_bool"}
      [] f.kind = "string" -> IF value.kind = "string" THEN {} ELSE {"expected_string"}
      [] f.kind = "object" -> IF value.kind = "object" THEN {} ELSE {"expected_object"}
      [] f.kind = "optional" ->
            IF value.kind = "null" \/ (value.kind = "integer" /\ value.v \in Int64)
            THEN {} ELSE {"expected_integer"}
      [] f.kind = "signed" ->
            IF value.kind # "integer" THEN {"expected_integer"}
            ELSE IF value.v \in f.min .. f.max THEN {}
            ELSE {"integer_overflow"}
                    \cup (IF value.v \in Int64 THEN {} ELSE {"expected_integer"})
      [] f.kind = "unsigned" ->
            IF value.kind # "integer" \/ value.v < 0 THEN {"expected_unsigned_integer"}
            ELSE IF value.v <= f.max THEN {}
            ELSE {"integer_overflow"}
                    \cup (IF value.v \in UInt64 THEN {} ELSE {"expected_unsigned_integer"})

\* [object, member] positions whose key selects a field.
Recognised(text) ==
    UNION {{<<n, p>> : p \in {q \in DOMAIN text.objects[n].members :
                                 Known(text.objects[n].model, text.objects[n].members[q].key)}} :
              n \in DOMAIN text.objects}

MemberAt(text, np) == text.objects[np[1]].members[np[2]]
FieldAt(text, np) == FieldFor(text.objects[np[1]].model, MemberAt(text, np).key)
PathAt(text, np) == Append(text.objects[np[1]].at, MemberAt(text, np).key)

HasMember(object, key) == \E p \in DOMAIN object.members : object.members[p].key = key

MissingKeys(object) ==
    {Fields[object.model][k].key :
        k \in {l \in DOMAIN Fields[object.model] :
                  /\ Required(Fields[object.model][l])
                  /\ ~HasMember(object, Fields[object.model][l].key)}}

Defect(code, path) == [code |-> code, path |-> path]

\* The sources of defects in a text with an object at its root: values a field
\* cannot take, text that breaks off, keys that are absent, and what follows.
MemberDefects(text) ==
    UNION {{Defect(code, PathAt(text, np)) :
              code \in Faults(FieldAt(text, np), MemberAt(text, np).value)} :
                 np \in Recognised(text)}

BreakDefects(text) ==
    {Defect("syntax_error", text.objects[n].at) :
        n \in {k \in DOMAIN text.objects : ~text.objects[k].closed}}

AbsenceDefects(text) ==
    UNION {{Defect("missing_required_field", Append(text.objects[n].at, key)) :
              key \in MissingKeys(text.objects[n])} :
                 n \in {k \in DOMAIN text.objects : text.objects[k].closed}}

RestDefects(text) == IF text.trailing THEN {Defect("trailing_content", <<>>)} ELSE {}

\* Everything that is wrong with a text for its target, each with the absolute
\* path of the place.
Defects(text) ==
    IF ~text.parses \/ text.root = "broken" THEN {Defect("syntax_error", <<>>)}
    ELSE IF text.root = "other" THEN {Defect("expected_object", <<>>)}
    ELSE MemberDefects(text) \cup BreakDefects(text) \cup AbsenceDefects(text) \cup RestDefects(text)

\* The places of the target that the text gives a scalar for, and the values
\* it gives there: more than one when a key is repeated, of which the profile
\* lets a backend keep any.
Scalars(text) ==
    {np \in Recognised(text) : FieldAt(text, np).kind # "object"}

ScalarPaths(text) == {PathAt(text, np) : np \in Scalars(text)}

IsDecoding(text, value) ==
    /\ DOMAIN value = ScalarPaths(text)
    /\ \A path \in ScalarPaths(text) :
          \E np \in Scalars(text) :
             PathAt(text, np) = path /\ value[path] = MemberAt(text, np).value
=============================================================================
