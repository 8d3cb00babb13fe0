---------------------------- MODULE ObjectDecode ----------------------------
(***************************************************************************)
(* The decoder that simdjson/cpp_generator.cpp generates: from_json<T> and *)
(* the mutually calling detail::decode_object overloads, one per model.    *)
(*                                                                         *)
(* The call stack is `frames`: one frame per running decode_object, with   *)
(* the object it iterates (a node of the text), the member it is at, and   *)
(* the has_ flags that are set.  `value` is the model under construction:  *)
(* every frame writes its part of it in place.  It maps the places that    *)
(* have been assigned to their contents; any other place keeps what T{}    *)
(* gives it (std::nullopt for an optional).                                *)
(***************************************************************************)
EXTENDS DecodeModel

CONSTANT
    EarlierErrors   \* what the caller's DecodeError may hold before the call

VARIABLES
    text,     \* input
    error,    \* the caller's DecodeError: code, path, and whether
              \* runtime_error holds a simdjson failure
    frames,   \* the running decode_object calls, the root first
    value,    \* the temporary of from_json
    pc        \* "entry": from_json called; "decode": the last frame iterates;
              \* "unwind": the last frame returns false; "tail": the root
              \* decoder returned true; "model", "nullopt": from_json returned

vars == <<text, error, frames, value, pc>>

DecodeErrors == [code : Codes, path : Seq(Keys), runtime : BOOLEAN]
NoError == [code |-> "none", path |-> <<>>, runtime |-> FALSE]

ASSUME EarlierErrorsAssumption == EarlierErrors \subseteq DecodeErrors

Frames == [node : Nat \ {0}, pos : Nat \ {0}, has : SUBSET Keys]

NewFrame(node) == [node |-> node, pos |-> 1, has |-> {}]

-----------------------------------------------------------------------------

Depth == Len(frames)
Frame == frames[Depth]
Object == text.objects[Frame.node]
Member == Object.members[Frame.pos]
Field == FieldFor(Object.model, Member.key)
Place == Append(Object.at, Member.key)

\* The path helpers: a decoder appends its own field, a parent prepends its.
AppendField(path, key) == Append(path, key)
\* Mutation of PrependField: the parent's segment goes behind the child's.
PrependFieldAtEnd(path, key) == Append(path, key)

PrependField(path, key) == <<key>> \o path

\* error.code = ...; error.runtime_error = runtime_error when a simdjson call
\* failed; return false.
Fail(code, path, runtime) ==
    /\ error' = [code |-> code, path |-> path, runtime |-> error.runtime \/ runtime]
    /\ pc' = "unwind"

\* for (auto field : object) has another member.
AtMember == pc = "decode" /\ Frame.pos <= Len(Object.members)

AtKnownMember == AtMember /\ Known(Object.model, Member.key)

Assign(place, content) ==
    [q \in DOMAIN value \cup {place} |-> IF q = place THEN content ELSE value[q]]

\* Go on with the next member, after setting has_ flags.
Advance(flags) ==
    frames' = [frames EXCEPT ![Depth].pos = @ + 1, ![Depth].has = @ \cup flags]

\* The getter of a field's kind and its check: the code of the failure, or
\* "none".  An integer is first read as 64 bits, and that failing is reported
\* as not being an integer; then it is compared with the field's own limits.
Conversion(f, v) ==
    CASE f.kind = "bool" -> IF v.kind = "bool" THEN "none" ELSE "expected_bool"
      [] f.kind = "string" -> IF v.kind = "string" THEN "none" ELSE "expected_string"
      [] f.kind = "signed" ->
            IF ~(v.kind = "integer" /\ v.v \in Int64) THEN "expected_integer"
            ELSE IF v.v < f.min \/ v.v > f.max THEN "integer_overflow"
            ELSE "none"
      [] f.kind = "unsigned" ->
            IF ~(v.kind = "integer" /\ v.v \in UInt64) THEN "expected_unsigned_integer"
            ELSE IF v.v > f.max THEN "integer_overflow"
            ELSE "none"
      [] f.kind = "optional" ->
            IF v.kind = "null" \/ (v.kind = "integer" /\ v.v \in Int64)
            THEN "none" ELSE "expected_integer"
      [] f.kind = "object" -> IF v.kind = "object" THEN "none" ELSE "expected_object"

Nullopt == [kind |-> "null", v |-> 0]

-----------------------------------------------------------------------------

Init ==
    /\ text \in Texts
    /\ error \in EarlierErrors
    /\ frames = <<>>
    /\ value = <<>>
    /\ pc = "entry"

\* from_json: error = {}; parser.iterate or document.get_object fails.
RefuseRoot ==
    /\ pc = "entry"
    /\ ~(text.parses /\ text.root = "object")
    /\ error' = [code |-> IF text.parses /\ text.root = "other"
                          THEN "expected_object" ELSE "syntax_error",
                 path |-> <<>>, runtime |-> TRUE]
    /\ pc' = "nullopt"
    /\ UNCHANGED <<text, frames, value>>

\* Mutation of OpenRoot: the caller's error is not cleared.
OpenRootOnOldError ==
    /\ pc = "entry"
    /\ text.parses /\ text.root = "object"
    /\ frames' = <<NewFrame(1)>>
    /\ value' = <<>>
    /\ pc' = "decode"
    /\ UNCHANGED <<text, error>>

\* from_json: error = {}; T value{}; decode_object(object, value, error).
OpenRoot ==
    /\ pc = "entry"
    /\ text.parses /\ text.root = "object"
    /\ error' = NoError
    /\ frames' = <<NewFrame(1)>>
    /\ value' = <<>>
    /\ pc' = "decode"
    /\ UNCHANGED text

\* Mutation of SkipUnknown: the iteration does not move on.
SkipUnknownInPlace ==
    /\ AtMember
    /\ ~Known(Object.model, Member.key)
    /\ UNCHANGED vars

\* No generated branch matches the key.
SkipUnknown ==
    /\ AtMember
    /\ ~Known(Object.model, Member.key)
    /\ Advance({})
    /\ UNCHANGED <<text, error, value, pc>>

\* Assign the member and, for a required field, set its has_ flag.
StoreScalar ==
    /\ AtKnownMember
    /\ Field.kind # "object"
    /\ Conversion(Field, Member.value) = "none"
    /\ value' = Assign(Place, Member.value)
    /\ Advance(IF Required(Field) THEN {Field.key} ELSE {})
    /\ UNCHANGED <<text, error, pc>>

\* The conversion fails: only the range check is not a simdjson failure.  An
\* optional has been reset before its conversion.
RejectMember ==
    /\ AtKnownMember
    /\ LET code == Conversion(Field, Member.value)
       IN  /\ code # "none"
           /\ Fail(code, AppendField(error.path, Field.key), code # "integer_overflow")
    /\ value' = IF Field.kind = "optional" THEN Assign(Place, Nullopt) ELSE value
    /\ UNCHANGED <<text, frames>>

\* Mutation of EnterNested: the nested decoder shares the flags of its caller.
EnterNestedWithParentFlags ==
    /\ AtKnownMember
    /\ Field.kind = "object"
    /\ Conversion(Field, Member.value) = "none"
    /\ frames' = Append(frames, [NewFrame(Member.value.v) EXCEPT !.has = Frame.has])
    /\ UNCHANGED <<text, error, value, pc>>

\* detail::decode_object(decoded_x, value.x, error)
EnterNested ==
    /\ AtKnownMember
    /\ Field.kind = "object"
    /\ Conversion(Field, Member.value) = "none"
    /\ frames' = Append(frames, NewFrame(Member.value.v))
    /\ UNCHANGED <<text, error, value, pc>>

AtEnd == pc = "decode" /\ Frame.pos > Len(Object.members)

\* The iteration meets malformed text: unescaped_key fails.
ReadBrokenKey ==
    /\ AtEnd
    /\ ~Object.closed
    /\ Fail("syntax_error", error.path, TRUE)
    /\ UNCHANGED <<text, frames, value>>

\* Required fields whose has_ flag is not set, as positions of the model.
Unset ==
    {k \in DOMAIN Fields[Object.model] :
        /\ Required(Fields[Object.model][k])
        /\ Fields[Object.model][k].key \notin Frame.has}

ReportMissing ==
    /\ AtEnd
    /\ Object.closed
    /\ \E k \in Unset :
          /\ \A l \in Unset : k <= l
          /\ Fail("missing_required_field",
                  AppendField(error.path, Fields[Object.model][k].key), FALSE)
    /\ UNCHANGED <<text, frames, value>>

\* decode_object returns true to the decoder of the enclosing object.
LeaveNested ==
    /\ AtEnd
    /\ Object.closed
    /\ Unset = {}
    /\ Depth > 1
    /\ LET parent == frames[Depth - 1]
           key == text.objects[parent.node].members[parent.pos].key
       IN  frames' = [SubSeq(frames, 1, Depth - 1) EXCEPT
                         ![Depth - 1].pos = @ + 1, ![Depth - 1].has = @ \cup {key}]
    /\ UNCHANGED <<text, error, value, pc>>

\* decode_object returns true to from_json.
LeaveRoot ==
    /\ AtEnd
    /\ Object.closed
    /\ Unset = {}
    /\ Depth = 1
    /\ frames' = <<>>
    /\ pc' = "tail"
    /\ UNCHANGED <<text, error, value>>

\* decode_object returns false: the enclosing decoder prepends the field it
\* was decoding and returns false too, from_json returns std::nullopt.
UnwindNested ==
    /\ pc = "unwind"
    /\ Depth > 1
    /\ LET parent == frames[Depth - 1]
           key == text.objects[parent.node].members[parent.pos].key
       IN  error' = [error EXCEPT !.path = PrependField(@, key)]
    /\ frames' = SubSeq(frames, 1, Depth - 1)
    /\ UNCHANGED <<text, value, pc>>

UnwindRoot ==
    /\ pc = "unwind"
    /\ Depth = 1
    /\ frames' = <<>>
    /\ pc' = "nullopt"
    /\ UNCHANGED <<text, error, value>>

\* if (!document.at_end())
RejectTrailing ==
    /\ pc = "tail"
    /\ text.trailing
    /\ error' = [error EXCEPT !.code = "trailing_content", !.runtime = TRUE]
    /\ pc' = "nullopt"
    /\ UNCHANGED <<text, frames, value>>

\* Mutation of ReturnModel: the end of the document is not looked at.
ReturnModelEarly ==
    /\ pc = "tail"
    /\ pc' = "model"
    /\ UNCHANGED <<text, error, frames, value>>

ReturnModel ==
    /\ pc = "tail"
    /\ ~text.trailing
    /\ pc' = "model"
    /\ UNCHANGED <<text, error, frames, value>>

Returned == pc \in {"model", "nullopt"} /\ UNCHANGED vars

Next ==
    \/ RefuseRoot \/ OpenRoot
    \/ SkipUnknown \/ StoreScalar \/ RejectMember \/ EnterNested
    \/ ReadBrokenKey \/ ReportMissing \/ LeaveNested \/ LeaveRoot
    \/ UnwindNested \/ UnwindRoot
    \/ RejectTrailing \/ ReturnModel
    \/ Returned

\* One thread runs the call and never waits.
Spec == Init /\ [][Next]_vars /\ WF_vars(Next)

-----------------------------------------------------------------------------

\* The state has its types: frames are records of an open object, the error is
\* a DecodeError, the value a partial function from places to scalars.
TypeOK ==
    /\ text \in Texts
    /\ error \in DecodeErrors
    /\ frames \in Seq(Frames)
    /\ \A d \in DOMAIN frames :
          /\ frames[d].node \in DOMAIN text.objects
          /\ frames[d].pos <= Len(text.objects[frames[d].node].members) + 1
    /\ \A place \in DOMAIN value : value[place] \in Values
    /\ pc \in {"entry", "decode", "unwind", "tail", "model", "nullopt"}

\* While a failure travels up, the path in error is relative to the object of
\* the frame that is returning: put after that object's own path, it names a
\* real defect of the text.  Every parent adds its segment, once.
PathWhileUnwinding ==
    pc = "unwind" =>
        Defect(error.code, text.objects[Frame.node].at \o error.path) \in Defects(text)

\* The has_ flags of a frame tell exactly which required keys its own object
\* has shown so far: neither a sibling of the same model, nor an earlier object
\* under a repeated key, nor the enclosing object lends it a flag.
PresenceIsPerObject ==
    \A d \in DOMAIN frames :
        LET object == text.objects[frames[d].node]
        IN  frames[d].has =
                {object.members[p].key :
                    p \in {q \in 1 .. frames[d].pos - 1 :
                              /\ Known(object.model, object.members[q].key)
                              /\ Required(FieldFor(object.model, object.members[q].key))}}

\* A model is returned if and only if the caller's error says "none" and holds
\* no simdjson failure, whatever it held before the call.
ErrorTellsOutcome ==
    /\ pc = "model" => error = NoError
    /\ pc = "nullopt" => error.code # "none"
    /\ pc = "nullopt" =>
          (error.runtime <=> error.code \notin {"integer_overflow", "missing_required_field"})

\* Every call returns.
EveryCallReturns == <>(pc \in {"model", "nullopt"})

-----------------------------------------------------------------------------

Answer ==
    CASE pc = "model" -> [kind |-> "model", value |-> value]
      [] pc = "nullopt" -> [kind |-> "failure", error |-> Defect(error.code, error.path)]
      [] OTHER -> [kind |-> "pending"]

\* The generated decoder keeps the contract: one step of it answers the caller
\* with a decoding of a text without defects, or with a real defect.
Contract == INSTANCE DecodeContract WITH answer <- Answer

ImplementsContract == Contract!Spec
=============================================================================
