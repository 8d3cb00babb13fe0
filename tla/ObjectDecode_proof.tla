------------------------- MODULE ObjectDecode_proof -------------------------
(***************************************************************************)
(* Theorems about ObjectDecode, for every set of models, texts and earlier *)
(* errors.  The inductive invariant IInv says how the running decoders     *)
(* hang together, and that some set of objects has been decoded to its     *)
(* end: an object is in that set when its decoder has returned true, and   *)
(* everything the value holds comes from what those and the running        *)
(* decoders have read.                                                     *)
(***************************************************************************)
EXTENDS ObjectDecode, SequenceTheorems, WellFoundedInduction, TLAPS

\* The required keys an object shows before a position.
ShownKeys(object, pos) ==
    {object.members[p].key :
        p \in {q \in 1 .. pos - 1 :
                  /\ Known(object.model, object.members[q].key)
                  /\ Required(FieldFor(object.model, object.members[q].key))}}

\* The decoder of a frame is inside its object and has the flags of what it read.
FrameOK(t, frame) ==
    /\ frame.node \in DOMAIN t.objects
    /\ frame.pos <= Len(t.objects[frame.node].members) + 1
    /\ frame.has = ShownKeys(t.objects[frame.node], frame.pos)

\* The decoder of a frame is at the member whose object the next one decodes.
CallsDecoder(t, frame, callee) ==
    /\ frame.pos <= Len(t.objects[frame.node].members)
    /\ Opens(t, frame.node, frame.pos)
    /\ callee.node = t.objects[frame.node].members[frame.pos].value.v

StackOK(t, fs) ==
    /\ fs \in Seq(Frames)
    /\ \A d \in 1 .. Len(fs) : FrameOK(t, fs[d])
    /\ fs # <<>> => fs[1].node = 1
    /\ \A d \in 1 .. Len(fs) - 1 : CallsDecoder(t, fs[d], fs[d + 1])

\* Member p of object n has been read: all of the object has, or the decoder
\* that is at the object is past it.
IsRead(fs, done, n, p) ==
    n \in done \/ \E d \in 1 .. Len(fs) : fs[d].node = n /\ p < fs[d].pos

\* The scalars of a value are those of the text at their places.
TakenFrom(t, val) ==
    \A path \in DOMAIN val : \E np \in Scalars(t) :
        PathAt(t, np) = path /\ val[path] = MemberAt(t, np).value

\* The last of the decoders has gone past one more member.
OneFurther(fs, new) ==
    /\ Len(new) = Len(fs)
    /\ \A d \in 1 .. Len(fs) :
          /\ new[d].node = fs[d].node
          /\ new[d].pos = IF d = Len(fs) THEN fs[d].pos + 1 ELSE fs[d].pos

\* What has been read has no defect, and its scalars are what the value holds.
ReadSoFar(t, fs, val, done) ==
    /\ done \subseteq DOMAIN t.objects
    /\ \A n \in done : t.objects[n].closed /\ MissingKeys(t.objects[n]) = {}
    /\ \A np \in Recognised(t) : IsRead(fs, done, np[1], np[2]) =>
          /\ Faults(FieldAt(t, np), MemberAt(t, np).value) = {}
          /\ Opens(t, np[1], np[2]) => MemberAt(t, np).value.v \in done
    /\ \A np \in Scalars(t) : IsRead(fs, done, np[1], np[2]) => PathAt(t, np) \in DOMAIN val
    /\ TakenFrom(t, val)

\* What error holds at each stage of a call.
ErrorSoFar ==
    /\ pc \in {"decode", "tail", "model"} => error = NoError
    /\ pc \in {"unwind", "nullopt"} =>
          /\ error.code # "none"
          /\ error.runtime <=> error.code \notin {"integer_overflow", "missing_required_field"}

\* The stages of a call: decoders run in two of them, and only for an object.
Stages ==
    /\ pc \in {"decode", "unwind"} <=> frames # <<>>
    /\ pc \in {"decode", "unwind", "tail", "model"} => text.parses /\ text.root = "object"
    /\ pc = "model" => ~text.trailing

\* Before the answer there is a set of decoded objects; at the end it has the root.
DecodedSoFar ==
    pc \in {"decode", "tail", "model"} =>
        \E done : /\ ReadSoFar(text, frames, value, done)
                  /\ pc # "decode" => 1 \in done

\* std::nullopt comes with a defect of the text.
FailureIsReal == pc = "nullopt" => Defect(error.code, error.path) \in Defects(text)

IInv ==
    /\ TypeOK
    /\ StackOK(text, frames)
    /\ Stages
    /\ ErrorSoFar
    /\ PathWhileUnwinding
    /\ FailureIsReal
    /\ DecodedSoFar

-----------------------------------------------------------------------------
(* Models and texts.                                                       *)

\* The branch of the dispatch that a known key selects is one of the model's
\* fields, with that key.
LEMMA FieldFacts ==
    ASSUME NEW model \in Models, NEW key \in Keys, Known(model, key)
    PROVE  /\ FieldFor(model, key) \in FieldModels
           /\ FieldFor(model, key).key = key /\ ~FieldFor(model, key).ignored
           /\ \E k \in DOMAIN Fields[model] : FieldFor(model, key) = Fields[model][k]
<1> DEFINE k == CHOOSE k \in FieldOf(model, key) : TRUE
<1>1. k \in FieldOf(model, key)
  BY DEF Known
<1>2. k \in DOMAIN Fields[model] /\ Selects(Fields[model][k], key)
  BY <1>1 DEF FieldOf
<1>3. Fields[model] \in Seq(FieldModels)
  BY ModelsAssumption DEF ModelsAreWellFormed
<1>4. Fields[model][k] \in FieldModels
  BY <1>2, <1>3
<1>5. FieldFor(model, key) = Fields[model][k]
  BY DEF FieldFor
<1> HIDE DEF k
<1> QED
  BY <1>2, <1>4, <1>5 DEF Selects

\* A field that is not ignored is the one its key selects (JSON names are unique).
LEMMA OwnField ==
    ASSUME NEW model \in Models, NEW k \in DOMAIN Fields[model], ~Fields[model][k].ignored
    PROVE  /\ Known(model, Fields[model][k].key)
           /\ FieldFor(model, Fields[model][k].key) = Fields[model][k]
           /\ Fields[model][k].key \in Keys
<1> DEFINE key == Fields[model][k].key
           l == CHOOSE l \in FieldOf(model, key) : TRUE
<1>1. k \in FieldOf(model, key)
  BY DEF FieldOf, Selects
<1>2. l \in FieldOf(model, key)
  BY <1>1
<1>3. l \in DOMAIN Fields[model] /\ Fields[model][l].key = key /\ ~Fields[model][l].ignored
  BY <1>2 DEF FieldOf, Selects
<1>4. FieldFor(model, key) = Fields[model][l]
  BY DEF FieldFor
<1> HIDE DEF l
<1>5. l = k
  BY <1>3, ModelsAssumption DEF ModelsAreWellFormed
<1>6. Fields[model][k] \in FieldModels
  BY ModelsAssumption DEF ModelsAreWellFormed
<1> QED
  BY <1>1, <1>4, <1>5, <1>6 DEF Known, FieldModels

LEMMA TextFacts ==
    ASSUME NEW t \in Texts
    PROVE  /\ t.objects \in Seq(Objects) /\ Len(t.objects) \in Nat
           /\ DOMAIN t.objects = 1 .. Len(t.objects)
           /\ t.root \in {"object", "other", "broken"} /\ t.trailing \in BOOLEAN
           /\ t.parses \in BOOLEAN
           /\ t.parses /\ t.root = "object" =>
                 1 \in DOMAIN t.objects /\ t.objects[1].at = <<>>
<1>1. TextIsWellFormed(t)
  BY TextsAssumption
<1>2. t \in AllTexts
  BY <1>1 DEF TextIsWellFormed
<1>3. /\ t.objects \in Seq(Objects) /\ t.root \in {"object", "other", "broken"}
      /\ t.trailing \in BOOLEAN /\ t.parses \in BOOLEAN
  BY <1>2 DEF AllTexts
<1>4. Len(t.objects) \in Nat /\ DOMAIN t.objects = 1 .. Len(t.objects)
  BY <1>3
<1>5. t.parses /\ t.root = "object" => Len(t.objects) > 0 /\ t.objects[1].at = <<>>
  BY <1>1 DEF TextIsWellFormed
<1> QED
  BY <1>3, <1>4, <1>5

LEMMA ObjectFacts ==
    ASSUME NEW t \in Texts, NEW n \in DOMAIN t.objects
    PROVE  /\ t.objects[n].model \in Models /\ t.objects[n].at \in Seq(Keys)
           /\ Len(t.objects[n].members) \in Nat
           /\ DOMAIN t.objects[n].members = 1 .. Len(t.objects[n].members)
           /\ \A p \in DOMAIN t.objects[n].members :
                 /\ t.objects[n].members[p].key \in Keys
                 /\ t.objects[n].members[p].value \in Values
<1>1. t.objects[n] \in Objects
  BY TextFacts
<1>2. /\ t.objects[n].model \in Models /\ t.objects[n].at \in Seq(Keys)
      /\ t.objects[n].members \in Seq([key : Keys, value : Values])
  BY <1>1 DEF Objects
<1>3. /\ Len(t.objects[n].members) \in Nat
      /\ DOMAIN t.objects[n].members = 1 .. Len(t.objects[n].members)
  BY <1>2, LenProperties
<1>4. \A p \in 1 .. Len(t.objects[n].members) :
         t.objects[n].members[p] \in [key : Keys, value : Values]
  BY <1>2, ElementOfSeq
<1> QED
  BY <1>2, <1>3, <1>4

\* A position that is not past the last member of an object is one of a member.
LEMMA MemberPosition ==
    ASSUME NEW t \in Texts, NEW n \in DOMAIN t.objects, NEW p \in Nat \ {0},
           p <= Len(t.objects[n].members)
    PROVE  p \in DOMAIN t.objects[n].members
<1>1. PICK ms : ms = t.objects[n].members
  OBVIOUS
<1>2. Len(ms) \in Nat /\ DOMAIN ms = 1 .. Len(ms) /\ p <= Len(ms)
  BY <1>1, ObjectFacts
<1>3. p \in DOMAIN ms
  BY <1>2
<1> QED
  BY <1>1, <1>3

\* The object that a member opens, and the path to it.
LEMMA OpenedFacts ==
    ASSUME NEW t \in Texts, NEW n \in DOMAIN t.objects, NEW p \in DOMAIN t.objects[n].members,
           Opens(t, n, p)
    PROVE  LET member == t.objects[n].members[p]
           IN  /\ member.value.v \in DOMAIN t.objects
               /\ t.objects[member.value.v].at = Append(t.objects[n].at, member.key)
               /\ Known(t.objects[n].model, member.key)
               /\ Required(FieldFor(t.objects[n].model, member.key))
               /\ FieldFor(t.objects[n].model, member.key).kind = "object"
               /\ Faults(FieldFor(t.objects[n].model, member.key), member.value) = {}
<1> DEFINE member == t.objects[n].members[p]
           field == FieldFor(t.objects[n].model, member.key)
<1>1. /\ member.value.v \in n + 1 .. Len(t.objects)
      /\ t.objects[member.value.v].at = Append(t.objects[n].at, member.key)
  BY TextsAssumption DEF TextIsWellFormed
<1>2. Known(t.objects[n].model, member.key) /\ field.kind = "object" /\ member.value.kind = "object"
  BY DEF Opens
<1>3. ~field.ignored
  BY <1>2, ObjectFacts, FieldFacts
<1>4. member.value.v \in DOMAIN t.objects
  <2> HIDE DEF member
  <2>1. n \in Nat \ {0} /\ Len(t.objects) \in Nat /\ DOMAIN t.objects = 1 .. Len(t.objects)
    BY TextFacts
  <2> QED
    BY <1>1, <2>1
<1> HIDE DEF member, field
<1>5. Required(field) /\ Faults(field, member.value) = {}
  BY <1>2, <1>3 DEF Required, Faults
<1> QED
  BY <1>1, <1>2, <1>4, <1>5 DEF member, field

\* The getter and the range check of a field fail exactly on a fault of the
\* value, and with one of its codes (generate_scalar_decode).
LEMMA ConversionFaults ==
    ASSUME NEW model \in Models, NEW key \in Keys, Known(model, key), NEW v \in Values
    PROVE  LET code == Conversion(FieldFor(model, key), v)
           IN  /\ code = "none" => Faults(FieldFor(model, key), v) = {}
               /\ code # "none" => code \in Faults(FieldFor(model, key), v)
               /\ code \in Codes \ {"missing_required_field"}
<1> DEFINE f == FieldFor(model, key)
<1>1. PICK k \in DOMAIN Fields[model] : f = Fields[model][k]
  BY FieldFacts
<1>2. f \in FieldModels
  BY FieldFacts
<1>3. /\ f.kind = "signed" => Int64Min <= f.min /\ f.max <= Int64Max
      /\ f.kind = "unsigned" => f.max <= UInt64Max
  BY <1>1, LimitsAssumption
<1> HIDE DEF f
<1>4. f.kind \in FieldKinds /\ f.min \in Int /\ f.max \in Int /\ v.v \in Int
  BY <1>2 DEF FieldModels, Values
<1>5. CASE f.kind \in {"bool", "string", "object"}
  BY <1>5 DEF Conversion, Faults, Codes, f
<1>6. CASE f.kind = "signed"
  BY <1>3, <1>4, <1>6, RangesAssumption DEF Conversion, Faults, Codes, Int64, f
<1>7. CASE f.kind = "unsigned"
  BY <1>3, <1>4, <1>7, RangesAssumption DEF Conversion, Faults, Codes, UInt64, f
<1>8. CASE f.kind = "optional"
  BY <1>8 DEF Conversion, Faults, Codes, f
<1> QED
  BY <1>4, <1>5, <1>6, <1>7, <1>8 DEF FieldKinds

\* The positions whose key selects a field, one by one.
LEMMA RecognisedFacts ==
    ASSUME NEW t
    PROVE  /\ \A np \in Recognised(t) :
                 /\ np[1] \in DOMAIN t.objects /\ np[2] \in DOMAIN t.objects[np[1]].members
                 /\ Known(t.objects[np[1]].model, t.objects[np[1]].members[np[2]].key)
                 /\ np = <<np[1], np[2]>>
           /\ \A n \in DOMAIN t.objects : \A p \in DOMAIN t.objects[n].members :
                 Known(t.objects[n].model, t.objects[n].members[p].key)
                    => <<n, p>> \in Recognised(t)
BY DEF Recognised

-----------------------------------------------------------------------------
(* The stack of decoders.                                                  *)

LEMMA FrameFacts ==
    ASSUME NEW t \in Texts, NEW fs, StackOK(t, fs), NEW d \in 1 .. Len(fs)
    PROVE  /\ Len(fs) \in Nat \ {0} /\ DOMAIN fs = 1 .. Len(fs) /\ fs[d] \in Frames
           /\ fs[d].node \in DOMAIN t.objects /\ fs[d].node \in Nat \ {0}
           /\ fs[d].pos \in Nat \ {0} /\ fs[d].has \subseteq Keys
           /\ Len(t.objects[fs[d].node].members) \in Nat
           /\ fs[d].pos <= Len(t.objects[fs[d].node].members) + 1
           /\ fs[d].has = ShownKeys(t.objects[fs[d].node], fs[d].pos)
<1>1. fs \in Seq(Frames) /\ FrameOK(t, fs[d])
  BY DEF StackOK
<1>2. fs[d] \in Frames /\ Len(fs) \in Nat \ {0} /\ DOMAIN fs = 1 .. Len(fs)
  BY <1>1
<1>3. Len(t.objects[fs[d].node].members) \in Nat
  BY <1>1, ObjectFacts DEF FrameOK
<1> QED
  BY <1>1, <1>2, <1>3 DEF Frames, FrameOK

\* One more member adds its key, when it is a required one.
LEMMA ShownFurther ==
    ASSUME NEW object, NEW pos \in Nat \ {0}
    PROVE  /\ ShownKeys(object, 1) = {}
           /\ ShownKeys(object, pos + 1) =
                 ShownKeys(object, pos) \cup
                    (IF /\ Known(object.model, object.members[pos].key)
                        /\ Required(FieldFor(object.model, object.members[pos].key))
                     THEN {object.members[pos].key} ELSE {})
<1>1. 1 .. 1 - 1 = {} /\ 1 .. (pos + 1) - 1 = (1 .. pos - 1) \cup {pos}
  OBVIOUS
<1> QED
  BY <1>1, Zenon DEF ShownKeys

LEMMA Pushed ==
    ASSUME NEW t \in Texts, NEW fs, StackOK(t, fs), NEW frame, NEW callee,
           fs # <<>>, frame = fs[Len(fs)], CallsDecoder(t, frame, callee),
           callee.pos = 1, callee.has = {}, callee \in Frames
    PROVE  StackOK(t, Append(fs, callee))
<1> DEFINE L == Len(fs)
           new == Append(fs, callee)
<1>1. fs \in Seq(Frames) /\ L \in Nat \ {0} /\ L \in 1 .. L
  BY EmptySeq DEF StackOK
<1>2. /\ frame.node \in DOMAIN t.objects
      /\ frame.pos \in DOMAIN t.objects[frame.node].members
  <2>1. /\ frame.node \in DOMAIN t.objects /\ frame.pos \in Nat \ {0}
        /\ frame.pos <= Len(t.objects[frame.node].members)
    BY <1>1, FrameFacts DEF CallsDecoder
  <2> QED
    BY <2>1, ObjectFacts
<1>3. callee.node \in DOMAIN t.objects
  BY <1>2, OpenedFacts DEF CallsDecoder
<1>4. Len(t.objects[callee.node].members) \in Nat
  BY <1>3, ObjectFacts
<1>5. FrameOK(t, callee)
  BY <1>3, <1>4, ShownFurther DEF FrameOK
<1>6. /\ new \in Seq(Frames) /\ Len(new) = L + 1 /\ new[L + 1] = callee
      /\ \A d \in 1 .. L : new[d] = fs[d]
  BY <1>1
<1> HIDE DEF new, L
<1>7. \A d \in 1 .. L + 1 : FrameOK(t, new[d])
  BY <1>1, <1>5, <1>6 DEF StackOK, L
<1>8. new # <<>> /\ new[1].node = 1
  BY <1>1, <1>6 DEF StackOK
<1>9. ASSUME NEW d \in 1 .. L PROVE CallsDecoder(t, new[d], new[d + 1])
  <2>1. CASE d = L
    BY <1>1, <1>6, <2>1 DEF L
  <2>2. CASE d # L
    <3>1. d \in 1 .. L - 1 /\ d \in 1 .. L /\ d + 1 \in 1 .. L
      BY <1>1, <2>2
    <3> QED
      BY <1>6, <3>1 DEF StackOK, L
  <2> QED
    BY <2>1, <2>2
<1> QED
  <2>1. (L + 1) - 1 = L
    BY <1>1
  <2> QED
    BY <1>6, <1>7, <1>8, <1>9, <2>1 DEF StackOK, new

\* The last decoder goes on with the next member of its object.
LEMMA Advanced ==
    ASSUME NEW t \in Texts, NEW fs, StackOK(t, fs), fs # <<>>, NEW frame, NEW flags,
           frame = fs[Len(fs)], frame.pos <= Len(t.objects[frame.node].members),
           ShownKeys(t.objects[frame.node], frame.pos + 1) = frame.has \cup flags,
           flags \subseteq Keys,
           NEW new, new = [fs EXCEPT ![Len(fs)].pos = @ + 1, ![Len(fs)].has = @ \cup flags]
    PROVE  StackOK(t, new) /\ OneFurther(fs, new)
<1> DEFINE L == Len(fs)
           e == [frame EXCEPT !.pos = @ + 1, !.has = @ \cup flags]
<1>1. fs \in Seq(Frames) /\ L \in Nat \ {0} /\ L \in 1 .. L
  BY EmptySeq DEF StackOK
<1>2. /\ frame \in Frames /\ frame.node \in DOMAIN t.objects /\ frame.pos \in Nat \ {0}
      /\ Len(t.objects[frame.node].members) \in Nat
  BY <1>1, FrameFacts
<1>3. /\ e \in Frames /\ e.node = frame.node /\ e.pos = frame.pos + 1
      /\ e.has = frame.has \cup flags
  <2>1. frame.has \cup flags \in SUBSET Keys /\ frame.pos + 1 \in Nat \ {0}
    BY <1>2 DEF Frames
  <2> QED
    BY <1>2, <2>1 DEF Frames
<1>4. new = [fs EXCEPT ![L] = e]
  BY <1>1, <1>2 DEF Frames
<1> HIDE DEF e
<1>5. /\ new \in Seq(Frames) /\ Len(new) = L
      /\ \A d \in 1 .. L : new[d] = IF d = L THEN e ELSE fs[d]
  <2>1. /\ [fs EXCEPT ![L] = e] \in Seq(Frames) /\ Len([fs EXCEPT ![L] = e]) = L
        /\ \A d \in 1 .. L : [fs EXCEPT ![L] = e][d] = IF d = L THEN e ELSE fs[d]
    BY <1>1, <1>3, ExceptSeq
  <2> QED
    BY <1>4, <2>1
<1> HIDE DEF L
<1>6. \A d \in 1 .. L : new[d].node = fs[d].node
  BY <1>3, <1>5 DEF L
<1>7. FrameOK(t, e)
  BY <1>2, <1>3 DEF FrameOK
<1>8. \A d \in 1 .. L : FrameOK(t, new[d])
  BY <1>5, <1>7 DEF StackOK, L
<1>9. new # <<>> /\ new[1].node = 1
  BY <1>1, <1>5, <1>6 DEF StackOK
<1>10. ASSUME NEW d \in 1 .. L - 1 PROVE CallsDecoder(t, new[d], new[d + 1])
  <2>1. CallsDecoder(t, fs[d], fs[d + 1])
    BY <1>10 DEF StackOK, L
  <2>2. d \in 1 .. L /\ d + 1 \in 1 .. L /\ d # L
    BY <1>1
  <2>3. new[d] = fs[d] /\ new[d + 1].node = fs[d + 1].node
    BY <1>5, <1>6, <2>2
  <2> QED
    BY <2>1, <2>3 DEF CallsDecoder
<1>11. StackOK(t, new)
  BY <1>5, <1>8, <1>9, <1>10 DEF StackOK
<1>12. \A d \in 1 .. L : new[d].pos = IF d = L THEN fs[d].pos + 1 ELSE fs[d].pos
  BY <1>3, <1>5 DEF L
<1> QED
  BY <1>5, <1>6, <1>11, <1>12 DEF OneFurther, L

\* The last decoder returns.
LEMMA Popped ==
    ASSUME NEW t \in Texts, NEW fs, StackOK(t, fs), fs # <<>>
    PROVE  LET rest == SubSeq(fs, 1, Len(fs) - 1)
           IN  /\ StackOK(t, rest) /\ Len(rest) = Len(fs) - 1 /\ Len(rest) \in Nat
               /\ \A d \in 1 .. Len(fs) - 1 : rest[d] = fs[d]
               /\ Len(fs) = 1 => rest = <<>>
<1> DEFINE L == Len(fs)
           rest == SubSeq(fs, 1, L - 1)
<1>1. fs \in Seq(Frames) /\ L \in Nat \ {0}
  BY EmptySeq DEF StackOK
<1>2. \A d \in 1 .. L - 1 : fs[d] \in Frames
  BY <1>1
<1>3. /\ rest \in Seq(Frames) /\ Len(rest) = L - 1 /\ \A d \in 1 .. L - 1 : rest[d] = fs[d]
  <2> HIDE DEF L
  <2>1. /\ SubSeq(fs, 1, L - 1) \in Seq(Frames)
        /\ Len(SubSeq(fs, 1, L - 1)) = IF 1 <= L - 1 THEN (L - 1) - 1 + 1 ELSE 0
        /\ \A d \in 1 .. (L - 1) - 1 + 1 : SubSeq(fs, 1, L - 1)[d] = fs[1 + d - 1]
    BY <1>1, <1>2, SubSeqProperties
  <2> QED
    BY <1>1, <2>1
<1> HIDE DEF rest, L
<1>4. \A d \in 1 .. L - 1 : FrameOK(t, rest[d])
  BY <1>1, <1>3 DEF StackOK, L
<1>5. rest # <<>> => rest[1].node = 1
  <2>1. rest # <<>> => 1 \in 1 .. L - 1
    BY <1>1, <1>3
  <2> QED
    BY <1>1, <1>3, <2>1, EmptySeq DEF StackOK
<1>6. ASSUME NEW d \in 1 .. (L - 1) - 1 PROVE CallsDecoder(t, rest[d], rest[d + 1])
  <2>1. d \in 1 .. L - 1 /\ d + 1 \in 1 .. L - 1
    BY <1>1
  <2> QED
    BY <1>3, <2>1 DEF StackOK, L
<1>7. L = 1 => rest = <<>>
  BY <1>1, <1>3, EmptySeq
<1> QED
  BY <1>1, <1>3, <1>4, <1>5, <1>6, <1>7 DEF StackOK, rest, L

-----------------------------------------------------------------------------
(* What has been read.                                                     *)

\* At the end of an object, the required fields without a flag are the missing ones.
LEMMA UnsetIsMissing ==
    ASSUME NEW t \in Texts, NEW n \in DOMAIN t.objects, NEW k \in DOMAIN Fields[t.objects[n].model],
           Required(Fields[t.objects[n].model][k]),
           NEW pos \in Nat, pos > Len(t.objects[n].members), pos <= Len(t.objects[n].members) + 1
    PROVE  Fields[t.objects[n].model][k].key \notin ShownKeys(t.objects[n], pos)
              <=> ~HasMember(t.objects[n], Fields[t.objects[n].model][k].key)
<1> DEFINE object == t.objects[n]
           field == Fields[object.model][k]
<1>1. /\ object.model \in Models /\ Len(object.members) \in Nat
      /\ DOMAIN object.members = 1 .. Len(object.members)
  BY ObjectFacts
<1>2. ~field.ignored
  BY DEF Required
<1>3. Known(object.model, field.key) /\ FieldFor(object.model, field.key) = field
  BY <1>1, <1>2, OwnField
<1>4. Required(field)
  OBVIOUS
<1>5. 1 .. pos - 1 = DOMAIN object.members
  BY <1>1
<1> HIDE DEF object, field
<1>6. ASSUME NEW p \in DOMAIN object.members, object.members[p].key = field.key
      PROVE  field.key \in ShownKeys(object, pos)
  BY <1>3, <1>4, <1>5, <1>6 DEF ShownKeys
<1>7. ASSUME field.key \in ShownKeys(object, pos) PROVE HasMember(object, field.key)
  BY <1>5, <1>7 DEF ShownKeys, HasMember
<1> QED
  BY <1>6, <1>7 DEF HasMember, object, field

\* A nested decoder begins: nothing more has been read.
LEMMA ReadOnPush ==
    ASSUME NEW t \in Texts, NEW fs, StackOK(t, fs), NEW val, NEW done, ReadSoFar(t, fs, val, done),
           NEW callee, callee.pos = 1
    PROVE  ReadSoFar(t, Append(fs, callee), val, done)
<1> DEFINE new == Append(fs, callee)
<1>1. fs \in Seq(Frames) /\ Len(fs) \in Nat
  BY DEF StackOK
<1>2. Len(new) = Len(fs) + 1 /\ \A d \in 1 .. Len(fs) + 1 : new[d] = IF d = Len(fs) + 1 THEN callee ELSE fs[d]
  BY <1>1
<1> HIDE DEF new
<1>3. ASSUME NEW np \in Recognised(t), IsRead(new, done, np[1], np[2])
      PROVE  IsRead(fs, done, np[1], np[2])
  <2>1. np[2] \in Nat \ {0}
    <3>1. np[1] \in DOMAIN t.objects /\ np[2] \in DOMAIN t.objects[np[1]].members
      BY RecognisedFacts
    <3> QED
      BY <3>1, ObjectFacts
  <2>2. SUFFICES ASSUME NEW d \in 1 .. Len(fs) + 1, new[d].node = np[1], np[2] < new[d].pos
                 PROVE  d \in 1 .. Len(fs) /\ new[d] = fs[d]
    BY <1>2, <1>3 DEF IsRead
  <2>3. d # Len(fs) + 1
    BY <1>2, <2>1, <2>2
  <2> QED
    BY <1>1, <1>2, <2>3
<1>4. Scalars(t) \subseteq Recognised(t)
  BY DEF Scalars
<1> QED
  BY <1>3, <1>4 DEF ReadSoFar, new

\* The last decoder is at the end of its object, which has no defect of its own:
\* the object is decoded.
LEMMA ReadOnPop ==
    ASSUME NEW t \in Texts, NEW fs, StackOK(t, fs), fs # <<>>,
           NEW val, NEW done, ReadSoFar(t, fs, val, done),
           NEW n, n = fs[Len(fs)].node, fs[Len(fs)].pos > Len(t.objects[n].members),
           t.objects[n].closed, MissingKeys(t.objects[n]) = {}
    PROVE  ReadSoFar(t, SubSeq(fs, 1, Len(fs) - 1), val, done \cup {n})
<1> DEFINE rest == SubSeq(fs, 1, Len(fs) - 1)
           more == done \cup {n}
<1>1. Len(fs) \in Nat \ {0} /\ Len(fs) \in 1 .. Len(fs)
  BY EmptySeq DEF StackOK
<1>2. /\ n \in DOMAIN t.objects /\ fs[Len(fs)].pos \in Nat
      /\ Len(t.objects[n].members) \in Nat
  BY <1>1, FrameFacts
<1>3. Len(rest) = Len(fs) - 1 /\ \A d \in 1 .. Len(fs) - 1 : rest[d] = fs[d]
  BY Popped
<1> HIDE DEF rest
<1>4. ASSUME NEW np \in Recognised(t), IsRead(rest, more, np[1], np[2])
      PROVE  IsRead(fs, done, np[1], np[2])
  <2>1. CASE np[1] = n
    <3>1. np[2] \in 1 .. Len(t.objects[n].members)
      BY <1>2, <2>1, RecognisedFacts, ObjectFacts
    <3>2. np[2] < fs[Len(fs)].pos
      BY <1>2, <3>1
    <3> QED
      BY <1>1, <2>1, <3>2 DEF IsRead
  <2>2. CASE np[1] # n
    <3>1. CASE np[1] \in done
      BY <3>1 DEF IsRead
    <3>2. CASE np[1] \notin done
      <4>1. PICK d \in 1 .. Len(rest) : rest[d].node = np[1] /\ np[2] < rest[d].pos
        BY <1>4, <2>2, <3>2 DEF IsRead
      <4>2. d \in 1 .. Len(fs) - 1 /\ d \in 1 .. Len(fs)
        BY <1>1, <1>3, <4>1
      <4> QED
        BY <1>3, <4>1, <4>2 DEF IsRead
    <3> QED
      BY <3>1, <3>2
  <2> QED
    BY <2>1, <2>2
<1>5. Scalars(t) \subseteq Recognised(t)
  BY DEF Scalars
<1>6. /\ more \subseteq DOMAIN t.objects
      /\ \A x \in more : t.objects[x].closed /\ MissingKeys(t.objects[x]) = {}
  BY <1>2 DEF ReadSoFar
<1>7. \A np \in Recognised(t) : IsRead(rest, more, np[1], np[2]) =>
          /\ Faults(FieldAt(t, np), MemberAt(t, np).value) = {}
          /\ Opens(t, np[1], np[2]) => MemberAt(t, np).value.v \in more
  BY <1>4 DEF ReadSoFar
<1>8. \A np \in Scalars(t) : IsRead(rest, more, np[1], np[2]) => PathAt(t, np) \in DOMAIN val
  BY <1>4, <1>5 DEF ReadSoFar
<1> HIDE DEF more
<1> QED
  BY <1>6, <1>7, <1>8 DEF ReadSoFar, rest, more

\* The last decoder goes past a member: if its key is known, the value had no
\* fault, its object is decoded, and its scalar is in the value.
LEMMA ReadOnAdvance ==
    ASSUME NEW t \in Texts, NEW fs, StackOK(t, fs), fs # <<>>,
           NEW val, NEW done, ReadSoFar(t, fs, val, done),
           NEW n, n = fs[Len(fs)].node, NEW p, p = fs[Len(fs)].pos,
           NEW new, OneFurther(fs, new),
           NEW val2, DOMAIN val \subseteq DOMAIN val2, TakenFrom(t, val2),
           <<n, p>> \in Recognised(t) =>
              /\ Faults(FieldAt(t, <<n, p>>), MemberAt(t, <<n, p>>).value) = {}
              /\ Opens(t, n, p) => MemberAt(t, <<n, p>>).value.v \in done,
           <<n, p>> \in Scalars(t) => PathAt(t, <<n, p>>) \in DOMAIN val2
    PROVE  ReadSoFar(t, new, val2, done)
<1>1. Len(fs) \in Nat \ {0} /\ Len(fs) \in 1 .. Len(fs)
  BY EmptySeq DEF StackOK
<1>2. \A d \in 1 .. Len(fs) : fs[d].pos \in Nat
  BY FrameFacts
<1>3. ASSUME NEW np \in Recognised(t), IsRead(new, done, np[1], np[2]), np # <<n, p>>
      PROVE  IsRead(fs, done, np[1], np[2])
  <2>1. np[2] \in Nat /\ np = <<np[1], np[2]>>
    <3>1. /\ np[1] \in DOMAIN t.objects /\ np[2] \in DOMAIN t.objects[np[1]].members
          /\ np = <<np[1], np[2]>>
      BY RecognisedFacts
    <3> QED
      BY <3>1, ObjectFacts
  <2>2. SUFFICES ASSUME NEW d \in 1 .. Len(fs), new[d].node = np[1], np[2] < new[d].pos
                 PROVE  fs[d].node = np[1] /\ np[2] < fs[d].pos
    BY <1>3 DEF IsRead, OneFurther
  <2>3. CASE d = Len(fs)
    <3>1. np[2] # p
      BY <1>3, <2>1, <2>2, <2>3 DEF OneFurther
    <3> QED
      BY <1>2, <2>1, <2>2, <2>3, <3>1 DEF OneFurther
  <2>4. CASE d # Len(fs)
    BY <2>2, <2>4 DEF OneFurther
  <2> QED
    BY <2>3, <2>4
<1>4. ASSUME NEW np \in Recognised(t), IsRead(new, done, np[1], np[2])
      PROVE  /\ Faults(FieldAt(t, np), MemberAt(t, np).value) = {}
             /\ Opens(t, np[1], np[2]) => MemberAt(t, np).value.v \in done
  <2>1. CASE np = <<n, p>>
    BY <1>4, <2>1
  <2>2. CASE np # <<n, p>>
    BY <1>3, <1>4, <2>2 DEF ReadSoFar
  <2> QED
    BY <2>1, <2>2
<1>5. ASSUME NEW np \in Scalars(t), IsRead(new, done, np[1], np[2])
      PROVE  PathAt(t, np) \in DOMAIN val2
  <2>1. CASE np = <<n, p>>
    BY <1>5, <2>1
  <2>2. CASE np # <<n, p>>
    <3>1. np \in Recognised(t)
      BY DEF Scalars
    <3>2. PathAt(t, np) \in DOMAIN val
      BY <1>3, <1>5, <2>2, <3>1 DEF ReadSoFar
    <3> QED
      BY <3>2
  <2> QED
    BY <2>1, <2>2
<1> QED
  BY <1>4, <1>5 DEF ReadSoFar

\* When the root is decoded, so is every object: each other one is opened by a
\* member of an earlier one.
LEMMA AllDecoded ==
    ASSUME NEW t \in Texts, NEW fs, NEW val, NEW done, ReadSoFar(t, fs, val, done), 1 \in done
    PROVE  done = DOMAIN t.objects
<1> DEFINE left == DOMAIN t.objects \ done
<1>1. TextIsWellFormed(t) /\ DOMAIN t.objects = 1 .. Len(t.objects) /\ Len(t.objects) \in Nat
  BY TextsAssumption, TextFacts
<1>2. SUFFICES ASSUME left # {} PROVE FALSE
  BY DEF ReadSoFar
<1>3. PICK c \in left : \A m \in left : m >= c
  <2>1. left \in SUBSET Nat
    BY <1>1
  <2> HIDE DEF left
  <2> DEFINE R == OpToRel(<, Nat)
  <2>2. IsWellFoundedOn(R, Nat)
    BY NatLessThanWellFounded
  <2>3. \A x, y \in Nat : x < y => <<x, y>> \in R
    BY DEF OpToRel
  <2> HIDE DEF R
  <2>4. PICK c \in left : \A m \in left : ~(<<m, c>> \in R)
    BY <1>2, <2>1, <2>2, WFMin
  <2>5. ASSUME NEW m \in left PROVE m >= c
    <3>1. m \in Nat /\ c \in Nat /\ ~(m < c)
      BY <2>1, <2>3, <2>4
    <3> QED
      BY <3>1
  <2> QED
    BY <2>5
<1>4. PICK n \in 1 .. c - 1 : \E p \in DOMAIN t.objects[n].members :
         Opens(t, n, p) /\ t.objects[n].members[p].value.v = c
  BY <1>1, <1>3 DEF TextIsWellFormed
<1>5. PICK p \in DOMAIN t.objects[n].members :
         Opens(t, n, p) /\ t.objects[n].members[p].value.v = c
  BY <1>4
<1>6. c \in 1 .. Len(t.objects) /\ n \in DOMAIN t.objects /\ ~(n >= c)
  BY <1>1, <1>3, <1>4
<1>7. n \in done
  BY <1>3, <1>6
<1>8. <<n, p>> \in Recognised(t) /\ MemberAt(t, <<n, p>>) = t.objects[n].members[p]
  BY <1>5, <1>6, RecognisedFacts DEF Opens, MemberAt
<1>9. MemberAt(t, <<n, p>>).value.v \in done
  BY <1>5, <1>7, <1>8 DEF ReadSoFar, IsRead
<1> QED
  BY <1>3, <1>5, <1>8, <1>9

LEMMA DefectSources ==
    ASSUME NEW t, t.parses, t.root = "object"
    PROVE  Defects(t) = MemberDefects(t) \cup BreakDefects(t) \cup AbsenceDefects(t) \cup RestDefects(t)
BY DEF Defects

\* A text whose root is decoded has no defect but what may follow the root, and
\* the value is a decoding of it.
LEMMA DecodedText ==
    ASSUME NEW t \in Texts, t.parses, t.root = "object", ~t.trailing,
           NEW fs, NEW val, NEW done, ReadSoFar(t, fs, val, done), 1 \in done
    PROVE  Defects(t) = {} /\ IsDecoding(t, val)
<1>1. done = DOMAIN t.objects
  BY AllDecoded
<1>2. \A np \in Recognised(t) : IsRead(fs, done, np[1], np[2])
  BY <1>1, RecognisedFacts DEF IsRead
<1>3. \A np \in Recognised(t) : Faults(FieldAt(t, np), MemberAt(t, np).value) = {}
  BY <1>2 DEF ReadSoFar
<1>4. \A n \in DOMAIN t.objects : t.objects[n].closed /\ MissingKeys(t.objects[n]) = {}
  BY <1>1 DEF ReadSoFar
<1>5. Defects(t) = {}
  <2>1. MemberDefects(t) = {}
    BY <1>3, Zenon DEF MemberDefects
  <2>2. BreakDefects(t) = {}
    BY <1>4, Zenon DEF BreakDefects
  <2>3. AbsenceDefects(t) = {}
    BY <1>4, Zenon DEF AbsenceDefects
  <2> QED
    BY <2>1, <2>2, <2>3, DefectSources DEF RestDefects
<1>6. DOMAIN val = ScalarPaths(t)
  <2>1. Scalars(t) \subseteq Recognised(t)
    BY DEF Scalars
  <2>2. \A np \in Scalars(t) : PathAt(t, np) \in DOMAIN val
    BY <1>2, <2>1 DEF ReadSoFar
  <2>3. \A path \in DOMAIN val : \E np \in Scalars(t) : PathAt(t, np) = path
    BY DEF ReadSoFar, TakenFrom
  <2> QED
    BY <2>2, <2>3 DEF ScalarPaths
<1> QED
  BY <1>5, <1>6 DEF ReadSoFar, TakenFrom, IsDecoding

-----------------------------------------------------------------------------
(* Defects, by the way they are found.                                     *)

LEMMA FaultIsDefect ==
    ASSUME NEW t, t.parses, t.root = "object",
           NEW np \in Recognised(t), NEW code \in Faults(FieldAt(t, np), MemberAt(t, np).value)
    PROVE  Defect(code, PathAt(t, np)) \in Defects(t)
<1>1. Defect(code, PathAt(t, np))
         \in {Defect(c, PathAt(t, np)) : c \in Faults(FieldAt(t, np), MemberAt(t, np).value)}
  OBVIOUS
<1>2. Defect(code, PathAt(t, np)) \in MemberDefects(t)
  BY <1>1 DEF MemberDefects
<1> QED
  BY <1>2, DefectSources

LEMMA BreakIsDefect ==
    ASSUME NEW t, t.parses, t.root = "object", NEW n \in DOMAIN t.objects, ~t.objects[n].closed
    PROVE  Defect("syntax_error", t.objects[n].at) \in Defects(t)
<1>1. Defect("syntax_error", t.objects[n].at) \in BreakDefects(t)
  BY Zenon DEF BreakDefects
<1> QED
  BY <1>1, DefectSources

LEMMA AbsenceIsDefect ==
    ASSUME NEW t, t.parses, t.root = "object", NEW n \in DOMAIN t.objects, t.objects[n].closed,
           NEW key \in MissingKeys(t.objects[n])
    PROVE  Defect("missing_required_field", Append(t.objects[n].at, key)) \in Defects(t)
<1>1. Defect("missing_required_field", Append(t.objects[n].at, key))
         \in {Defect("missing_required_field", Append(t.objects[n].at, k)) :
                k \in MissingKeys(t.objects[n])}
  OBVIOUS
<1>2. Defect("missing_required_field", Append(t.objects[n].at, key)) \in AbsenceDefects(t)
  BY <1>1 DEF AbsenceDefects
<1> QED
  BY <1>2, DefectSources

LEMMA RestIsDefect ==
    ASSUME NEW t, t.parses, t.root = "object", t.trailing
    PROVE  Defect("trailing_content", <<>>) \in Defects(t)
<1>1. Defect("trailing_content", <<>>) \in RestDefects(t)
  BY DEF RestDefects
<1> QED
  BY <1>1, DefectSources

\* The path of a member, made in one step or in two.
LEMMA PathFacts ==
    ASSUME NEW at \in Seq(Keys), NEW key \in Keys, NEW path \in Seq(Keys)
    PROVE  /\ Append(<<>>, key) \in Seq(Keys)
           /\ at \o Append(<<>>, key) = Append(at, key)
           /\ <<key>> \o path \in Seq(Keys)
           /\ at \o (<<key>> \o path) = Append(at, key) \o path
           /\ at \o <<>> = at /\ <<>> \o path = path
<1>1. <<key>> \in Seq(Keys) /\ Append(<<>>, key) = <<key>> /\ at \o <<key>> = Append(at, key)
  OBVIOUS
<1>2. (at \o <<key>>) \o path = at \o (<<key>> \o path)
  BY <1>1, ConcatAssociative
<1>3. at \o <<>> = at /\ <<>> \o path = path
  BY ConcatEmptySeq
<1>4. <<key>> \o path \in Seq(Keys)
  BY <1>1, ConcatProperties
<1> QED
  BY <1>1, <1>2, <1>3, <1>4

-----------------------------------------------------------------------------
(* The invariant.                                                          *)

\* The decoder that runs, and its object.
LEMMA Here ==
    ASSUME IInv, pc \in {"decode", "unwind"}
    PROVE  /\ text \in Texts /\ text.parses /\ text.root = "object"
           /\ frames # <<>> /\ StackOK(text, frames)
           /\ Depth \in Nat \ {0} /\ Depth \in 1 .. Depth /\ Frame \in Frames
           /\ Frame.node \in DOMAIN text.objects
           /\ Frame.pos \in Nat \ {0} /\ Frame.pos <= Len(Object.members) + 1
           /\ Frame.has = ShownKeys(Object, Frame.pos)
           /\ Object.model \in Models /\ Object.at \in Seq(Keys)
           /\ Len(Object.members) \in Nat /\ DOMAIN Object.members = 1 .. Len(Object.members)
<1>1. /\ text \in Texts /\ text.parses /\ text.root = "object"
      /\ frames # <<>> /\ StackOK(text, frames)
  BY DEF IInv, TypeOK, Stages
<1>2. Len(frames) \in Nat \ {0} /\ Len(frames) \in 1 .. Len(frames)
  BY <1>1, EmptySeq DEF StackOK
<1>3. /\ Frame \in Frames /\ Frame.node \in DOMAIN text.objects
      /\ Frame.pos \in Nat \ {0} /\ Frame.pos <= Len(Object.members) + 1
      /\ Frame.has = ShownKeys(Object, Frame.pos)
  BY <1>1, <1>2, FrameFacts DEF Frame, Object, Depth
<1>4. /\ Object.model \in Models /\ Object.at \in Seq(Keys)
      /\ Len(Object.members) \in Nat /\ DOMAIN Object.members = 1 .. Len(Object.members)
  BY <1>1, <1>3, ObjectFacts DEF Object
<1> QED
  BY <1>1, <1>2, <1>3, <1>4 DEF Depth

\* The member a decoder is at.
LEMMA HereMember ==
    ASSUME IInv, AtMember
    PROVE  /\ Frame.pos \in DOMAIN Object.members
           /\ Member.key \in Keys /\ Member.value \in Values
           /\ <<Frame.node, Frame.pos>> \in Recognised(text) <=> Known(Object.model, Member.key)
           /\ MemberAt(text, <<Frame.node, Frame.pos>>) = Member
           /\ FieldAt(text, <<Frame.node, Frame.pos>>) = Field
           /\ PathAt(text, <<Frame.node, Frame.pos>>) = Place
<1>1. Frame.pos \in DOMAIN Object.members /\ Frame.node \in DOMAIN text.objects /\ text \in Texts
  BY Here DEF AtMember
<1>2. Member.key \in Keys /\ Member.value \in Values
  BY <1>1, ObjectFacts DEF Member, Object
<1>3. <<Frame.node, Frame.pos>> \in Recognised(text) <=> Known(Object.model, Member.key)
  BY <1>1, RecognisedFacts DEF Member, Object
<1>4. /\ MemberAt(text, <<Frame.node, Frame.pos>>) = Member
      /\ FieldAt(text, <<Frame.node, Frame.pos>>) = Field
      /\ PathAt(text, <<Frame.node, Frame.pos>>) = Place
  BY DEF MemberAt, FieldAt, PathAt, Member, Object, Field, Place
<1> QED
  BY <1>1, <1>2, <1>3, <1>4

LEMMA InitialInvariant == Init => IInv
<1> SUFFICES ASSUME Init PROVE IInv
  OBVIOUS
<1>1. Len(<<>>) = 0 /\ <<>> \in Seq(Frames) /\ DOMAIN <<>> = {}
  OBVIOUS
<1>2. TypeOK
  BY <1>1, EarlierErrorsAssumption DEF Init, TypeOK
<1>3. StackOK(text, frames)
  BY <1>1 DEF Init, StackOK
<1> QED
  BY <1>2, <1>3 DEF Init, IInv, Stages, ErrorSoFar, PathWhileUnwinding, FailureIsReal, DecodedSoFar

\* A step after which a decoder runs on.
LEMMA Decoding ==
    ASSUME IInv, text' = text, text.parses, text.root = "object", error' = NoError,
           pc' = "decode", frames' # <<>>, StackOK(text, frames'),
           NEW done, ReadSoFar(text, frames', value', done)
    PROVE  IInv'
<1>1. text \in Texts
  BY DEF IInv, TypeOK
<1>2. \A place \in DOMAIN value' : value'[place] \in Values
  <2>1. SUFFICES ASSUME NEW place \in DOMAIN value' PROVE value'[place] \in Values
    OBVIOUS
  <2>2. PICK np \in Scalars(text) : value'[place] = MemberAt(text, np).value
    BY <2>1 DEF ReadSoFar, TakenFrom
  <2>3. np[1] \in DOMAIN text.objects /\ np[2] \in DOMAIN text.objects[np[1]].members
    BY RecognisedFacts DEF Scalars
  <2> QED
    BY <1>1, <2>2, <2>3, ObjectFacts DEF MemberAt
<1>3. NoError \in DecodeErrors
  BY DEF NoError, DecodeErrors, Codes
<1>4. /\ frames' \in Seq(Frames)
      /\ \A d \in DOMAIN frames' :
            /\ frames'[d].node \in DOMAIN text.objects
            /\ frames'[d].pos <= Len(text.objects[frames'[d].node].members) + 1
  BY DEF StackOK, FrameOK
<1>5. TypeOK'
  BY <1>1, <1>2, <1>3, <1>4 DEF TypeOK
<1> QED
  BY <1>5 DEF IInv, Stages, ErrorSoFar, PathWhileUnwinding, FailureIsReal, DecodedSoFar

\* A step with which a decoder fails: what it leaves in the error is a defect
\* when the path is put behind that of its object.
LEMMA Failing ==
    ASSUME IInv, pc = "decode", text' = text, frames' = frames,
           NEW code \in Codes \ {"none"}, NEW path \in Seq(Keys), NEW runtime \in BOOLEAN,
           Fail(code, path, runtime),
           runtime <=> code \notin {"integer_overflow", "missing_required_field"},
           Defect(code, Object.at \o path) \in Defects(text),
           \A place \in DOMAIN value' : value'[place] \in Values
    PROVE  IInv'
<1>1. error = NoError
  BY DEF IInv, ErrorSoFar
<1>2. error' = [code |-> code, path |-> path, runtime |-> runtime] /\ pc' = "unwind"
  <2>1. error.runtime = FALSE
    BY <1>1 DEF NoError
  <2>2. (error.runtime \/ runtime) = runtime
    BY <2>1
  <2> QED
    BY <2>2 DEF Fail
<1>3. error' \in DecodeErrors
  BY <1>2 DEF DecodeErrors
<1>4. TypeOK'
  BY <1>2, <1>3 DEF IInv, TypeOK
<1>5. StackOK(text, frames)' /\ Stages'
  BY <1>2 DEF IInv, Stages
<1>6. ErrorSoFar' /\ FailureIsReal' /\ DecodedSoFar'
  BY <1>2 DEF ErrorSoFar, FailureIsReal, DecodedSoFar
<1>7. PathWhileUnwinding'
  BY <1>2 DEF PathWhileUnwinding, Object, Frame, Depth
<1> QED
  BY <1>4, <1>5, <1>6, <1>7 DEF IInv

-----------------------------------------------------------------------------
(* The steps.                                                              *)

\* iterate() or get_object() fails, the root is no object (from_json).
LEMMA RootRefused == ASSUME IInv, RefuseRoot PROVE IInv'
<1>1. /\ pc = "entry" /\ text' = text /\ frames' = frames /\ value' = value /\ pc' = "nullopt"
      /\ ~(text.parses /\ text.root = "object")
  BY DEF RefuseRoot
<1>2. frames = <<>> /\ text \in Texts
  BY <1>1 DEF IInv, Stages, TypeOK
<1>3. /\ error'.path = <<>> /\ error'.runtime = TRUE
      /\ error'.code = IF text.parses /\ text.root = "other" THEN "expected_object" ELSE "syntax_error"
      /\ error' \in DecodeErrors
  BY DEF RefuseRoot, DecodeErrors, Codes
<1>4. Defect(error'.code, error'.path) \in Defects(text)
  BY <1>1, <1>2, <1>3, TextFacts DEF Defects
<1>5. TypeOK'
  BY <1>1, <1>3 DEF IInv, TypeOK
<1>6. Stages' /\ StackOK(text, frames)'
  BY <1>1, <1>2 DEF IInv, Stages
<1>7. ErrorSoFar'
  BY <1>1, <1>3 DEF ErrorSoFar
<1> QED
  BY <1>1, <1>4, <1>5, <1>6, <1>7 DEF IInv, PathWhileUnwinding, FailureIsReal, DecodedSoFar

\* The decoder of the root begins.
LEMMA RootOpened == ASSUME IInv, OpenRoot PROVE IInv'
<1>1. /\ pc = "entry" /\ text' = text /\ frames' = <<NewFrame(1)>> /\ value' = <<>>
      /\ pc' = "decode" /\ error' = NoError /\ text.parses /\ text.root = "object"
  BY DEF OpenRoot
<1>2. text \in Texts /\ 1 \in DOMAIN text.objects
  BY <1>1, TextFacts DEF IInv, TypeOK
<1>3. NewFrame(1) \in Frames /\ NewFrame(1).node = 1 /\ NewFrame(1).pos = 1 /\ NewFrame(1).has = {}
  BY DEF NewFrame, Frames
<1>4. /\ frames' \in Seq(Frames) /\ Len(frames') = 1 /\ frames'[1] = NewFrame(1)
      /\ frames' # <<>> /\ 1 .. Len(frames') = {1} /\ 1 .. Len(frames') - 1 = {}
  BY <1>1, <1>3
<1>5. Len(text.objects[1].members) \in Nat
  BY <1>2, ObjectFacts
<1>6. FrameOK(text, frames'[1])
  <2>1. ShownKeys(text.objects[1], 1) = {}
    BY ShownFurther
  <2>2. frames'[1].node = 1 /\ frames'[1].pos = 1 /\ frames'[1].has = {}
    BY <1>3, <1>4
  <2>3. 1 <= Len(text.objects[1].members) + 1
    BY <1>5
  <2> QED
    BY <1>2, <2>1, <2>2, <2>3 DEF FrameOK
<1>7. StackOK(text, frames')
  BY <1>3, <1>4, <1>6 DEF StackOK
<1>8. ReadSoFar(text, frames', value', {})
  <2>1. DOMAIN value' = {}
    BY <1>1
  <2>2. ASSUME NEW np \in Recognised(text) PROVE ~IsRead(frames', {}, np[1], np[2])
    <3>1. np[2] \in Nat \ {0}
      BY <1>2, RecognisedFacts, ObjectFacts
    <3> QED
      BY <1>3, <1>4, <3>1 DEF IsRead
  <2> QED
    BY <2>1, <2>2 DEF ReadSoFar, TakenFrom, Scalars
<1> QED
  BY <1>1, <1>4, <1>7, <1>8, Decoding

\* The flags that a decoder sets when it goes past a member.
LEMMA FlagsOfMember ==
    ASSUME IInv, AtMember, NEW flags,
           flags = IF Known(Object.model, Member.key) /\ Required(Field) THEN {Member.key} ELSE {}
    PROVE  /\ ShownKeys(Object, Frame.pos + 1) = Frame.has \cup flags
           /\ flags \subseteq Keys
<1>1. Frame.pos \in Nat \ {0} /\ Frame.has = ShownKeys(Object, Frame.pos)
  BY Here DEF AtMember
<1>2. ShownKeys(Object, Frame.pos + 1) = ShownKeys(Object, Frame.pos) \cup flags
  BY <1>1, ShownFurther DEF Member, Field
<1> QED
  BY <1>1, <1>2, HereMember

\* A member of an unknown key, or with a scalar, has been read.
LEMMA MemberPassed ==
    ASSUME IInv, AtMember, NEW flags, Advance(flags),
           flags = IF Known(Object.model, Member.key) /\ Required(Field) THEN {Member.key} ELSE {},
           UNCHANGED <<text, error, pc>>,
           IF Known(Object.model, Member.key)
           THEN /\ Field.kind # "object"
                /\ Faults(Field, Member.value) = {}
                /\ value' = Assign(Place, Member.value)
           ELSE value' = value
    PROVE  IInv'
<1> DEFINE n == Frame.node
           p == Frame.pos
           new == [frames EXCEPT ![Len(frames)].pos = @ + 1, ![Len(frames)].has = @ \cup flags]
<1>1. /\ text \in Texts /\ text.parses /\ text.root = "object" /\ frames # <<>>
      /\ StackOK(text, frames) /\ pc = "decode" /\ pc' = "decode" /\ Depth \in Nat \ {0}
      /\ Frame = frames[Len(frames)] /\ Frame.pos <= Len(Object.members)
      /\ Object = text.objects[Frame.node]
  BY Here DEF AtMember, Frame, Depth, Object
<1>2. error' = NoError
  BY <1>1 DEF IInv, ErrorSoFar
<1>3. frames' = new
  BY DEF Advance, Depth
<1> HIDE DEF new
<1>4. ShownKeys(text.objects[Frame.node], Frame.pos + 1) = Frame.has \cup flags /\ flags \subseteq Keys
  BY <1>1, FlagsOfMember
<1>5. StackOK(text, new) /\ OneFurther(frames, new)
  <2>1. Frame.pos <= Len(text.objects[Frame.node].members)
    BY <1>1
  <2> QED
    BY <1>1, <1>4, <2>1, Advanced DEF new
<1>6. frames' # <<>>
  BY <1>1, <1>3, <1>5 DEF Depth, OneFurther
<1>7. PICK done : ReadSoFar(text, frames, value, done)
  BY <1>1 DEF IInv, DecodedSoFar
<1>8. <<n, p>> \in Recognised(text) <=> Known(Object.model, Member.key)
  BY HereMember
<1>9. <<n, p>> \in Recognised(text) =>
         /\ Faults(FieldAt(text, <<n, p>>), MemberAt(text, <<n, p>>).value) = {}
         /\ Opens(text, n, p) => MemberAt(text, <<n, p>>).value.v \in done
  <2>1. SUFFICES ASSUME Known(Object.model, Member.key)
                 PROVE  /\ Faults(Field, Member.value) = {}
                        /\ ~Opens(text, n, p)
    BY <1>8, HereMember
  <2> QED
    BY <2>1 DEF Opens, Field, Member, Object
<1>10. /\ DOMAIN value \subseteq DOMAIN value'
       /\ <<n, p>> \in Scalars(text) => PathAt(text, <<n, p>>) \in DOMAIN value'
       /\ TakenFrom(text, value')
  <2>1. \A path \in DOMAIN value : \E np \in Scalars(text) :
             PathAt(text, np) = path /\ value[path] = MemberAt(text, np).value
    BY <1>7 DEF ReadSoFar, TakenFrom
  <2>2. CASE ~Known(Object.model, Member.key)
    <3>1. <<n, p>> \notin Scalars(text) /\ value' = value
      BY <1>8, <2>2 DEF Scalars
    <3> QED
      BY <2>1, <3>1 DEF TakenFrom
  <2>3. CASE Known(Object.model, Member.key)
    <3>1. value' = Assign(Place, Member.value)
      BY <2>3
    <3>2. /\ DOMAIN value' = DOMAIN value \cup {Place} /\ value'[Place] = Member.value
          /\ \A path \in DOMAIN value \ {Place} : value'[path] = value[path]
      BY <3>1 DEF Assign
    <3>3. <<n, p>> \in Scalars(text) /\ PathAt(text, <<n, p>>) = Place
          /\ MemberAt(text, <<n, p>>).value = Member.value
      BY <1>8, <2>3, HereMember DEF Scalars
    <3> QED
      BY <2>1, <3>2, <3>3 DEF TakenFrom
  <2> QED
    BY <2>2, <2>3
<1>11. ReadSoFar(text, frames', value', done)
  <2>1. n = frames[Len(frames)].node /\ p = frames[Len(frames)].pos
    BY <1>1
  <2> HIDE DEF n, p
  <2> QED
    BY <1>1, <1>3, <1>5, <1>7, <1>9, <1>10, <2>1, ReadOnAdvance
<1> QED
  BY <1>1, <1>2, <1>3, <1>5, <1>6, <1>11, Decoding

\* A getter or a range check fails.
LEMMA MemberRejected == ASSUME IInv, RejectMember PROVE IInv'
<1> DEFINE code == Conversion(Field, Member.value)
           path == AppendField(error.path, Field.key)
<1>1. /\ AtMember /\ pc = "decode" /\ Known(Object.model, Member.key)
      /\ text' = text /\ frames' = frames
  BY DEF RejectMember, AtKnownMember, AtMember
<1>2. code # "none" /\ Fail(code, path, code # "integer_overflow")
  BY DEF RejectMember
<1>3. /\ text \in Texts /\ text.parses /\ text.root = "object"
      /\ Object.model \in Models /\ Object.at \in Seq(Keys)
  BY <1>1, Here
<1>4. Member.key \in Keys /\ Member.value \in Values
  BY <1>1, HereMember
<1>5. Field.key = Member.key
  BY <1>1, <1>3, <1>4, FieldFacts DEF Field
<1>6. code \in Faults(Field, Member.value) /\ code \in Codes \ {"none", "missing_required_field"}
  BY <1>1, <1>2, <1>3, <1>4, ConversionFaults DEF Field
<1>7. error.path = <<>>
  BY <1>1 DEF IInv, ErrorSoFar, NoError
<1>8. path \in Seq(Keys) /\ Object.at \o path = Place
  BY <1>3, <1>4, <1>5, <1>7, PathFacts, EmptySeq DEF AppendField, Place
<1> HIDE DEF code, path
<1>9. Defect(code, Object.at \o path) \in Defects(text)
  BY <1>1, <1>3, <1>6, <1>8, HereMember, FaultIsDefect
<1>10. \A place \in DOMAIN value' : value'[place] \in Values
  <2>1. Nullopt \in Values /\ \A place \in DOMAIN value : value[place] \in Values
    BY DEF Nullopt, Values, IInv, TypeOK
  <2>2. CASE Field.kind = "optional"
    <3>1. value' = Assign(Place, Nullopt)
      BY <2>2 DEF RejectMember
    <3> QED
      BY <2>1, <3>1 DEF Assign
  <2>3. CASE Field.kind # "optional"
    BY <2>1, <2>3 DEF RejectMember
  <2> QED
    BY <2>2, <2>3
<1> QED
  BY <1>1, <1>2, <1>6, <1>8, <1>9, <1>10, Failing

\* The decoder of a nested object begins.
LEMMA NestedEntered == ASSUME IInv, EnterNested PROVE IInv'
<1> DEFINE child == Member.value.v
           new == NewFrame(child)
<1>1. /\ AtMember /\ pc = "decode" /\ Known(Object.model, Member.key) /\ Field.kind = "object"
      /\ text' = text /\ error' = error /\ value' = value /\ pc' = pc
      /\ frames' = Append(frames, new) /\ Conversion(Field, Member.value) = "none"
  BY DEF EnterNested, AtKnownMember, AtMember
<1>2. /\ text \in Texts /\ text.parses /\ text.root = "object"
      /\ frames # <<>> /\ StackOK(text, frames) /\ Frame.node \in DOMAIN text.objects
      /\ Frame = frames[Len(frames)] /\ Frame.pos <= Len(text.objects[Frame.node].members)
      /\ Frame.pos \in DOMAIN text.objects[Frame.node].members
  BY <1>1, Here, HereMember DEF Frame, Depth, Object, AtMember
<1>3. Opens(text, Frame.node, Frame.pos)
  <2>1. Member.value.kind = "object"
    BY <1>1 DEF Conversion
  <2> QED
    BY <1>1, <2>1 DEF Opens, Object, Member, Field
<1>4. child = text.objects[Frame.node].members[Frame.pos].value.v
  BY DEF Member, Object
<1> HIDE DEF child
<1>5. child \in Nat \ {0}
  <2>1. child \in DOMAIN text.objects
    BY <1>2, <1>3, <1>4, OpenedFacts
  <2> QED
    BY <1>2, <2>1, TextFacts
<1>6. new \in Frames /\ new.node = child /\ new.pos = 1 /\ new.has = {}
  BY <1>5 DEF NewFrame, Frames
<1> HIDE DEF new
<1>7. CallsDecoder(text, Frame, new)
  BY <1>2, <1>3, <1>4, <1>6 DEF CallsDecoder
<1>8. StackOK(text, frames')
  BY <1>1, <1>2, <1>6, <1>7, Pushed
<1>9. PICK done : ReadSoFar(text, frames, value, done)
  BY <1>1 DEF IInv, DecodedSoFar
<1>10. ReadSoFar(text, frames', value', done)
  BY <1>1, <1>2, <1>6, <1>9, ReadOnPush
<1>11. frames' # <<>> /\ error' = NoError
  <2>1. frames \in Seq(Frames)
    BY DEF IInv, TypeOK
  <2> QED
    BY <1>1, <1>6, <2>1 DEF IInv, ErrorSoFar
<1> QED
  BY <1>1, <1>2, <1>8, <1>10, <1>11, Decoding

\* Reading the next key fails.
LEMMA BrokenKeyRead == ASSUME IInv, ReadBrokenKey PROVE IInv'
<1>1. /\ pc = "decode" /\ text' = text /\ frames' = frames /\ value' = value
      /\ ~Object.closed /\ Fail("syntax_error", error.path, TRUE)
  BY DEF ReadBrokenKey, AtEnd
<1>2. error.path = <<>> /\ <<>> \in Seq(Keys) /\ "syntax_error" \in Codes \ {"none"}
  BY <1>1 DEF IInv, ErrorSoFar, NoError, Codes
<1>3. Object.at \o <<>> = Object.at
  BY <1>1, Here, ConcatEmptySeq
<1>4. Defect("syntax_error", Object.at) \in Defects(text)
  BY <1>1, Here, BreakIsDefect DEF Object
<1>5. \A place \in DOMAIN value' : value'[place] \in Values
  BY <1>1 DEF IInv, TypeOK
<1> QED
  BY <1>1, <1>2, <1>3, <1>4, <1>5, Failing

\* A required field has no flag at the end of its object.
LEMMA MissingReported == ASSUME IInv, ReportMissing PROVE IInv'
<1>1. /\ pc = "decode" /\ text' = text /\ frames' = frames /\ value' = value
      /\ Object.closed /\ Frame.pos > Len(Object.members)
  BY DEF ReportMissing, AtEnd
<1>2. PICK k \in Unset :
         Fail("missing_required_field",
              AppendField(error.path, Fields[Object.model][k].key), FALSE)
  BY DEF ReportMissing
<1> DEFINE key == Fields[Object.model][k].key
<1>3. /\ text \in Texts /\ text.parses /\ text.root = "object"
      /\ Frame.node \in DOMAIN text.objects /\ Object = text.objects[Frame.node]
      /\ Frame.pos \in Nat \ {0} /\ Frame.pos <= Len(Object.members) + 1
      /\ Frame.has = ShownKeys(Object, Frame.pos)
      /\ Object.model \in Models /\ Object.at \in Seq(Keys)
  BY <1>1, Here DEF Object
<1>4. /\ k \in DOMAIN Fields[Object.model] /\ Required(Fields[Object.model][k])
      /\ key \notin Frame.has
  BY DEF Unset
<1>5. ~HasMember(Object, key)
  BY <1>1, <1>3, <1>4, UnsetIsMissing
<1>6. key \in MissingKeys(Object)
  BY <1>4, <1>5 DEF MissingKeys
<1>7. key \in Keys
  BY <1>3, <1>4, OwnField DEF Required
<1> HIDE DEF key
<1>8. error.path = <<>> /\ "missing_required_field" \in Codes \ {"none"}
  BY <1>1 DEF IInv, ErrorSoFar, NoError, Codes
<1>9. /\ AppendField(error.path, key) \in Seq(Keys)
      /\ Object.at \o AppendField(error.path, key) = Append(Object.at, key)
  BY <1>3, <1>7, <1>8, PathFacts, EmptySeq DEF AppendField
<1>10. Defect("missing_required_field", Append(Object.at, key)) \in Defects(text)
  BY <1>1, <1>3, <1>6, AbsenceIsDefect
<1>11. \A place \in DOMAIN value' : value'[place] \in Values
  BY <1>1 DEF IInv, TypeOK
<1>12. Fail("missing_required_field", AppendField(error.path, key), FALSE)
  BY <1>2 DEF key
<1> QED
  BY <1>1, <1>8, <1>9, <1>10, <1>11, <1>12, Failing

\* At the end of an object without a missing field, that object is decoded.
LEMMA ObjectFinished ==
    ASSUME IInv, AtEnd, Object.closed, Unset = {},
           NEW done, ReadSoFar(text, frames, value, done)
    PROVE  ReadSoFar(text, SubSeq(frames, 1, Depth - 1), value, done \cup {Frame.node})
<1>1. /\ text \in Texts /\ frames # <<>> /\ StackOK(text, frames) /\ Frame = frames[Len(frames)]
      /\ Frame.node \in DOMAIN text.objects /\ Object = text.objects[Frame.node]
      /\ Frame.pos \in Nat \ {0} /\ Frame.pos <= Len(Object.members) + 1
      /\ Frame.pos > Len(Object.members) /\ Frame.has = ShownKeys(Object, Frame.pos)
  BY Here DEF AtEnd, Frame, Depth, Object
<1>2. MissingKeys(Object) = {}
  <2>1. SUFFICES ASSUME NEW k \in DOMAIN Fields[Object.model], Required(Fields[Object.model][k]),
                        ~HasMember(Object, Fields[Object.model][k].key)
                 PROVE  FALSE
    BY DEF MissingKeys
  <2>2. Fields[Object.model][k].key \notin Frame.has
    BY <1>1, <2>1, UnsetIsMissing, ZenonT(40)
  <2> QED
    BY <2>1, <2>2 DEF Unset
<1> QED
  BY <1>1, <1>2, ReadOnPop DEF Depth

\* A nested decoder returns true, and its caller goes on behind the field.
LEMMA NestedLeft == ASSUME IInv, LeaveNested PROVE IInv'
<1> DEFINE rest == SubSeq(frames, 1, Depth - 1)
           parent == frames[Depth - 1]
           member == text.objects[parent.node].members[parent.pos]
           flags == {member.key}
           new == [rest EXCEPT ![Len(rest)].pos = @ + 1, ![Len(rest)].has = @ \cup flags]
<1>1. /\ AtEnd /\ Object.closed /\ Unset = {} /\ Depth > 1 /\ pc = "decode" /\ pc' = "decode"
      /\ text' = text /\ error' = error /\ value' = value
  BY DEF LeaveNested, AtEnd
<1>2. /\ text \in Texts /\ text.parses /\ text.root = "object" /\ frames # <<>>
      /\ StackOK(text, frames) /\ Depth \in Nat \ {0} /\ Frame = frames[Depth]
      /\ Depth = Len(frames)
  BY <1>1, Here DEF Frame, Depth
<1>3. /\ StackOK(text, rest) /\ Len(rest) = Depth - 1 /\ Len(rest) \in Nat
      /\ \A d \in 1 .. Depth - 1 : rest[d] = frames[d]
  BY <1>2, Popped
<1> HIDE DEF rest
<1>4. /\ rest # <<>> /\ rest[Len(rest)] = parent /\ Depth - 1 \in 1 .. Depth - 1
      /\ Len(rest) \in 1 .. Len(rest)
  BY <1>1, <1>2, <1>3
<1>5. CallsDecoder(text, parent, Frame)
  <2>1. (Depth - 1) + 1 = Depth
    BY <1>2
  <2> QED
    BY <1>2, <1>4, <2>1 DEF StackOK
<1>6. /\ parent.node \in DOMAIN text.objects /\ parent.pos \in Nat \ {0}
      /\ parent.has = ShownKeys(text.objects[parent.node], parent.pos)
      /\ parent.pos <= Len(text.objects[parent.node].members)
      /\ Opens(text, parent.node, parent.pos) /\ Frame.node = member.value.v
  <2>1. /\ parent.node \in DOMAIN text.objects /\ parent.pos \in Nat \ {0}
        /\ parent.has = ShownKeys(text.objects[parent.node], parent.pos)
    BY <1>2, <1>3, <1>4, FrameFacts
  <2> QED
    BY <1>5, <2>1 DEF CallsDecoder
<1>7. frames' = new
  BY <1>3 DEF LeaveNested, rest
<1> HIDE DEF new, parent
<1>8. parent.pos \in DOMAIN text.objects[parent.node].members
  BY <1>2, <1>6, MemberPosition
<1>9. /\ Known(text.objects[parent.node].model, member.key)
      /\ Required(FieldFor(text.objects[parent.node].model, member.key))
      /\ FieldFor(text.objects[parent.node].model, member.key).kind = "object"
      /\ Faults(FieldFor(text.objects[parent.node].model, member.key), member.value) = {}
      /\ member.key \in Keys
  BY <1>2, <1>6, <1>8, OpenedFacts, ObjectFacts
<1>10. ShownKeys(text.objects[parent.node], parent.pos + 1) = parent.has \cup flags
  BY <1>6, <1>9, ShownFurther
<1>11. StackOK(text, new) /\ OneFurther(rest, new)
  <2>1. flags \subseteq Keys
    BY <1>9
  <2> HIDE DEF flags
  <2> QED
    BY <1>2, <1>3, <1>4, <1>6, <1>10, <2>1, Advanced DEF new
<1>12. PICK done : ReadSoFar(text, frames, value, done)
  BY <1>1 DEF IInv, DecodedSoFar
<1>13. ReadSoFar(text, rest, value, done \cup {Frame.node})
  BY <1>1, <1>12, ObjectFinished DEF rest
<1> DEFINE np == <<parent.node, parent.pos>>
<1>14. /\ MemberAt(text, np) = member
       /\ FieldAt(text, np) = FieldFor(text.objects[parent.node].model, member.key)
       /\ np \notin Scalars(text)
  BY <1>9 DEF MemberAt, FieldAt, Scalars
<1>15. DOMAIN value \subseteq DOMAIN value /\ TakenFrom(text, value)
  BY <1>12 DEF ReadSoFar
<1>16. ReadSoFar(text, new, value, done \cup {Frame.node})
  <2>1. /\ Faults(FieldAt(text, np), MemberAt(text, np).value) = {}
        /\ MemberAt(text, np).value.v \in done \cup {Frame.node}
    BY <1>6, <1>9, <1>14
  <2> HIDE DEF member
  <2> QED
    BY <1>2, <1>3, <1>4, <1>11, <1>13, <1>14, <1>15, <2>1, ReadOnAdvance
<1>17. frames' # <<>> /\ error' = NoError
  <2>1. error = NoError
    BY <1>1 DEF IInv, ErrorSoFar
  <2> QED
    BY <1>1, <1>3, <1>4, <1>7, <1>11, <2>1 DEF OneFurther
<1> QED
  BY <1>1, <1>2, <1>7, <1>11, <1>16, <1>17, Decoding

\* The decoder of the root returns true.
LEMMA RootLeft == ASSUME IInv, LeaveRoot PROVE IInv'
<1>1. /\ AtEnd /\ Object.closed /\ Unset = {} /\ Depth = 1 /\ pc = "decode" /\ pc' = "tail"
      /\ text' = text /\ error' = error /\ value' = value /\ frames' = <<>>
  BY DEF LeaveRoot, AtEnd
<1>2. /\ text \in Texts /\ text.parses /\ text.root = "object" /\ frames # <<>>
      /\ StackOK(text, frames) /\ Frame = frames[1]
  BY <1>1, Here DEF Frame
<1>3. SubSeq(frames, 1, Depth - 1) = <<>> /\ StackOK(text, <<>>) /\ Frame.node = 1
  <2>1. SubSeq(frames, 1, Depth - 1) = <<>> /\ StackOK(text, SubSeq(frames, 1, Depth - 1))
    BY <1>1, <1>2, Popped DEF Depth
  <2> QED
    BY <1>2, <2>1 DEF StackOK
<1>4. PICK done : ReadSoFar(text, frames, value, done)
  BY <1>1 DEF IInv, DecodedSoFar
<1>5. ReadSoFar(text, <<>>, value, done \cup {1})
  BY <1>1, <1>3, <1>4, ObjectFinished
<1>6. DecodedSoFar'
  BY <1>1, <1>5 DEF DecodedSoFar
<1>7. TypeOK'
  BY <1>1 DEF IInv, TypeOK
<1>8. StackOK(text, frames)' /\ Stages' /\ ErrorSoFar'
  BY <1>1, <1>2, <1>3 DEF IInv, Stages, ErrorSoFar
<1> QED
  BY <1>1, <1>6, <1>7, <1>8 DEF IInv, PathWhileUnwinding, FailureIsReal

\* A nested decoder returns false, and its caller puts its field before the path.
LEMMA NestedUnwound == ASSUME IInv, UnwindNested PROVE IInv'
<1> DEFINE rest == SubSeq(frames, 1, Depth - 1)
           parent == frames[Depth - 1]
           member == text.objects[parent.node].members[parent.pos]
<1>1. /\ pc = "unwind" /\ pc' = "unwind" /\ Depth > 1 /\ text' = text /\ value' = value
      /\ frames' = rest /\ error' = [error EXCEPT !.path = PrependField(@, member.key)]
  BY DEF UnwindNested
<1>2. /\ text \in Texts /\ text.parses /\ text.root = "object" /\ frames # <<>>
      /\ StackOK(text, frames) /\ Depth \in Nat \ {0} /\ Frame = frames[Depth]
      /\ Depth = Len(frames) /\ Object = text.objects[Frame.node]
      /\ error \in DecodeErrors
  BY <1>1, Here DEF Frame, Depth, Object, IInv, TypeOK
<1>3. /\ StackOK(text, rest) /\ Len(rest) = Depth - 1
      /\ \A d \in 1 .. Depth - 1 : rest[d] = frames[d]
  BY <1>2, Popped
<1> HIDE DEF rest
<1>4. /\ rest # <<>> /\ rest[Len(rest)] = parent /\ Depth - 1 \in 1 .. Depth - 1
      /\ Len(rest) \in 1 .. Len(rest)
  BY <1>1, <1>2, <1>3
<1>5. CallsDecoder(text, parent, Frame)
  <2>1. (Depth - 1) + 1 = Depth
    BY <1>2
  <2> QED
    BY <1>2, <1>4, <2>1 DEF StackOK
<1> HIDE DEF parent
<1>6. /\ parent.node \in DOMAIN text.objects
      /\ parent.pos \in DOMAIN text.objects[parent.node].members
      /\ Opens(text, parent.node, parent.pos) /\ Frame.node = member.value.v
  <2>1. /\ rest[Len(rest)].node \in DOMAIN text.objects /\ rest[Len(rest)].pos \in Nat \ {0}
    BY <1>2, <1>3, <1>4, FrameFacts
  <2>2. parent.node \in DOMAIN text.objects /\ parent.pos \in Nat \ {0}
    BY <1>4, <2>1
  <2>3. /\ parent.pos <= Len(text.objects[parent.node].members)
        /\ Opens(text, parent.node, parent.pos) /\ Frame.node = member.value.v
    BY <1>5 DEF CallsDecoder
  <2> QED
    BY <1>2, <2>2, <2>3, MemberPosition
<1>7. /\ Object.at = Append(text.objects[parent.node].at, member.key) /\ member.key \in Keys
      /\ text.objects[parent.node].at \in Seq(Keys)
  <2>1. text.objects[member.value.v].at = Append(text.objects[parent.node].at, member.key)
    BY <1>2, <1>6, OpenedFacts, ZenonT(40)
  <2>2. Object.at = Append(text.objects[parent.node].at, member.key)
    BY <1>2, <1>6, <2>1
  <2>3. member.key \in Keys /\ text.objects[parent.node].at \in Seq(Keys)
    BY <1>2, <1>6, ObjectFacts
  <2> QED
    BY <2>2, <2>3
<1> HIDE DEF member
<1>8. /\ error'.code = error.code /\ error'.runtime = error.runtime
      /\ error'.path = <<member.key>> \o error.path /\ error.path \in Seq(Keys)
      /\ error' \in DecodeErrors
  <2>1. error.path \in Seq(Keys)
    BY <1>2 DEF DecodeErrors
  <2>2. <<member.key>> \o error.path \in Seq(Keys)
    BY <1>7, <2>1, PathFacts
  <2>3. error' = [error EXCEPT !.path = <<member.key>> \o error.path]
    BY <1>1, <1>2 DEF PrependField, DecodeErrors
  <2> HIDE DEF member
  <2> QED
    BY <1>2, <2>1, <2>2, <2>3 DEF DecodeErrors
<1>9. PathWhileUnwinding'
  <2>1. Frame' = parent /\ Object' = text.objects[parent.node]
    <3>1. Frame' = frames'[Len(frames')] /\ Object' = text'.objects[Frame'.node]
      BY DEF Frame, Depth, Object
    <3> QED
      BY <1>1, <1>4, <3>1
  <2>2. text.objects[parent.node].at \o error'.path = Object.at \o error.path
    <3> DEFINE at == text.objects[parent.node].at
               key == member.key
               path == error.path
    <3>1. at \in Seq(Keys) /\ key \in Keys /\ path \in Seq(Keys)
      BY <1>7, <1>8
    <3>2. Object.at = Append(at, key) /\ error'.path = <<key>> \o path
      BY <1>7, <1>8
    <3> HIDE DEF at, key, path
    <3>3. at \o (<<key>> \o path) = Append(at, key) \o path
      BY <3>1, PathFacts
    <3>4. at \o error'.path = Object.at \o path
      BY <3>2, <3>3
    <3> QED
      BY <3>4 DEF at, path
  <2>3. Defect(error.code, Object.at \o error.path) \in Defects(text)
    BY <1>1, <1>2 DEF IInv, PathWhileUnwinding
  <2> QED
    BY <1>1, <1>8, <2>1, <2>2, <2>3 DEF PathWhileUnwinding
<1>10. TypeOK'
  <2>1. /\ rest \in Seq(Frames)
        /\ \A d \in DOMAIN rest :
              /\ rest[d].node \in DOMAIN text.objects
              /\ rest[d].pos <= Len(text.objects[rest[d].node].members) + 1
    BY <1>3 DEF StackOK, FrameOK
  <2> QED
    BY <1>1, <1>8, <2>1 DEF IInv, TypeOK
<1>11. StackOK(text, frames)' /\ Stages' /\ ErrorSoFar'
  BY <1>1, <1>3, <1>4, <1>8 DEF IInv, Stages, ErrorSoFar
<1> QED
  BY <1>1, <1>9, <1>10, <1>11 DEF IInv, FailureIsReal, DecodedSoFar

\* The decoder of the root returns false, and from_json std::nullopt.
LEMMA RootUnwound == ASSUME IInv, UnwindRoot PROVE IInv'
<1>1. /\ pc = "unwind" /\ pc' = "nullopt" /\ Depth = 1
      /\ text' = text /\ value' = value /\ error' = error /\ frames' = <<>>
  BY DEF UnwindRoot
<1>2. /\ text \in Texts /\ text.parses /\ text.root = "object" /\ frames # <<>>
      /\ StackOK(text, frames) /\ Frame = frames[1] /\ error \in DecodeErrors
  BY <1>1, Here DEF Frame, IInv, TypeOK
<1>3. StackOK(text, <<>>) /\ text.objects[Frame.node].at = <<>>
  <2>1. StackOK(text, SubSeq(frames, 1, Depth - 1)) /\ SubSeq(frames, 1, Depth - 1) = <<>>
    BY <1>1, <1>2, Popped DEF Depth
  <2>2. Frame.node = 1
    BY <1>2 DEF StackOK
  <2> QED
    BY <1>2, <2>1, <2>2, TextFacts
<1>4. FailureIsReal'
  <2>1. <<>> \o error.path = error.path
    BY <1>2, ConcatEmptySeq DEF DecodeErrors
  <2>2. Defect(error.code, text.objects[Frame.node].at \o error.path) \in Defects(text)
    BY <1>1 DEF IInv, PathWhileUnwinding
  <2> QED
    BY <1>1, <1>3, <2>1, <2>2 DEF FailureIsReal
<1>5. TypeOK'
  BY <1>1 DEF IInv, TypeOK
<1>6. StackOK(text, frames)' /\ Stages' /\ ErrorSoFar'
  BY <1>1, <1>3 DEF IInv, Stages, ErrorSoFar
<1> QED
  BY <1>1, <1>4, <1>5, <1>6 DEF IInv, PathWhileUnwinding, DecodedSoFar

\* Something follows the root.
LEMMA TrailingRejected == ASSUME IInv, RejectTrailing PROVE IInv'
<1>1. /\ pc = "tail" /\ pc' = "nullopt" /\ text.trailing
      /\ text' = text /\ value' = value /\ frames' = frames
      /\ error' = [error EXCEPT !.code = "trailing_content", !.runtime = TRUE]
  BY DEF RejectTrailing
<1>2. /\ error = NoError /\ text.parses /\ text.root = "object" /\ frames = <<>>
  BY <1>1 DEF IInv, ErrorSoFar, Stages
<1>3. /\ error'.code = "trailing_content" /\ error'.path = <<>> /\ error'.runtime = TRUE
      /\ error' \in DecodeErrors
  <2>1. error' = [code |-> "trailing_content", path |-> <<>>, runtime |-> TRUE]
    BY <1>1, <1>2 DEF NoError
  <2>2. "trailing_content" \in Codes /\ <<>> \in Seq(Keys)
    BY DEF Codes
  <2> QED
    BY <2>1, <2>2 DEF DecodeErrors
<1>4. FailureIsReal'
  BY <1>1, <1>2, <1>3, RestIsDefect DEF FailureIsReal
<1>5. TypeOK'
  BY <1>1, <1>3 DEF IInv, TypeOK
<1>6. StackOK(text, frames)' /\ Stages' /\ ErrorSoFar'
  BY <1>1, <1>2, <1>3 DEF IInv, Stages, ErrorSoFar
<1> QED
  BY <1>1, <1>4, <1>5, <1>6 DEF IInv, PathWhileUnwinding, DecodedSoFar

LEMMA ModelReturned == ASSUME IInv, ReturnModel PROVE IInv'
<1>1. /\ pc = "tail" /\ pc' = "model" /\ ~text.trailing
      /\ text' = text /\ value' = value /\ frames' = frames /\ error' = error
  BY DEF ReturnModel
<1>2. frames = <<>>
  BY <1>1 DEF IInv, Stages
<1>3. TypeOK' /\ StackOK(text, frames)' /\ Stages' /\ ErrorSoFar'
  BY <1>1, <1>2 DEF IInv, TypeOK, Stages, ErrorSoFar
<1>4. DecodedSoFar'
  BY <1>1 DEF IInv, DecodedSoFar
<1> QED
  BY <1>1, <1>3, <1>4 DEF IInv, PathWhileUnwinding, FailureIsReal

LEMMA InvariantStep == IInv /\ [Next]_vars => IInv'
<1> SUFFICES ASSUME IInv, [Next]_vars PROVE IInv'
  OBVIOUS
<1>1. CASE SkipUnknown
  BY <1>1, MemberPassed DEF SkipUnknown
<1>2. CASE StoreScalar
  <2>1. Known(Object.model, Member.key) /\ AtMember /\ Field.kind # "object"
    BY <1>2 DEF StoreScalar, AtKnownMember
  <2>2. Faults(Field, Member.value) = {}
    BY <1>2, <2>1, Here, HereMember, ConversionFaults DEF StoreScalar, Field, AtMember
  <2>3. Field.key = Member.key
    BY <2>1, Here, HereMember, FieldFacts DEF Field, AtMember
  <2> QED
    BY <1>2, <2>1, <2>2, <2>3, MemberPassed DEF StoreScalar
<1>3. CASE UNCHANGED vars \/ Returned
  <2>1. UNCHANGED vars
    BY <1>3 DEF Returned
  <2> QED
    BY <2>1 DEF vars, IInv, TypeOK, Stages, ErrorSoFar, PathWhileUnwinding, FailureIsReal,
                DecodedSoFar, Object, Frame, Depth
<1> QED
  BY <1>1, <1>2, <1>3, RootRefused, RootOpened, MemberRejected, NestedEntered, BrokenKeyRead,
     MissingReported, NestedLeft, RootLeft, NestedUnwound, RootUnwound, TrailingRejected,
     ModelReturned
     DEF Next

-----------------------------------------------------------------------------

\* For all models and texts: the decoders that run are at objects of the text,
\* the caller's error is a DecodeError and the value holds scalars.
THEOREM TypeCorrect == Spec => []TypeOK
<1>1. IInv => TypeOK
  BY DEF IInv
<1> QED
  BY <1>1, InitialInvariant, InvariantStep, PTL DEF Spec

\* For all models and texts: while a failure travels up through the decoders,
\* its path behind that of the returning object's is the place of a defect.
THEOREM PathHolds == Spec => []PathWhileUnwinding
<1>1. IInv => PathWhileUnwinding
  BY DEF IInv
<1> QED
  BY <1>1, InitialInvariant, InvariantStep, PTL DEF Spec

\* For all models and texts: the has_ flags of a decoder are those of its own object.
THEOREM PresenceHolds == Spec => []PresenceIsPerObject
<1>1. IInv => PresenceIsPerObject
  <2>1. SUFFICES ASSUME IInv, NEW d \in 1 .. Len(frames)
                 PROVE  frames[d].has = ShownKeys(text.objects[frames[d].node], frames[d].pos)
    <3>1. IInv => DOMAIN frames = 1 .. Len(frames)
      BY DEF IInv, TypeOK
    <3> QED
      BY <3>1 DEF PresenceIsPerObject, ShownKeys
  <2> QED
    BY <2>1 DEF IInv, StackOK, FrameOK
<1> QED
  BY <1>1, InitialInvariant, InvariantStep, PTL DEF Spec

\* For all models and texts: what is left in the caller's error says whether a
\* model was returned, whatever was in it before.
THEOREM ErrorHolds == Spec => []ErrorTellsOutcome
<1>1. IInv => ErrorTellsOutcome
  BY DEF IInv, ErrorSoFar, ErrorTellsOutcome
<1> QED
  BY <1>1, InitialInvariant, InvariantStep, PTL DEF Spec

\* The contract speaks of the same defects and decodings.
LEMMA ContractWords ==
    ASSUME NEW t, NEW val
    PROVE  /\ Contract!Defects(t) = Defects(t)
           /\ Contract!IsDecoding(t, val) <=> IsDecoding(t, val)
           /\ \A code, path : Contract!Defect(code, path) = Defect(code, path)
BY DEF Contract!Defects, Contract!IsDecoding, Contract!MemberDefects, Contract!BreakDefects,
       Contract!AbsenceDefects, Contract!RestDefects, Contract!MissingKeys, Contract!HasMember,
       Contract!Faults, Contract!Recognised, Contract!FieldAt, Contract!MemberAt, Contract!PathAt,
       Contract!Scalars, Contract!ScalarPaths, Contract!FieldFor, Contract!FieldOf, Contract!Known,
       Contract!Selects, Contract!Required, Contract!Defect, Contract!Int64, Contract!UInt64,
       Defects, IsDecoding, MemberDefects, BreakDefects, AbsenceDefects, RestDefects, MissingKeys,
       HasMember, Faults, Recognised, FieldAt, MemberAt, PathAt, Scalars, ScalarPaths, FieldFor,
       FieldOf, Known, Selects, Required, Defect, Int64, UInt64

\* A step of the decoder answers as the contract allows, or leaves the answer.
LEMMA StepRefines == IInv /\ [Next]_vars => [Contract!Next]_(Contract!vars)
<1> SUFFICES ASSUME IInv, [Next]_vars PROVE [Contract!Next]_(Contract!vars)
  OBVIOUS
<1>1. IInv'
  BY InvariantStep
<1>2. text' = text
  BY DEF Next, vars, RefuseRoot, OpenRoot, SkipUnknown, StoreScalar, RejectMember, EnterNested,
         ReadBrokenKey, ReportMissing, LeaveNested, LeaveRoot, UnwindNested, UnwindRoot,
         RejectTrailing, ReturnModel, Returned
<1>3. CASE pc' = pc /\ pc \in {"model", "nullopt"}
  <2>1. UNCHANGED <<error, value, pc>>
    BY <1>3 DEF Next, vars, AtMember, AtKnownMember, AtEnd, RefuseRoot, OpenRoot, SkipUnknown,
                StoreScalar, RejectMember, EnterNested, ReadBrokenKey, ReportMissing, LeaveNested,
                LeaveRoot, UnwindNested, UnwindRoot, RejectTrailing, ReturnModel, Returned
  <2>2. Answer' = Answer
    BY <2>1 DEF Answer
  <2> QED
    BY <1>2, <2>2 DEF Contract!vars
<1>4. pc \in {"model", "nullopt"} => pc' = pc
  BY DEF Next, vars, AtMember, AtKnownMember, AtEnd, RefuseRoot, OpenRoot, SkipUnknown,
         StoreScalar, RejectMember, EnterNested, ReadBrokenKey, ReportMissing, LeaveNested,
         LeaveRoot, UnwindNested, UnwindRoot, RejectTrailing, ReturnModel, Returned
<1>5. CASE pc \notin {"model", "nullopt"} /\ pc' \notin {"model", "nullopt"}
  <2>1. Answer' = Answer
    BY <1>5 DEF Answer
  <2> QED
    BY <1>2, <2>1 DEF Contract!vars
<1>6. CASE pc \notin {"model", "nullopt"} /\ pc' = "model"
  <2>1. /\ text \in Texts /\ text.parses /\ text.root = "object" /\ ~text.trailing
        /\ \E done : ReadSoFar(text, frames', value', done) /\ 1 \in done
    BY <1>1, <1>2, <1>6 DEF IInv, TypeOK, Stages, DecodedSoFar
  <2>2. Defects(text) = {} /\ IsDecoding(text, value')
    BY <2>1, DecodedText
  <2>3. Answer = Contract!Pending
    BY <1>6 DEF Answer, Contract!Pending
  <2>4. Answer' = [kind |-> "model", value |-> value']
    BY <1>6 DEF Answer
  <2>5. Contract!IsModel(Answer')
    <3>1. Answer'.kind = "model" /\ Answer'.value = value'
      BY <2>4
    <3> QED
      BY <2>2, <3>1, ContractWords DEF Contract!IsModel
  <2>6. Contract!Defects(text) = {}
    BY <2>2, ContractWords
  <2> QED
    BY <1>2, <2>3, <2>5, <2>6 DEF Contract!Next, Contract!Succeed
<1>7. CASE pc \notin {"model", "nullopt"} /\ pc' = "nullopt"
  <2> DEFINE defect == Defect(error'.code, error'.path)
  <2>1. defect \in Defects(text)
    BY <1>1, <1>2, <1>7 DEF IInv, FailureIsReal
  <2>2. Answer = Contract!Pending
    BY <1>7 DEF Answer, Contract!Pending
  <2>3. Answer' = [kind |-> "failure", error |-> defect]
    BY <1>7 DEF Answer
  <2>4. defect = Defect(defect.code, defect.path)
    BY DEF Defect
  <2>5. Answer' = Contract!Failure(defect.code, defect.path)
    BY <2>3, <2>4, ContractWords DEF Contract!Failure
  <2>6. defect \in Contract!Defects(text)
    BY <2>1, ContractWords
  <2> HIDE DEF defect
  <2> QED
    BY <1>2, <2>2, <2>5, <2>6 DEF Contract!Next, Contract!Refuse
<1> QED
  BY <1>3, <1>4, <1>5, <1>6, <1>7

\* For all models, texts and earlier errors: from_json answers once, with a
\* decoding of a text without defects, or with a defect that the text has at
\* the path where it has it.
THEOREM Refinement == Spec => ImplementsContract
<1>1. Init => Contract!Init
  BY DEF Init, Contract!Init, Answer, Contract!Pending
<1> QED
  BY <1>1, InitialInvariant, InvariantStep, StepRefines, PTL
  DEF Spec, ImplementsContract, Contract!Spec
=============================================================================
