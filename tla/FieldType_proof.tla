-------------------------- MODULE FieldType_proof --------------------------
(***************************************************************************)
(* Theorems about FieldType, for every set of spellings, every symbol      *)
(* table and every depth of the recursion.                                 *)
(*                                                                         *)
(* The inductive invariant is the shape of the stack: each frame but the   *)
(* top one waits for the argument the frame above it is for, so a return   *)
(* always has a container to return to with a place left for the result;   *)
(* the flag and the list of diagnostics agree at every step; and as long   *)
(* as the flag is set, everything the containers have collected is a type  *)
(* that says what it is.                                                   *)
(*                                                                         *)
(* A second invariant is about meaning: each running call is for a part of *)
(* what the field means in C++, so what it returns is what the call below  *)
(* needs.  C++ and the code look names up from different places, and find  *)
(* the same because what either finds ends in the name it looked for.      *)
(***************************************************************************)
EXTENDS FieldType, SequenceTheorems, FiniteSetTheorems, WellFoundedInduction, TLAPS

\* A frame has its five parts, and its results come in a sequence.
IsSequence(s) == \E S : s \in Seq(S)

IsFrame(f) ==
    /\ f = [spelling |-> f.spelling, current |-> f.current, seen |-> f.seen,
            open |-> f.open, done |-> f.done]
    /\ IsSequence(f.done)

Shape ==
    /\ IsSequence(frames)
    /\ \A d \in 1 .. Depth : IsFrame(frames[d])

FlagMatchesDiagnostics == success <=> diags = <<>>

\* S holds the types a spelling can resolve to: scalars, declared enums and
\* structs, and containers of its members, maps with string keys only.
ClosedTypes(S) ==
    /\ \A form \in Scalars : Type(form, <<>>, <<>>) \in S
    /\ \A name \in input.enums : Type("enum", name, <<>>) \in S
    /\ \A name \in input.types : Type("user", name, <<>>) \in S
    /\ \A form \in {"vector", "optional", "array"}, type \in S : Type(form, <<>>, <<type>>) \in S
    /\ \A key, val \in S : key.kind = "string" => Type("map", <<>>, <<key, val>>) \in S

\* While no call has failed, every result is in each such set.
ResultsIn(S) ==
    /\ \A d \in 1 .. Depth : \A n \in DOMAIN frames[d].done : frames[d].done[n] \in S
    /\ pc = "done" => ret \in S

ResultsResolved == success => \A S : ClosedTypes(S) => ResultsIn(S)

IInv == TypeOK /\ Shape /\ FlagMatchesDiagnostics /\ ResultsResolved

\* "unsupported types have already been rejected" (code-generator.md): the type
\* of an accepted field says what it is all the way down.  What the code returns
\* after a failure, a user-defined type without a name, is in no accepted type.
AcceptedTypeIsResolved ==
    pc = "done" /\ success => \A S : ClosedTypes(S) => ret \in S

-----------------------------------------------------------------------------
(* Sequences of anything. *)

LEMMA SequenceFacts ==
    ASSUME NEW s, IsSequence(s)
    PROVE  Len(s) \in Nat /\ DOMAIN s = 1 .. Len(s) /\ (s = <<>> <=> Len(s) = 0)
<1>1. PICK S : s \in Seq(S)
  BY DEF IsSequence
<1> QED
  BY <1>1

LEMMA AppendFacts ==
    ASSUME NEW s, IsSequence(s), NEW e
    PROVE  /\ IsSequence(Append(s, e)) /\ Len(Append(s, e)) = Len(s) + 1
           /\ DOMAIN Append(s, e) = 1 .. Len(s) + 1
           /\ Append(s, e)[Len(s) + 1] = e
           /\ \A n \in 1 .. Len(s) : Append(s, e)[n] = s[n]
<1>1. PICK S : s \in Seq(S)
  BY DEF IsSequence
<1>2. s \in Seq(S \cup {e})
  BY <1>1
<1>3. Append(s, e) \in Seq(S \cup {e})
  BY <1>2
<1> QED
  BY <1>2, <1>3 DEF IsSequence

\* Another element at one place.
Replaced(s, n, e) == [s EXCEPT ![n] = e]

LEMMA ReplaceFacts ==
    ASSUME NEW s, IsSequence(s), NEW n \in 1 .. Len(s), NEW e
    PROVE  /\ IsSequence(Replaced(s, n, e)) /\ Len(Replaced(s, n, e)) = Len(s)
           /\ Replaced(s, n, e)[n] = e
           /\ \A m \in 1 .. Len(s) : m # n => Replaced(s, n, e)[m] = s[m]
<1>1. PICK S : s \in Seq(S)
  BY DEF IsSequence
<1>2. s \in Seq(S \cup {e})
  BY <1>1
<1>3. [s EXCEPT ![n] = e] \in Seq(S \cup {e})
  BY <1>2
<1> QED
  BY <1>2, <1>3 DEF IsSequence, Replaced

\* The last element is taken off.
Below(s) == SubSeq(s, 1, Len(s) - 1)

LEMMA PopFacts ==
    ASSUME NEW s, IsSequence(s), Len(s) > 0
    PROVE  /\ IsSequence(Below(s))
           /\ Len(Below(s)) = Len(s) - 1
           /\ \A n \in 1 .. Len(s) - 1 : Below(s)[n] = s[n]
<1>1. PICK S : s \in Seq(S)
  BY DEF IsSequence
<1>2. Len(s) \in Nat
  BY <1>1
<1>3. \A n \in 1 .. Len(s) - 1 : s[n] \in S
  BY <1>1, <1>2
<1>4. /\ SubSeq(s, 1, Len(s) - 1) \in Seq(S)
      /\ Len(SubSeq(s, 1, Len(s) - 1)) = IF 1 <= Len(s) - 1 THEN Len(s) - 1 - 1 + 1 ELSE 0
      /\ \A n \in 1 .. Len(s) - 1 - 1 + 1 : SubSeq(s, 1, Len(s) - 1)[n] = s[1 + n - 1]
  BY <1>2, <1>3, SubSeqProperties
<1>5. \A n \in 1 .. Len(s) - 1 : n \in 1 .. Len(s) - 1 - 1 + 1 /\ 1 + n - 1 = n
  BY <1>2
<1>6. (IF 1 <= Len(s) - 1 THEN Len(s) - 1 - 1 + 1 ELSE 0) = Len(s) - 1
  BY <1>2
<1>7. \A n \in 1 .. Len(s) - 1 : SubSeq(s, 1, Len(s) - 1)[n] = s[n]
  BY <1>4, <1>5
<1>8. Len(SubSeq(s, 1, Len(s) - 1)) = Len(s) - 1
  <2>1. Len(SubSeq(s, 1, Len(s) - 1)) = IF 1 <= Len(s) - 1 THEN Len(s) - 1 - 1 + 1 ELSE 0
    BY <1>4
  <2> QED
    BY <1>6, <2>1
<1>9. IsSequence(SubSeq(s, 1, Len(s) - 1))
  BY <1>4, Zenon DEF IsSequence
<1> QED
  BY <1>7, <1>8, <1>9 DEF Below

LEMMA EmptySequence == IsSequence(<<>>) /\ Len(<<>>) = 0
<1>1. <<>> \in Seq({})
  OBVIOUS
<1> QED
  BY <1>1 DEF IsSequence

LEMMA SingleSequence ==
    ASSUME NEW e
    PROVE  IsSequence(<<e>>) /\ Len(<<e>>) = 1 /\ <<e>>[1] = e
<1>1. <<e>> \in Seq({e})
  OBVIOUS
<1> QED
  BY <1>1 DEF IsSequence

-----------------------------------------------------------------------------
(* The stack. *)

\* The stack with its top frame replaced, or with a frame more.
Stacked(stack) ==
    /\ IsSequence(stack)
    /\ Len(stack) \in 1 .. MaxDepth
    /\ \A d \in 1 .. Len(stack) : IsFrame(stack[d]) /\ FrameOK(stack[d])
    /\ \A d \in 1 .. Len(stack) - 1 : WaitsFor(stack[d], stack[d + 1])

LEMMA StackFacts ==
    ASSUME IInv, pc = "run"
    PROVE  /\ Stacked(frames) /\ IsSequence(frames) /\ Depth \in 1 .. MaxDepth
           /\ Depth \in Nat \ {0} /\ MaxDepth \in Nat
           /\ IsFrame(Frame) /\ FrameOK(Frame) /\ Frame = frames[Depth]
           /\ Len(frames) = Depth
<1>1. /\ IsSequence(frames) /\ Depth \in 0 .. MaxDepth /\ frames # <<>>
      /\ \A d \in 1 .. Depth : IsFrame(frames[d]) /\ FrameOK(frames[d])
      /\ \A d \in 1 .. Depth - 1 : WaitsFor(frames[d], frames[d + 1])
  BY DEF IInv, TypeOK, Shape
<1>2. Depth \in Nat /\ Depth # 0 /\ MaxDepth \in Nat
  BY <1>1, SequenceFacts, SpellingsAssumption DEF Depth
<1>3. Depth \in 1 .. MaxDepth /\ Depth \in 1 .. Depth
  BY <1>1, <1>2
<1>4. Stacked(frames)
  BY <1>1, <1>3 DEF Stacked, Depth
<1> QED
  BY <1>1, <1>2, <1>3, <1>4 DEF Frame, Depth

\* A container has as many arguments as it has places, and they are spellings.
LEMMA SpellingFacts ==
    ASSUME NEW s \in Spellings
    PROVE  /\ s.form \in Containers => Len(s.args) = Arity(s.form)
           /\ \A n \in 1 .. Len(s.args) : s.args[n] \in Spellings
<1>1. s.args \in Seq(Spellings) /\ (s.form \in Containers => Len(s.args) = Arity(s.form))
  BY SpellingsAssumption
<1>2. \A n \in 1 .. Len(s.args) : s.args[n] \in Spellings
  BY <1>1
<1> QED
  BY <1>1, <1>2

\* new is the stack with f on top instead.
WithTop(new, stack, top, f) ==
    /\ Stacked(new) /\ Len(new) = top /\ new[top] = f
    /\ \A d \in 1 .. top : d # top => new[d] = stack[d]

\* A new top frame that keeps the spelling it is for.
LEMMA TopReplaced ==
    ASSUME NEW stack, Stacked(stack), NEW top, top = Len(stack),
           NEW f, IsFrame(f), FrameOK(f), f.spelling = stack[top].spelling
    PROVE  WithTop(Replaced(stack, top, f), stack, top, f)
<1> DEFINE new == Replaced(stack, top, f)
<1>1. top \in 1 .. top /\ top \in Nat
  <2>1. Len(stack) \in Nat /\ Len(stack) \in 1 .. MaxDepth
    BY SequenceFacts DEF Stacked
  <2>2. MaxDepth \in Nat
    BY SpellingsAssumption
  <2> QED
    BY <2>1, <2>2
<1>2. /\ IsSequence(new) /\ Len(new) = top /\ new[top] = f
      /\ \A d \in 1 .. top : d # top => new[d] = stack[d]
  BY <1>1, ReplaceFacts DEF Stacked
<1> HIDE DEF new
<1>3. \A d \in 1 .. top : IsFrame(new[d]) /\ FrameOK(new[d])
  BY <1>2 DEF Stacked
<1>4. ASSUME NEW d \in 1 .. top - 1 PROVE WaitsFor(new[d], new[d + 1])
  <2>1. d \in 1 .. top /\ d # top /\ d + 1 \in 1 .. top
    BY <1>1
  <2>2. WaitsFor(stack[d], stack[d + 1]) /\ new[d] = stack[d]
    BY <1>2, <2>1 DEF Stacked
  <2>3. new[d + 1].spelling = stack[d + 1].spelling
    BY <1>2, <2>1
  <2> QED
    BY <2>2, <2>3 DEF WaitsFor
<1>5. Stacked(new)
  BY <1>2, <1>3, <1>4 DEF Stacked
<1> QED
  BY <1>2, <1>5 DEF new, WithTop

LEMMA PlaceBelow ==
    ASSUME NEW n \in Nat, n # 0, n # 1, NEW below, below = n - 1
    PROVE  /\ below \in Nat \ {0} /\ below \in 1 .. n /\ below \in 1 .. n - 1
           /\ below + 1 = n /\ n > 0 /\ below \in 1 .. below
  OBVIOUS

\* new is the stack without its top frame, and with f on top.
Popped(new, stack, below, f) ==
    /\ Stacked(new) /\ Len(new) = below /\ new[below] = f
    /\ \A d \in 1 .. below - 1 : new[d] = stack[d]

\* The stack without its top frame, which frame below got a result.
LEMMA TopReturned ==
    ASSUME NEW stack, Stacked(stack), Len(stack) # 1, NEW result,
           NEW below, below = Len(stack) - 1,
           NEW f, f = [stack[below] EXCEPT !.done = Append(@, result)]
    PROVE  /\ Popped(Replaced(Below(stack), below, f), stack, below, f)
           /\ f.done = Append(stack[below].done, result)
           /\ below \in 1 .. Len(stack)
<1> DEFINE lower == Below(stack)
<1>1. /\ below \in Nat \ {0} /\ below \in 1 .. Len(stack) /\ below \in 1 .. Len(stack) - 1
      /\ below + 1 = Len(stack) /\ Len(stack) > 0 /\ below \in 1 .. below
  <2>1. Len(stack) \in Nat /\ Len(stack) # 0
    BY SequenceFacts DEF Stacked
  <2> QED
    BY <2>1, PlaceBelow, Zenon
<1>2. /\ IsSequence(lower) /\ Len(lower) = below
      /\ \A d \in 1 .. below : lower[d] = stack[d]
  BY <1>1, PopFacts DEF Stacked
<1>3. /\ IsFrame(stack[below]) /\ FrameOK(stack[below])
      /\ WaitsFor(stack[below], stack[Len(stack)])
  BY <1>1 DEF Stacked
<1>4. /\ IsSequence(Append(stack[below].done, result))
      /\ Len(Append(stack[below].done, result)) = Len(stack[below].done) + 1
      /\ Len(stack[below].done) \in Nat
  BY <1>3, AppendFacts, SequenceFacts DEF IsFrame
<1>5. /\ f = [spelling |-> stack[below].spelling, current |-> stack[below].current,
              seen |-> stack[below].seen, open |-> stack[below].open,
              done |-> Append(stack[below].done, result)]
  BY <1>3 DEF IsFrame
<1>6. /\ f.spelling = stack[below].spelling /\ f.current = stack[below].current
      /\ f.seen = stack[below].seen /\ f.open = stack[below].open
      /\ f.done = Append(stack[below].done, result)
  BY <1>5
<1>7. IsFrame(f)
  BY <1>4, <1>5, <1>6 DEF IsFrame
<1>8. FrameOK(f)
  <2>1. f.open /\ Len(f.done) \in 0 .. Arity(f.current.form)
    BY <1>3, <1>4, <1>6 DEF FrameOK, WaitsFor, Arity
  <2> QED
    BY <1>3, <1>6, <2>1 DEF FrameOK, WaitsFor
<1>9. Stacked(lower)
  <2>1. \A d \in 1 .. below : d \in 1 .. Len(stack)
    BY <1>1
  <2>2. \A d \in 1 .. below - 1 :
           d \in 1 .. Len(stack) - 1 /\ d \in 1 .. below /\ d + 1 \in 1 .. below
    BY <1>1
  <2>3. below \in 1 .. MaxDepth
    BY <1>1, SpellingsAssumption DEF Stacked
  <2> QED
    BY <1>2, <2>1, <2>2, <2>3 DEF Stacked
<1>10. lower[below] = stack[below]
  BY <1>1, <1>2
<1> HIDE DEF lower
<1>11. WithTop(Replaced(lower, below, f), lower, below, f)
  <2>1. f.spelling = lower[below].spelling /\ below = Len(lower)
    BY <1>2, <1>6, <1>10
  <2> QED
    BY <1>7, <1>8, <1>9, <2>1, TopReplaced, Zenon
<1>12. \A d \in 1 .. below - 1 : d \in 1 .. below /\ d # below
  BY <1>1
<1> QED
  BY <1>1, <1>2, <1>6, <1>11, <1>12 DEF lower, WithTop, Popped

-----------------------------------------------------------------------------
(* What a step has to show. *)

\* A result in the stack new is one of frames, or the type just returned.
ResultsFrom(new, types) ==
    \A d \in 1 .. Len(new) : \A n \in DOMAIN new[d].done :
        \/ new[d].done[n] \in types
        \/ \E e \in 1 .. Depth : \E m \in DOMAIN frames[e].done :
              new[d].done[n] = frames[e].done[m]

LEMMA ClosedStays ==
    ASSUME UNCHANGED input, NEW S
    PROVE  ClosedTypes(S)' = ClosedTypes(S)
  BY DEF ClosedTypes

\* The call goes on with another stack.
LEMMA RunningIInv ==
    ASSUME IInv, UNCHANGED input, pc' = "run", Stacked(frames'),
           success' \in BOOLEAN, diags' \in Seq(Diagnostics), success' <=> diags' = <<>>,
           NEW types, ResultsFrom(frames', types),
           success' => success /\ \A S : ClosedTypes(S) => types \subseteq S
    PROVE  IInv'
<1>1. \A d \in 1 .. Len(frames') : IsFrame(frames'[d]) /\ FrameOK(frames'[d])
  BY DEF Stacked
<1>2. ASSUME NEW d \in 1 .. Len(frames') PROVE FrameOK(frames[d])'
  <2>1. FrameOK(frames'[d])
    BY <1>1
  <2>2. \A path : LookupAliasOnce(path)' = LookupAliasOnce(path)
    BY DEF LookupAliasOnce
  <2> QED
    BY <2>1, <2>2 DEF FrameOK
<1>3. Len(frames') \in 0 .. MaxDepth /\ Len(frames') # 0
  BY SpellingsAssumption DEF Stacked
<1>4. frames' # <<>>
  BY <1>3
<1>5. TypeOK'
  <2>1. \A d \in 1 .. Len(frames') - 1 : WaitsFor(frames'[d], frames'[d + 1])
    BY DEF Stacked
  <2>2. input' \in Inputs
    BY DEF IInv, TypeOK
  <2> QED
    BY <1>2, <1>3, <1>4, <2>1, <2>2 DEF TypeOK, Depth, WaitsFor
<1>6. Shape'
  BY <1>1 DEF Shape, Depth, Stacked, IsFrame
<1>7. ASSUME success', NEW S, ClosedTypes(S)' PROVE ResultsIn(S)'
  <2>1. ClosedTypes(S)
    BY <1>7, ClosedStays
  <2>2. types \subseteq S /\ \A d \in 1 .. Depth : \A n \in DOMAIN frames[d].done : frames[d].done[n] \in S
    BY <1>7, <2>1 DEF IInv, ResultsResolved, ResultsIn
  <2>3. \A d \in 1 .. Len(frames') : \A n \in DOMAIN frames'[d].done : frames'[d].done[n] \in S
    BY <2>2 DEF ResultsFrom
  <2> QED
    BY <2>3 DEF ResultsIn, Depth
<1>8. ResultsResolved'
  BY <1>7 DEF ResultsResolved
<1> QED
  BY <1>5, <1>6, <1>8 DEF IInv, FlagMatchesDiagnostics

\* The outermost call returns type.
LEMMA DoneIInv ==
    ASSUME IInv, UNCHANGED input, pc' = "done", frames' = <<>>,
           success' \in BOOLEAN, diags' \in Seq(Diagnostics), success' <=> diags' = <<>>,
           success' => \A S : ClosedTypes(S) => ret' \in S
    PROVE  IInv'
<1>1. Depth' = 0 /\ IsSequence(frames') /\ \A d : d \notin 1 .. Depth' /\ d \notin 1 .. Depth' - 1
  BY EmptySequence DEF Depth
<1>2. TypeOK'
  <2>1. input' \in Inputs /\ 0 \in 0 .. MaxDepth
    BY SpellingsAssumption DEF IInv, TypeOK
  <2> QED
    BY <1>1, <2>1 DEF TypeOK
<1>3. Shape'
  BY <1>1 DEF Shape
<1>4. ASSUME success', NEW S, ClosedTypes(S)' PROVE ResultsIn(S)'
  <2>1. ret' \in S
    BY <1>4, ClosedStays
  <2> QED
    BY <1>1, <2>1 DEF ResultsIn
<1>5. ResultsResolved'
  BY <1>4 DEF ResultsResolved
<1> QED
  BY <1>2, <1>3, <1>5 DEF IInv, FlagMatchesDiagnostics

\* The call below gets what the call above returns.
LEMMA ReturnShape ==
    ASSUME IInv, pc = "run", NEW type, Return(type), Depth # 1, NEW below, below = Depth - 1,
           NEW f, f = [frames[below] EXCEPT !.done = Append(@, type)]
    PROVE  /\ frames' = Replaced(Below(frames), below, f) /\ pc' = "run"
           /\ Popped(frames', frames, below, f)
           /\ f.done = Append(frames[below].done, type)
           /\ f.current = frames[below].current
           /\ below \in 1 .. Depth
<1>1. /\ Stacked(frames) /\ Depth \in Nat \ {0} /\ IsSequence(frames) /\ Len(frames) = Depth
  BY StackFacts
<1>2. below \in 1 .. Len(frames) - 1 /\ Len(frames) > 0 /\ below = Len(frames) - 1 /\ Len(frames) # 1
  BY <1>1
<1>3. Below(frames)[below] = frames[below]
  BY <1>1, <1>2, PopFacts
<1>4. /\ pc' = pc
      /\ frames' = [Below(frames) EXCEPT ![below].done = Append(@, type)]
  BY DEF Return, Below, Depth
<1>5. frames' = Replaced(Below(frames), below, f) /\ pc' = "run"
  BY <1>3, <1>4 DEF Replaced
<1>6. /\ Popped(Replaced(Below(frames), below, f), frames, below, f)
      /\ f.done = Append(frames[below].done, type)
      /\ below \in 1 .. Len(frames)
  BY <1>1, <1>2, TopReturned, ZenonT(40)
<1>7. f.current = frames[below].current
  <2>1. IsFrame(frames[below])
    BY <1>1, <1>6 DEF Stacked
  <2> QED
    BY <2>1 DEF IsFrame
<1> QED
  BY <1>1, <1>5, <1>6, <1>7

\* A call returns type: to a container that waits for it, or for good.
LEMMA ReturnIInv ==
    ASSUME IInv, pc = "run", UNCHANGED input, NEW type, Return(type),
           success' \in BOOLEAN, diags' \in Seq(Diagnostics), success' <=> diags' = <<>>,
           success' => success /\ \A S : ClosedTypes(S) => type \in S
    PROVE  IInv'
<1>1. CASE Depth = 1
  BY <1>1, DoneIInv DEF Return
<1>2. CASE Depth # 1
  <2>0. PICK below : below = Depth - 1
    OBVIOUS
  <2>1. PICK f : f = [frames[below] EXCEPT !.done = Append(@, type)]
    OBVIOUS
  <2>2. /\ Popped(frames', frames, below, f) /\ pc' = "run" /\ below \in 1 .. Depth
        /\ f.done = Append(frames[below].done, type)
    BY <1>2, <2>0, <2>1, ReturnShape
  <2>3. /\ Stacked(frames') /\ Len(frames') = below /\ frames'[below] = f
        /\ \A d \in 1 .. below - 1 : frames'[d] = frames[d]
    BY <2>2, Zenon DEF Popped
  <2>4. IsSequence(frames[below].done)
    BY <2>2 DEF IInv, Shape, IsFrame
  <2>5. \A n \in DOMAIN f.done :
           f.done[n] = type \/ \E m \in DOMAIN frames[below].done : f.done[n] = frames[below].done[m]
    <3>1. /\ DOMAIN f.done = 1 .. Len(frames[below].done) + 1
          /\ f.done[Len(frames[below].done) + 1] = type
          /\ \A m \in 1 .. Len(frames[below].done) : f.done[m] = frames[below].done[m]
          /\ DOMAIN frames[below].done = 1 .. Len(frames[below].done)
          /\ Len(frames[below].done) \in Nat
      BY <2>2, <2>4, AppendFacts, SequenceFacts
    <3>2. \A n \in 1 .. Len(frames[below].done) + 1 :
             n \in 1 .. Len(frames[below].done) \/ n = Len(frames[below].done) + 1
      BY <3>1
    <3> QED
      BY <3>1, <3>2
  <2>6. \A d \in 1 .. below : d = below \/ d \in 1 .. below - 1
    BY <2>2
  <2>7. \A d \in 1 .. below : d \in 1 .. Depth
    BY <2>2, StackFacts
  <2>8. ResultsFrom(frames', {type})
    BY <2>3, <2>5, <2>6, <2>7 DEF ResultsFrom
  <2>9. success' => success /\ \A S : ClosedTypes(S) => {type} \subseteq S
    OBVIOUS
  <2> QED
    BY <2>2, <2>3, <2>8, <2>9, RunningIInv
<1> QED
  BY <1>1, <1>2

-----------------------------------------------------------------------------
(* The actions. *)

LEMMA ReportFacts ==
    ASSUME IInv, NEW kinds \in Seq(Diagnostics), kinds # <<>>, Report(kinds)
    PROVE  /\ success' = FALSE /\ success' \in BOOLEAN
           /\ diags' \in Seq(Diagnostics) /\ (success' <=> diags' = <<>>)
<1>1. diags \in Seq(Diagnostics) /\ diags' = diags \o kinds /\ success' = FALSE
  BY DEF IInv, TypeOK, Report
<1>2. diags \o kinds \in Seq(Diagnostics) /\ diags \o kinds # <<>>
  BY <1>1
<1> QED
  BY <1>1, <1>2

LEMMA QuietFacts ==
    ASSUME IInv, UNCHANGED <<success, diags>>
    PROVE  success' \in BOOLEAN /\ diags' \in Seq(Diagnostics) /\ (success' <=> diags' = <<>>)
<1>1. success \in BOOLEAN /\ diags \in Seq(Diagnostics) /\ (success <=> diags = <<>>)
  BY Zenon DEF IInv, TypeOK, FlagMatchesDiagnostics
<1> QED
  BY <1>1, Zenon

\* The kinds of diagnostics, one or two at a time.
LEMMA KindFacts ==
    /\ \A kind \in Diagnostics : <<kind>> \in Seq(Diagnostics) /\ <<kind>> # <<>>
    /\ <<"unsupported_type", "unsupported_key">> \in Seq(Diagnostics)
    /\ <<"unsupported_type", "unsupported_key">> # <<>>
    /\ {"alias_cycle", "unsupported_type", "unsupported_extent", "unsupported_key"} = Diagnostics
  BY DEF Diagnostics

\* A call that fails reports and returns.
LEMMA FailIInv ==
    ASSUME IInv, pc = "run", UNCHANGED input, NEW type, Return(type),
           NEW kinds \in Seq(Diagnostics), kinds # <<>>, Report(kinds)
    PROVE  IInv'
<1>1. /\ success' = FALSE /\ success' \in BOOLEAN
      /\ diags' \in Seq(Diagnostics) /\ (success' <=> diags' = <<>>)
  BY ReportFacts
<1> QED
  BY <1>1, ReturnIInv

\* A call that succeeds returns a type of every closed set.
LEMMA SucceedIInv ==
    ASSUME IInv, pc = "run", UNCHANGED <<input, success, diags>>, NEW type, Return(type),
           success => \A S : ClosedTypes(S) => type \in S
    PROVE  IInv'
<1>1. success' \in BOOLEAN /\ diags' \in Seq(Diagnostics) /\ (success' <=> diags' = <<>>)
  BY QuietFacts
<1> QED
  BY <1>1, ReturnIInv

\* The top frame goes on, with the same results.
LEMMA GoOnIInv ==
    ASSUME IInv, pc = "run", UNCHANGED <<input, success, diags, pc>>,
           NEW f, frames' = Replaced(frames, Depth, f), IsFrame(f), FrameOK(f),
           f.spelling = Frame.spelling, f.done = Frame.done
    PROVE  IInv'
<1>1. /\ Stacked(frames) /\ Depth \in Nat \ {0} /\ Depth \in 1 .. Depth
      /\ Frame = frames[Depth] /\ Depth = Len(frames)
  BY StackFacts
<1>2. WithTop(frames', frames, Depth, f)
  BY <1>1, TopReplaced, Zenon
<1>3. /\ Stacked(frames') /\ Len(frames') = Depth /\ frames'[Depth] = f
      /\ \A d \in 1 .. Depth : d # Depth => frames'[d] = frames[d]
  BY <1>2, Zenon DEF WithTop
<1>4. ResultsFrom(frames', {})
  BY <1>1, <1>3 DEF ResultsFrom
<1>5. success' \in BOOLEAN /\ diags' \in Seq(Diagnostics) /\ (success' <=> diags' = <<>>)
  BY QuietFacts
<1> QED
  BY <1>3, <1>4, <1>5, RunningIInv

LEMMA RecordUpdates ==
    ASSUME NEW g, NEW target, NEW path, NEW value,
           g = [spelling |-> g.spelling, current |-> g.current, seen |-> g.seen,
                open |-> g.open, done |-> g.done]
    PROVE  /\ [g EXCEPT !.open = value]
                = [spelling |-> g.spelling, current |-> g.current, seen |-> g.seen,
                   open |-> value, done |-> g.done]
           /\ [g EXCEPT !.current = target, !.seen = @ \cup {path}]
                = [spelling |-> g.spelling, current |-> target, seen |-> g.seen \cup {path},
                   open |-> g.open, done |-> g.done]
<1> DEFINE h == [g EXCEPT !.current = target]
<1>1. h = [spelling |-> g.spelling, current |-> target, seen |-> g.seen,
           open |-> g.open, done |-> g.done]
  OBVIOUS
<1>2. [g EXCEPT !.current = target, !.seen = @ \cup {path}] = [h EXCEPT !.seen = @ \cup {path}]
  OBVIOUS
<1> HIDE DEF h
<1>3. \A w : [h EXCEPT !.seen = w] = [spelling |-> g.spelling, current |-> target, seen |-> w,
                                      open |-> g.open, done |-> g.done]
  BY <1>1
<1>4. h.seen = g.seen
  BY <1>1
<1>5. [h EXCEPT !.seen = @ \cup {path}] =
        [spelling |-> g.spelling, current |-> target, seen |-> g.seen \cup {path},
         open |-> g.open, done |-> g.done]
  BY <1>3, <1>4
<1> QED
  BY <1>2, <1>5

\* The two updates of a frame, and what they leave of its parts.
Followed(s, n, target, path) == [s EXCEPT ![n].current = target, ![n].seen = @ \cup {path}]
Opened(s, n, value) == [s EXCEPT ![n].open = value]

LEMMA FrameUpdates ==
    ASSUME NEW s, IsSequence(s), NEW n \in 1 .. Len(s), IsFrame(s[n]),
           NEW target, NEW path, NEW value
    PROVE  /\ Followed(s, n, target, path)
                = Replaced(s, n, [spelling |-> s[n].spelling, current |-> target,
                                  seen |-> s[n].seen \cup {path}, open |-> s[n].open,
                                  done |-> s[n].done])
           /\ Opened(s, n, value)
                = Replaced(s, n, [spelling |-> s[n].spelling, current |-> s[n].current,
                                  seen |-> s[n].seen, open |-> value, done |-> s[n].done])
<1>1. n \in DOMAIN s /\ s = [m \in DOMAIN s |-> s[m]]
  <2>1. PICK S : s \in Seq(S)
    BY DEF IsSequence
  <2> QED
    BY <2>1
<1> DEFINE g == s[n]
<1>2. g = [spelling |-> g.spelling, current |-> g.current, seen |-> g.seen,
           open |-> g.open, done |-> g.done]
  BY DEF IsFrame
<1> HIDE DEF g
<1>3. [g EXCEPT !.open = value] =
        [spelling |-> g.spelling, current |-> g.current, seen |-> g.seen,
         open |-> value, done |-> g.done]
  BY <1>2, RecordUpdates
<1>4. [g EXCEPT !.current = target, !.seen = @ \cup {path}] =
        [spelling |-> g.spelling, current |-> target, seen |-> g.seen \cup {path},
         open |-> g.open, done |-> g.done]
  BY <1>2, RecordUpdates
<1>5. [s EXCEPT ![n].open = value] = [s EXCEPT ![n] = [g EXCEPT !.open = value]]
  BY DEF g
<1>6. [s EXCEPT ![n].current = target, ![n].seen = @ \cup {path}]
        = [s EXCEPT ![n] = [g EXCEPT !.current = target, !.seen = @ \cup {path}]]
  BY <1>1 DEF g
<1> QED
  BY <1>3, <1>4, <1>5, <1>6 DEF Replaced, Followed, Opened, g

LEMMA FollowAliasIInv == ASSUME IInv, FollowAlias PROVE IInv'
<1>1. pc = "run" /\ ~Frame.open
  BY DEF FollowAlias, Resolving
<1>2. PICK target \in LookupAliasOnce(Current.path) :
         frames' = [frames EXCEPT ![Depth].current = target,
                                  ![Depth].seen = @ \cup {Current.path}]
  BY DEF FollowAlias
<1>3. target \in Spellings
  <2>1. input \in Inputs
    BY DEF IInv, TypeOK
  <2>2. \E name \in DOMAIN input.aliases : target = input.aliases[name]
    BY <1>2 DEF LookupAliasOnce
  <2> QED
    BY <2>1, <2>2, SpellingsAssumption
<1>4. IsFrame(Frame) /\ FrameOK(Frame) /\ IsSequence(frames) /\ Depth \in 1 .. Depth
      /\ Frame = frames[Depth] /\ Depth = Len(frames)
  BY <1>1, StackFacts
<1> DEFINE f == [spelling |-> Frame.spelling, current |-> target,
                 seen |-> Frame.seen \cup {Current.path}, open |-> Frame.open,
                 done |-> Frame.done]
<1>5. frames' = Replaced(frames, Depth, f)
  <2>1. frames' = Followed(frames, Depth, target, Current.path)
    BY <1>2 DEF Followed
  <2> QED
    BY <1>4, <2>1, FrameUpdates
<1>6. IsFrame(f)
  BY <1>4 DEF IsFrame
<1>7. FrameOK(f)
  BY <1>1, <1>2, <1>3, <1>4 DEF FrameOK
<1>8. f.spelling = Frame.spelling /\ f.done = Frame.done
  OBVIOUS
<1>9. UNCHANGED <<input, success, diags, pc>>
  BY DEF FollowAlias
<1> HIDE DEF f
<1> QED
  BY <1>1, <1>5, <1>6, <1>7, <1>8, <1>9, GoOnIInv

LEMMA OpenContainerIInv == ASSUME IInv, OpenContainer PROVE IInv'
<1>1. /\ pc = "run" /\ ~Frame.open /\ Current.form \in Containers
      /\ frames' = [frames EXCEPT ![Depth].open = TRUE]
      /\ UNCHANGED <<input, success, diags, pc>>
  BY DEF OpenContainer, Classifying, Resolved, Resolving
<1>2. IsFrame(Frame) /\ FrameOK(Frame) /\ IsSequence(frames) /\ Depth \in 1 .. Depth
      /\ Frame = frames[Depth] /\ Depth = Len(frames)
  BY <1>1, StackFacts
<1> DEFINE f == [spelling |-> Frame.spelling, current |-> Frame.current, seen |-> Frame.seen,
                 open |-> TRUE, done |-> Frame.done]
<1>3. frames' = Replaced(frames, Depth, f)
  <2>1. frames' = Opened(frames, Depth, TRUE)
    BY <1>1 DEF Opened
  <2> QED
    BY <1>2, <2>1, FrameUpdates
<1>4. IsFrame(f)
  BY <1>2 DEF IsFrame
<1>5. FrameOK(f)
  BY <1>1, <1>2, EmptySequence DEF FrameOK, Arity, Current
<1>6. f.spelling = Frame.spelling /\ f.done = Frame.done
  OBVIOUS
<1> HIDE DEF f
<1> QED
  BY <1>1, <1>3, <1>4, <1>5, <1>6, GoOnIInv

LEMMA EnterArgumentIInv == ASSUME IInv, EnterArgument PROVE IInv'
<1> DEFINE arg == Current.args[Len(Frame.done) + 1]
           f == NewFrame(arg)
<1>1. /\ pc = "run" /\ Frame.open /\ Depth < MaxDepth /\ Len(Frame.done) < Arity(Current.form)
      /\ frames' = Append(frames, f) /\ UNCHANGED <<input, success, diags, pc>>
  BY DEF EnterArgument
<1>2. /\ Stacked(frames) /\ IsSequence(frames) /\ Depth \in Nat \ {0} /\ MaxDepth \in Nat
      /\ IsFrame(Frame) /\ FrameOK(Frame) /\ Frame = frames[Depth] /\ Depth = Len(frames)
  BY <1>1, StackFacts
<1>3. Len(Frame.done) \in Nat /\ Current = Frame.current
  BY <1>2, SequenceFacts DEF IsFrame, Current
<1>4. arg \in Spellings
  <2>1. Current \in Spellings /\ Current.form \in Containers
    BY <1>1, <1>2, <1>3 DEF FrameOK
  <2>2. Len(Frame.done) + 1 \in 1 .. Len(Current.args)
    BY <1>1, <1>3, <2>1, SpellingFacts DEF Arity
  <2> QED
    BY <2>1, <2>2, SpellingFacts
<1>5. /\ f.spelling = arg /\ f.current = arg /\ f.seen = {} /\ f.open = FALSE /\ f.done = <<>>
      /\ IsFrame(f)
  BY EmptySequence DEF NewFrame, IsFrame
<1>6. FrameOK(f)
  BY <1>4, <1>5 DEF FrameOK
<1>7. WaitsFor(Frame, f)
  BY <1>1, <1>3, <1>5 DEF WaitsFor
<1> HIDE DEF f, arg
<1>8. /\ IsSequence(frames') /\ Len(frames') = Depth + 1 /\ frames'[Depth + 1] = f
      /\ \A d \in 1 .. Depth : frames'[d] = frames[d]
  BY <1>1, <1>2, AppendFacts
<1>9. /\ \A d \in 1 .. Depth + 1 : d \in 1 .. Depth \/ d = Depth + 1
      /\ \A d \in 1 .. Depth : d \in 1 .. Depth - 1 \/ d = Depth
      /\ \A d \in 1 .. Depth - 1 : d \in 1 .. Depth /\ d + 1 \in 1 .. Depth
      /\ Depth + 1 - 1 = Depth /\ Depth \in 1 .. Depth /\ Depth + 1 \in 1 .. MaxDepth
  BY <1>1, <1>2
<1>10. Stacked(frames')
  <2>1. \A d \in 1 .. Depth + 1 : IsFrame(frames'[d]) /\ FrameOK(frames'[d])
    BY <1>2, <1>5, <1>6, <1>8, <1>9 DEF Stacked
  <2>2. \A d \in 1 .. Depth : WaitsFor(frames'[d], frames'[d + 1])
    BY <1>2, <1>7, <1>8, <1>9 DEF Stacked
  <2> QED
    BY <1>8, <1>9, <2>1, <2>2 DEF Stacked
<1>11. ResultsFrom(frames', {})
  BY <1>5, <1>8, <1>9 DEF ResultsFrom
<1>12. success' \in BOOLEAN /\ diags' \in Seq(Diagnostics) /\ (success' <=> diags' = <<>>)
  BY <1>1, QuietFacts
<1> QED
  BY <1>1, <1>10, <1>11, <1>12, RunningIInv

\* A container whose calls have returned: its result holds theirs, and is only
\* accepted when the key of a map is a string.
LEMMA ComposeIInv == ASSUME IInv, Compose PROVE IInv'
<1> DEFINE type == Type(Current.form, <<>>, Frame.done)
<1>1. /\ pc = "run" /\ Frame.open /\ Len(Frame.done) = Arity(Current.form)
      /\ Return(type) /\ UNCHANGED input
      /\ IF BadKey THEN Report(<<"unsupported_key">>) ELSE UNCHANGED <<success, diags>>
  BY DEF Compose
<1>2. CASE BadKey
  BY <1>1, <1>2, KindFacts, FailIInv DEF Diagnostics
<1>3. CASE ~BadKey
  <2>1. IsFrame(Frame) /\ FrameOK(Frame) /\ Frame = frames[Depth] /\ Depth \in 1 .. Depth
    BY <1>1, StackFacts
  <2>2. IsSequence(Frame.done) /\ Current.form \in Containers
    BY <1>1, <2>1 DEF IsFrame, FrameOK, Current
  <2>3. ASSUME success, NEW S, ClosedTypes(S) PROVE type \in S
    <3>1. \A n \in DOMAIN Frame.done : Frame.done[n] \in S
      BY <2>1, <2>3 DEF IInv, ResultsResolved, ResultsIn
    <3>2. CASE Current.form = "map"
      <4>1. Len(Frame.done) = 2 /\ Frame.done[1].kind = "string"
        BY <1>1, <1>3, <3>2 DEF Arity, BadKey
      <4>2. Frame.done = <<Frame.done[1], Frame.done[2]>> /\ 1 \in DOMAIN Frame.done /\ 2 \in DOMAIN Frame.done
        BY <2>2, <4>1 DEF IsSequence
      <4>3. Type("map", <<>>, <<Frame.done[1], Frame.done[2]>>) \in S
        BY <2>3, <3>1, <4>1, <4>2 DEF ClosedTypes
      <4> QED
        BY <3>2, <4>2, <4>3
    <3>3. CASE Current.form # "map"
      <4>1. Len(Frame.done) = 1 /\ Current.form \in {"vector", "optional", "array"}
        BY <1>1, <2>2, <3>3 DEF Arity, Containers
      <4>2. Frame.done = <<Frame.done[1]>> /\ 1 \in DOMAIN Frame.done
        BY <2>2, <4>1 DEF IsSequence
      <4>3. Type(Current.form, <<>>, <<Frame.done[1]>>) \in S
        BY <2>3, <3>1, <4>1, <4>2 DEF ClosedTypes
      <4> QED
        BY <4>2, <4>3
    <3> QED
      BY <3>2, <3>3
  <2> HIDE DEF type
  <2>4. UNCHANGED <<input, success, diags>>
    BY <1>1, <1>3
  <2> QED
    BY <1>1, <2>3, <2>4, SucceedIInv
<1> QED
  BY <1>2, <1>3

LEMMA ClassifyIInv ==
    ASSUME IInv, ClassifyScalar \/ ClassifyEnum \/ ClassifyUserDefined
    PROVE  IInv'
<1>1. pc = "run" /\ UNCHANGED <<input, success, diags>>
  BY DEF ClassifyScalar, ClassifyEnum, ClassifyUserDefined, Classifying, Resolved, Resolving
<1>2. CASE ClassifyScalar
  <2>1. Return(Type(Current.form, <<>>, <<>>)) /\ Current.form \in Scalars
    BY <1>2 DEF ClassifyScalar
  <2>2. \A S : ClosedTypes(S) => Type(Current.form, <<>>, <<>>) \in S
    BY <2>1 DEF ClosedTypes
  <2> QED
    BY <1>1, <2>1, <2>2, SucceedIInv
<1>3. CASE ClassifyEnum
  <2>1. PICK name \in ResolveNamedType(input.enums, Current.path) : Return(Type("enum", name, <<>>))
    BY <1>3 DEF ClassifyEnum
  <2>2. name \in input.enums
    BY DEF ResolveNamedType
  <2>3. \A S : ClosedTypes(S) => Type("enum", name, <<>>) \in S
    BY <2>2 DEF ClosedTypes
  <2> QED
    BY <1>1, <2>1, <2>3, SucceedIInv
<1>4. CASE ClassifyUserDefined
  <2>1. PICK name \in ResolveNamedType(input.types, Current.path) : Return(Type("user", name, <<>>))
    BY <1>4 DEF ClassifyUserDefined
  <2>2. name \in input.types
    BY DEF ResolveNamedType
  <2>3. \A S : ClosedTypes(S) => Type("user", name, <<>>) \in S
    BY <2>2 DEF ClosedTypes
  <2> QED
    BY <1>1, <2>1, <2>3, SucceedIInv
<1> QED
  BY <1>2, <1>3, <1>4

LEMMA RejectIInv ==
    ASSUME IInv, DetectCycle \/ RejectName \/ RejectExtent \/ RejectCutMap
    PROVE  IInv'
<1>1. pc = "run" /\ UNCHANGED input
  BY DEF DetectCycle, RejectName, RejectExtent, RejectCutMap, Classifying, Resolved, Resolving
<1>2. CASE DetectCycle
  BY <1>1, <1>2, KindFacts, FailIInv DEF DetectCycle, Diagnostics
<1>3. CASE RejectName
  BY <1>1, <1>3, KindFacts, FailIInv DEF RejectName, Diagnostics
<1>4. CASE RejectExtent
  BY <1>1, <1>4, KindFacts, FailIInv DEF RejectExtent, Diagnostics
<1>5. CASE RejectCutMap
  BY <1>1, <1>5, KindFacts, FailIInv DEF RejectCutMap
<1> QED
  BY <1>2, <1>3, <1>4, <1>5

LEMMA StopIInv == ASSUME IInv, StopAfterFailure PROVE IInv'
<1>1. /\ pc = "run" /\ ~success /\ Return(Unresolved) /\ UNCHANGED <<input, success, diags>>
  BY DEF StopAfterFailure, Resolved, Resolving
<1> QED
  BY <1>1, SucceedIInv

LEMMA InitIInv == Init => IInv
<1> SUFFICES ASSUME Init PROVE IInv
  OBVIOUS
<1> DEFINE first == NewFrame(input.spelling)
<1>1. /\ input \in Inputs /\ frames = <<first>> /\ success = TRUE /\ diags = <<>> /\ pc = "run"
  BY DEF Init
<1>2. input.spelling \in Spellings /\ MaxDepth \in Nat \ {0}
  BY <1>1, SpellingsAssumption
<1>3. /\ first.spelling = input.spelling /\ first.current = input.spelling /\ first.seen = {}
      /\ first.open = FALSE /\ first.done = <<>> /\ IsFrame(first)
  BY EmptySequence DEF NewFrame, IsFrame
<1>4. FrameOK(first)
  BY <1>2, <1>3 DEF FrameOK
<1> HIDE DEF first
<1>5. /\ IsSequence(frames) /\ Depth = 1 /\ frames[1] = first /\ frames # <<>>
  BY <1>1, SingleSequence DEF Depth
<1>6. /\ \A d \in 1 .. Depth : d = 1
      /\ \A d : d \notin 1 .. Depth - 1
      /\ Depth \in 0 .. MaxDepth
  BY <1>2, <1>5
<1>7. TypeOK
  BY <1>1, <1>4, <1>5, <1>6 DEF TypeOK
<1>8. Shape
  BY <1>3, <1>5, <1>6 DEF Shape
<1>9. ResultsResolved
  BY <1>1, <1>3, <1>5, <1>6 DEF ResultsResolved, ResultsIn
<1> QED
  BY <1>1, <1>7, <1>8, <1>9 DEF IInv, FlagMatchesDiagnostics

LEMMA NextIInv == IInv /\ [Next]_vars => IInv'
<1> SUFFICES ASSUME IInv, [Next]_vars PROVE IInv'
  OBVIOUS
<1>1. CASE Returned \/ UNCHANGED vars
  <2>1. UNCHANGED <<input, frames, success, diags, ret, pc>>
    BY <1>1 DEF Returned, vars
  <2>2. success' \in BOOLEAN /\ diags' \in Seq(Diagnostics) /\ (success' <=> diags' = <<>>)
    BY <2>1, QuietFacts
  <2>3. pc \in {"run", "done"}
    BY DEF IInv, TypeOK
  <2>4. CASE pc = "run"
    <3>1. Stacked(frames')
      BY <2>1, <2>4, StackFacts
    <3>2. ResultsFrom(frames', {})
      BY <2>1 DEF ResultsFrom, Depth
    <3> QED
      BY <2>1, <2>2, <2>4, <3>1, <3>2, RunningIInv
  <2>5. CASE pc = "done"
    <3>1. frames = <<>>
      BY <2>5 DEF IInv, TypeOK
    <3>2. success => \A S : ClosedTypes(S) => ret \in S
      BY <2>5 DEF IInv, ResultsResolved, ResultsIn
    <3> QED
      BY <2>1, <2>2, <2>5, <3>1, <3>2, DoneIInv
  <2> QED
    BY <2>3, <2>4, <2>5
<1> QED
  BY <1>1, FollowAliasIInv, OpenContainerIInv, EnterArgumentIInv, ComposeIInv, ClassifyIInv,
     RejectIInv, StopIInv
  DEF Next

LEMMA Invariance == Spec => []IInv
  BY InitIInv, NextIInv, PTL DEF Spec

-----------------------------------------------------------------------------

\* The stack keeps its shape for any spelling, within any bound on its depth.
THEOREM TypeCorrect == Spec => []TypeOK
<1>1. IInv => TypeOK
  BY DEF IInv
<1> QED
  BY <1>1, Invariance, PTL

\* A field is refused exactly when there is a diagnostic to show for it.
THEOREM VerdictHolds == Spec => []VerdictMatchesDiagnostics
<1>1. IInv => VerdictMatchesDiagnostics
  BY DEF IInv, FlagMatchesDiagnostics, VerdictMatchesDiagnostics
<1> QED
  BY <1>1, Invariance, PTL

\* The type of an accepted field is known down to its scalars and names, and its
\* maps have string keys: no placeholder of a failed call gets into it.
THEOREM ResolutionHolds == Spec => []AcceptedTypeIsResolved
<1>1. IInv => AcceptedTypeIsResolved
  BY DEF IInv, ResultsResolved, ResultsIn, AcceptedTypeIsResolved
<1> QED
  BY <1>1, Invariance, PTL

LEMMA NextAddsNoName ==
    ASSUME IInv, [Next]_vars, ~success, NEW k \in Len(diags) + 1 .. Len(diags')
    PROVE  diags'[k] \in {"alias_cycle", "unsupported_key"}
<1>1. diags \in Seq(Diagnostics)
  BY DEF IInv, TypeOK
<1>2. diags' = diags \/ diags' = diags \o <<"alias_cycle">> \/ diags' = diags \o <<"unsupported_key">>
  BY DEF Next, DetectCycle, FollowAlias, StopAfterFailure, ClassifyScalar, ClassifyEnum,
         ClassifyUserDefined, RejectName, RejectExtent, RejectCutMap, OpenContainer,
         EnterArgument, Compose, Returned, vars, Classifying, Report
<1>3. \A kind : Len(diags \o <<kind>>) = Len(diags) + 1 /\ (diags \o <<kind>>)[Len(diags) + 1] = kind
  BY <1>1
<1>4. Len(diags) \in Nat
  BY <1>1
<1> QED
  BY <1>2, <1>3, <1>4

\* Once a field has failed, nothing met later is reported as unsupported.
THEOREM CascadeHolds == Spec => NoCascade
<1>1. IInv /\ [Next]_vars =>
        [~success => \A k \in Len(diags) + 1 .. Len(diags') :
            diags'[k] \in {"alias_cycle", "unsupported_key"}]_vars
  BY NextAddsNoName
<1> QED
  BY <1>1, Invariance, PTL DEF Spec, NoCascade
-----------------------------------------------------------------------------
(* The meanings of spellings, step by step.                                *)

LEMMA NatLeast == ASSUME NEW S \in SUBSET Nat, NEW n \in S
                  PROVE \E k \in S : \A j \in S : k <= j
<1>1. IsWellFoundedOn(OpToRel(<, Nat), Nat)
  BY NatLessThanWellFounded
<1>2. PICK k \in S : \A j \in S : ~(<<j, k>> \in OpToRel(<, Nat))
  BY <1>1, WFMin
<1>3. ASSUME NEW j \in S PROVE k <= j
  <2>1. j \in Nat /\ k \in Nat
    OBVIOUS
  <2>2. ~(j < k)
    BY <1>2, <1>3, <2>1 DEF OpToRel
  <2> QED
    BY <2>1, <2>2
<1> QED
  BY <1>2, <1>3

LEMMA Greatest ==
    ASSUME NEW n \in Nat, NEW S \in SUBSET (0 .. n), NEW e \in S
    PROVE  \E k \in S : \A j \in S : j <= k
<1> DEFINE T == {n - k : k \in S}
<1>1. T \in SUBSET Nat /\ n - e \in T
  OBVIOUS
<1>2. PICK m \in T : \A j \in T : m <= j
  <2> HIDE DEF T
  <2> QED
    BY <1>1, NatLeast
<1>3. PICK k \in S : m = n - k
  BY <1>2
<1>4. ASSUME NEW j \in S PROVE j <= k
  <2>1. n - k <= n - j
    BY <1>2, <1>3
  <2> QED
    BY <2>1
<1> QED
  BY <1>4

LEMMA InputFacts ==
    ASSUME NEW c \in Inputs
    PROVE  /\ Steps(c) \in Nat /\ MaxDepth \in Nat \ {0}
           /\ c.ns \in Seq(STRING) /\ Declared(c) \subseteq Names
           /\ \A name \in DOMAIN c.aliases : c.aliases[name] \in Spellings
           /\ c.spelling \in Spellings
<1>1. /\ c.ns \in Seq(STRING) /\ c.enums \subseteq Names /\ c.types \subseteq Names
      /\ DOMAIN c.aliases \subseteq Names /\ IsFiniteSet(DOMAIN c.aliases)
      /\ c.spelling \in Spellings /\ \A name \in DOMAIN c.aliases : c.aliases[name] \in Spellings
      /\ MaxDepth \in Nat \ {0}
  BY SpellingsAssumption
<1>2. Cardinality(DOMAIN c.aliases) \in Nat
  BY <1>1, FS_CardinalityType
<1>3. MaxDepth * (Cardinality(DOMAIN c.aliases) + 2) \in Nat
  BY <1>1, <1>2
<1> QED
  BY <1>1, <1>3 DEF Steps, Declared

\* One step more than the types of n - 1 steps.
MeaningsAfter(c, types, n) ==
    [site \in Sites(c) |-> [spelling \in Spellings |->
        IF n = 0 THEN Meaningless ELSE MeaningFrom(c, types[n - 1], spelling, site)]]

LEMMA MeaningsUnfold ==
    ASSUME NEW c \in Inputs, NEW n \in 0 .. Steps(c)
    PROVE  Meanings(c)[n] = MeaningsAfter(c, Meanings(c), n)
<1> DEFINE Solved(k) == \E g : g = [j \in 0 .. k |-> MeaningsAfter(c, g, j)]
           Unsolved == {k \in 0 .. Steps(c) : ~Solved(k)}
<1>1. Steps(c) \in Nat
  BY InputFacts
<1>2. \A g, h : MeaningsAfter(c, g, 0) = MeaningsAfter(c, h, 0)
  BY DEF MeaningsAfter
<1>3. ASSUME NEW g, NEW h, NEW j \in Nat \ {0}, g[j - 1] = h[j - 1]
      PROVE  MeaningsAfter(c, g, j) = MeaningsAfter(c, h, j)
  BY <1>3 DEF MeaningsAfter
<1>4. Solved(Steps(c))
  <2>1. SUFFICES ASSUME ~Solved(Steps(c)) PROVE FALSE
    OBVIOUS
  <2>2. Steps(c) \in Unsolved /\ Unsolved \in SUBSET Nat
    BY <1>1, <2>1
  <2> HIDE DEF Unsolved
  <2>3. PICK k \in Unsolved : \A j \in Unsolved : k <= j
    BY <2>2, NatLeast
  <2>4. k \in 0 .. Steps(c) /\ ~Solved(k)
    BY <2>3 DEF Unsolved
  <2>5. CASE k = 0
    <3>1. PICK g : g = [j \in 0 .. 0 |-> MeaningsAfter(c, <<>>, 0)]
      OBVIOUS
    <3>2. \A j \in 0 .. 0 : MeaningsAfter(c, <<>>, 0) = MeaningsAfter(c, g, j)
      BY <1>2
    <3>3. g = [j \in 0 .. 0 |-> MeaningsAfter(c, g, j)]
      BY <3>1, <3>2
    <3> QED
      BY <2>4, <2>5, <3>3
  <2>6. CASE k # 0
    <3>1. k - 1 \in 0 .. Steps(c) /\ ~(k <= k - 1) /\ k \in Nat \ {0}
      BY <1>1, <2>4, <2>6
    <3>2. Solved(k - 1)
      BY <2>3, <3>1 DEF Unsolved
    <3>3. PICK g : g = [j \in 0 .. k - 1 |-> MeaningsAfter(c, g, j)]
      BY <3>2
    <3>4. PICK h : h = [j \in 0 .. k |-> IF j < k THEN MeaningsAfter(c, g, j)
                                                  ELSE MeaningsAfter(c, g, k)]
      OBVIOUS
    <3>5. \A j \in 0 .. k - 1 : g[j] = h[j]
      BY <3>1, <3>3, <3>4
    <3>6. \A j \in 0 .. k : MeaningsAfter(c, g, j) = MeaningsAfter(c, h, j)
      <4>1. ASSUME NEW j \in 0 .. k, j # 0 PROVE j \in Nat \ {0} /\ g[j - 1] = h[j - 1]
        BY <3>1, <3>5, <4>1
      <4> QED
        BY <1>2, <1>3, <4>1
    <3>7. h = [j \in 0 .. k |-> MeaningsAfter(c, h, j)]
      <4>1. \A j \in 0 .. k : h[j] = MeaningsAfter(c, g, j)
        BY <3>1, <3>4
      <4> QED
        BY <3>4, <3>6, <4>1
    <3> QED
      BY <2>4, <3>7
  <2> QED
    BY <2>5, <2>6
<1>5. Meanings(c) = CHOOSE g : g = [j \in 0 .. Steps(c) |-> MeaningsAfter(c, g, j)]
  BY DEF Meanings, MeaningsAfter
<1>6. Meanings(c) = [j \in 0 .. Steps(c) |-> MeaningsAfter(c, Meanings(c), j)]
  BY <1>4, <1>5
<1> QED
  BY <1>6

LEMMA NestedUnfold ==
    ASSUME NEW R
    PROVE  /\ Nested(R)[0] = R
           /\ \A n \in 1 .. MaxDepth : Nested(R)[n] = Arguments(Nested(R)[n - 1])
<1> DEFINE Deeper(g, n) == IF n = 0 THEN R ELSE Arguments(g[n - 1])
           Solved(k) == \E g : g = [j \in 0 .. k |-> Deeper(g, j)]
           Unsolved == {k \in 0 .. MaxDepth : ~Solved(k)}
<1>1. MaxDepth \in Nat
  BY SpellingsAssumption
<1>2. \A g, h : Deeper(g, 0) = Deeper(h, 0)
  OBVIOUS
<1>3. ASSUME NEW g, NEW h, NEW j \in Nat \ {0}, g[j - 1] = h[j - 1]
      PROVE  Deeper(g, j) = Deeper(h, j)
  BY <1>3
<1>4. \A g : Deeper(g, 0) = R /\ \A n \in 1 .. MaxDepth : Deeper(g, n) = Arguments(g[n - 1])
  OBVIOUS
<1>5. Nested(R) = CHOOSE g : g = [j \in 0 .. MaxDepth |-> Deeper(g, j)]
  BY DEF Nested
<1> HIDE DEF Deeper
<1>6. Solved(MaxDepth)
  <2>1. SUFFICES ASSUME ~Solved(MaxDepth) PROVE FALSE
    OBVIOUS
  <2>2. MaxDepth \in Unsolved /\ Unsolved \in SUBSET Nat
    BY <1>1, <2>1
  <2> HIDE DEF Unsolved
  <2>3. PICK k \in Unsolved : \A j \in Unsolved : k <= j
    BY <2>2, NatLeast
  <2>4. k \in 0 .. MaxDepth /\ ~Solved(k)
    BY <2>3 DEF Unsolved
  <2>5. CASE k = 0
    <3>1. PICK g : g = [j \in 0 .. 0 |-> Deeper(<<>>, 0)]
      OBVIOUS
    <3>2. \A j \in 0 .. 0 : Deeper(<<>>, 0) = Deeper(g, j)
      BY <1>2
    <3>3. g = [j \in 0 .. 0 |-> Deeper(g, j)]
      BY <3>1, <3>2
    <3> QED
      BY <2>4, <2>5, <3>3
  <2>6. CASE k # 0
    <3>1. k - 1 \in 0 .. MaxDepth /\ ~(k <= k - 1) /\ k \in Nat \ {0}
      BY <1>1, <2>4, <2>6
    <3>2. Solved(k - 1)
      BY <2>3, <3>1 DEF Unsolved
    <3>3. PICK g : g = [j \in 0 .. k - 1 |-> Deeper(g, j)]
      BY <3>2
    <3>4. PICK h : h = [j \in 0 .. k |-> IF j < k THEN Deeper(g, j) ELSE Deeper(g, k)]
      OBVIOUS
    <3>5. \A j \in 0 .. k - 1 : g[j] = h[j]
      BY <3>1, <3>3, <3>4
    <3>6. \A j \in 0 .. k : Deeper(g, j) = Deeper(h, j)
      <4>1. ASSUME NEW j \in 0 .. k, j # 0 PROVE j \in Nat \ {0} /\ g[j - 1] = h[j - 1]
        BY <3>1, <3>5, <4>1
      <4> QED
        BY <1>2, <1>3, <4>1
    <3>7. h = [j \in 0 .. k |-> Deeper(h, j)]
      <4>1. \A j \in 0 .. k : h[j] = Deeper(g, j)
        BY <3>1, <3>4
      <4> QED
        BY <3>4, <3>6, <4>1
    <3> QED
      BY <2>4, <3>7
  <2> QED
    BY <2>5, <2>6
<1>7. Nested(R) = [j \in 0 .. MaxDepth |-> Deeper(Nested(R), j)]
  BY <1>5, <1>6
<1>8. \A n \in 1 .. MaxDepth : n \in 0 .. MaxDepth
  OBVIOUS
<1> QED
  BY <1>1, <1>4, <1>7, <1>8

-----------------------------------------------------------------------------
(* What a spelling denotes, and what the code finds for it. *)

\* Where a spelling is written: in the field, or in the target of an alias.
Origin(c, site) == IF site = <<>> THEN {c.spelling} ELSE Targets(c)

\* t is the type, in C++, of a spelling that a call d deep can come to.
Denotes(c, s, d, t) ==
    \E n \in 0 .. Steps(c), site \in Sites(c), k \in 0 .. d - 1 :
        /\ t = Meanings(c)[n][site][s] /\ t # Meaningless
        /\ s \in Nested(Origin(c, site))[k]

LEMMA DenotesStep ==
    ASSUME NEW c \in Inputs, NEW s \in Spellings, NEW d \in 1 .. MaxDepth, NEW t, Denotes(c, s, d, t)
    PROVE  \E n \in 1 .. Steps(c), site \in Sites(c), k \in 0 .. d - 1 :
              /\ t = MeaningFrom(c, Meanings(c)[n - 1], s, site) /\ t # Meaningless
              /\ s \in Nested(Origin(c, site))[k] /\ n - 1 \in 0 .. Steps(c)
<1>1. PICK n \in 0 .. Steps(c), site \in Sites(c), k \in 0 .. d - 1 :
         /\ t = Meanings(c)[n][site][s] /\ t # Meaningless
         /\ s \in Nested(Origin(c, site))[k]
  BY DEF Denotes
<1>2. Meanings(c)[n] = MeaningsAfter(c, Meanings(c), n)
  BY MeaningsUnfold
<1>3. t = IF n = 0 THEN Meaningless ELSE MeaningFrom(c, Meanings(c)[n - 1], s, site)
  BY <1>1, <1>2 DEF MeaningsAfter
<1>4. n # 0
  BY <1>1, <1>3
<1>5. n \in 1 .. Steps(c) /\ n - 1 \in 0 .. Steps(c)
  BY <1>4, InputFacts
<1> QED
  BY <1>1, <1>3, <1>4, <1>5

LEMMA DenotedScalar ==
    ASSUME NEW c \in Inputs, NEW s \in Spellings, NEW d \in 1 .. MaxDepth, NEW t, Denotes(c, s, d, t),
           s.form \in Scalars
    PROVE  t = Type(s.form, <<>>, <<>>)
<1>1. PICK n \in 1 .. Steps(c), site \in Sites(c), k \in 0 .. d - 1 :
         t = MeaningFrom(c, Meanings(c)[n - 1], s, site)
  BY DenotesStep
<1> QED
  BY <1>1 DEF MeaningFrom, Scalars, Containers

Composed(s, t) ==
    /\ t = Type(s.form, <<>>, t.args)
    /\ t.args = [k \in DOMAIN s.args |-> t.args[k]]

\* A container is one of what its arguments denote.
LEMMA DenotedContainer ==
    ASSUME NEW c \in Inputs, NEW s \in Spellings, NEW d \in 1 .. MaxDepth, NEW t, Denotes(c, s, d, t),
           s.form \in Containers
    PROVE  /\ Composed(s, t)
           /\ d < MaxDepth => \A k \in DOMAIN s.args : Denotes(c, s.args[k], d + 1, t.args[k])
<1>1. PICK n \in 1 .. Steps(c), site \in Sites(c), k \in 0 .. d - 1 :
         /\ t = MeaningFrom(c, Meanings(c)[n - 1], s, site) /\ t # Meaningless
         /\ s \in Nested(Origin(c, site))[k] /\ n - 1 \in 0 .. Steps(c)
  BY DenotesStep
<1> DEFINE types == Meanings(c)[n - 1]
<1>2. /\ \A a \in DOMAIN s.args : types[site][s.args[a]] # Meaningless
      /\ t = Type(s.form, <<>>, [a \in DOMAIN s.args |-> types[site][s.args[a]]])
  <2>1. s.form \notin Scalars /\ s.form # "name"
    BY DEF Scalars, Containers
  <2> HIDE DEF types
  <2>2. t = IF \A a \in DOMAIN s.args : types[site][s.args[a]] # Meaningless
            THEN Type(s.form, <<>>, [a \in DOMAIN s.args |-> types[site][s.args[a]]])
            ELSE Meaningless
    BY <1>1, <2>1 DEF MeaningFrom, types
  <2> QED
    BY <1>1, <2>2
<1> HIDE DEF types
<1>3. t.args = [a \in DOMAIN s.args |-> types[site][s.args[a]]]
  BY <1>2 DEF Type
<1>4. ASSUME d < MaxDepth, NEW a \in DOMAIN s.args
      PROVE  Denotes(c, s.args[a], d + 1, t.args[a])
  <2>1. k + 1 \in 0 .. (d + 1) - 1 /\ k + 1 \in 1 .. MaxDepth /\ (k + 1) - 1 = k
    BY <1>4, InputFacts
  <2>2. s.args[a] \in Nested(Origin(c, site))[k + 1]
    <3>1. Nested(Origin(c, site))[k + 1] = Arguments(Nested(Origin(c, site))[k])
      BY <2>1, NestedUnfold
    <3> QED
      BY <1>1, <1>4, <3>1 DEF Arguments
  <2>3. t.args[a] = Meanings(c)[n - 1][site][s.args[a]] /\ t.args[a] # Meaningless
    BY <1>2, <1>3, <1>4 DEF types
  <2> QED
    BY <1>1, <2>1, <2>2, <2>3 DEF Denotes
<1>5. Composed(s, t)
  <2>1. t.args = [a \in DOMAIN s.args |-> t.args[a]]
    BY <1>3
  <2> QED
    BY <1>2, <1>3, <2>1 DEF Composed
<1> QED
  BY <1>4, <1>5

\* Qualifying a name does not change its last component.
LEMMA Qualified ==
    ASSUME NEW scope \in Seq(STRING), NEW k \in 0 .. Len(scope), NEW path \in Names
    PROVE  /\ Unqualified(SubSeq(scope, 1, k) \o path) = Unqualified(path)
           /\ Unqualified(scope \o path) = Unqualified(path)
<1>1. ASSUME NEW prefix \in Seq(STRING)
      PROVE  Unqualified(prefix \o path) = Unqualified(path)
  <2>1. path \in Seq(STRING) /\ Len(path) \in 1 .. Len(path) /\ Len(prefix) \in Nat
    BY DEF Names
  <2>2. Len(prefix \o path) = Len(prefix) + Len(path)
        /\ (prefix \o path)[Len(prefix) + Len(path)] = path[Len(path)]
    BY <2>1
  <2> QED
    BY <2>2 DEF Unqualified
<1>2. SubSeq(scope, 1, k) \in Seq(STRING)
  <2>1. \A i \in 1 .. k : scope[i] \in STRING
    OBVIOUS
  <2>2. 1 \in Int /\ k \in Int /\ Len(scope) \in Nat
    OBVIOUS
  <2> QED
    BY <2>1, <2>2, SubSeqProperties
<1> QED
  BY <1>1, <1>2

\* The declaration that is next to the scope of the field on the way out.
Innermost(c, path, name) ==
    \E k \in 0 .. Len(c.ns) :
        /\ name = SubSeq(c.ns, 1, k) \o path
        /\ \A l \in 0 .. Len(c.ns) : SubSeq(c.ns, 1, l) \o path \in Declared(c) => l <= k

\* A name denotes the type t because it refers to a declaration.
Refers(c, s, d, t, name) ==
    /\ name \in Declared(c) /\ Unqualified(name) = Unqualified(s.path)
    /\ name \in DOMAIN c.aliases => Denotes(c, c.aliases[name], d, t)
    /\ name \notin DOMAIN c.aliases => t = Type(DeclaredAs(c, name), name, <<>>)
    /\ s.path \in Displaced(c) \/ Innermost(c, s.path, name)

LEMMA DenotedName ==
    ASSUME NEW c \in Inputs, NEW s \in Spellings, NEW d \in 1 .. MaxDepth, NEW t, Denotes(c, s, d, t),
           s.form = "name"
    PROVE  \E name : Refers(c, s, d, t, name)
<1>1. PICK n \in 1 .. Steps(c), site \in Sites(c), k \in 0 .. d - 1 :
         /\ t = MeaningFrom(c, Meanings(c)[n - 1], s, site) /\ t # Meaningless
         /\ s \in Nested(Origin(c, site))[k] /\ n - 1 \in 0 .. Steps(c)
  BY DenotesStep
<1>2. PICK name \in CppLookup(c, s, site) :
         t = IF name \in DOMAIN c.aliases THEN Meanings(c)[n - 1][name][c.aliases[name]]
             ELSE Type(DeclaredAs(c, name), name, <<>>)
  <2> DEFINE found == CppLookup(c, s, site)
             first == CHOOSE m \in found : TRUE
  <2>1. s.form \notin Scalars /\ s.form \notin Containers
    BY DEF Scalars, Containers
  <2> HIDE DEF found
  <2>2. t = IF found = {} THEN Meaningless
            ELSE IF first \in DOMAIN c.aliases THEN Meanings(c)[n - 1][first][c.aliases[first]]
            ELSE Type(DeclaredAs(c, first), first, <<>>)
    BY <1>1, <2>1 DEF MeaningFrom, found
  <2>3. found # {}
    BY <1>1, <2>2
  <2>4. first \in found
    BY <2>3
  <2> HIDE DEF first
  <2> QED
    BY <2>2, <2>3, <2>4 DEF found
<1> DEFINE scope == Scope(c, site)
<1>3. scope \in Seq(STRING) /\ s.path \in Names
  <2>1. ASSUME site # <<>> PROVE SubSeq(site, 1, Len(site) - 1) \in Seq(STRING)
    <3>1. site \in Seq(STRING) /\ Len(site) \in Nat
      BY <2>1, InputFacts DEF Sites, Declared, Names
    <3>2. \A i \in 1 .. Len(site) - 1 : site[i] \in STRING
      BY <3>1
    <3> QED
      BY <3>1, <3>2, SubSeqProperties
  <2> QED
    BY <2>1, InputFacts, SpellingsAssumption DEF Scope
<1> HIDE DEF scope
<1>4. PICK j \in 0 .. (IF s.global THEN 0 ELSE Len(scope)) :
         /\ name = SubSeq(scope, 1, j) \o s.path /\ name \in Declared(c) \ {site}
         /\ \A l \in 0 .. (IF s.global THEN 0 ELSE Len(scope)) :
               SubSeq(scope, 1, l) \o s.path \in Declared(c) \ {site} => l <= j
  BY <1>2 DEF CppLookup, scope
<1>5. j \in 0 .. Len(scope)
  BY <1>3, <1>4
<1>6. Unqualified(name) = Unqualified(s.path)
  BY <1>3, <1>4, <1>5, Qualified
<1>7. ASSUME name \in DOMAIN c.aliases PROVE Denotes(c, c.aliases[name], d, t)
  <2>1. name # <<>> /\ name \in Sites(c) /\ 0 \in 0 .. d - 1
    <3>1. name # <<>>
      BY <1>4, InputFacts DEF Names
    <3>2. name \in Sites(c)
      BY <1>7 DEF Sites
    <3>3. 0 \in 0 .. d - 1
      BY InputFacts
    <3> QED
      BY <3>1, <3>2, <3>3
  <2>2. c.aliases[name] \in Nested(Origin(c, name))[0]
    BY <1>7, <2>1, NestedUnfold DEF Origin, Targets
  <2>3. t = Meanings(c)[n - 1][name][c.aliases[name]]
    BY <1>2, <1>7
  <2> QED
    BY <1>1, <2>1, <2>2, <2>3 DEF Denotes
<1>8. s.path \in Displaced(c) \/ Innermost(c, s.path, name)
  <2>1. k \in 0 .. MaxDepth
    BY InputFacts
  <2>2. s \in Within(Origin(c, site))
    BY <1>1, <2>1 DEF Within
  <2>3. CASE site # <<>> \/ s.global
    BY <2>2, <2>3 DEF Origin, Displaced
  <2>4. CASE site = <<>> /\ ~s.global
    <3>1. scope = c.ns /\ Declared(c) \ {site} = Declared(c)
      BY <2>4, InputFacts DEF scope, Scope, Names
    <3> QED
      BY <1>4, <2>4, <3>1 DEF Innermost
  <2> QED
    BY <2>3, <2>4
<1> QED
  BY <1>2, <1>4, <1>6, <1>7, <1>8 DEF Refers

\* What the code finds has the same last component as what C++ finds.
LEMMA OnlyOne ==
    ASSUME NEW c \in Inputs, Unshadowed(c), NEW s, NEW d, NEW t, NEW name, Refers(c, s, d, t, name),
           NEW other \in Declared(c), Unqualified(other) = Unqualified(s.path)
    PROVE  \/ other = name
           \/ /\ DeclaredAs(c, other) = DeclaredAs(c, name) /\ DeclaredAs(c, other) # "alias"
              /\ Innermost(c, s.path, name)
  BY DEF Refers, Unshadowed

\* The alias the code follows is the one C++ means.
LEMMA FollowedIsMeant ==
    ASSUME input \in Inputs, Unshadowed(input), NEW s \in Spellings, s.form = "name",
           NEW d \in 1 .. MaxDepth, NEW t, Denotes(input, s, d, t),
           NEW target \in LookupAliasOnce(s.path)
    PROVE  Denotes(input, target, d, t)
<1>1. PICK c \in Inputs : c = input
  OBVIOUS
<1>2. PICK name : Refers(c, s, d, t, name)
  BY <1>1, DenotedName
<1>3. s.path \in Names /\ c.ns \in Seq(STRING)
  BY InputFacts, SpellingsAssumption
<1>4. PICK other \in DOMAIN c.aliases :
         target = c.aliases[other] /\ (other = c.ns \o s.path \/ other = s.path)
  BY <1>1 DEF LookupAliasOnce
<1>5. Unqualified(other) = Unqualified(s.path)
  <2>1. 0 \in 0 .. Len(c.ns)
    BY <1>3
  <2> QED
    BY <1>3, <1>4, <2>1, Qualified
<1>6. other \in Declared(c) /\ DeclaredAs(c, other) = "alias"
  BY DEF Declared, DeclaredAs
<1>7. other = name
  BY <1>1, <1>2, <1>5, <1>6, OnlyOne
<1> QED
  BY <1>1, <1>2, <1>4, <1>7 DEF Refers

\* The names among which the code finds none have none in an enclosing scope.
LEMMA NoneFound ==
    ASSUME input \in Inputs, NEW names, NEW path, ResolveNamedType(names, path) = {}
    PROVE  \A k \in 0 .. Len(input.ns) : SubSeq(input.ns, 1, k) \o path \notin names
<1> DEFINE found == {k \in 0 .. Len(input.ns) : SubSeq(input.ns, 1, k) \o path \in names}
<1>1. ASSUME NEW e \in found PROVE FALSE
  <2>1. Len(input.ns) \in Nat /\ found \in SUBSET (0 .. Len(input.ns))
    BY InputFacts
  <2> HIDE DEF found
  <2>2. PICK k \in found : \A j \in found : j <= k
    BY <1>1, <2>1, Greatest
  <2>3. SubSeq(input.ns, 1, k) \o path \in ResolveNamedType(names, path)
    BY <2>2 DEF ResolveNamedType, found
  <2> QED
    BY <2>3
<1> QED
  BY <1>1

\* An enum, or a struct where no enum is found, is the one C++ means.
LEMMA FoundIsMeant ==
    ASSUME input \in Inputs, Unshadowed(input), NEW s \in Spellings, s.form = "name",
           NEW d \in 1 .. MaxDepth, NEW t, Denotes(input, s, d, t),
           NEW kind, NEW names, NEW found \in ResolveNamedType(names, s.path),
           \/ kind = "enum" /\ names = input.enums
           \/ kind = "user" /\ names = input.types /\ ResolveNamedType(input.enums, s.path) = {}
    PROVE  t = Type(kind, found, <<>>)
<1>1. PICK c \in Inputs : c = input
  OBVIOUS
<1>2. PICK name : Refers(c, s, d, t, name)
  BY <1>1, DenotedName
<1>3. s.path \in Names /\ c.ns \in Seq(STRING)
  BY InputFacts, SpellingsAssumption
<1>4. PICK k \in 0 .. Len(c.ns) :
         /\ found = SubSeq(c.ns, 1, k) \o s.path /\ found \in names
         /\ \A l \in 0 .. Len(c.ns) : SubSeq(c.ns, 1, l) \o s.path \in names => l <= k
  BY <1>1 DEF ResolveNamedType
<1>5. Unqualified(found) = Unqualified(s.path)
  BY <1>3, <1>4, Qualified
<1>6. found \in Declared(c) /\ found \notin DOMAIN c.aliases
  BY <1>1, <1>4 DEF Declared, Unshadowed
<1>7. DeclaredAs(c, found) = kind
  <2>1. kind = "user" => found \notin c.enums
    BY <1>1, <1>4, NoneFound
  <2> QED
    BY <1>1, <1>4, <1>6, <2>1 DEF DeclaredAs
<1>8. name = found
  <2>1. CASE Innermost(c, s.path, name) /\ DeclaredAs(c, name) = DeclaredAs(c, found)
    <3>1. PICK l \in 0 .. Len(c.ns) :
             /\ name = SubSeq(c.ns, 1, l) \o s.path
             /\ \A i \in 0 .. Len(c.ns) : SubSeq(c.ns, 1, i) \o s.path \in Declared(c) => i <= l
      BY <2>1 DEF Innermost
    <3>2. name \in names
      BY <1>1, <1>2, <1>7, <2>1 DEF Refers, Declared, DeclaredAs
    <3>3. l <= k /\ k <= l
      BY <1>4, <1>6, <3>1, <3>2
    <3>4. l = k
      BY <3>3
    <3> QED
      BY <1>4, <3>1, <3>4
  <2> QED
    BY <1>1, <1>2, <1>5, <1>6, <2>1, OnlyOne
<1> QED
  BY <1>2, <1>6, <1>7, <1>8 DEF Refers

-----------------------------------------------------------------------------
(* Each running call is for a part of what the field means. *)

FieldMeaning(c) == CppMeaning(c, c.spelling, <<>>)

\* want[d] is the type that call d of the stack has to return.
Wanted(c, stack, want) ==
    /\ want[1] = FieldMeaning(c)
    /\ \A d \in 1 .. Len(stack) :
          /\ Denotes(c, stack[d].current, d, want[d])
          /\ \A k \in 1 .. Len(stack[d].done) : stack[d].done[k] = want[d].args[k]
    /\ \A d \in 1 .. Len(stack) - 1 : want[d + 1] = want[d].args[Len(stack[d].done) + 1]

Meant ==
    success /\ Unshadowed(input) /\ FieldMeaning(input) # Meaningless =>
        /\ pc = "done" => ret = FieldMeaning(input)
        /\ pc = "run" => \E want : Wanted(input, frames, want)

\* The calls are in order, and want says what for.
Going(want) ==
    /\ IInv /\ pc = "run" /\ Unshadowed(input) /\ FieldMeaning(input) # Meaningless
    /\ Wanted(input, frames, want)

LEMMA GoingFacts ==
    ASSUME NEW want, Going(want)
    PROVE  /\ Depth \in 1 .. MaxDepth /\ Depth \in Nat \ {0} /\ Depth = Len(frames)
           /\ Frame = frames[Depth] /\ Current = Frame.current /\ Current \in Spellings
           /\ IsSequence(frames) /\ IsSequence(Frame.done) /\ IsFrame(Frame)
           /\ Denotes(input, Current, Depth, want[Depth])
           /\ \A k \in 1 .. Len(Frame.done) : Frame.done[k] = want[Depth].args[k]
           /\ input \in Inputs /\ Unshadowed(input)
<1>1. /\ IsSequence(frames) /\ Depth \in 1 .. MaxDepth /\ Depth \in Nat \ {0}
      /\ IsFrame(Frame) /\ FrameOK(Frame) /\ Frame = frames[Depth] /\ Len(frames) = Depth
  BY StackFacts DEF Going
<1>2. Current = Frame.current /\ Current \in Spellings /\ IsSequence(Frame.done)
  BY <1>1 DEF Current, FrameOK, IsFrame
<1>3. Depth \in 1 .. Len(frames)
  BY <1>1
<1>4. /\ Denotes(input, Frame.current, Depth, want[Depth])
      /\ \A k \in 1 .. Len(Frame.done) : Frame.done[k] = want[Depth].args[k]
  BY <1>1, <1>3 DEF Going, Wanted
<1>5. input \in Inputs /\ Unshadowed(input)
  BY DEF Going, IInv, TypeOK
<1> QED
  BY <1>1, <1>2, <1>4, <1>5

\* A step either has failed or is a step of calls in order.
LEMMA MeantIfGoing ==
    ASSUME IInv, Meant, pc = "run", UNCHANGED input, success' = success \/ success' = FALSE,
           \A want : Going(want) =>
              /\ pc' = "done" => ret' = FieldMeaning(input)
              /\ pc' = "run" => \E new : Wanted(input, frames', new)
    PROVE  Meant'
<1>1. ASSUME success, Unshadowed(input), FieldMeaning(input) # Meaningless
      PROVE  \E want : Going(want)
  BY <1>1 DEF Meant, Going
<1>2. PICK c : c = input
  OBVIOUS
<1>3. ASSUME success', Unshadowed(c), FieldMeaning(c) # Meaningless
      PROVE  /\ pc' = "done" => ret' = FieldMeaning(c)
             /\ pc' = "run" => \E new : Wanted(c, frames', new)
  <2>1. PICK want : Going(want)
    BY <1>1, <1>2, <1>3
  <2> QED
    BY <1>2, <2>1
<1>4. input' = c
  BY <1>2
<1> QED
  BY <1>3, <1>4 DEF Meant

LEMMA ReturnWanted ==
    ASSUME NEW want, Going(want), NEW type, Return(type), type = want[Depth]
    PROVE  /\ pc' = "done" => ret' = FieldMeaning(input)
           /\ pc' = "run" => Wanted(input, frames', want)
<1>1. CASE Depth = 1
  <2>1. ret' = want[1] /\ pc' = "done"
    BY <1>1 DEF Return
  <2> QED
    BY <2>1 DEF Going, Wanted
<1>2. CASE Depth # 1
  <2>1. PICK below : below = Depth - 1
    OBVIOUS
  <2>2. PICK f : f = [frames[below] EXCEPT !.done = Append(@, type)]
    OBVIOUS
  <2>3. /\ Popped(frames', frames, below, f) /\ pc' = "run" /\ below \in 1 .. Depth
        /\ f.done = Append(frames[below].done, type) /\ f.current = frames[below].current
    BY <1>2, <2>1, <2>2, ReturnShape DEF Going
  <2>4. PICK stack : stack = frames'
    OBVIOUS
  <2>5. /\ Len(stack) = below /\ stack[below] = f
        /\ \A d \in 1 .. below - 1 : stack[d] = frames[d]
    BY <2>3, <2>4 DEF Popped
  <2>6. Depth \in Nat \ {0} /\ Depth = Len(frames) /\ below \in Nat \ {0} /\ below + 1 = Depth
    BY <1>2, <2>1, GoingFacts
  <2>7. /\ IsSequence(frames[below].done) /\ Len(frames[below].done) \in Nat
    BY <2>3, SequenceFacts DEF Going, IInv, Shape, IsFrame
  <2>8. /\ Len(f.done) = Len(frames[below].done) + 1
        /\ f.done[Len(frames[below].done) + 1] = type
        /\ \A k \in 1 .. Len(frames[below].done) : f.done[k] = frames[below].done[k]
    BY <2>3, <2>7, AppendFacts
  <2>9. type = want[below].args[Len(frames[below].done) + 1]
    <3>1. below \in 1 .. Len(frames) - 1
      BY <2>6
    <3> QED
      BY <2>6, <3>1 DEF Going, Wanted
  <2>10. ASSUME NEW d \in 1 .. below
         PROVE  /\ Denotes(input, stack[d].current, d, want[d])
                /\ \A k \in 1 .. Len(stack[d].done) : stack[d].done[k] = want[d].args[k]
    <3>1. /\ d \in 1 .. Len(frames)
          /\ Denotes(input, frames[d].current, d, want[d])
          /\ \A k \in 1 .. Len(frames[d].done) : frames[d].done[k] = want[d].args[k]
      BY <2>6 DEF Going, Wanted
    <3>2. CASE d = below
      <4>1. ASSUME NEW k \in 1 .. Len(f.done) PROVE f.done[k] = want[below].args[k]
        <5>1. CASE k = Len(frames[below].done) + 1
          BY <2>8, <2>9, <5>1
        <5>2. CASE k # Len(frames[below].done) + 1
          <6>1. k \in 1 .. Len(frames[below].done)
            BY <2>7, <2>8, <5>2
          <6> QED
            BY <2>8, <3>1, <3>2, <6>1
        <5> QED
          BY <5>1, <5>2
      <4> QED
        BY <2>3, <2>5, <3>1, <3>2, <4>1
    <3>3. CASE d # below
      <4>1. d \in 1 .. below - 1
        BY <2>6, <3>3
      <4> QED
        BY <2>5, <3>1, <4>1
    <3> QED
      BY <3>2, <3>3
  <2>11. ASSUME NEW d \in 1 .. below - 1
         PROVE  want[d + 1] = want[d].args[Len(stack[d].done) + 1]
    <3>1. d \in 1 .. Len(frames) - 1
      BY <2>6
    <3> QED
      BY <2>5, <3>1 DEF Going, Wanted
  <2>12. Wanted(input, stack, want)
    BY <2>5, <2>10, <2>11 DEF Wanted, Going
  <2> QED
    BY <2>3, <2>4, <2>12
<1> QED
  BY <1>1, <1>2

LEMMA WantedStays ==
    ASSUME NEW c, NEW old, NEW new, NEW want, Wanted(c, old, want), Len(new) = Len(old),
           Len(old) \in Nat,
           \A d \in 1 .. Len(old) :
              new[d].done = old[d].done /\ Denotes(c, new[d].current, d, want[d])
    PROVE  Wanted(c, new, want)
<1>1. \A d \in 1 .. Len(old) - 1 : d \in 1 .. Len(old)
  OBVIOUS
<1>2. ASSUME NEW d \in 1 .. Len(new)
      PROVE  /\ Denotes(c, new[d].current, d, want[d])
             /\ \A k \in 1 .. Len(new[d].done) : new[d].done[k] = want[d].args[k]
  <2>1. new[d].done = old[d].done /\ Denotes(c, new[d].current, d, want[d])
    OBVIOUS
  <2>2. \A k \in 1 .. Len(old[d].done) : old[d].done[k] = want[d].args[k]
    BY DEF Wanted
  <2> QED
    BY <2>1, <2>2
<1>3. ASSUME NEW d \in 1 .. Len(new) - 1
      PROVE  want[d + 1] = want[d].args[Len(new[d].done) + 1]
  <2>1. want[d + 1] = want[d].args[Len(old[d].done) + 1]
    BY DEF Wanted
  <2>2. new[d].done = old[d].done
    BY <1>1
  <2> QED
    BY <2>1, <2>2
<1>4. want[1] = FieldMeaning(c)
  BY DEF Wanted
<1> QED
  BY <1>2, <1>3, <1>4 DEF Wanted

LEMMA FollowMeant == ASSUME IInv, Meant, FollowAlias PROVE Meant'
<1>1. /\ pc = "run" /\ UNCHANGED <<input, success, pc>> /\ Current.form = "name"
  BY DEF FollowAlias, Resolving
<1>2. PICK target \in LookupAliasOnce(Current.path) :
         frames' = [frames EXCEPT ![Depth].current = target,
                                  ![Depth].seen = @ \cup {Current.path}]
  BY DEF FollowAlias
<1>3. ASSUME NEW want, Going(want) PROVE Wanted(input, frames', want)
  <2>1. /\ Depth \in 1 .. MaxDepth /\ Depth \in Nat \ {0} /\ Depth = Len(frames)
        /\ Frame = frames[Depth] /\ Current = Frame.current /\ Current \in Spellings
        /\ IsSequence(frames) /\ IsFrame(Frame)
        /\ Denotes(input, Current, Depth, want[Depth])
        /\ input \in Inputs /\ Unshadowed(input)
    BY <1>3, GoingFacts
  <2>2. Denotes(input, target, Depth, want[Depth])
    BY <1>1, <1>2, <2>1, FollowedIsMeant
  <2>3. PICK stack : stack = frames'
    OBVIOUS
  <2>4. PICK f : f = [spelling |-> Frame.spelling, current |-> target,
                      seen |-> Frame.seen \cup {Current.path}, open |-> Frame.open,
                      done |-> Frame.done]
    OBVIOUS
  <2>5. stack = Replaced(frames, Depth, f) /\ Depth \in 1 .. Len(frames)
    <3>1. stack = Followed(frames, Depth, target, Current.path)
      BY <1>2, <2>3 DEF Followed
    <3>2. PICK top \in 1 .. Len(frames) : top = Depth
      BY <2>1
    <3>3. Followed(frames, top, target, Current.path) = Replaced(frames, top, f)
      <4>1. IsFrame(frames[top]) /\ Frame = frames[top]
        BY <2>1, <3>2
      <4>2. f = [spelling |-> frames[top].spelling, current |-> target,
                 seen |-> frames[top].seen \cup {Current.path}, open |-> frames[top].open,
                 done |-> frames[top].done]
        BY <2>4, <4>1
      <4> QED
        BY <2>1, <4>1, <4>2, FrameUpdates
    <3> QED
      BY <3>1, <3>2, <3>3
  <2>6. /\ Len(stack) = Len(frames) /\ stack[Depth] = f
        /\ \A d \in 1 .. Len(frames) : d # Depth => stack[d] = frames[d]
    BY <2>1, <2>5, ReplaceFacts
  <2>7. f.current = target /\ f.done = Frame.done
    BY <2>4
  <2>8. \A d \in 1 .. Len(stack) : stack[d].done = frames[d].done
    BY <2>1, <2>6, <2>7
  <2>9. \A d \in 1 .. Len(stack) : Denotes(input, stack[d].current, d, want[d])
    BY <1>3, <2>2, <2>6, <2>7 DEF Going, Wanted
  <2>10. Wanted(input, stack, want)
    <3>1. Wanted(input, frames, want) /\ Len(frames) \in Nat
      BY <1>3, <2>1 DEF Going
    <3> QED
      BY <2>6, <2>8, <2>9, <3>1, WantedStays
  <2> QED
    BY <2>3, <2>10
<1> QED
  BY <1>1, <1>3, MeantIfGoing

LEMMA OpenMeant == ASSUME IInv, Meant, OpenContainer PROVE Meant'
<1>1. /\ pc = "run" /\ UNCHANGED <<input, success, pc>>
      /\ frames' = [frames EXCEPT ![Depth].open = TRUE]
  BY DEF OpenContainer, Classifying, Resolved, Resolving
<1>2. ASSUME NEW want, Going(want) PROVE Wanted(input, frames', want)
  <2>1. /\ Depth \in Nat \ {0} /\ Depth = Len(frames) /\ Frame = frames[Depth]
        /\ IsSequence(frames) /\ IsFrame(Frame)
    BY <1>2, GoingFacts
  <2>2. PICK stack : stack = frames'
    OBVIOUS
  <2>3. PICK f : f = [spelling |-> Frame.spelling, current |-> Frame.current, seen |-> Frame.seen,
                      open |-> TRUE, done |-> Frame.done]
    OBVIOUS
  <2>4. stack = Replaced(frames, Depth, f) /\ Depth \in 1 .. Len(frames)
    <3>1. stack = Opened(frames, Depth, TRUE)
      BY <1>1, <2>2 DEF Opened
    <3>2. Depth \in 1 .. Len(frames)
      BY <2>1
    <3> QED
      BY <2>1, <2>3, <3>1, <3>2, FrameUpdates
  <2>5. /\ Len(stack) = Len(frames) /\ stack[Depth] = f
        /\ \A d \in 1 .. Len(frames) : d # Depth => stack[d] = frames[d]
    BY <2>1, <2>4, ReplaceFacts
  <2>6. f.current = Frame.current /\ f.done = Frame.done
    BY <2>3
  <2>7. \A d \in 1 .. Len(stack) :
           stack[d].done = frames[d].done /\ stack[d].current = frames[d].current
    BY <2>1, <2>5, <2>6
  <2>8. /\ Wanted(input, frames, want) /\ Len(frames) \in Nat
        /\ \A d \in 1 .. Len(frames) : Denotes(input, frames[d].current, d, want[d])
    BY <1>2, <2>1 DEF Going, Wanted
  <2>9. Wanted(input, stack, want)
    BY <2>5, <2>7, <2>8, WantedStays
  <2> QED
    BY <2>2, <2>9
<1> QED
  BY <1>1, <1>2, MeantIfGoing

\* The call for an argument has to return what the argument means.
LEMMA EnterMeant == ASSUME IInv, Meant, EnterArgument PROVE Meant'
<1> DEFINE next == Len(Frame.done) + 1
           f == NewFrame(Current.args[next])
<1>1. /\ pc = "run" /\ Frame.open /\ Depth < MaxDepth /\ Len(Frame.done) < Arity(Current.form)
      /\ frames' = Append(frames, f) /\ UNCHANGED <<input, success, pc>>
  BY DEF EnterArgument
<1>2. ASSUME NEW want, Going(want) PROVE \E new : Wanted(input, frames', new)
  <2>1. /\ Depth \in 1 .. MaxDepth /\ Depth \in Nat \ {0} /\ Depth = Len(frames)
        /\ Frame = frames[Depth] /\ Current = Frame.current /\ Current \in Spellings
        /\ IsSequence(frames) /\ IsSequence(Frame.done) /\ IsFrame(Frame)
        /\ Denotes(input, Current, Depth, want[Depth]) /\ input \in Inputs
    BY <1>2, GoingFacts
  <2>2. Current.form \in Containers
    BY <1>1, <2>1, StackFacts DEF FrameOK, Going
  <2>3. next \in DOMAIN Current.args
    <3>1. Current.args \in Seq(Spellings) /\ Len(Current.args) = Arity(Current.form)
      BY <2>1, <2>2, SpellingsAssumption
    <3>2. Len(Frame.done) \in Nat
      BY <2>1, SequenceFacts
    <3> QED
      BY <1>1, <3>1, <3>2
  <2>4. Denotes(input, Current.args[next], Depth + 1, want[Depth].args[next])
    <3>1. PICK D : D = Depth
      OBVIOUS
    <3>2. PICK c : c = input
      OBVIOUS
    <3>3. Denotes(c, Current.args[next], D + 1, want[D].args[next])
      BY <1>1, <2>1, <2>2, <2>3, <3>1, <3>2, DenotedContainer
    <3> QED
      BY <3>1, <3>2, <3>3
  <2>5. f.current = Current.args[next] /\ f.done = <<>>
    BY DEF NewFrame
  <2> HIDE DEF f
  <2>6. PICK stack : stack = frames'
    OBVIOUS
  <2>7. /\ Len(stack) = Depth + 1 /\ stack[Depth + 1] = f
        /\ \A d \in 1 .. Depth : stack[d] = frames[d]
    BY <1>1, <2>1, <2>6, AppendFacts
  <2>8. PICK new : new = [d \in 1 .. Depth + 1 |-> IF d = Depth + 1 THEN want[Depth].args[next]
                                                    ELSE want[d]]
    OBVIOUS
  <2>9. /\ \A d \in 1 .. Depth : new[d] = want[d]
        /\ new[Depth + 1] = want[Depth].args[next] /\ 1 \in 1 .. Depth
    BY <2>1, <2>8
  <2>10. ASSUME NEW d \in 1 .. Depth + 1
         PROVE  /\ Denotes(input, stack[d].current, d, new[d])
                /\ \A k \in 1 .. Len(stack[d].done) : stack[d].done[k] = new[d].args[k]
    <3>1. CASE d = Depth + 1
      <4>1. \A k : k \notin 1 .. Len(<<>>)
        BY EmptySequence
      <4> QED
        BY <2>4, <2>5, <2>7, <2>9, <3>1, <4>1
    <3>2. CASE d # Depth + 1
      <4>1. d \in 1 .. Depth /\ d \in 1 .. Len(frames)
        BY <2>1, <3>2
      <4> QED
        BY <1>2, <2>7, <2>9, <4>1 DEF Going, Wanted
    <3> QED
      BY <3>1, <3>2
  <2>11. ASSUME NEW d \in 1 .. Depth PROVE new[d + 1] = new[d].args[Len(stack[d].done) + 1]
    <3>1. CASE d = Depth
      BY <2>1, <2>7, <2>9, <3>1
    <3>2. CASE d # Depth
      <4>1. d + 1 \in 1 .. Depth /\ d \in 1 .. Len(frames) - 1
        BY <2>1, <3>2
      <4>2. new[d] = want[d] /\ new[d + 1] = want[d + 1] /\ stack[d] = frames[d]
        BY <2>7, <2>9, <4>1
      <4>3. want[d + 1] = want[d].args[Len(frames[d].done) + 1]
        BY <1>2, <4>1 DEF Going, Wanted
      <4> QED
        BY <4>2, <4>3
    <3> QED
      BY <3>1, <3>2
  <2>12. Len(stack) - 1 = Depth
    BY <2>1, <2>7
  <2>13. Wanted(input, stack, new)
    BY <1>2, <2>7, <2>9, <2>10, <2>11, <2>12 DEF Going, Wanted
  <2> QED
    BY <2>6, <2>13
<1> QED
  BY <1>1, <1>2, MeantIfGoing

LEMMA ComposeMeant == ASSUME IInv, Meant, Compose PROVE Meant'
<1>1. PICK type : type = Type(Current.form, <<>>, Frame.done)
  OBVIOUS
<1>2. /\ pc = "run" /\ Frame.open /\ Len(Frame.done) = Arity(Current.form)
      /\ Return(type) /\ UNCHANGED input /\ (success' = success \/ success' = FALSE)
  BY <1>1 DEF Compose, Report
<1>3. ASSUME NEW want, Going(want) PROVE type = want[Depth]
  <2>1. /\ Depth \in 1 .. MaxDepth /\ Depth \in Nat \ {0} /\ Depth = Len(frames)
        /\ Frame = frames[Depth] /\ Current = Frame.current /\ Current \in Spellings
        /\ IsSequence(Frame.done)
        /\ Denotes(input, Current, Depth, want[Depth]) /\ input \in Inputs
        /\ \A k \in 1 .. Len(Frame.done) : Frame.done[k] = want[Depth].args[k]
    BY <1>3, GoingFacts
  <2>2. Current.form \in Containers
    BY <1>2, <2>1, StackFacts DEF FrameOK, Going
  <2>3. PICK t : t = want[Depth]
    OBVIOUS
  <2>4. t = Type(Current.form, <<>>, t.args) /\ t.args = [k \in DOMAIN Current.args |-> t.args[k]]
    <3>1. PICK s \in Spellings : s = Current
      BY <2>1
    <3>2. PICK d \in 1 .. MaxDepth : d = Depth
      BY <2>1
    <3>3. PICK c \in Inputs : c = input
      BY <2>1
    <3>4. Denotes(c, s, d, t) /\ s.form \in Containers
      BY <2>1, <2>2, <2>3, <3>1, <3>2, <3>3
    <3>5. Composed(s, t)
      BY <3>4, DenotedContainer
    <3> QED
      BY <3>1, <3>5 DEF Composed
  <2>5. DOMAIN Current.args = 1 .. Len(Frame.done)
    <3>1. Current.args \in Seq(Spellings) /\ Len(Current.args) = Arity(Current.form)
      BY <2>1, <2>2, SpellingsAssumption
    <3> QED
      BY <1>2, <3>1
  <2>6. Frame.done = [k \in 1 .. Len(Frame.done) |-> Frame.done[k]]
    <3>1. PICK S : Frame.done \in Seq(S)
      BY <2>1 DEF IsSequence
    <3> QED
      BY <3>1
  <2>7. Frame.done = t.args
    BY <2>1, <2>3, <2>4, <2>5, <2>6
  <2> QED
    BY <1>1, <2>3, <2>4, <2>7
<1>4. ASSUME NEW want, Going(want)
      PROVE  /\ pc' = "done" => ret' = FieldMeaning(input)
             /\ pc' = "run" => Wanted(input, frames', want)
  <2>1. Return(type) /\ type = want[Depth]
    BY <1>2, <1>3, <1>4
  <2> QED
    BY <1>4, <2>1, ReturnWanted
<1> QED
  BY <1>2, <1>4, MeantIfGoing

LEMMA ClassifyMeant ==
    ASSUME IInv, Meant, ClassifyScalar \/ ClassifyEnum \/ ClassifyUserDefined
    PROVE  Meant'
<1>1. pc = "run" /\ UNCHANGED <<input, success>>
  BY DEF ClassifyScalar, ClassifyEnum, ClassifyUserDefined, Classifying, Resolved, Resolving
<1>2. ASSUME NEW want, Going(want)
      PROVE  \E type : Return(type) /\ type = want[Depth]
  <2>1. /\ Depth \in 1 .. MaxDepth /\ Current \in Spellings
        /\ Denotes(input, Current, Depth, want[Depth])
        /\ input \in Inputs /\ Unshadowed(input)
    BY <1>2, GoingFacts
  <2>2. CASE ClassifyScalar
    BY <2>1, <2>2, DenotedScalar DEF ClassifyScalar
  <2>3. CASE ClassifyEnum
    <3>1. PICK name \in ResolveNamedType(input.enums, Current.path) :
             Return(Type("enum", name, <<>>)) /\ Current.form = "name"
      BY <2>3 DEF ClassifyEnum
    <3>2. want[Depth] = Type("enum", name, <<>>)
      BY <2>1, <3>1, FoundIsMeant
    <3> QED
      BY <3>1, <3>2
  <2>4. CASE ClassifyUserDefined
    <3>1. PICK name \in ResolveNamedType(input.types, Current.path) :
             /\ Return(Type("user", name, <<>>)) /\ Current.form = "name"
             /\ ResolveNamedType(input.enums, Current.path) = {}
      BY <2>4 DEF ClassifyUserDefined
    <3>2. want[Depth] = Type("user", name, <<>>)
      BY <2>1, <3>1, FoundIsMeant
    <3> QED
      BY <3>1, <3>2
  <2> QED
    BY <2>2, <2>3, <2>4
<1>3. ASSUME NEW want, Going(want)
      PROVE  /\ pc' = "done" => ret' = FieldMeaning(input)
             /\ pc' = "run" => Wanted(input, frames', want)
  <2>1. PICK type : Return(type) /\ type = want[Depth]
    BY <1>2, <1>3
  <2> QED
    BY <1>3, <2>1, ReturnWanted
<1> QED
  BY <1>1, <1>3, MeantIfGoing

LEMMA FailedMeant ==
    ASSUME IInv, DetectCycle \/ RejectName \/ RejectExtent \/ RejectCutMap \/ StopAfterFailure
    PROVE  Meant'
<1>1. success' = FALSE
  BY DEF DetectCycle, RejectName, RejectExtent, RejectCutMap, StopAfterFailure, Report, IInv, TypeOK
<1> QED
  BY <1>1 DEF Meant

LEMMA InitMeant == Init => Meant
<1> SUFFICES ASSUME Init PROVE Meant
  OBVIOUS
<1>1. PICK c \in Inputs : c = input
  BY DEF Init
<1>2. PICK first : first = NewFrame(c.spelling)
  OBVIOUS
<1>3. frames = <<first>> /\ pc = "run" /\ first.current = c.spelling /\ first.done = <<>>
  BY <1>1, <1>2 DEF Init, NewFrame
<1>4. ASSUME FieldMeaning(c) # Meaningless PROVE Wanted(c, frames, <<FieldMeaning(c)>>)
  <2>1. Denotes(c, c.spelling, 1, FieldMeaning(c))
    <3>1. Steps(c) \in 0 .. Steps(c) /\ <<>> \in Sites(c) /\ 0 \in 0 .. 1 - 1
      BY InputFacts DEF Sites
    <3>2. c.spelling \in Nested(Origin(c, <<>>))[0]
      BY NestedUnfold DEF Origin
    <3> QED
      BY <1>4, <3>1, <3>2 DEF Denotes, FieldMeaning, CppMeaning
  <2>2. Len(frames) = 1 /\ frames[1] = first
    BY <1>3
  <2>3. \A k : k \notin 1 .. Len(<<>>)
    BY EmptySequence
  <2>4. PICK want : want = <<FieldMeaning(c)>>
    OBVIOUS
  <2>5. want[1] = FieldMeaning(c) /\ \A d \in 1 .. 1 : d = 1
    BY <2>4
  <2>6. \A d : d \notin 1 .. 1 - 1
    OBVIOUS
  <2> QED
    BY <1>3, <2>1, <2>2, <2>3, <2>4, <2>5, <2>6 DEF Wanted
<1> QED
  BY <1>1, <1>3, <1>4 DEF Meant

LEMMA NextMeant == IInv /\ Meant /\ [Next]_vars => Meant'
<1> SUFFICES ASSUME IInv, Meant, [Next]_vars PROVE Meant'
  OBVIOUS
<1>1. CASE Returned \/ UNCHANGED vars
  BY <1>1 DEF Returned, vars, Meant
<1> QED
  BY <1>1, FollowMeant, OpenMeant, EnterMeant, ComposeMeant, ClassifyMeant, FailedMeant DEF Next

\* Wherever the lookup of the code cannot go astray, an accepted field has the
\* type its spelling has in C++, through every chain of aliases and containers.
THEOREM MeaningHolds == Spec => []UnshadowedMeansCpp
<1>1. Meant => UnshadowedMeansCpp
  BY DEF Meant, UnshadowedMeansCpp, FieldMeaning
<1>2. Spec => []Meant
  BY InitMeant, NextMeant, Invariance, PTL DEF Spec
<1> QED
  BY <1>1, <1>2, PTL
=============================================================================
