-------------------------- MODULE TypeOrder_proof --------------------------
(***************************************************************************)
(* Theorems about TypeOrder, for every set of names and every set of input *)
(* files.  The inductive invariant IInv adds to the type invariant what    *)
(* the sweep knows: ordered_names mirrors the output, the output has no    *)
(* name twice and holds input types only, and a sweep without progress has *)
(* found every type it passed ordered or blocked.                          *)
(***************************************************************************)
EXTENDS TypeOrder, FiniteSetTheorems, WellFoundedInduction, TLAPS

\* Every non-empty set of naturals has a least element.
LEMMA NatLeast ==
    ASSUME NEW S \in SUBSET Nat, S # {}
    PROVE  \E j \in S : \A m \in S : m >= j
<1> DEFINE R == OpToRel(<, Nat)
<1>1. IsWellFoundedOn(R, Nat)
  BY NatLessThanWellFounded
<1>2. \A m, j \in Nat : m < j => <<m, j>> \in R
  BY DEF OpToRel
<1> HIDE DEF R
<1>3. PICK j \in S : \A m \in S : ~(<<m, j>> \in R)
  BY <1>1, WFMin
<1>4. ASSUME NEW m \in S PROVE m >= j
  <2>1. j \in Nat /\ m \in Nat
    OBVIOUS
  <2>2. ~(m < j)
    BY <1>2, <1>3, <2>1
  <2> QED
    BY <2>1, <2>2
<1> QED
  BY <1>4

\* ordered_names is the set of names in the result.
NamesMirrorOutput == orderedNames = NamesIn(ordered)

\* No name is emitted twice.
OutputIsDistinct ==
    \A a, b \in DOMAIN ordered : ordered[a].name = ordered[b].name => a = b

\* Each type emitted is one of the input.
OutputIsFromInput ==
    \A j \in DOMAIN ordered : \E k \in DOMAIN types : ordered[j] = types[k]

\* What makes a type be passed over.
Passed(t) == t.name \in orderedNames \/ Blocked(t)

\* A sweep that has not progressed began with types left, and passed over
\* every type before its position; a failed one passed over all of them.
FruitlessSweep ==
    /\ pc = "scan" /\ ~progress =>
          /\ Len(ordered) < Len(types)
          /\ \A k \in 1 .. i - 1 : Passed(types[k])
    /\ pc = "failed" =>
          /\ Len(ordered) < Len(types)
          /\ \A k \in DOMAIN types : Passed(types[k])

DoneIsFull == pc = "done" => Len(ordered) >= Len(types)

IInv ==
    /\ TypeOK
    /\ NamesMirrorOutput
    /\ OutputIsDistinct
    /\ OutputIsFromInput
    /\ DependenciesPrecedeUsers
    /\ FruitlessSweep
    /\ DoneIsFull

-----------------------------------------------------------------------------

\* The interval 1 .. n has n elements.
LEMMA IntervalCardinality ==
    ASSUME NEW n \in Nat
    PROVE  IsFiniteSet(1 .. n) /\ Cardinality(1 .. n) = n
<1>1. /\ IsFiniteSet(1 .. n)
      /\ Cardinality(1 .. n) = IF 1 > n THEN 0 ELSE n - 1 + 1
  BY FS_Interval
<1> QED
  BY <1>1

LEMMA TypesAreModels ==
    ASSUME types \in Inputs
    PROVE  /\ types \in Seq(TypeModels)
           /\ Len(types) \in Nat
           /\ DOMAIN types = 1 .. Len(types)
           /\ \A k \in DOMAIN types :
                 /\ types[k] \in TypeModels
                 /\ types[k].name \in TypeNames
                 /\ types[k].uses \subseteq TypeNames
<1>1. types \in Seq(TypeModels)
  BY InputsAssumption
<1>2. \A k \in DOMAIN types : types[k] \in TypeModels
  BY <1>1
<1> QED
  BY <1>1, <1>2, TypeModelsAssumption

LEMMA InitTypeOK == Init => TypeOK
<1> SUFFICES ASSUME Init PROVE TypeOK
  OBVIOUS
<1>1. Len(types) \in Nat
  BY TypesAreModels DEF Init
<1>2. i \in 1 .. Len(types) + 1
  BY <1>1 DEF Init
<1>3. progress \in BOOLEAN
  BY Zenon DEF Init
<1>4. ordered \in Seq(TypeModels)
  BY DEF Init
<1> QED
  BY <1>2, <1>3, <1>4 DEF Init, TypeOK

LEMMA NextTypeOK == TypeOK /\ [Next]_vars => TypeOK'
<1> SUFFICES ASSUME TypeOK, [Next]_vars
             PROVE  TypeOK'
  OBVIOUS
<1> USE DEF TypeOK
<1>0. /\ Len(types) \in Nat
      /\ DOMAIN types = 1 .. Len(types)
      /\ \A k \in DOMAIN types : types[k] \in TypeModels /\ types[k].name \in TypeNames
  BY TypesAreModels
<1>1. CASE StartSweep
  <2>1. progress' \in BOOLEAN
    BY <1>1, Zenon DEF StartSweep
  <2> QED
    BY <1>0, <1>1, <2>1 DEF StartSweep
<1>2. CASE Finish
  BY <1>2 DEF Finish
<1>3. CASE SkipOrdered
  BY <1>0, <1>3 DEF SkipOrdered, Scanning
<1>4. CASE SkipBlocked
  BY <1>0, <1>4 DEF SkipBlocked, Scanning
<1>5. CASE Emit
  <2>1. i \in 1 .. Len(types) /\ i + 1 \in 1 .. Len(types) + 1
    BY <1>0, <1>5 DEF Emit, Scanning
  <2>2. types[i] \in TypeModels /\ types[i].name \in TypeNames
    BY <1>0, <2>1
  <2>3. ordered' \in Seq(TypeModels)
    BY <1>5, <2>2 DEF Emit
  <2> QED
    BY <1>0, <1>5, <2>1, <2>2, <2>3 DEF Emit
<1>6. CASE EndSweep
  BY <1>6 DEF EndSweep
<1>7. CASE GiveUp
  BY <1>7 DEF GiveUp
<1>8. CASE Returned \/ UNCHANGED vars
  BY <1>8 DEF Returned, vars
<1> QED
  BY <1>1, <1>2, <1>3, <1>4, <1>5, <1>6, <1>7, <1>8 DEF Next

\* Every local of order_types_by_dependency keeps its type, and the result
\* only ever holds type models of the call.
THEOREM TypeCorrect == Spec => []TypeOK
<1> QED
  BY InitTypeOK, NextTypeOK, PTL DEF Spec

-----------------------------------------------------------------------------
(* The inductive invariant. *)

LEMMA InitIInv == Init => IInv
<1> SUFFICES ASSUME Init PROVE IInv
  OBVIOUS
<1>1. TypeOK
  BY InitTypeOK
<1>2. DOMAIN ordered = {}
  BY DEF Init
<1>3. NamesMirrorOutput
  BY <1>2 DEF Init, NamesMirrorOutput, NamesIn
<1>4. OutputIsDistinct /\ OutputIsFromInput /\ DependenciesPrecedeUsers
  BY <1>2 DEF OutputIsDistinct, OutputIsFromInput, DependenciesPrecedeUsers
<1>5. FruitlessSweep /\ DoneIsFull
  BY DEF Init, FruitlessSweep, DoneIsFull
<1> QED
  BY <1>1, <1>3, <1>4, <1>5 DEF IInv

\* What emitting one more type does to the output.
LEMMA EmitAppends ==
    ASSUME TypeOK, Emit
    PROVE  /\ i \in DOMAIN types
           /\ types[i] \in TypeModels
           /\ Len(ordered) \in Nat
           /\ DOMAIN ordered = 1 .. Len(ordered)
           /\ Len(ordered') = Len(ordered) + 1
           /\ DOMAIN ordered' = 1 .. Len(ordered) + 1
           /\ \A j \in 1 .. Len(ordered) : ordered'[j] = ordered[j]
           /\ ordered'[Len(ordered) + 1] = types[i]
           /\ types' = types
<1>1. /\ Len(types) \in Nat
      /\ DOMAIN types = 1 .. Len(types)
      /\ \A k \in DOMAIN types : types[k] \in TypeModels
  BY TypesAreModels DEF TypeOK
<1>2. i \in 1 .. Len(types)
  BY <1>1 DEF Emit, Scanning, TypeOK
<1>3. types[i] \in TypeModels
  BY <1>1, <1>2
<1>4. ordered \in Seq(TypeModels) /\ ordered' = Append(ordered, types[i])
  BY DEF TypeOK, Emit
<1>5. types' = types
  BY DEF Emit
<1> QED
  BY <1>1, <1>2, <1>3, <1>4, <1>5

LEMMA EmitIInv == IInv /\ Emit => IInv'
<1> SUFFICES ASSUME IInv, Emit PROVE IInv'
  OBVIOUS
<1> DEFINE n == Len(ordered)
<1>0. TypeOK /\ TypeOK'
  BY NextTypeOK DEF IInv, Next
<1>1. /\ i \in DOMAIN types
      /\ types[i] \in TypeModels
      /\ n \in Nat
      /\ DOMAIN ordered = 1 .. n
      /\ Len(ordered') = n + 1
      /\ DOMAIN ordered' = 1 .. n + 1
      /\ \A j \in 1 .. n : ordered'[j] = ordered[j]
      /\ ordered'[n + 1] = types[i]
      /\ types' = types
  BY <1>0, EmitAppends
<1> HIDE DEF n
<1>2. \A j \in DOMAIN ordered' : j \in DOMAIN ordered \/ j = n + 1
  BY <1>1
<1>3. NamesMirrorOutput'
  <2>1. NamesIn(ordered') = NamesIn(ordered) \cup {types[i].name}
    BY <1>1, <1>2 DEF NamesIn
  <2> QED
    BY <2>1 DEF IInv, NamesMirrorOutput, Emit
<1>4. OutputIsDistinct'
  <2>1. \A j \in DOMAIN ordered : ordered[j].name # types[i].name
    BY DEF IInv, NamesMirrorOutput, NamesIn, Emit
  <2> QED
    BY <1>1, <1>2, <2>1 DEF IInv, OutputIsDistinct
<1>5. OutputIsFromInput'
  BY <1>1, <1>2 DEF IInv, OutputIsFromInput
<1>6. DependenciesPrecedeUsers'
  <2> SUFFICES ASSUME NEW j \in DOMAIN ordered', NEW d \in Dependencies(ordered'[j])
               PROVE  \E m \in 1 .. j - 1 : ordered'[m].name = d
    BY <1>1 DEF DependenciesPrecedeUsers, Dependencies, NamesIn
  <2>1. CASE j \in DOMAIN ordered
    <3>1. d \in Dependencies(ordered[j])
      BY <1>1, <2>1
    <3>2. PICK m \in 1 .. j - 1 : ordered[m].name = d
      BY <2>1, <3>1 DEF IInv, DependenciesPrecedeUsers
    <3> QED
      BY <1>1, <2>1, <3>2
  <2>2. CASE j = n + 1
    <3>1. d \in types[i].uses /\ d # types[i].name
      BY <1>1, <2>2 DEF Dependencies
    <3>2. PICK k \in DOMAIN types : types[k].name = d
      BY DEF Dependencies, NamesIn
    <3>3. d \in orderedNames
      BY <3>1, <3>2 DEF Emit, Blocked, DependsOn
    <3>4. PICK m \in DOMAIN ordered : ordered[m].name = d
      BY <3>3 DEF IInv, NamesMirrorOutput, NamesIn
    <3> QED
      BY <1>1, <2>2, <3>4
  <2> QED
    BY <1>2, <2>1, <2>2
<1>7. FruitlessSweep' /\ DoneIsFull'
  BY DEF Emit, Scanning, FruitlessSweep, DoneIsFull
<1> QED
  BY <1>0, <1>3, <1>4, <1>5, <1>6, <1>7 DEF IInv

\* The conjuncts that speak of the output and the input alone.
LEMMA OutputUntouched ==
    ASSUME IInv, UNCHANGED <<types, ordered, orderedNames>>
    PROVE  /\ NamesMirrorOutput'
           /\ OutputIsDistinct'
           /\ OutputIsFromInput'
           /\ DependenciesPrecedeUsers'
<1>1. NamesMirrorOutput'
  BY DEF IInv, NamesMirrorOutput, NamesIn
<1>2. OutputIsDistinct'
  BY DEF IInv, OutputIsDistinct
<1>3. OutputIsFromInput'
  BY DEF IInv, OutputIsFromInput
<1>4. DependenciesPrecedeUsers'
  BY DEF IInv, DependenciesPrecedeUsers, Dependencies, NamesIn
<1> QED
  BY <1>1, <1>2, <1>3, <1>4

LEMMA NextIInv == IInv /\ [Next]_vars => IInv'
<1> SUFFICES ASSUME IInv, [Next]_vars
             PROVE  IInv'
  OBVIOUS
<1>0. TypeOK /\ TypeOK'
  BY NextTypeOK DEF IInv
<1>1. /\ Len(types) \in Nat
      /\ DOMAIN types = 1 .. Len(types)
  BY <1>0, TypesAreModels DEF TypeOK
<1>2. Len(ordered) \in Nat
  BY <1>0 DEF TypeOK
<1>3. CASE Emit
  BY <1>3, EmitIInv
<1>4. CASE UNCHANGED <<types, ordered, orderedNames>>
  <2>1. /\ NamesMirrorOutput' /\ OutputIsDistinct'
        /\ OutputIsFromInput' /\ DependenciesPrecedeUsers'
    BY <1>4, OutputUntouched
  <2>2. \A t : Passed(t) <=> Passed(t)'
    BY <1>4 DEF Passed, Blocked, DependsOn
  <2>3. FruitlessSweep' /\ DoneIsFull'
    <3>1. CASE StartSweep
      <4>1. (\A k \in 1 .. i - 1 : Passed(types[k]))'
        BY <3>1 DEF StartSweep
      <4> QED
        BY <3>1, <4>1 DEF StartSweep, FruitlessSweep, DoneIsFull
    <3>2. CASE Finish
      BY <1>1, <1>2, <3>2 DEF Finish, FruitlessSweep, DoneIsFull
    <3>3. CASE SkipOrdered \/ SkipBlocked
      <4>1. Passed(types[i]) /\ i \in 1 .. Len(types)
        BY <1>0, <1>1, <3>3
        DEF SkipOrdered, SkipBlocked, Scanning, Passed, TypeOK
      <4>2. i' = i + 1 /\ pc = "scan" /\ pc' = "scan" /\ progress' = progress
        BY <3>3 DEF SkipOrdered, SkipBlocked, Scanning
      <4>3. ASSUME ~progress
            PROVE  (\A k \in 1 .. i - 1 : Passed(types[k]))'
        <5>1. \A k \in 1 .. i : Passed(types[k])
          BY <1>0, <4>1, <4>2, <4>3 DEF IInv, FruitlessSweep
        <5>2. \A k \in 1 .. i : Passed(types[k])'
          BY <1>4, <2>2, <5>1
        <5> QED
          BY <1>4, <4>1, <4>2, <5>2
      <4> QED
        BY <1>4, <4>2, <4>3 DEF IInv, FruitlessSweep, DoneIsFull
    <3>4. CASE EndSweep
      BY <3>4 DEF EndSweep, FruitlessSweep, DoneIsFull
    <3>5. CASE GiveUp
      <4>1. \A k \in DOMAIN types : Passed(types[k])
        BY <1>0, <1>1, <3>5 DEF GiveUp, IInv, FruitlessSweep, TypeOK
      <4>2. (\A k \in DOMAIN types : Passed(types[k]))'
        BY <1>4, <2>2, <4>1
      <4> QED
        BY <1>4, <3>5, <4>2 DEF GiveUp, IInv, FruitlessSweep, DoneIsFull
    <3>6. CASE UNCHANGED vars
      <4>1. (\A k \in 1 .. i - 1 : Passed(types[k]))
               <=> (\A k \in 1 .. i - 1 : Passed(types[k]))'
        BY <2>2, <3>6 DEF vars
      <4>2. (\A k \in DOMAIN types : Passed(types[k]))
               <=> (\A k \in DOMAIN types : Passed(types[k]))'
        BY <2>2, <3>6 DEF vars
      <4> QED
        BY <3>6, <4>1, <4>2 DEF vars, IInv, FruitlessSweep, DoneIsFull
    <3>7. CASE Emit
      BY <3>7, EmitIInv DEF IInv
    <3> QED
      BY <3>1, <3>2, <3>3, <3>4, <3>5, <3>6, <3>7 DEF Next, Returned
  <2> QED
    BY <1>0, <2>1, <2>3 DEF IInv
<1> QED
  BY <1>3, <1>4
  DEF Next, vars, StartSweep, Finish, SkipOrdered, SkipBlocked, EndSweep, GiveUp, Returned

LEMMA Invariance == Spec => []IInv
<1> QED
  BY InitIInv, NextIInv, PTL DEF Spec

\* At every moment of the sweep, whatever the file, a type of the output
\* stands after the other types of the file that its fields mention.
THEOREM PrecedenceHolds == Spec => []DependenciesPrecedeUsers
<1>1. IInv => DependenciesPrecedeUsers
  BY DEF IInv
<1> QED
  BY <1>1, Invariance, PTL

-----------------------------------------------------------------------------
(* Completeness.  The output is the image of an injection into the input,  *)
(* so it is never longer; at equal length the injection is onto and the    *)
(* names of the input are distinct.                                        *)

LEMMA SourceMapExists ==
    ASSUME IInv
    PROVE  \E f \in Injection(1 .. Len(ordered), 1 .. Len(types)) :
              \A j \in 1 .. Len(ordered) : ordered[j] = types[f[j]]
<1>1. /\ Len(types) \in Nat
      /\ DOMAIN types = 1 .. Len(types)
      /\ DOMAIN ordered = 1 .. Len(ordered)
  BY TypesAreModels DEF IInv, TypeOK
<1> DEFINE f == [j \in 1 .. Len(ordered) |->
                   CHOOSE k \in 1 .. Len(types) : ordered[j] = types[k]]
<1>2. \A j \in 1 .. Len(ordered) :
         f[j] \in 1 .. Len(types) /\ ordered[j] = types[f[j]]
  BY <1>1 DEF IInv, OutputIsFromInput
<1>3. f \in [1 .. Len(ordered) -> 1 .. Len(types)]
  BY <1>2
<1>4. \A a, b \in 1 .. Len(ordered) : f[a] = f[b] => a = b
  BY <1>1, <1>2 DEF IInv, OutputIsDistinct
<1>5. f \in Injection(1 .. Len(ordered), 1 .. Len(types))
  BY <1>3, <1>4 DEF Injection, IsInjective
<1> QED
  BY <1>2, <1>5

\* The output is never longer than the input, and when it is as long it holds
\* each input type and no two input types share a name.
LEMMA FullOutput ==
    ASSUME IInv
    PROVE  /\ Len(ordered) <= Len(types)
           /\ Len(ordered) = Len(types) =>
                 /\ \A k \in DOMAIN types : \E j \in DOMAIN ordered : ordered[j] = types[k]
                 /\ ~Duplicated
<1>1. /\ Len(types) \in Nat
      /\ Len(ordered) \in Nat
      /\ DOMAIN types = 1 .. Len(types)
      /\ DOMAIN ordered = 1 .. Len(ordered)
  BY TypesAreModels DEF IInv, TypeOK
<1>2. PICK f \in Injection(1 .. Len(ordered), 1 .. Len(types)) :
         \A j \in 1 .. Len(ordered) : ordered[j] = types[f[j]]
  BY SourceMapExists
<1>3. /\ IsFiniteSet(1 .. Len(types))
      /\ Cardinality(1 .. Len(types)) = Len(types)
      /\ Cardinality(1 .. Len(ordered)) = Len(ordered)
  BY <1>1, IntervalCardinality
<1>4. /\ Cardinality(1 .. Len(ordered)) <= Cardinality(1 .. Len(types))
      /\ Cardinality(1 .. Len(ordered)) = Cardinality(1 .. Len(types))
            <=> f \in Surjection(1 .. Len(ordered), 1 .. Len(types))
  BY <1>3, FS_Injection
<1>5. ASSUME Len(ordered) = Len(types)
      PROVE  /\ \A k \in DOMAIN types : \E j \in DOMAIN ordered : ordered[j] = types[k]
             /\ ~Duplicated
  <2>1. \A k \in 1 .. Len(types) : \E j \in 1 .. Len(ordered) : f[j] = k
    BY <1>3, <1>4, <1>5 DEF Surjection
  <2>2. \A k, m \in 1 .. Len(types) : types[k].name = types[m].name => k = m
    <3> SUFFICES ASSUME NEW k \in 1 .. Len(types), NEW m \in 1 .. Len(types),
                        types[k].name = types[m].name
                 PROVE  k = m
      OBVIOUS
    <3>1. PICK a \in 1 .. Len(ordered) : f[a] = k
      BY <2>1, Zenon
    <3>2. PICK b \in 1 .. Len(ordered) : f[b] = m
      BY <2>1, Zenon
    <3>3. ordered[a].name = ordered[b].name
      BY <1>2, <3>1, <3>2
    <3> QED
      BY <1>1, <3>1, <3>2, <3>3 DEF IInv, OutputIsDistinct
  <2>3. ASSUME NEW k \in DOMAIN types
        PROVE  \E j \in DOMAIN ordered : ordered[j] = types[k]
    <3>1. PICK j \in 1 .. Len(ordered) : f[j] = k
      BY <1>1, <2>1, Zenon
    <3> QED
      BY <1>1, <1>2, <3>1
  <2>4. ~Duplicated
    BY <1>1, <2>2 DEF Duplicated
  <2> QED
    BY <2>3, <2>4
<1> QED
  BY <1>1, <1>3, <1>4, <1>5

\* A successful ordering returns every type of the file exactly once.
THEOREM CompletenessHolds == Spec => []SuccessIsComplete
<1>1. IInv => SuccessIsComplete
  <2> SUFFICES ASSUME IInv, pc = "done"
               PROVE  /\ Len(ordered) = Len(types)
                      /\ \A k \in DOMAIN types :
                            Cardinality({j \in DOMAIN ordered : ordered[j] = types[k]}) = 1
    BY DEF SuccessIsComplete
  <2>1. Len(types) \in Nat /\ Len(ordered) \in Nat
    BY TypesAreModels DEF IInv, TypeOK
  <2>2. Len(ordered) = Len(types)
    BY <2>1, FullOutput DEF IInv, DoneIsFull
  <2>3. ASSUME NEW k \in DOMAIN types
        PROVE  Cardinality({j \in DOMAIN ordered : ordered[j] = types[k]}) = 1
    <3>1. PICK m \in DOMAIN ordered : ordered[m] = types[k]
      BY <2>2, FullOutput
    <3>2. {j \in DOMAIN ordered : ordered[j] = types[k]} = {m}
      BY <3>1 DEF IInv, OutputIsDistinct
    <3> QED
      BY <3>2, FS_Singleton
  <2> QED
    BY <2>2, <2>3
<1> QED
  BY <1>1, Invariance, PTL

\* In a file that was ordered without loss, a circular set of names would
\* have a member that is emitted first, and that one needs another member
\* before it.
LEMMA DoneIsAcyclic == ASSUME IInv, pc = "done" PROVE ~Cyclic /\ ~Duplicated
<1>0. /\ Len(types) \in Nat
      /\ Len(ordered) \in Nat
      /\ DOMAIN ordered = 1 .. Len(ordered)
  BY TypesAreModels DEF IInv, TypeOK
<1>1. Len(ordered) = Len(types)
  BY <1>0, FullOutput DEF IInv, DoneIsFull
<1>2. ~Duplicated
  BY <1>1, FullOutput
<1>3. \A k \in DOMAIN types : \E j \in DOMAIN ordered : ordered[j] = types[k]
  BY <1>1, FullOutput
<1>4. ASSUME NEW S \in SUBSET NamesIn(types), S # {}, Circular(S)
      PROVE  FALSE
  <2> DEFINE P == {j \in 1 .. Len(ordered) : ordered[j].name \in S}
  <2>1. \A n \in S : \E j \in P : ordered[j].name = n
    BY <1>0, <1>3 DEF NamesIn
  <2>2. P # {}
    BY <1>4, <2>1
  <2>3. PICK j \in P : \A m \in P : m >= j
    <3>1. \A j \in P : j \in Nat
      BY <1>0
    <3>2. P \in SUBSET Nat /\ P # {}
      BY <2>2, <3>1
    <3> QED
      BY <3>2, NatLeast
  <2>4. PICK k \in DOMAIN types : /\ types[k].name = ordered[j].name
                                  /\ Dependencies(types[k]) \cap S # {}
    BY <1>4 DEF Circular
  <2>5. types[k] = ordered[j]
    <3>1. PICK m \in DOMAIN ordered : ordered[m] = types[k]
      BY <1>3
    <3> QED
      BY <1>0, <2>4, <3>1 DEF IInv, OutputIsDistinct
  <2>6. PICK d \in S : d \in Dependencies(ordered[j])
    BY <2>4, <2>5
  <2>7. PICK m \in 1 .. j - 1 : ordered[m].name = d
    BY <1>0, <2>6 DEF IInv, DependenciesPrecedeUsers
  <2>8. m \in P /\ m < j
    BY <1>0, <2>6, <2>7
  <2> QED
    BY <1>0, <2>3, <2>8
<1> QED
  BY <1>2, <1>4 DEF Cyclic

\* A failed ordering leaves a set of names none of which could be emitted:
\* unless a name is declared twice, that set is circular.
LEMMA FailedIsCyclic == ASSUME IInv, pc = "failed" PROVE Cyclic \/ Duplicated
<1> SUFFICES ASSUME ~Duplicated PROVE Cyclic
  OBVIOUS
<1> DEFINE S == NamesIn(types) \ orderedNames
<1>0. /\ Len(types) \in Nat
      /\ Len(ordered) \in Nat
      /\ DOMAIN types = 1 .. Len(types)
      /\ DOMAIN ordered = 1 .. Len(ordered)
  BY TypesAreModels DEF IInv, TypeOK
<1>1. /\ Len(ordered) < Len(types)
      /\ \A k \in DOMAIN types : Passed(types[k])
  BY DEF IInv, FruitlessSweep
<1>2. Circular(S)
  <2> SUFFICES ASSUME NEW n \in S
               PROVE  \E k \in DOMAIN types :
                         types[k].name = n /\ Dependencies(types[k]) \cap S # {}
    BY DEF Circular
  <2>1. PICK k \in DOMAIN types : types[k].name = n
    BY DEF NamesIn
  <2>2. Blocked(types[k])
    BY <1>1, <2>1 DEF Passed
  <2>3. PICK m \in DOMAIN types : /\ types[m].name # types[k].name
                                  /\ types[m].name \in types[k].uses
                                  /\ types[m].name \notin orderedNames
    BY <2>2 DEF Blocked, DependsOn
  <2>4. types[m].name \in Dependencies(types[k]) \cap S
    BY <2>3 DEF Dependencies, NamesIn
  <2> QED
    BY <2>1, <2>4
<1>3. S # {}
  <2> SUFFICES ASSUME S = {} PROVE FALSE
    OBVIOUS
  <2> DEFINE g == [k \in 1 .. Len(types) |->
                     CHOOSE j \in 1 .. Len(ordered) : ordered[j].name = types[k].name]
  <2>1. \A k \in 1 .. Len(types) :
           \E j \in 1 .. Len(ordered) : ordered[j].name = types[k].name
    BY <1>0 DEF IInv, NamesMirrorOutput, NamesIn
  <2>2. \A k \in 1 .. Len(types) :
           g[k] \in 1 .. Len(ordered) /\ ordered[g[k]].name = types[k].name
    BY <2>1
  <2>3. g \in [1 .. Len(types) -> 1 .. Len(ordered)]
    BY <2>2
  <2>4. /\ IsFiniteSet(1 .. Len(types)) /\ IsFiniteSet(1 .. Len(ordered))
        /\ Cardinality(1 .. Len(ordered)) < Cardinality(1 .. Len(types))
    BY <1>0, <1>1, IntervalCardinality
  <2> HIDE DEF g
  <2>5. PICK k \in 1 .. Len(types), m \in 1 .. Len(types) : k # m /\ g[k] = g[m]
    BY <2>3, <2>4, FS_PigeonHole
  <2>6. types[k].name = types[m].name
    BY <2>2, <2>5
  <2> QED
    BY <1>0, <2>5, <2>6 DEF Duplicated
<1>4. S \in SUBSET NamesIn(types)
  OBVIOUS
<1> QED
  BY <1>2, <1>3, <1>4 DEF Cyclic

\* The two outcomes of the ordering mean what they should: success only for a
\* file without a dependency cycle and without a repeated name, failure only
\* for a file with one of the two.
THEOREM VerdictHolds == Spec => []VerdictIsExact
<1>1. IInv => VerdictIsExact
  BY DoneIsAcyclic, FailedIsCyclic DEF VerdictIsExact
<1> QED
  BY <1>1, Invariance, PTL

-----------------------------------------------------------------------------
(* A file in dependency order.                                             *)

InOrder ==
    \A k \in DOMAIN types :
        \A n \in Dependencies(types[k]) : \E m \in 1 .. k - 1 : types[m].name = n

\* The first sweep emits every type it reaches, and no other one begins.
FirstSweepTakesAll ==
    InOrder /\ ~Duplicated =>
        /\ pc = "scan" =>
              /\ Len(ordered) = i - 1
              /\ \A j \in 1 .. i - 1 : ordered[j] = types[j]
        /\ pc = "check" => ordered = <<>> \/ ordered = types
        /\ pc = "done" => ordered = types

LEMMA InitKept == Init => FirstSweepTakesAll
BY DEF Init, FirstSweepTakesAll

\* The type that the first sweep has reached is emitted.
LEMMA ReachedIsFree ==
    ASSUME IInv, FirstSweepTakesAll, InOrder, ~Duplicated, Scanning
    PROVE  types[i].name \notin orderedNames /\ ~Blocked(types[i])
<1>0. /\ Len(types) \in Nat
      /\ DOMAIN types = 1 .. Len(types)
      /\ DOMAIN ordered = 1 .. Len(ordered)
      /\ i \in 1 .. Len(types)
  BY TypesAreModels DEF IInv, TypeOK, Scanning
<1>1. Len(ordered) = i - 1 /\ \A j \in 1 .. i - 1 : ordered[j] = types[j]
  BY DEF FirstSweepTakesAll, Scanning
<1>2. orderedNames = {types[j].name : j \in 1 .. i - 1}
  BY <1>0, <1>1 DEF IInv, NamesMirrorOutput, NamesIn
<1>3. types[i].name \notin orderedNames
  BY <1>0, <1>2 DEF Duplicated
<1>4. ASSUME NEW k \in DOMAIN types, types[k].name # types[i].name,
             DependsOn(types[i], types[k])
      PROVE  types[k].name \in orderedNames
  <2>1. types[k].name \in Dependencies(types[i])
    BY <1>4 DEF Dependencies, DependsOn, NamesIn
  <2>2. PICK m \in 1 .. i - 1 : types[m].name = types[k].name
    BY <1>0, <2>1 DEF InOrder
  <2> QED
    BY <1>2, <2>2
<1> QED
  BY <1>3, <1>4 DEF Blocked

LEMMA NextKept == IInv /\ FirstSweepTakesAll /\ [Next]_vars => FirstSweepTakesAll'
<1> SUFFICES ASSUME IInv, FirstSweepTakesAll, [Next]_vars, InOrder', ~Duplicated'
             PROVE  /\ pc' = "scan" =>
                          /\ Len(ordered') = i' - 1
                          /\ \A j \in 1 .. i' - 1 : ordered'[j] = types'[j]
                    /\ pc' = "check" => ordered' = <<>> \/ ordered' = types'
                    /\ pc' = "done" => ordered' = types'
  BY DEF FirstSweepTakesAll
<1>0. /\ Len(types) \in Nat
      /\ DOMAIN types = 1 .. Len(types)
      /\ types \in Seq(TypeModels) /\ ordered \in Seq(TypeModels)
      /\ i \in 1 .. Len(types) + 1
  BY TypesAreModels DEF IInv, TypeOK
<1>1. types' = types
  BY DEF Next, vars, StartSweep, Finish, SkipOrdered, SkipBlocked, Emit, EndSweep, GiveUp,
         Returned
<1>2. InOrder /\ ~Duplicated
  BY <1>1 DEF InOrder, Duplicated, Dependencies, NamesIn
<1>3. CASE StartSweep
  <2>1. ordered = <<>>
    BY <1>2, <1>3 DEF StartSweep, FirstSweepTakesAll
  <2> QED
    BY <1>3, <2>1 DEF StartSweep
<1>4. CASE Finish
  <2>1. ordered = types
    BY <1>0, <1>2, <1>4 DEF Finish, FirstSweepTakesAll
  <2> QED
    BY <1>1, <1>4, <2>1 DEF Finish
<1>5. CASE SkipOrdered \/ SkipBlocked
  BY <1>2, <1>5, ReachedIsFree DEF SkipOrdered, SkipBlocked
<1>6. CASE Emit
  <2>1. Len(ordered) = i - 1 /\ \A j \in 1 .. i - 1 : ordered[j] = types[j]
    BY <1>2, <1>6 DEF Emit, Scanning, FirstSweepTakesAll
  <2>2. /\ Len(ordered') = Len(ordered) + 1
        /\ \A j \in 1 .. Len(ordered) : ordered'[j] = ordered[j]
        /\ ordered'[Len(ordered) + 1] = types[i]
    BY <1>6, EmitAppends DEF IInv
  <2>3. pc' = "scan" /\ i' = i + 1
    BY <1>6 DEF Emit, Scanning
  <2> QED
    BY <1>0, <1>1, <2>1, <2>2, <2>3
<1>7. CASE EndSweep
  <2>1. /\ Len(ordered) = Len(types)
        /\ \A j \in 1 .. Len(types) : ordered[j] = types[j]
    BY <1>0, <1>2, <1>7 DEF EndSweep, FirstSweepTakesAll
  <2>2. ordered = types
    BY <1>0, <2>1
  <2> QED
    BY <1>1, <1>7, <2>2 DEF EndSweep
<1>8. CASE GiveUp
  BY <1>8 DEF GiveUp
<1>9. CASE Returned \/ UNCHANGED vars
  BY <1>1, <1>2, <1>9 DEF Returned, vars, FirstSweepTakesAll
<1> QED
  BY <1>3, <1>4, <1>5, <1>6, <1>7, <1>8, <1>9 DEF Next

\* A file that is in dependency order comes out as it went in, however long it is.
THEOREM OrderKept == Spec => []OrderedInputIsKept
<1>1. IInv /\ FirstSweepTakesAll => OrderedInputIsKept
  <2> SUFFICES ASSUME IInv, FirstSweepTakesAll, pc = "done", InOrder
               PROVE  ordered = types
    BY DEF OrderedInputIsKept, InOrder
  <2>1. ~Duplicated
    BY DoneIsAcyclic
  <2> QED
    BY <2>1 DEF FirstSweepTakesAll
<1>2. Spec => []FirstSweepTakesAll
  BY InitKept, NextKept, Invariance, PTL DEF Spec
<1> QED
  BY <1>1, <1>2, Invariance, PTL

-----------------------------------------------------------------------------
(* Refinement: every step of the sweep is a step of the abstract order or  *)
(* leaves it unchanged.                                                    *)

\* For a type of the input, the scan's two tests are the abstract readiness.
LEMMA ReadyIsUnblocked ==
    ASSUME IInv, NEW k \in DOMAIN types
    PROVE  Abstract!Ready(types[k]) <=> ~Passed(types[k])
<1>1. Abstract!NamesIn(ordered) = orderedNames
  BY DEF IInv, NamesMirrorOutput, NamesIn, Abstract!NamesIn
<1>2. Abstract!Dependencies(types[k]) \subseteq orderedNames
         <=> ~Blocked(types[k])
  BY DEF Abstract!Dependencies, Abstract!NamesIn, Blocked, DependsOn
<1> QED
  BY <1>1, <1>2 DEF Abstract!Ready, Passed

LEMMA StepRefines ==
    IInv /\ [Next]_vars => [Abstract!Next]_(Abstract!vars)
<1> SUFFICES ASSUME IInv, [Next]_vars
             PROVE  [Abstract!Next]_(Abstract!vars)
  OBVIOUS
<1>0. /\ Len(types) \in Nat
      /\ Len(ordered) \in Nat
      /\ DOMAIN types = 1 .. Len(types)
  BY TypesAreModels DEF IInv, TypeOK
<1>1. CASE Emit
  <2>1. i \in DOMAIN types
    BY <1>1, EmitAppends DEF IInv
  <2>2. Abstract!Ready(types[i])
    BY <1>1, <2>1, ReadyIsUnblocked DEF Emit, Passed
  <2>3. Verdict = "running" /\ Verdict' = "running"
    BY <1>1 DEF Emit, Scanning, Verdict
  <2>4. ordered' = Append(ordered, types[i]) /\ types' = types
    BY <1>1 DEF Emit
  <2> QED
    BY <2>1, <2>2, <2>3, <2>4 DEF Abstract!Take, Abstract!Next
<1>2. CASE Finish
  <2>1. Len(ordered) = Len(types)
    BY <1>0, <1>2, FullOutput DEF Finish
  <2>2. Verdict = "running" /\ Verdict' = "done"
    BY <1>2 DEF Finish, Verdict
  <2>3. UNCHANGED <<types, ordered>>
    BY <1>2 DEF Finish
  <2> QED
    BY <2>1, <2>2, <2>3 DEF Abstract!Accept, Abstract!Next
<1>3. CASE GiveUp
  <2>1. \A k \in DOMAIN types : Passed(types[k])
    BY <1>0, <1>3 DEF GiveUp, IInv, FruitlessSweep, TypeOK
  <2>2. Len(ordered) # Len(types)
    BY <1>0, <1>3 DEF GiveUp, IInv, FruitlessSweep
  <2>3. \A k \in DOMAIN types : ~Abstract!Ready(types[k])
    BY <2>1, ReadyIsUnblocked
  <2>4. Verdict = "running" /\ Verdict' = "failed"
    BY <1>3 DEF GiveUp, Verdict
  <2>5. UNCHANGED <<types, ordered>>
    BY <1>3 DEF GiveUp
  <2> QED
    BY <2>2, <2>3, <2>4, <2>5 DEF Abstract!Abandon, Abstract!Next
<1>4. CASE StartSweep \/ SkipOrdered \/ SkipBlocked \/ EndSweep
  <2>1. UNCHANGED <<types, ordered>>
    BY <1>4 DEF StartSweep, SkipOrdered, SkipBlocked, EndSweep
  <2>2. Verdict = "running" /\ Verdict' = "running"
    BY <1>4 DEF StartSweep, SkipOrdered, SkipBlocked, EndSweep, Scanning, Verdict
  <2> QED
    BY <2>1, <2>2 DEF Abstract!vars
<1>5. CASE UNCHANGED vars
  BY <1>5 DEF vars, Verdict, Abstract!vars
<1> QED
  BY <1>1, <1>2, <1>3, <1>4, <1>5 DEF Next, Returned

\* order_types_by_dependency implements the abstract topological order: it
\* takes only ready types and abandons only when none is ready.
THEOREM Refinement == Spec => ImplementsTopologicalOrder
<1>1. Init => Abstract!Init
  BY DEF Init, Abstract!Init, Verdict
<1> QED
  BY <1>1, StepRefines, Invariance, PTL
  DEF Spec, ImplementsTopologicalOrder, Abstract!Spec

=============================================================================
