------------------------- MODULE JsonMapping_proof -------------------------
(***************************************************************************)
(* Theorems about JsonMapping, for every project, every value and every    *)
(* document.                                                               *)
(*                                                                         *)
(* The argument.  The inductive invariant IInv ties a running call to the  *)
(* functions that say what it computes: behind field k - 1, to_json has    *)
(* WriteFields(..)[k - 1] and from_json ReadFields(..)[k - 1].  What is    *)
(* left are facts about those functions, at any depth of nesting: what is  *)
(* written is read (Faithful), what was in an object does not decide what  *)
(* is read (Independent), nested structs keep what they should (AllKept),  *)
(* and the reader takes what the schema describes (Sound, Complete).  Each *)
(* is proved for one level of calls, given the level below, with a lemma   *)
(* for each kind of type; Climb, which is induction for a set of numbers,  *)
(* makes it true of every level.                                           *)
(***************************************************************************)
EXTENDS JsonMapping, TLAPS, SequenceTheorems, NaturalsInduction, WellFoundedInduction

-----------------------------------------------------------------------------
(* Types, fields and values.                                               *)

Containers == {"vector", "array", "map", "optional"}

\* The kinds of types, and what types are made of.
LEMMA TypeFacts ==
    ASSUME NEW type \in Types
    PROVE  /\ type.kind \in ScalarKinds \cup {"enum", "object"} \cup Containers
           /\ type.kind = "enum" => type.of \in DOMAIN Enumerators
           /\ type.kind \in IntegerKinds \cup {"enum"} => type.of \in DOMAIN Least
           /\ type.kind = "object" => type.of \in Models /\ type = Object(type.of)
           /\ type.kind \in Containers =>
                 /\ Inner(type) \in Types /\ Height[Inner(type)] < Height[type]
                 /\ type.extent \in Nat
<1> USE DEF ScalarKinds, ArithmeticKinds, IntegerKinds, Containers
<1>1. CASE type.kind \in ScalarKinds /\ (type.kind \in IntegerKinds => type.of \in DOMAIN Least)
  BY <1>1
<1>2. CASE type = Enum(type.of) /\ type.of \in DOMAIN Enumerators
  BY <1>2, ModelsAssumption DEF Enum, Type
<1>3. CASE type = Object(type.of) /\ type.of \in Models
  BY <1>3 DEF Object, Type
<1>4. ASSUME NEW inner \in Types, Height[inner] < Height[type], type.extent \in Nat,
             type \in {Vector(inner), Array(inner, type.extent), Map(inner), Optional(inner)}
      PROVE  type.kind \in Containers /\ Inner(type) = inner
  <2>1. CASE type = Vector(inner)
    <3>1. type.kind = "vector" /\ type.arguments = <<inner>>
      BY <2>1 DEF Vector, Type
    <3> QED
      BY <3>1 DEF Inner
  <2>2. ASSUME NEW extent, type = Array(inner, extent)
        PROVE  type.kind \in Containers /\ Inner(type) = inner
    <3>1. type.kind = "array" /\ type.arguments = <<inner>>
      BY <2>2 DEF Array, Type
    <3> QED
      BY <3>1 DEF Inner
  <2>3. CASE type = Map(inner)
    <3>1. type.kind = "map" /\ type.arguments = <<String, inner>>
      BY <2>3 DEF Map, Type
    <3> QED
      BY <3>1 DEF Inner
  <2>4. CASE type = Optional(inner)
    <3>1. type.kind = "optional" /\ type.arguments = <<inner>>
      BY <2>4 DEF Optional, Type
    <3> QED
      BY <3>1 DEF Inner
  <2> QED
    BY <1>4, <2>1, <2>2, <2>3, <2>4
<1> QED
  <2>1. \/ type.kind \in ScalarKinds /\ (type.kind \in IntegerKinds => type.of \in DOMAIN Least)
        \/ type = Enum(type.of) /\ type.of \in DOMAIN Enumerators
        \/ type = Object(type.of) /\ type.of \in Models
        \/ \E inner \in Types :
              /\ Height[inner] < Height[type]
              /\ type.extent \in Nat
              /\ type \in {Vector(inner), Array(inner, type.extent), Map(inner), Optional(inner)}
    BY ModelsAssumption
  <2> QED
    BY <1>1, <1>2, <1>3, <1>4, <2>1

FieldRecords ==
    [name : STRING, key : STRING, type : Types, ignored : BOOLEAN, omitEmpty : BOOLEAN]

\* The fields of a struct: names, and the keys of those not ignored, tell them apart.
LEMMA FieldFacts ==
    ASSUME NEW m \in Models
    PROVE  /\ Len(Fields[m]) \in Nat /\ DOMAIN Fields[m] = 1 .. Len(Fields[m])
           /\ \A n \in 1 .. Len(Fields[m]) :
                 /\ Fields[m][n].type \in Types /\ Fields[m][n].ignored \in BOOLEAN
                 /\ Fields[m][n].key \in STRING
                 /\ Fields[m][n] \in Range(Fields[m])
                 /\ Fields[m][n].name \in Members(m)
                 /\ Member(m, Fields[m][n].name) = Fields[m][n]
                 /\ ~Fields[m][n].ignored =>
                       /\ Fields[m][n] \in Managed(m)
                       /\ FieldOf(m, Fields[m][n].key) = Fields[m][n]
           /\ \A field \in Range(Fields[m]) : \E n \in 1 .. Len(Fields[m]) : field = Fields[m][n]
           /\ \A name \in Members(m) : \E n \in 1 .. Len(Fields[m]) : name = Fields[m][n].name
           /\ \A g, h \in 1 .. Len(Fields[m]) :
                 g # h => /\ Fields[m][g].name # Fields[m][h].name
                          /\ Fields[m][g].key = Fields[m][h].key =>
                                Fields[m][g].ignored \/ Fields[m][h].ignored
<1>1. /\ Fields[m] \in Seq(FieldRecords)
      /\ \A g, h \in DOMAIN Fields[m] :
          g # h => /\ Fields[m][g].name # Fields[m][h].name
                   /\ \/ Fields[m][g].ignored
                      \/ Fields[m][h].ignored
                      \/ Fields[m][g].key # Fields[m][h].key
  BY ModelsAssumption DEF FieldRecords
<1>2. Len(Fields[m]) \in Nat /\ DOMAIN Fields[m] = 1 .. Len(Fields[m])
  BY <1>1, LenProperties
<1>3. \A field \in Range(Fields[m]) : \E n \in 1 .. Len(Fields[m]) : field = Fields[m][n]
  BY <1>2 DEF Range
<1>4. ASSUME NEW n \in 1 .. Len(Fields[m])
      PROVE  /\ Fields[m][n].type \in Types /\ Fields[m][n].ignored \in BOOLEAN
             /\ Fields[m][n].key \in STRING
             /\ Fields[m][n] \in Range(Fields[m])
             /\ Fields[m][n].name \in Members(m)
  <2>1. Fields[m][n] \in FieldRecords
    BY <1>1, <1>2, ElementOfSeq
  <2> QED
    BY <1>2, <2>1 DEF Range, Members, FieldRecords
<1>5. ASSUME NEW n \in 1 .. Len(Fields[m])
      PROVE  Member(m, Fields[m][n].name) = Fields[m][n]
  <2>1. \A field \in Range(Fields[m]) : field.name = Fields[m][n].name => field = Fields[m][n]
    BY <1>1, <1>2, <1>3
  <2> QED
    BY <1>4, <2>1 DEF Member
<1>6. ASSUME NEW n \in 1 .. Len(Fields[m]), ~Fields[m][n].ignored
      PROVE  Fields[m][n] \in Managed(m) /\ FieldOf(m, Fields[m][n].key) = Fields[m][n]
  <2>1. Fields[m][n] \in Managed(m)
    BY <1>4, <1>6 DEF Managed
  <2>2. \A field \in Managed(m) : field.key = Fields[m][n].key => field = Fields[m][n]
    BY <1>1, <1>2, <1>3, <1>6 DEF Managed
  <2> QED
    BY <2>1, <2>2 DEF FieldOf
<1>7. \A name \in Members(m) : \E n \in 1 .. Len(Fields[m]) : name = Fields[m][n].name
  BY <1>3 DEF Members
<1> QED
  BY <1>1, <1>2, <1>3, <1>4, <1>5, <1>6, <1>7

\* The objects of a struct have a value of its type for every field.
LEMMA StructFacts ==
    ASSUME NEW m \in Models, NEW value \in Objects[Object(m)]
    PROVE  /\ Object(m) \in Types /\ Object(m).kind = "object" /\ Object(m).of = m
           /\ DOMAIN value = Members(m)
           /\ \A n \in 1 .. Len(Fields[m]) : value[Fields[m][n].name] \in Objects[Fields[m][n].type]
<1>1. Object(m) \in Types /\ Object(m).kind = "object" /\ Object(m).of = m
  BY ModelsAssumption DEF Object, Type
<1>2. IsValue(Object(m), value)
  BY <1>1, ObjectsAssumption
<1>3. /\ value = [name \in Members(m) |-> value[name]]
      /\ \A field \in Range(Fields[m]) : value[field.name] \in Objects[field.type]
  BY <1>1, <1>2 DEF IsValue
<1> QED
  BY <1>1, <1>3, FieldFacts

-----------------------------------------------------------------------------
(* The recursive functions, unfolded.                                      *)

\* A set of numbers has a least one.
LEMMA NatLeast == ASSUME NEW S \in SUBSET Nat, NEW n \in S
                  PROVE \E x \in S : \A y \in S : x <= y
<1>1. IsWellFoundedOn(OpToRel(<, Nat), Nat)
  BY NatLessThanWellFounded
<1>2. PICK x \in S : \A y \in S : ~(<<y, x>> \in OpToRel(<, Nat))
  BY <1>1, WFMin
<1>3. ASSUME NEW y \in S PROVE x <= y
  <2>1. y \in Nat /\ x \in Nat
    OBVIOUS
  <2>2. ~(y < x)
    BY <1>2, <1>3, <2>1 DEF OpToRel
  <2> QED
    BY <2>1, <2>2
<1> QED
  BY <1>2, <1>3

\* Induction up to a bound, for a set.
LEMMA Climb ==
    ASSUME NEW bound \in Nat, NEW S, 0 \in S, \A x \in 0 .. bound : x \in S => x + 1 \in S
    PROVE  \A x \in 0 .. bound + 1 : x \in S
<1> DEFINE Missing == {x \in 0 .. bound + 1 : x \notin S}
<1>1. SUFFICES ASSUME NEW y \in Missing PROVE FALSE
  OBVIOUS
<1>2. Missing \in SUBSET Nat
  OBVIOUS
<1>3. PICK x \in Missing : \A z \in Missing : x <= z
  <2> HIDE DEF Missing
  <2> QED
    BY <1>1, <1>2, NatLeast
<1>4. x # 0 /\ x \in 1 .. bound + 1
  OBVIOUS
<1>5. x - 1 \in 0 .. bound /\ x - 1 \in 0 .. bound + 1 /\ ~(x <= x - 1)
  BY <1>4
<1>6. x - 1 \in S
  BY <1>3, <1>5
<1>7. (x - 1) + 1 \in S
  BY <1>5, <1>6
<1> QED
  BY <1>4, <1>7

FieldWritten(write, m, value, after, n) ==
    IF n = 0 THEN Written(TRUE, JsonNull)
    ELSE IF after[n - 1].ok THEN WriteField(write, after[n - 1].j, Fields[m][n], value)
    ELSE after[n - 1]

\* WriteFields, one field.
LEMMA WriteFieldsUnfold ==
    ASSUME NEW write, NEW m \in Models, NEW value
    PROVE  WriteFields(write, m, value) =
               [n \in 0 .. Len(Fields[m]) |->
                   FieldWritten(write, m, value, WriteFields(write, m, value), n)]
<1>1. PICK top \in Nat : top = Len(Fields[m])
  BY FieldFacts
<1> DEFINE Solved == {x \in Nat :
              \E g : g = [n \in 0 .. x - 1 |-> FieldWritten(write, m, value, g, n)]}
<1>2. 0 \in Solved
  <2>1. PICK g : g = [n \in 0 .. 0 - 1 |-> FieldWritten(write, m, value, <<>>, n)]
    OBVIOUS
  <2>2. g = [n \in 0 .. 0 - 1 |-> FieldWritten(write, m, value, g, n)]
    BY <2>1
  <2> QED
    BY <2>2
<1>3. ASSUME NEW x \in 0 .. top, x \in Solved
      PROVE  x + 1 \in Solved
  <2>1. PICK g : g = [n \in 0 .. x - 1 |-> FieldWritten(write, m, value, g, n)]
    BY <1>3
  <2>2. PICK h : h = [n \in 0 .. x |-> FieldWritten(write, m, value, g, n)]
    OBVIOUS
  <2>3. ASSUME NEW n \in 0 .. x
        PROVE FieldWritten(write, m, value, g, n) = FieldWritten(write, m, value, h, n)
    <3>1. CASE n = 0
      BY <3>1 DEF FieldWritten
    <3>2. CASE n # 0
      <4>1. n - 1 \in 0 .. x - 1 /\ n - 1 \in 0 .. x
        BY <3>2
      <4>2. g[n - 1] = h[n - 1]
        BY <2>1, <2>2, <4>1
      <4> QED
        BY <3>2, <4>2 DEF FieldWritten
    <3> QED
      BY <3>1, <3>2
  <2>4. h = [n \in 0 .. (x + 1) - 1 |-> FieldWritten(write, m, value, h, n)]
    BY <2>2, <2>3
  <2> QED
    BY <2>4
<1>4. top + 1 \in Solved
  <2> HIDE DEF Solved
  <2> QED
    BY <1>2, <1>3, Climb
<1>5. \E g : g = [n \in 0 .. top |-> FieldWritten(write, m, value, g, n)]
  BY <1>4
<1>6. WriteFields(write, m, value) =
          CHOOSE g : g = [n \in 0 .. top |-> FieldWritten(write, m, value, g, n)]
  BY <1>1 DEF WriteFields, FieldWritten
<1> QED
  BY <1>1, <1>5, <1>6

FieldRead(read, m, j, old, after, n) ==
    IF n = 0 THEN Read(TRUE, old)
    ELSE IF after[n - 1].ok THEN ReadField(read, j, Fields[m][n], after[n - 1].value)
    ELSE after[n - 1]

\* ReadFields, one field.
LEMMA ReadFieldsUnfold ==
    ASSUME NEW read, NEW m \in Models, NEW j, NEW old
    PROVE  ReadFields(read, m, j, old) =
               [n \in 0 .. Len(Fields[m]) |->
                   FieldRead(read, m, j, old, ReadFields(read, m, j, old), n)]
<1>1. PICK top \in Nat : top = Len(Fields[m])
  BY FieldFacts
<1> DEFINE Solved == {x \in Nat :
              \E g : g = [n \in 0 .. x - 1 |-> FieldRead(read, m, j, old, g, n)]}
<1>2. 0 \in Solved
  <2>1. PICK g : g = [n \in 0 .. 0 - 1 |-> FieldRead(read, m, j, old, <<>>, n)]
    OBVIOUS
  <2>2. g = [n \in 0 .. 0 - 1 |-> FieldRead(read, m, j, old, g, n)]
    BY <2>1
  <2> QED
    BY <2>2
<1>3. ASSUME NEW x \in 0 .. top, x \in Solved
      PROVE  x + 1 \in Solved
  <2>1. PICK g : g = [n \in 0 .. x - 1 |-> FieldRead(read, m, j, old, g, n)]
    BY <1>3
  <2>2. PICK h : h = [n \in 0 .. x |-> FieldRead(read, m, j, old, g, n)]
    OBVIOUS
  <2>3. ASSUME NEW n \in 0 .. x
        PROVE FieldRead(read, m, j, old, g, n) = FieldRead(read, m, j, old, h, n)
    <3>1. CASE n = 0
      BY <3>1 DEF FieldRead
    <3>2. CASE n # 0
      <4>1. n - 1 \in 0 .. x - 1 /\ n - 1 \in 0 .. x
        BY <3>2
      <4>2. g[n - 1] = h[n - 1]
        BY <2>1, <2>2, <4>1
      <4> QED
        BY <3>2, <4>2 DEF FieldRead
    <3> QED
      BY <3>1, <3>2
  <2>4. h = [n \in 0 .. (x + 1) - 1 |-> FieldRead(read, m, j, old, h, n)]
    BY <2>2, <2>3
  <2> QED
    BY <2>4
<1>4. top + 1 \in Solved
  <2> HIDE DEF Solved
  <2> QED
    BY <1>2, <1>3, Climb
<1>5. \E g : g = [n \in 0 .. top |-> FieldRead(read, m, j, old, g, n)]
  BY <1>4
<1>6. ReadFields(read, m, j, old) =
          CHOOSE g : g = [n \in 0 .. top |-> FieldRead(read, m, j, old, g, n)]
  BY <1>1 DEF ReadFields, FieldRead
<1> QED
  BY <1>1, <1>5, <1>6

ValueWritten(after, n) ==
    [type \in Types |-> [value \in Objects[type] |->
        IF n = 0 THEN Written(FALSE, JsonNull) ELSE Writing(after[n - 1], type, value)]]

LEMMA WriteValueUnfold ==
    WriteValue = [n \in 0 .. Depth |-> ValueWritten(WriteValue, n)]
<1>1. PICK top \in Nat : top = Depth
  BY ObjectsAssumption
<1> DEFINE Solved == {x \in Nat : \E g : g = [n \in 0 .. x - 1 |-> ValueWritten(g, n)]}
<1>2. 0 \in Solved
  <2>1. PICK g : g = [n \in 0 .. 0 - 1 |-> ValueWritten(<<>>, n)]
    OBVIOUS
  <2>2. g = [n \in 0 .. 0 - 1 |-> ValueWritten(g, n)]
    BY <2>1
  <2> QED
    BY <2>2
<1>3. ASSUME NEW x \in 0 .. top, x \in Solved
      PROVE  x + 1 \in Solved
  <2>1. PICK g : g = [n \in 0 .. x - 1 |-> ValueWritten(g, n)]
    BY <1>3
  <2>2. PICK h : h = [n \in 0 .. x |-> ValueWritten(g, n)]
    OBVIOUS
  <2>3. ASSUME NEW n \in 0 .. x PROVE ValueWritten(g, n) = ValueWritten(h, n)
    <3>1. CASE n = 0
      BY <3>1 DEF ValueWritten
    <3>2. CASE n # 0
      <4>1. n - 1 \in 0 .. x - 1 /\ n - 1 \in 0 .. x
        BY <3>2
      <4>2. g[n - 1] = h[n - 1]
        BY <2>1, <2>2, <4>1
      <4> QED
        BY <3>2, <4>2 DEF ValueWritten
    <3> QED
      BY <3>1, <3>2
  <2>4. h = [n \in 0 .. (x + 1) - 1 |-> ValueWritten(h, n)]
    BY <2>2, <2>3
  <2> QED
    BY <2>4
<1>4. top + 1 \in Solved
  <2> HIDE DEF Solved
  <2> QED
    BY <1>2, <1>3, Climb
<1>5. \E g : g = [n \in 0 .. top |-> ValueWritten(g, n)]
  BY <1>4
<1>6. WriteValue = CHOOSE g : g = [n \in 0 .. top |-> ValueWritten(g, n)]
  BY <1>1 DEF WriteValue, ValueWritten
<1> QED
  BY <1>1, <1>5, <1>6

ValueRead(after, n) ==
    [type \in Types |-> [j \in Documents |-> [old \in Objects[type] |->
        IF n = 0 THEN Threw(old) ELSE Reading(after[n - 1], type, j, old)]]]

LEMMA ReadIntoUnfold ==
    ReadInto = [n \in 0 .. Depth |-> ValueRead(ReadInto, n)]
<1>1. PICK top \in Nat : top = Depth
  BY ObjectsAssumption
<1> DEFINE Solved == {x \in Nat : \E g : g = [n \in 0 .. x - 1 |-> ValueRead(g, n)]}
<1>2. 0 \in Solved
  <2>1. PICK g : g = [n \in 0 .. 0 - 1 |-> ValueRead(<<>>, n)]
    OBVIOUS
  <2>2. g = [n \in 0 .. 0 - 1 |-> ValueRead(g, n)]
    BY <2>1
  <2> QED
    BY <2>2
<1>3. ASSUME NEW x \in 0 .. top, x \in Solved
      PROVE  x + 1 \in Solved
  <2>1. PICK g : g = [n \in 0 .. x - 1 |-> ValueRead(g, n)]
    BY <1>3
  <2>2. PICK h : h = [n \in 0 .. x |-> ValueRead(g, n)]
    OBVIOUS
  <2>3. ASSUME NEW n \in 0 .. x PROVE ValueRead(g, n) = ValueRead(h, n)
    <3>1. CASE n = 0
      BY <3>1 DEF ValueRead
    <3>2. CASE n # 0
      <4>1. n - 1 \in 0 .. x - 1 /\ n - 1 \in 0 .. x
        BY <3>2
      <4>2. g[n - 1] = h[n - 1]
        BY <2>1, <2>2, <4>1
      <4> QED
        BY <3>2, <4>2 DEF ValueRead
    <3> QED
      BY <3>1, <3>2
  <2>4. h = [n \in 0 .. (x + 1) - 1 |-> ValueRead(h, n)]
    BY <2>2, <2>3
  <2> QED
    BY <2>4
<1>4. top + 1 \in Solved
  <2> HIDE DEF Solved
  <2> QED
    BY <1>2, <1>3, Climb
<1>5. \E g : g = [n \in 0 .. top |-> ValueRead(g, n)]
  BY <1>4
<1>6. ReadInto = CHOOSE g : g = [n \in 0 .. top |-> ValueRead(g, n)]
  BY <1>1 DEF ReadInto, ValueRead
<1> QED
  BY <1>1, <1>5, <1>6

ValueLossy(after, n) ==
    [type \in Types |-> [value \in Objects[type] |->
        n # 0 /\ LossyPart(after[n - 1], WriteValue[n - 1], type, value)]]

LEMMA LossyUnfold ==
    Lossy = [n \in 0 .. Depth |-> ValueLossy(Lossy, n)]
<1>1. PICK top \in Nat : top = Depth
  BY ObjectsAssumption
<1> DEFINE Solved == {x \in Nat : \E g : g = [n \in 0 .. x - 1 |-> ValueLossy(g, n)]}
<1>2. 0 \in Solved
  <2>1. PICK g : g = [n \in 0 .. 0 - 1 |-> ValueLossy(<<>>, n)]
    OBVIOUS
  <2>2. g = [n \in 0 .. 0 - 1 |-> ValueLossy(g, n)]
    BY <2>1
  <2> QED
    BY <2>2
<1>3. ASSUME NEW x \in 0 .. top, x \in Solved
      PROVE  x + 1 \in Solved
  <2>1. PICK g : g = [n \in 0 .. x - 1 |-> ValueLossy(g, n)]
    BY <1>3
  <2>2. PICK h : h = [n \in 0 .. x |-> ValueLossy(g, n)]
    OBVIOUS
  <2>3. ASSUME NEW n \in 0 .. x PROVE ValueLossy(g, n) = ValueLossy(h, n)
    <3>1. CASE n = 0
      BY <3>1 DEF ValueLossy
    <3>2. CASE n # 0
      <4>1. n - 1 \in 0 .. x - 1 /\ n - 1 \in 0 .. x
        BY <3>2
      <4>2. g[n - 1] = h[n - 1]
        BY <2>1, <2>2, <4>1
      <4> QED
        BY <3>2, <4>2 DEF ValueLossy
    <3> QED
      BY <3>1, <3>2
  <2>4. h = [n \in 0 .. (x + 1) - 1 |-> ValueLossy(h, n)]
    BY <2>2, <2>3
  <2> QED
    BY <2>4
<1>4. top + 1 \in Solved
  <2> HIDE DEF Solved
  <2> QED
    BY <1>2, <1>3, Climb
<1>5. \E g : g = [n \in 0 .. top |-> ValueLossy(g, n)]
  BY <1>4
<1>6. Lossy = CHOOSE g : g = [n \in 0 .. top |-> ValueLossy(g, n)]
  BY <1>1 DEF Lossy, ValueLossy
<1> QED
  BY <1>1, <1>5, <1>6

ValueRestored(after, n) ==
    [type \in Types |-> [value \in Objects[type] |->
        IF n = 0 THEN value ELSE Restoring(after[n - 1], type, value)]]

LEMMA RestoredUnfold ==
    Restored = [n \in 0 .. Depth |-> ValueRestored(Restored, n)]
<1>1. PICK top \in Nat : top = Depth
  BY ObjectsAssumption
<1> DEFINE Solved == {x \in Nat : \E g : g = [n \in 0 .. x - 1 |-> ValueRestored(g, n)]}
<1>2. 0 \in Solved
  <2>1. PICK g : g = [n \in 0 .. 0 - 1 |-> ValueRestored(<<>>, n)]
    OBVIOUS
  <2>2. g = [n \in 0 .. 0 - 1 |-> ValueRestored(g, n)]
    BY <2>1
  <2> QED
    BY <2>2
<1>3. ASSUME NEW x \in 0 .. top, x \in Solved
      PROVE  x + 1 \in Solved
  <2>1. PICK g : g = [n \in 0 .. x - 1 |-> ValueRestored(g, n)]
    BY <1>3
  <2>2. PICK h : h = [n \in 0 .. x |-> ValueRestored(g, n)]
    OBVIOUS
  <2>3. ASSUME NEW n \in 0 .. x PROVE ValueRestored(g, n) = ValueRestored(h, n)
    <3>1. CASE n = 0
      BY <3>1 DEF ValueRestored
    <3>2. CASE n # 0
      <4>1. n - 1 \in 0 .. x - 1 /\ n - 1 \in 0 .. x
        BY <3>2
      <4>2. g[n - 1] = h[n - 1]
        BY <2>1, <2>2, <4>1
      <4> QED
        BY <3>2, <4>2 DEF ValueRestored
    <3> QED
      BY <3>1, <3>2
  <2>4. h = [n \in 0 .. (x + 1) - 1 |-> ValueRestored(h, n)]
    BY <2>2, <2>3
  <2> QED
    BY <2>4
<1>4. top + 1 \in Solved
  <2> HIDE DEF Solved
  <2> QED
    BY <1>2, <1>3, Climb
<1>5. \E g : g = [n \in 0 .. top |-> ValueRestored(g, n)]
  BY <1>4
<1>6. Restored = CHOOSE g : g = [n \in 0 .. top |-> ValueRestored(g, n)]
  BY <1>1 DEF Restored, ValueRestored
<1> QED
  BY <1>1, <1>5, <1>6

ValueKept(after, n) ==
    [m \in Models |-> [j \in Documents |-> [old \in Objects[Object(m)] |->
        IF n = 0 THEN old ELSE KeptMembers(after[n - 1], ReadInto[n], m, j, old)]]]

LEMMA KeptUnfold ==
    Kept = [n \in 0 .. Depth |-> ValueKept(Kept, n)]
<1>1. PICK top \in Nat : top = Depth
  BY ObjectsAssumption
<1> DEFINE Solved == {x \in Nat : \E g : g = [n \in 0 .. x - 1 |-> ValueKept(g, n)]}
<1>2. 0 \in Solved
  <2>1. PICK g : g = [n \in 0 .. 0 - 1 |-> ValueKept(<<>>, n)]
    OBVIOUS
  <2>2. g = [n \in 0 .. 0 - 1 |-> ValueKept(g, n)]
    BY <2>1
  <2> QED
    BY <2>2
<1>3. ASSUME NEW x \in 0 .. top, x \in Solved
      PROVE  x + 1 \in Solved
  <2>1. PICK g : g = [n \in 0 .. x - 1 |-> ValueKept(g, n)]
    BY <1>3
  <2>2. PICK h : h = [n \in 0 .. x |-> ValueKept(g, n)]
    OBVIOUS
  <2>3. ASSUME NEW n \in 0 .. x PROVE ValueKept(g, n) = ValueKept(h, n)
    <3>1. CASE n = 0
      BY <3>1 DEF ValueKept
    <3>2. CASE n # 0
      <4>1. n - 1 \in 0 .. x - 1 /\ n - 1 \in 0 .. x
        BY <3>2
      <4>2. g[n - 1] = h[n - 1]
        BY <2>1, <2>2, <4>1
      <4> QED
        BY <3>2, <4>2 DEF ValueKept
    <3> QED
      BY <3>1, <3>2
  <2>4. h = [n \in 0 .. (x + 1) - 1 |-> ValueKept(h, n)]
    BY <2>2, <2>3
  <2> QED
    BY <2>4
<1>4. top + 1 \in Solved
  <2> HIDE DEF Solved
  <2> QED
    BY <1>2, <1>3, Climb
<1>5. \E g : g = [n \in 0 .. top |-> ValueKept(g, n)]
  BY <1>4
<1>6. Kept = CHOOSE g : g = [n \in 0 .. top |-> ValueKept(g, n)]
  BY <1>1 DEF Kept, ValueKept
<1> QED
  BY <1>1, <1>5, <1>6

ValueContested(after, n) ==
    [type \in Types |-> [j \in Documents |->
        n # 0 /\ ContestedPart(after[n - 1], type, j)]]

LEMMA ContestedUnfold ==
    Contested = [n \in 0 .. Depth |-> ValueContested(Contested, n)]
<1>1. PICK top \in Nat : top = Depth
  BY ObjectsAssumption
<1> DEFINE Solved == {x \in Nat : \E g : g = [n \in 0 .. x - 1 |-> ValueContested(g, n)]}
<1>2. 0 \in Solved
  <2>1. PICK g : g = [n \in 0 .. 0 - 1 |-> ValueContested(<<>>, n)]
    OBVIOUS
  <2>2. g = [n \in 0 .. 0 - 1 |-> ValueContested(g, n)]
    BY <2>1
  <2> QED
    BY <2>2
<1>3. ASSUME NEW x \in 0 .. top, x \in Solved
      PROVE  x + 1 \in Solved
  <2>1. PICK g : g = [n \in 0 .. x - 1 |-> ValueContested(g, n)]
    BY <1>3
  <2>2. PICK h : h = [n \in 0 .. x |-> ValueContested(g, n)]
    OBVIOUS
  <2>3. ASSUME NEW n \in 0 .. x PROVE ValueContested(g, n) = ValueContested(h, n)
    <3>1. CASE n = 0
      BY <3>1 DEF ValueContested
    <3>2. CASE n # 0
      <4>1. n - 1 \in 0 .. x - 1 /\ n - 1 \in 0 .. x
        BY <3>2
      <4>2. g[n - 1] = h[n - 1]
        BY <2>1, <2>2, <4>1
      <4> QED
        BY <3>2, <4>2 DEF ValueContested
    <3> QED
      BY <3>1, <3>2
  <2>4. h = [n \in 0 .. (x + 1) - 1 |-> ValueContested(h, n)]
    BY <2>2, <2>3
  <2> QED
    BY <2>4
<1>4. top + 1 \in Solved
  <2> HIDE DEF Solved
  <2> QED
    BY <1>2, <1>3, Climb
<1>5. \E g : g = [n \in 0 .. top |-> ValueContested(g, n)]
  BY <1>4
<1>6. Contested = CHOOSE g : g = [n \in 0 .. top |-> ValueContested(g, n)]
  BY <1>1 DEF Contested, ValueContested
<1> QED
  BY <1>1, <1>5, <1>6

ValueValid(after, n) ==
    [schema \in {Fragment[type] : type \in Types} |-> [j \in Documents |->
        n # 0 /\ Valid(Schema(project).defs, after[n - 1], schema, j)]]

LEMMA ValidatesUnfold ==
    Validates = [n \in 0 .. 2 * Depth |-> ValueValid(Validates, n)]
<1>1. PICK top \in Nat : top = 2 * Depth
  BY ObjectsAssumption
<1> DEFINE Solved == {x \in Nat : \E g : g = [n \in 0 .. x - 1 |-> ValueValid(g, n)]}
<1>2. 0 \in Solved
  <2>1. PICK g : g = [n \in 0 .. 0 - 1 |-> ValueValid(<<>>, n)]
    OBVIOUS
  <2>2. g = [n \in 0 .. 0 - 1 |-> ValueValid(g, n)]
    BY <2>1
  <2> QED
    BY <2>2
<1>3. ASSUME NEW x \in 0 .. top, x \in Solved
      PROVE  x + 1 \in Solved
  <2>1. PICK g : g = [n \in 0 .. x - 1 |-> ValueValid(g, n)]
    BY <1>3
  <2>2. PICK h : h = [n \in 0 .. x |-> ValueValid(g, n)]
    OBVIOUS
  <2>3. ASSUME NEW n \in 0 .. x PROVE ValueValid(g, n) = ValueValid(h, n)
    <3>1. CASE n = 0
      BY <3>1 DEF ValueValid
    <3>2. CASE n # 0
      <4>1. n - 1 \in 0 .. x - 1 /\ n - 1 \in 0 .. x
        BY <3>2
      <4>2. g[n - 1] = h[n - 1]
        BY <2>1, <2>2, <4>1
      <4> QED
        BY <3>2, <4>2 DEF ValueValid
    <3> QED
      BY <3>1, <3>2
  <2>4. h = [n \in 0 .. (x + 1) - 1 |-> ValueValid(h, n)]
    BY <2>2, <2>3
  <2> QED
    BY <2>4
<1>4. top + 1 \in Solved
  <2> HIDE DEF Solved
  <2> QED
    BY <1>2, <1>3, Climb
<1>5. \E g : g = [n \in 0 .. top |-> ValueValid(g, n)]
  BY <1>4
<1>6. Validates = CHOOSE g : g = [n \in 0 .. top |-> ValueValid(g, n)]
  BY <1>1 DEF Validates, ValueValid
<1> QED
  BY <1>1, <1>5, <1>6

-----------------------------------------------------------------------------
(* One level of each function.                                             *)

\* WriteValue, one level.
LEMMA WriteAt ==
    ASSUME NEW n \in 1 .. Depth, NEW type \in Types, NEW value \in Objects[type]
    PROVE  WriteValue[n][type][value] = Writing(WriteValue[n - 1], type, value)
<1>1. n \in 0 .. Depth /\ n # 0
  BY ObjectsAssumption
<1>2. WriteValue[n] = ValueWritten(WriteValue, n)
  BY <1>1, WriteValueUnfold
<1> QED
  BY <1>1, <1>2 DEF ValueWritten

\* ReadInto, one level.
LEMMA ReadAt ==
    ASSUME NEW n \in 1 .. Depth, NEW type \in Types, NEW j \in Documents, NEW old \in Objects[type]
    PROVE  ReadInto[n][type][j][old] = Reading(ReadInto[n - 1], type, j, old)
<1>1. n \in 0 .. Depth /\ n # 0
  BY ObjectsAssumption
<1>2. ReadInto[n] = ValueRead(ReadInto, n)
  BY <1>1, ReadIntoUnfold
<1> QED
  BY <1>1, <1>2 DEF ValueRead

\* Without a level nothing is written or read.
LEMMA NoLevel ==
    ASSUME NEW type \in Types
    PROVE  /\ \A value \in Objects[type] : WriteValue[0][type][value] = Written(FALSE, JsonNull)
           /\ \A j \in Documents, old \in Objects[type] : ReadInto[0][type][j][old] = Threw(old)
<1>1. 0 \in 0 .. Depth
  BY ObjectsAssumption
<1>2. WriteValue[0] = ValueWritten(WriteValue, 0)
  BY <1>1, WriteValueUnfold
<1>3. ReadInto[0] = ValueRead(ReadInto, 0)
  BY <1>1, ReadIntoUnfold
<1>4. ValueWritten(WriteValue, 0) =
            [t \in Types |-> [value \in Objects[t] |-> Written(FALSE, JsonNull)]]
  BY DEF ValueWritten
<1>5. ASSUME NEW j \in Documents, NEW old \in Objects[type]
      PROVE  ReadInto[0][type][j][old] = Threw(old)
  <2>1. ReadInto[0][type][j] =
            [v \in Objects[type] |->
                IF 0 = 0 THEN Threw(v) ELSE Reading(ReadInto[0 - 1], type, j, v)]
    BY <1>3 DEF ValueRead
  <2> QED
    BY <2>1
<1>6. ASSUME NEW value \in Objects[type]
      PROVE  WriteValue[0][type][value] = Written(FALSE, JsonNull)
  <2>1. WriteValue[0][type] = [v \in Objects[type] |-> Written(FALSE, JsonNull)]
    BY <1>2, <1>4
  <2> QED
    BY <2>1
<1> QED
  BY <1>5, <1>6

\* Lossy, one level.
LEMMA LossyAt ==
    ASSUME NEW n \in 1 .. Depth, NEW type \in Types, NEW value \in Objects[type]
    PROVE  Lossy[n][type][value] = LossyPart(Lossy[n - 1], WriteValue[n - 1], type, value)
<1>1. n \in 0 .. Depth /\ n # 0
  BY ObjectsAssumption
<1>2. Lossy[n] = ValueLossy(Lossy, n)
  BY <1>1, LossyUnfold
<1>3. LossyPart(Lossy[n - 1], WriteValue[n - 1], type, value) \in BOOLEAN
  BY TypeFacts DEF LossyPart, ScalarKinds, ArithmeticKinds, IntegerKinds, Containers
<1> QED
  BY <1>1, <1>2, <1>3 DEF ValueLossy

\* Restored, one level.
LEMMA RestoredAt ==
    ASSUME NEW n \in 1 .. Depth, NEW type \in Types, NEW value \in Objects[type]
    PROVE  Restored[n][type][value] = Restoring(Restored[n - 1], type, value)
<1>1. n \in 0 .. Depth /\ n # 0
  BY ObjectsAssumption
<1>2. Restored[n] = ValueRestored(Restored, n)
  BY <1>1, RestoredUnfold
<1> QED
  BY <1>1, <1>2 DEF ValueRestored

-----------------------------------------------------------------------------
(* The generated functions, behind any of their fields.                    *)

\* to_json has something to write for a field.
Sent(field, value) == ~field.ignored /\ ~Omitted(field, value[field.name])

\* Behind n fields to_json has not thrown only if it has written all of them.
SentSoFar(write, m, value, n) ==
    LET w == WriteFields(write, m, value)[n]
        sent(h) == Sent(Fields[m][h], value)
        result(h) == WrittenField(write, Fields[m][h], value[Fields[m][h].name])
    IN  w.ok =>
          /\ w.j = JsonNull \/ w.j = JsonObject(w.j.members)
          /\ \A h \in 1 .. Len(Fields[m]) :
                ~Fields[m][h].ignored =>
                     (Contains(w.j, Fields[m][h].key) <=> h <= n /\ sent(h))
          /\ \A h \in 1 .. n : sent(h) =>
                result(h).ok /\ w.j.members[Fields[m][h].key] = result(h).j

\* SentSoFar is what to_json has achieved.
LEMMA FieldsWritten ==
    ASSUME NEW write, NEW m \in Models, NEW value, NEW n \in 0 .. Len(Fields[m])
    PROVE  SentSoFar(write, m, value, n)
<1> DEFINE w(x) == WriteFields(write, m, value)[x]
           sent(h) == Sent(Fields[m][h], value)
           result(h) == WrittenField(write, Fields[m][h], value[Fields[m][h].name])
           Claim(x) ==
             w(x).ok =>
                 /\ w(x).j = JsonNull \/ w(x).j = JsonObject(w(x).j.members)
                 /\ \A h \in 1 .. Len(Fields[m]) :
                       ~Fields[m][h].ignored =>
                            (Contains(w(x).j, Fields[m][h].key) <=> h <= x /\ sent(h))
                 /\ \A h \in 1 .. x : sent(h) =>
                       result(h).ok /\ w(x).j.members[Fields[m][h].key] = result(h).j
           Claims == {x \in Nat : x <= Len(Fields[m]) => Claim(x)}
<1>1. PICK top \in Nat : top = Len(Fields[m])
  BY FieldFacts
<1>2. \A x \in 0 .. top : w(x) = FieldWritten(write, m, value, WriteFields(write, m, value), x)
  BY <1>1, WriteFieldsUnfold
<1>3. Claim(0)
  <2>1. w(0) = Written(TRUE, JsonNull)
    <3>1. 0 \in 0 .. top
      OBVIOUS
    <3> QED
      BY <1>2, <3>1 DEF FieldWritten
  <2> QED
    BY <2>1, <1>1 DEF Written, JsonNull, Contains
<1>4. ASSUME NEW x \in 0 .. top, x + 1 <= top, Claim(x) PROVE Claim(x + 1)
  <2>1. SUFFICES ASSUME w(x + 1).ok PROVE Claim(x + 1)
    OBVIOUS
  <2>2. x + 1 \in 1 .. top /\ x + 1 \in 0 .. top /\ (x + 1) - 1 = x /\ x + 1 # 0
    BY <1>4
  <2>3. w(x + 1) = IF w(x).ok THEN WriteField(write, w(x).j, Fields[m][x + 1], value) ELSE w(x)
    BY <1>2, <2>2 DEF FieldWritten
  <2>4. w(x).ok /\ w(x + 1) = WriteField(write, w(x).j, Fields[m][x + 1], value)
    BY <2>1, <2>3
  <2> DEFINE field == Fields[m][x + 1]
             old == w(x).j
  <2>5. /\ old = JsonNull \/ old = JsonObject(old.members)
        /\ \A h \in 1 .. top :
              ~Fields[m][h].ignored => (Contains(old, Fields[m][h].key) <=> h <= x /\ sent(h))
        /\ \A h \in 1 .. x : sent(h) =>
              result(h).ok /\ old.members[Fields[m][h].key] = result(h).j
    BY <1>1, <1>4, <2>4
  <2>6. \A h \in 1 .. x + 1 : h # x + 1 => h \in 1 .. x
    BY <1>4
  <2>7. \A h \in 1 .. top : h <= x + 1 <=> (h <= x \/ h = x + 1)
    BY <1>4
  <2>8. CASE ~sent(x + 1)
    <3>1. w(x + 1).j = old
      BY <2>4, <2>8 DEF Sent, WriteField, Written
    <3> HIDE DEF w, result, sent
    <3> QED
      BY <1>1, <2>5, <2>6, <2>7, <2>8, <3>1
  <2>9. CASE sent(x + 1)
    <3>1. result(x + 1).ok /\ w(x + 1).j = Put(old, field.key, result(x + 1).j)
      BY <2>1, <2>4, <2>9 DEF Sent, WriteField, Written
    <3> DEFINE members == w(x + 1).j.members
               before == IF old.t = "object" THEN old.members ELSE NoMembers
    <3>2. /\ w(x + 1).j = JsonObject(members)
          /\ members = [key \in DOMAIN before \cup {field.key} |->
                            IF key = field.key THEN result(x + 1).j ELSE before[key]]
      BY <3>1 DEF Put, JsonObject
    <3>3. \A key : Contains(old, key) <=> key \in DOMAIN before
      BY DEF Contains, NoMembers
    <3>4. \A key : Contains(w(x + 1).j, key) <=> key = field.key \/ Contains(old, key)
      <4> HIDE DEF w, old, result, members, before
      <4>1. DOMAIN members = DOMAIN before \cup {field.key}
        BY <3>2
      <4>2. w(x + 1).j.t = "object" /\ w(x + 1).j.members = members
        BY <3>2 DEF JsonObject
      <4> HIDE DEF field
      <4> QED
        BY <3>3, <4>1, <4>2 DEF Contains
    <3>5. /\ members[field.key] = result(x + 1).j
          /\ \A key : Contains(old, key) /\ key # field.key => members[key] = old.members[key]
      BY <3>2, <3>3 DEF Contains
    <3>6. ~field.ignored
      BY <2>9 DEF Sent
    <3>7. \A h \in 1 .. top : h # x + 1 /\ ~Fields[m][h].ignored => Fields[m][h].key # field.key
      BY <1>1, <2>2, <3>6, FieldFacts
    <3>8. \A h \in 1 .. top : sent(h) => ~Fields[m][h].ignored
      BY DEF Sent
    <3>9. \A h \in 1 .. x : h \in 1 .. top /\ h <= x /\ h # x + 1
      BY <1>4
    <3> HIDE DEF w, result, sent, field, old, members, before
    <3>10. \A h \in 1 .. top :
              ~Fields[m][h].ignored =>
                   (Contains(w(x + 1).j, Fields[m][h].key) <=> h <= x + 1 /\ sent(h))
      BY <2>2, <2>5, <2>7, <2>9, <3>4, <3>7 DEF field
    <3>11. \A h \in 1 .. x : sent(h) =>
              result(h).ok /\ members[Fields[m][h].key] = result(h).j
      BY <2>5, <3>5, <3>7, <3>8, <3>9
    <3>12. \A h \in 1 .. x + 1 : sent(h) =>
              result(h).ok /\ members[Fields[m][h].key] = result(h).j
      BY <2>6, <3>1, <3>5, <3>11 DEF field
    <3> QED
      BY <1>1, <3>2, <3>10, <3>12 DEF members
  <2> QED
    BY <2>8, <2>9
<1>5. \A x \in 0 .. top + 1 : x \in Claims
  <2> HIDE DEF Claim
  <2>1. 0 \in Claims
    BY <1>3
  <2>2. ASSUME NEW x \in 0 .. top, x \in Claims PROVE x + 1 \in Claims
    BY <1>1, <1>4, <2>2
  <2> HIDE DEF Claims
  <2> QED
    BY <2>1, <2>2, Climb
<1>6. n \in Claims /\ n <= Len(Fields[m])
  BY <1>1, <1>5
<1> QED
  BY <1>6 DEF SentSoFar

\* What from_json does with a field: whether it goes on, and what it leaves.
Accepts(read, j, field, old) ==
    \/ field.ignored
    \/ Contains(j, field.key) /\ ReadMember(read, field, j.members[field.key], old[field.name]).ok
    \/ ~Contains(j, field.key) /\ Omittable(field)
Outcome(read, j, field, old) ==
    IF field.ignored \/ ~Contains(j, field.key) THEN old[field.name]
    ELSE ReadMember(read, field, j.members[field.key], old[field.name]).value

\* Behind n fields from_json has not thrown if and only if it accepts all of them.
ReadSoFar(read, m, j, old, n) ==
    LET r == ReadFields(read, m, j, old)[n]
    IN  /\ r.ok <=> \A h \in 1 .. n : Accepts(read, j, Fields[m][h], old)
        /\ r.ok =>
             /\ DOMAIN r.value = Members(m)
             /\ r.value = [name \in Members(m) |-> r.value[name]]
             /\ \A h \in 1 .. Len(Fields[m]) :
                   r.value[Fields[m][h].name] =
                       IF h <= n THEN Outcome(read, j, Fields[m][h], old)
                       ELSE old[Fields[m][h].name]

\* The parts of a result.
LEMMA ReadParts == \A ok, value : Read(ok, value).ok = ok /\ Read(ok, value).value = value
  BY DEF Read

\* ReadSoFar is what from_json has achieved.
LEMMA FieldsRead ==
    ASSUME NEW read, NEW m \in Models, NEW j, NEW old, DOMAIN old = Members(m),
           old = [name \in Members(m) |-> old[name]], NEW n \in 0 .. Len(Fields[m])
    PROVE  ReadSoFar(read, m, j, old, n)
<1> DEFINE r(x) == ReadFields(read, m, j, old)[x]
           accepts(h) == Accepts(read, j, Fields[m][h], old)
           outcome(h) == Outcome(read, j, Fields[m][h], old)
           Claim(x) ==
               /\ r(x).ok <=> \A h \in 1 .. x : accepts(h)
               /\ r(x).ok =>
                    /\ DOMAIN r(x).value = Members(m)
                    /\ r(x).value = [name \in Members(m) |-> r(x).value[name]]
                    /\ \A h \in 1 .. Len(Fields[m]) :
                          r(x).value[Fields[m][h].name] =
                              IF h <= x THEN outcome(h) ELSE old[Fields[m][h].name]
           Claims == {x \in Nat : x <= Len(Fields[m]) => Claim(x)}
<1>1. PICK top \in Nat : top = Len(Fields[m])
  BY FieldFacts
<1>2. \A x \in 0 .. top : r(x) = FieldRead(read, m, j, old, ReadFields(read, m, j, old), x)
  BY <1>1, ReadFieldsUnfold
<1>3. Claim(0)
  <2>1. r(0) = Read(TRUE, old)
    <3>1. 0 \in 0 .. top
      OBVIOUS
    <3> QED
      BY <1>2, <3>1 DEF FieldRead
  <2> QED
    BY <2>1, <1>1 DEF Read
<1>4. ASSUME NEW x \in 0 .. top, x + 1 <= top, Claim(x) PROVE Claim(x + 1)
  <2>1. /\ x + 1 \in 1 .. top /\ x + 1 \in 0 .. top /\ (x + 1) - 1 = x /\ x + 1 # 0
        /\ \A h \in 1 .. x + 1 : h = x + 1 \/ h \in 1 .. x
        /\ \A h \in 1 .. x : h \in 1 .. x + 1
        /\ \A h \in 1 .. top : h # x + 1 => (h <= x + 1 <=> h <= x)
        /\ ~(x + 1 <= x) /\ x + 1 <= x + 1
    BY <1>4
  <2>2. r(x + 1) = IF r(x).ok THEN ReadField(read, j, Fields[m][x + 1], r(x).value) ELSE r(x)
    BY <1>2, <2>1 DEF FieldRead
  <2> DEFINE field == Fields[m][x + 1]
  <2>3. CASE ~r(x).ok
    <3>1. r(x + 1) = r(x) /\ ~(\A h \in 1 .. x : accepts(h))
      BY <1>4, <2>2, <2>3
    <3> HIDE DEF r, accepts
    <3> QED
      BY <2>1, <2>3, <3>1
  <2>4. CASE r(x).ok
    <3> DEFINE value == r(x).value
    <3>1. r(x + 1) = ReadField(read, j, field, value)
      BY <2>2, <2>4
    <3>2. /\ \A h \in 1 .. x : accepts(h)
          /\ DOMAIN value = Members(m) /\ value = [name \in Members(m) |-> value[name]]
          /\ \A h \in 1 .. top :
                value[Fields[m][h].name] = IF h <= x THEN outcome(h) ELSE old[Fields[m][h].name]
      BY <1>1, <1>4, <2>4
    <3>3. value[field.name] = old[field.name] /\ field.name \in Members(m)
      BY <1>1, <2>1, <3>2, FieldFacts
    <3> DEFINE result == ReadMember(read, field, j.members[field.key], old[field.name])
    <3>4. r(x + 1) = IF field.ignored THEN Read(TRUE, value)
                     ELSE IF Contains(j, field.key)
                     THEN Read(result.ok, [value EXCEPT ![field.name] = result.value])
                     ELSE Read(Omittable(field), value)
      BY <3>1, <3>3 DEF ReadField
    <3>5. r(x + 1).ok <=> accepts(x + 1)
      <4> HIDE DEF r, value
      <4>1. CASE field.ignored
        BY <3>4, <4>1 DEF Accepts, Read
      <4>2. CASE ~field.ignored /\ Contains(j, field.key)
        <5>1. r(x + 1) = Read(result.ok, [value EXCEPT ![field.name] = result.value])
          BY <3>4, <4>2
        <5>2. accepts(x + 1) <=> result.ok
          BY <4>2 DEF Accepts
        <5> HIDE DEF accepts, result
        <5> QED
          BY <5>1, <5>2, SMTT(30) DEF Read
      <4>3. CASE ~field.ignored /\ ~Contains(j, field.key)
        BY <3>4, <4>3 DEF Accepts, Read
      <4> QED
        BY <4>1, <4>2, <4>3
    <3>6. r(x + 1).value = [value EXCEPT ![field.name] = outcome(x + 1)]
      <4>1. ASSUME outcome(x + 1) = value[field.name]
            PROVE  value = [value EXCEPT ![field.name] = outcome(x + 1)]
        <5> HIDE DEF outcome, value, field
        <5> QED
          BY <3>2, <3>3, <4>1
      <4>2. CASE field.ignored \/ ~Contains(j, field.key)
        <5>1. outcome(x + 1) = value[field.name]
          BY <3>3, <4>2 DEF Outcome
        <5>2. r(x + 1).value = value
          <6> HIDE DEF r, value, result
          <6> QED
            BY <3>4, <4>2, SMTT(30) DEF Read
        <5> QED
          BY <4>1, <5>1, <5>2
      <4>3. CASE ~field.ignored /\ Contains(j, field.key)
        <5>1. outcome(x + 1) = result.value
          BY <4>3 DEF Outcome
        <5>2. r(x + 1).value = [value EXCEPT ![field.name] = result.value]
          <6> HIDE DEF r, value, result
          <6>1. r(x + 1) = Read(result.ok, [value EXCEPT ![field.name] = result.value])
            BY <3>4, <4>3
          <6> HIDE DEF field, outcome, accepts
          <6> QED
            BY <6>1, ReadParts
        <5> QED
          BY <5>1, <5>2
      <4> QED
        BY <4>2, <4>3
    <3>7. \A h \in 1 .. top : h # x + 1 => Fields[m][h].name # field.name
      BY <1>1, <2>1, FieldFacts
    <3>8. \A h \in 1 .. top : Fields[m][h].name \in Members(m)
      BY <1>1, FieldFacts
    <3> HIDE DEF r, accepts, outcome, value, field
    <3>9. \A h \in 1 .. x + 1 : accepts(h) <=> (h # x + 1 \/ accepts(x + 1))
      BY <2>1, <3>2
    <3>10. r(x + 1).ok <=> \A h \in 1 .. x + 1 : accepts(h)
      BY <2>1, <3>5, <3>9
    <3>11. /\ DOMAIN r(x + 1).value = Members(m)
           /\ r(x + 1).value = [name \in Members(m) |-> r(x + 1).value[name]]
      BY <3>2, <3>6
    <3>12. ASSUME NEW h \in 1 .. top
           PROVE  r(x + 1).value[Fields[m][h].name] =
                      IF h <= x + 1 THEN outcome(h) ELSE old[Fields[m][h].name]
      <4>1. CASE h = x + 1
        BY <2>1, <3>2, <3>3, <3>6, <4>1 DEF field
      <4>2. CASE h # x + 1
        BY <2>1, <3>2, <3>6, <3>7, <3>8, <4>2
      <4> QED
        BY <4>1, <4>2
    <3> QED
      BY <1>1, <3>10, <3>11, <3>12
  <2> QED
    BY <2>3, <2>4
<1>5. \A x \in 0 .. top + 1 : x \in Claims
  <2> HIDE DEF Claim
  <2>1. 0 \in Claims
    BY <1>3
  <2>2. ASSUME NEW x \in 0 .. top, x \in Claims PROVE x + 1 \in Claims
    BY <1>1, <1>4, <2>2
  <2> HIDE DEF Claims
  <2> QED
    BY <2>1, <2>2, Climb
<1>6. n \in Claims /\ n <= Len(Fields[m])
  <2>1. n \in 0 .. top + 1 /\ n <= top
    BY <1>1
  <2> HIDE DEF Claims
  <2> QED
    BY <1>1, <1>5, <2>1
<1> QED
  BY <1>6 DEF ReadSoFar

-----------------------------------------------------------------------------
(* What is written is read back.                                           *)

\* Of the parts of a value: what is written is read, into a new object, without
\* a throw, and unless it is lossy it is what was there.
Faithful(write, read, lossy, restored) ==
    \A type \in Types : \A value \in Objects[type] :
        /\ write[type][value].ok =>
              LET result == read[type][write[type][value].j][Fresh[type]]
              IN  /\ write[type][value].j \in Documents
                  /\ result.ok
                  /\ lossy[type][value] \/ result.value = restored[type][value]
        /\ type.kind = "enum" => restored[type][value] = value

\* The cast of a number that is in range leaves it alone.
LEMMA WrapInRange ==
    ASSUME NEW name \in DOMAIN Least, NEW n \in NumbersOf(name)
    PROVE  Wrap(name, n) = n
<1>1. Least[name] \in Int /\ Greatest[name] \in Int
  BY ModelsAssumption
<1>2. n \in Int /\ Least[name] <= n /\ n <= Greatest[name]
  BY <1>1 DEF NumbersOf
<1>3. PICK a \in Nat : a = n - Least[name]
  BY <1>1, <1>2
<1>4. PICK b \in Nat : b = Greatest[name] - Least[name] + 1 /\ a < b
  BY <1>1, <1>2, <1>3
<1>5. a % b = a
  BY <1>4
<1> QED
  BY <1>1, <1>2, <1>3, <1>4, <1>5 DEF Wrap

\* A value of each kind, as IsValue has it.
LEMMA ValueFacts ==
    ASSUME NEW type \in Types, NEW value \in Objects[type]
    PROVE  /\ type.kind \in ScalarKinds =>
                 /\ type.kind = "bool" => value.t = "bool" /\ value.b \in BOOLEAN
                 /\ type.kind \in IntegerKinds =>
                       value = JsonInteger(value.n) /\ Wrap(type.of, value.n) = value.n
                 /\ type.kind = "float" =>
                       value = JsonReal(value.m) /\ Rounded(type.of, value.m) = value.m
                 /\ type.kind = "string" => value.t = "string"
           /\ type.kind = "enum" => value \in Int /\ Wrap(type.of, value) = value
           /\ type.kind = "optional" =>
                 value = <<>> \/ (value = <<value[1]>> /\ value[1] \in Objects[Inner(type)])
           /\ type.kind \in {"vector", "array"} =>
                 /\ Len(value) \in Nat
                 /\ value \in [1 .. Len(value) -> Objects[Inner(type)]]
           /\ type.kind = "array" => value \in [1 .. type.extent -> Objects[Inner(type)]]
           /\ type.kind = "map" =>
                 DOMAIN value \subseteq STRING /\ value \in [DOMAIN value -> Objects[Inner(type)]]
<1>1. IsValue(type, value)
  BY ObjectsAssumption
<1>2. CASE type.kind = "bool"
  <2>1. PICK b \in BOOLEAN : value = JsonBool(b)
    BY <1>1, <1>2 DEF IsValue, IntegerKinds
  <2> QED
    BY <1>2, <2>1 DEF JsonBool, IntegerKinds
<1>3. CASE type.kind \in IntegerKinds
  <2>1. value.n \in NumbersOf(type.of) /\ value = JsonInteger(value.n)
    <3>1. CASE type.kind = "signed"
      BY <1>1, <3>1 DEF IsValue, IntegerKinds
    <3>2. CASE type.kind = "unsigned"
      BY <1>1, <3>2 DEF IsValue, IntegerKinds
    <3> QED
      BY <1>3, <3>1, <3>2 DEF IntegerKinds
  <2>2. type.of \in DOMAIN Least
    BY <1>3, TypeFacts
  <2>3. Wrap(type.of, value.n) = value.n
    BY <2>1, <2>2, WrapInRange
  <2> QED
    BY <1>3, <2>1, <2>3 DEF IntegerKinds
<1>4. CASE type.kind = "float"
  BY <1>1, <1>4 DEF IsValue, IntegerKinds
<1>5. CASE type.kind = "string"
  <2>1. value = JsonString(value.s)
    BY <1>1, <1>5 DEF IsValue, IntegerKinds
  <2> QED
    BY <1>5, <2>1 DEF JsonString, IntegerKinds
<1>6. CASE type.kind = "enum"
  <2>1. value \in NumbersOf(type.of)
    BY <1>1, <1>6 DEF IsValue, IntegerKinds
  <2>2. type.of \in DOMAIN Least
    BY <1>6, TypeFacts
  <2>3. Wrap(type.of, value) = value
    BY <2>1, <2>2, WrapInRange
  <2>4. value \in Int
    BY <2>1, <2>2, ModelsAssumption DEF NumbersOf
  <2> QED
    BY <1>6, <2>3, <2>4 DEF ScalarKinds, ArithmeticKinds, IntegerKinds
<1>7. CASE type.kind = "optional"
  <2>1. value = <<>> \/ value \in [1 .. 1 -> Objects[Inner(type)]]
    BY <1>1, <1>7 DEF IsValue
  <2>2. ASSUME value \in [1 .. 1 -> Objects[Inner(type)]]
        PROVE  value = <<value[1]>> /\ value[1] \in Objects[Inner(type)]
    BY <2>2
  <2> QED
    BY <1>7, <2>1, <2>2 DEF ScalarKinds, ArithmeticKinds, IntegerKinds
<1>8. CASE type.kind = "vector"
  <2>1. value \in Seq(Objects[Inner(type)])
    BY <1>1, <1>8 DEF IsValue
  <2> QED
    BY <1>8, <2>1 DEF ScalarKinds, ArithmeticKinds, IntegerKinds
<1>9. CASE type.kind = "array"
  <2>1. value \in [1 .. type.extent -> Objects[Inner(type)]] /\ type.extent \in Nat
    BY <1>1, <1>9, TypeFacts DEF IsValue, Containers
  <2>2. value \in Seq(Objects[Inner(type)]) /\ Len(value) = type.extent
    BY <2>1
  <2> QED
    BY <1>9, <2>1, <2>2 DEF ScalarKinds, ArithmeticKinds, IntegerKinds
<1>10. CASE type.kind = "map"
  BY <1>1, <1>10 DEF IsValue, ScalarKinds, ArithmeticKinds, IntegerKinds
<1>11. CASE type.kind = "object"
  BY <1>11 DEF ScalarKinds, ArithmeticKinds, IntegerKinds
<1> QED
  BY <1>2, <1>3, <1>4, <1>5, <1>6, <1>7, <1>8, <1>9, <1>10, <1>11, TypeFacts
  DEF ScalarKinds, ArithmeticKinds, IntegerKinds, Containers

\* A null has no members.
LEMMA NullDocument ==
    ASSUME NEW j \in Documents, j.t = "null"
    PROVE  j = JsonNull
<1>1. IsDocument(j)
  BY DocumentsAssumption
<1> QED
  BY <1>1 DEF IsDocument

\* One level more, for the types of each kind.
OneMore(write, read, lossy, restored, type, value) ==
    LET written == Writing(write, type, value)
        result == Reading(read, type, written.j, Fresh[type])
    IN  written.ok =>
            /\ result.ok
            /\ \/ LossyPart(lossy, write, type, value)
               \/ result.value = Restoring(restored, type, value)

\* Scalars, and enums inside of containers, are read as they were written.
LEMMA ScalarFaithful ==
    ASSUME NEW write, NEW read, NEW lossy, NEW restored,
           NEW type \in Types, NEW value \in Objects[type], type.kind \in ScalarKinds \cup {"enum"}
    PROVE  OneMore(write, read, lossy, restored, type, value)
<1> DEFINE written == Writing(write, type, value)
           result == Reading(read, type, written.j, Fresh[type])
<1>1. Restoring(restored, type, value) = value
  BY DEF Restoring, ScalarKinds, ArithmeticKinds, IntegerKinds
<1>2. CASE type.kind \in ScalarKinds
  <2> DEFINE stored == Stored(type, value)
  <2>1. written = Written(TRUE, stored)
    <3> HIDE DEF stored
    <3> QED
      BY <1>2 DEF Writing, stored, ScalarKinds, ArithmeticKinds, IntegerKinds
  <2>2. written.j = stored
    BY <2>1 DEF Written
  <2>3. LossyPart(lossy, write, type, value) <=> stored # value
    BY <1>2 DEF LossyPart, ScalarKinds, ArithmeticKinds, IntegerKinds
  <2>4. Takes(type, stored)
    <3>1. CASE type.kind = "float"
      BY <3>1 DEF Stored, Takes, IsNumber, JsonReal, ArithmeticKinds
    <3>2. CASE type.kind \in IntegerKinds
      BY <1>2, <3>2, ValueFacts DEF Stored, Takes, IsNumber, JsonInteger, ArithmeticKinds, IntegerKinds
    <3>3. CASE type.kind \in {"bool", "string"}
      BY <1>2, <3>3, ValueFacts DEF Stored, Takes
    <3> QED
      BY <1>2, <3>1, <3>2, <3>3 DEF ScalarKinds, ArithmeticKinds
  <2>5. ASSUME stored = value
        PROVE  Converted(type, stored) = value
    <3>1. CASE type.kind = "float"
      <4>1. value = JsonReal(value.m) /\ Rounded(type.of, value.m) = value.m
        BY <1>2, <3>1, ValueFacts
      <4>2. value.t = "real"
        BY <4>1 DEF JsonReal
      <4>3. Converted(type, value) = JsonReal(Rounded(type.of, value.m))
        BY <3>1, <4>2 DEF Converted, IntegerKinds
      <4> QED
        BY <2>5, <4>1, <4>3
    <3>2. CASE type.kind \in IntegerKinds
      <4>1. value = JsonInteger(value.n) /\ Wrap(type.of, value.n) = value.n
        BY <1>2, <3>2, ValueFacts
      <4>2. value.t = "integer"
        BY <4>1 DEF JsonInteger
      <4>3. Converted(type, value) = JsonInteger(Wrap(type.of, value.n))
        BY <3>2, <4>2 DEF Converted, Cast, IntegerKinds
      <4> QED
        BY <2>5, <4>1, <4>3
    <3>3. CASE type.kind \in {"bool", "string"}
      <4>1. Converted(type, value) = value
        BY <3>3 DEF Converted, IntegerKinds
      <4> HIDE DEF stored
      <4> QED
        BY <2>5, <4>1
    <3> QED
      BY <1>2, <3>1, <3>2, <3>3 DEF ScalarKinds, ArithmeticKinds
  <2> HIDE DEF stored
  <2>6. result = IF Takes(type, stored) THEN Read(TRUE, Converted(type, stored))
                 ELSE Threw(Fresh[type])
    <3> HIDE DEF written
    <3> QED
      BY <1>2, <2>2 DEF Reading, ScalarKinds, ArithmeticKinds, IntegerKinds
  <2>7. result = Read(TRUE, Converted(type, stored))
    BY <2>4, <2>6
  <2> HIDE DEF result
  <2>8. result.ok /\ result.value = Converted(type, stored)
    BY <2>7 DEF Read
  <2> QED
    BY <1>1, <2>3, <2>5, <2>8 DEF OneMore, result
<1>3. CASE type.kind = "enum"
  <2>1. written = Written(TRUE, JsonInteger(value))
    BY <1>3 DEF Writing, ScalarKinds, ArithmeticKinds, IntegerKinds
  <2>2. written.j.t = "integer" /\ written.j.n = value
    BY <2>1 DEF Written, JsonInteger
  <2>3. Cast(type.of, written.j) = value
    BY <1>3, <2>2, ValueFacts DEF Cast
  <2>4. result = Read(TRUE, value)
    <3> HIDE DEF written
    <3> QED
      BY <1>3, <2>2, <2>3 DEF Reading, ScalarKinds, ArithmeticKinds, IntegerKinds, IsNumber
  <2> QED
    BY <1>1, <2>4 DEF OneMore, Read
<1> QED
  BY <1>2, <1>3

\* So are optionals, unless an engaged one was written as null.
LEMMA OptionalFaithful ==
    ASSUME NEW write, NEW read, NEW lossy, NEW restored, Faithful(write, read, lossy, restored),
           NEW type \in Types, NEW value \in Objects[type], type.kind = "optional"
    PROVE  OneMore(write, read, lossy, restored, type, value)
<1> DEFINE inner == Inner(type)
           written == Writing(write, type, value)
           get == read[inner][written.j][Fresh[inner]]
           result == Reading(read, type, written.j, Fresh[type])
<1>1. inner \in Types
  BY TypeFacts DEF Containers
<1>2. /\ written = IF value = <<>> THEN Written(TRUE, JsonNull) ELSE write[inner][value[1]]
      /\ result = IF written.j.t = "null" THEN Read(TRUE, <<>>)
                  ELSE IF get.ok THEN Read(TRUE, <<get.value>>)
                  ELSE Threw(Fresh[type])
      /\ Restoring(restored, type, value) = [x \in DOMAIN value |-> restored[inner][value[x]]]
      /\ LossyPart(lossy, write, type, value) <=>
            \E x \in DOMAIN value : \/ write[inner][value[x]].j = JsonNull
                                   \/ lossy[inner][value[x]]
  BY DEF Writing, Reading, Restoring, LossyPart, ScalarKinds, ArithmeticKinds, IntegerKinds
<1> HIDE DEF inner, written, get, result
<1>3. CASE value = <<>>
  <2>1. written.j.t = "null"
    BY <1>2, <1>3 DEF Written, JsonNull
  <2>2. result.ok /\ result.value = <<>>
    BY <1>2, <2>1 DEF Read
  <2>3. Restoring(restored, type, value) = <<>>
    BY <1>2, <1>3
  <2> QED
    BY <2>2, <2>3 DEF OneMore, written, result
<1>4. CASE value # <<>>
  <2>1. value = <<value[1]>> /\ value[1] \in Objects[inner] /\ DOMAIN value = {1}
    <3>1. value = <<value[1]>> /\ value[1] \in Objects[inner]
      BY <1>4, ValueFacts DEF inner
    <3>2. DOMAIN <<value[1]>> = {1}
      OBVIOUS
    <3> QED
      BY <3>1, <3>2
  <2>2. written = write[inner][value[1]]
    BY <1>2, <1>4
  <2>3. SUFFICES ASSUME written.ok
                 PROVE  /\ result.ok
                        /\ \/ LossyPart(lossy, write, type, value)
                           \/ result.value = Restoring(restored, type, value)
    BY SMTT(30) DEF OneMore, written, result
  <2>4. get.ok /\ (lossy[inner][value[1]] \/ get.value = restored[inner][value[1]])
    BY <1>1, <2>1, <2>2, <2>3 DEF Faithful, get
  <2>5. Restoring(restored, type, value) = <<restored[inner][value[1]]>>
    <3>1. Restoring(restored, type, value) = [x \in {1} |-> restored[inner][value[1]]]
      BY <1>2, <2>1
    <3>2. \A y : [x \in {1} |-> y] = <<y>>
      OBVIOUS
    <3> QED
      BY <3>1, <3>2
  <2>6. CASE written.j = JsonNull
    <3>1. written.j.t = "null"
      BY <2>6 DEF JsonNull
    <3>2. result.ok
      BY <1>2, <3>1 DEF Read
    <3>3. LossyPart(lossy, write, type, value)
      BY <1>2, <2>1, <2>2, <2>6
    <3> QED
      BY <3>2, <3>3
  <2>7. CASE written.j # JsonNull /\ written.j.t # "null"
    <3>1. result.ok /\ result.value = <<get.value>>
      BY <1>2, <2>4, <2>7 DEF Read
    <3>2. lossy[inner][value[1]] => LossyPart(lossy, write, type, value)
      BY <1>2, <2>1
    <3> QED
      BY <2>4, <2>5, <3>1, <3>2
  <2>8. CASE written.j # JsonNull /\ written.j.t = "null"
    <3>1. written.j \in Documents
      BY <1>1, <2>1, <2>2, <2>3 DEF Faithful
    <3> QED
      BY <2>8, <3>1, NullDocument
  <2> QED
    BY <2>6, <2>7, <2>8
<1> QED
  BY <1>3, <1>4

\* So are vectors and arrays.
LEMMA SequenceFaithful ==
    ASSUME NEW write, NEW read, NEW lossy, NEW restored, Faithful(write, read, lossy, restored),
           NEW type \in Types, NEW value \in Objects[type], type.kind \in {"vector", "array"}
    PROVE  OneMore(write, read, lossy, restored, type, value)
<1> DEFINE inner == Inner(type)
           written == Writing(write, type, value)
           get(x) == read[inner][write[inner][value[x]].j][Fresh[inner]]
           result == Reading(read, type, written.j, Fresh[type])
<1>1. inner \in Types
  BY TypeFacts DEF Containers
<1>2. /\ written = Written(\A n \in DOMAIN value : write[inner][value[n]].ok,
                           JsonArray([n \in DOMAIN value |-> write[inner][value[n]].j]))
      /\ Restoring(restored, type, value) = [x \in DOMAIN value |-> restored[inner][value[x]]]
      /\ LossyPart(lossy, write, type, value) <=> \E x \in DOMAIN value : lossy[inner][value[x]]
  BY DEF Writing, Restoring, LossyPart, ScalarKinds, ArithmeticKinds, IntegerKinds
<1>3. SUFFICES ASSUME written.ok, ~LossyPart(lossy, write, type, value) \/ TRUE
               PROVE  /\ result.ok
                      /\ \/ LossyPart(lossy, write, type, value)
                         \/ result.value = Restoring(restored, type, value)
  BY DEF OneMore
<1>4. /\ written.j.t = "array" /\ DOMAIN written.j.items = DOMAIN value
      /\ \A x \in DOMAIN value : written.j.items[x] = write[inner][value[x]].j
  BY <1>2 DEF Written, JsonArray
<1>5. \A x \in DOMAIN value : value[x] \in Objects[inner]
  BY ValueFacts
<1>6. \A x \in DOMAIN value : write[inner][value[x]].ok
  BY <1>2, <1>3, SMTT(30) DEF Written
<1>7. \A x \in DOMAIN value :
          get(x).ok /\ (lossy[inner][value[x]] \/ get(x).value = restored[inner][value[x]])
  BY <1>1, <1>5, <1>6 DEF Faithful
<1> DEFINE item(x) == read[inner][written.j.items[x]][Fresh[inner]]
<1>8. \A x \in DOMAIN value : item(x) = get(x)
  BY <1>4
<1>9. result.ok /\ result.value = [x \in DOMAIN value |-> item(x).value]
  <2>1. CASE type.kind = "vector"
    <3>1. result = IF written.j.t = "array" /\ \A n \in DOMAIN written.j.items : item(n).ok
                   THEN Read(TRUE, [n \in DOMAIN written.j.items |-> item(n).value])
                   ELSE Threw(Fresh[type])
      BY <2>1 DEF Reading, ScalarKinds, ArithmeticKinds, IntegerKinds
    <3> HIDE DEF item, get, written, inner
    <3> QED
      BY <1>4, <1>7, <1>8, <3>1 DEF Read
  <2>2. CASE type.kind = "array"
    <3> DEFINE missing == {n \in 1 .. type.extent :
                              n \notin DOMAIN written.j.items \/ ~item(n).ok}
    <3>1. result = IF written.j.t # "array" THEN Threw(Fresh[type])
                   ELSE Read(missing = {},
                             [n \in 1 .. type.extent |->
                                 IF \E m \in missing : m <= n THEN Fresh[type][n]
                                 ELSE item(n).value])
      BY <2>2 DEF Reading, ScalarKinds, ArithmeticKinds, IntegerKinds
    <3>2. DOMAIN value = 1 .. type.extent
      BY <2>2, ValueFacts
    <3>3. missing = {}
      <4> HIDE DEF item, get, written, inner
      <4> QED
        BY <1>4, <1>7, <1>8, <3>2
    <3> HIDE DEF item, get, written, inner, missing, result
    <3>4. result = Read(TRUE, [n \in 1 .. type.extent |-> item(n).value])
      BY <1>4, <3>1, <3>3
    <3> QED
      BY <3>2, <3>4 DEF Read
  <2> QED
    BY <2>1, <2>2
<1> HIDE DEF item, get, written, inner, result
<1>10. ASSUME ~LossyPart(lossy, write, type, value)
       PROVE  result.value = Restoring(restored, type, value)
  BY <1>2, <1>7, <1>8, <1>9, <1>10
<1> QED
  BY <1>9, <1>10

\* So are maps.
LEMMA MapFaithful ==
    ASSUME NEW write, NEW read, NEW lossy, NEW restored, Faithful(write, read, lossy, restored),
           NEW type \in Types, NEW value \in Objects[type], type.kind = "map"
    PROVE  OneMore(write, read, lossy, restored, type, value)
<1> DEFINE inner == Inner(type)
           written == Writing(write, type, value)
           get(x) == read[inner][write[inner][value[x]].j][Fresh[inner]]
           result == Reading(read, type, written.j, Fresh[type])
           item(x) == read[inner][written.j.members[x]][Fresh[inner]]
<1>1. inner \in Types
  BY TypeFacts DEF Containers
<1>2. /\ written = Written(\A n \in DOMAIN value : write[inner][value[n]].ok,
                           JsonObject([n \in DOMAIN value |-> write[inner][value[n]].j]))
      /\ Restoring(restored, type, value) = [x \in DOMAIN value |-> restored[inner][value[x]]]
      /\ LossyPart(lossy, write, type, value) <=> \E x \in DOMAIN value : lossy[inner][value[x]]
  BY DEF Writing, Restoring, LossyPart, ScalarKinds, ArithmeticKinds, IntegerKinds
<1>3. SUFFICES ASSUME written.ok
               PROVE  /\ result.ok
                      /\ \/ LossyPart(lossy, write, type, value)
                         \/ result.value = Restoring(restored, type, value)
  BY DEF OneMore
<1>4. /\ written.j.t = "object" /\ DOMAIN written.j.members = DOMAIN value
      /\ \A x \in DOMAIN value : written.j.members[x] = write[inner][value[x]].j
  BY <1>2 DEF Written, JsonObject
<1>5. \A x \in DOMAIN value : value[x] \in Objects[inner]
  BY ValueFacts
<1>6. \A x \in DOMAIN value : write[inner][value[x]].ok
  BY <1>2, <1>3 DEF Written
<1>7. \A x \in DOMAIN value :
          get(x).ok /\ (lossy[inner][value[x]] \/ get(x).value = restored[inner][value[x]])
  BY <1>1, <1>5, <1>6 DEF Faithful
<1>8. \A x \in DOMAIN value : item(x) = get(x)
  BY <1>4
<1>9. result = IF written.j.t = "object" /\ \A n \in DOMAIN written.j.members : item(n).ok
               THEN Read(TRUE, [n \in DOMAIN written.j.members |-> item(n).value])
               ELSE Threw(Fresh[type])
  BY DEF Reading, ScalarKinds, ArithmeticKinds, IntegerKinds
<1> HIDE DEF item, get, written, inner, result
<1>10. result.ok /\ result.value = [x \in DOMAIN value |-> item(x).value]
  BY <1>4, <1>7, <1>8, <1>9 DEF Read
<1>11. ASSUME ~LossyPart(lossy, write, type, value)
       PROVE  result.value = Restoring(restored, type, value)
  BY <1>2, <1>7, <1>8, <1>10, <1>11
<1> QED
  BY <1>10, <1>11

\* The texts of enumerators tell them apart.
LEMMA EnumReadBack ==
    ASSUME NEW read, NEW field, NEW member \in Int, NEW old, field.type \in Types,
           field.type.kind = "enum", IsEnumerator(field.type.of, member)
    PROVE  ReadMember(read, field, EnumText(field.type.of, member), old) = Read(TRUE, member)
<1> DEFINE name == field.type.of
           texts == Enumerators[name]
           numbers == EnumNumbers(name, EnumText(name, member))
           number == EnumNumber(name, EnumText(name, member))
<1>1. /\ texts \in Seq(STRING)
      /\ \A g, h \in DOMAIN texts : texts[g] = texts[h] => g = h
  BY TypeFacts, ModelsAssumption
<1>2. Len(texts) \in Nat /\ DOMAIN texts = 1 .. Len(texts)
  BY <1>1, LenProperties
<1>3. \A x \in 0 .. Len(texts) - 1 : x + 1 \in DOMAIN texts
  BY <1>2
<1>4. member \in 0 .. Len(texts) - 1
  BY DEF IsEnumerator
<1>5. ASSUME NEW x \in 0 .. Len(texts) - 1, EnumText(name, x) = EnumText(name, member)
      PROVE  x = member
  <2>1. texts[x + 1] = texts[member + 1]
    BY <1>5 DEF EnumText, JsonString
  <2>2. x + 1 = member + 1 /\ x \in Int
    BY <1>1, <1>2, <1>3, <1>4, <2>1, SMTT(30)
  <2> QED
    BY <2>2
<1>6. numbers = {member}
  BY <1>4, <1>5 DEF EnumNumbers
<1>7. number = member
  BY <1>6 DEF EnumNumber
<1>8. ReadMember(read, field, EnumText(name, member), old) =
          IF numbers = {} THEN Threw(old) ELSE Read(TRUE, number)
  BY DEF ReadMember, Omittable
<1> QED
  BY <1>6, <1>7, <1>8

\* A field that is written, in the member it is written as.
MemberOneMore(write, read, lossy, restored, field, own) ==
    LET result == ReadMember(read, field, WrittenField(write, field, own).j, Fresh[field.type])
    IN  /\ result.ok
        /\ CASE Omittable(field) ->
                  \/ \E x \in DOMAIN own : lossy[Inner(field.type)][own[x]]
                  \/ result.value = [x \in DOMAIN own |-> restored[Inner(field.type)][own[x]]]
             [] OTHER ->
                  lossy[field.type][own] \/ result.value = restored[field.type][own]

\* So is a field of a struct.
LEMMA MemberFaithful ==
    ASSUME NEW write, NEW read, NEW lossy, NEW restored, Faithful(write, read, lossy, restored),
           NEW m \in Models, NEW h \in 1 .. Len(Fields[m]), NEW value \in Objects[Object(m)],
           Sent(Fields[m][h], value),
           WrittenField(write, Fields[m][h], value[Fields[m][h].name]).ok
    PROVE  MemberOneMore(write, read, lossy, restored, Fields[m][h], value[Fields[m][h].name])
<1> DEFINE field == Fields[m][h]
           type == field.type
           own == value[field.name]
           written == WrittenField(write, field, own)
           result == ReadMember(read, field, written.j, Fresh[type])
           inner == Inner(type)
<1>1. type \in Types /\ own \in Objects[type]
  BY FieldFacts, StructFacts
<1>2. CASE type.kind = "enum"
  <2>1. own \in Int
    BY <1>1, <1>2, ValueFacts
  <2>2. written = IF IsEnumerator(type.of, own) THEN Written(TRUE, EnumText(type.of, own))
                  ELSE Written(FALSE, JsonNull)
    BY <1>2 DEF WrittenField, Omittable
  <2>3. IsEnumerator(type.of, own) /\ written.j = EnumText(type.of, own)
    <3>1. written.ok
      OBVIOUS
    <3> HIDE DEF written, own, type
    <3> QED
      BY <2>2, <3>1 DEF Written
  <2>4. result = Read(TRUE, own)
    <3>1. ReadMember(read, field, EnumText(type.of, own), Fresh[type]) = Read(TRUE, own)
      <4> HIDE DEF own, field, written
      <4>1. field.type \in Types /\ field.type.kind = "enum"
        BY <1>1, <1>2
      <4>2. IsEnumerator(field.type.of, own)
        BY <2>3
      <4> QED
        BY <2>1, <4>1, <4>2, EnumReadBack, ZenonT(60)
    <3> QED
      BY <2>3, <3>1
  <2>5. ~Omittable(field)
    BY <1>2 DEF Omittable
  <2>6. restored[type][own] = own
    BY <1>1, <1>2 DEF Faithful
  <2>7. result.ok /\ result.value = own
    <3> HIDE DEF result, own
    <3> QED
      BY <2>4, ReadParts, ZenonT(60)
  <2> HIDE DEF written, own, result, type
  <2>8. result.ok /\ (lossy[type][own] \/ result.value = restored[type][own])
    BY <2>6, <2>7
  <2> QED
    BY <2>5, <2>8, ZenonT(60) DEF written, own, result, type, MemberOneMore
<1>3. CASE Omittable(field)
  <2>1. type.kind = "optional" /\ own # <<>> /\ inner \in Types
    BY <1>1, <1>3, TypeFacts DEF Omittable, Sent, Omitted, Containers
  <2>2. own = <<own[1]>> /\ own[1] \in Objects[inner]
    BY <1>1, <2>1, ValueFacts
  <2>3. written = write[inner][own[1]]
    BY <1>3, <2>1 DEF WrittenField, Omittable
  <2> DEFINE contained == read[inner][written.j][Fresh[inner]]
  <2>4. result = IF contained.ok THEN Read(TRUE, <<contained.value>>) ELSE Threw(Fresh[type])
    BY <1>3, <2>1, ZenonT(60) DEF ReadMember, Omittable
  <2>5. contained.ok /\ (lossy[inner][own[1]] \/ contained.value = restored[inner][own[1]])
    <3>1. write[inner][own[1]].ok
      BY <2>3
    <3> HIDE DEF written, own, inner
    <3> QED
      BY <2>1, <2>2, <2>3, <3>1, ZenonT(60) DEF Faithful
  <2> HIDE DEF written, own, contained, result, inner
  <2>6. DOMAIN own = {1}
    <3>1. DOMAIN <<own[1]>> = {1}
      OBVIOUS
    <3> QED
      BY <2>2, <3>1
  <2>7. [x \in DOMAIN own |-> restored[inner][own[x]]] = <<restored[inner][own[1]]>>
    <3>1. [x \in DOMAIN own |-> restored[inner][own[x]]] = [x \in {1} |-> restored[inner][own[1]]]
      BY <2>6
    <3>2. \A y : [x \in {1} |-> y] = <<y>>
      OBVIOUS
    <3> QED
      BY <3>1, <3>2
  <2>8. result.ok /\ result.value = <<contained.value>>
    BY <2>4, <2>5 DEF Read
  <2>9. \/ \E x \in DOMAIN own : lossy[inner][own[x]]
        \/ result.value = [x \in DOMAIN own |-> restored[inner][own[x]]]
    BY <2>5, <2>6, <2>7, <2>8
  <2> QED
    BY <1>3, <2>8, <2>9 DEF written, own, result, inner, MemberOneMore
<1>4. CASE type.kind # "enum" /\ ~Omittable(field)
  <2>1. written = write[type][own]
    BY <1>4, ZenonT(60) DEF WrittenField, Omittable
  <2>2. result = read[type][written.j][Fresh[type]]
    BY <1>4, ZenonT(60) DEF ReadMember, Omittable
  <2>3. written.ok
    OBVIOUS
  <2> HIDE DEF written, own, result, type
  <2>4. result.ok /\ (lossy[type][own] \/ result.value = restored[type][own])
    BY <1>1, <2>1, <2>2, <2>3 DEF Faithful
  <2> QED
    BY <1>4, <2>4, ZenonT(60) DEF written, own, result, type, MemberOneMore
<1> QED
  BY <1>2, <1>3, <1>4

\* So is a struct, but for its ignored fields.
LEMMA StructFaithful ==
    ASSUME NEW write, NEW read, NEW lossy, NEW restored, Faithful(write, read, lossy, restored),
           NEW m \in Models, NEW value \in Objects[Object(m)]
    PROVE  LET size == Len(Fields[m])
               written == WriteFields(write, m, value)[size]
               result == ReadFields(read, m, written.j, Fresh[Object(m)])[size]
           IN  written.ok =>
                 /\ result.ok
                 /\ \/ LossyPart(lossy, write, Object(m), value)
                    \/ result.value = Restoring(restored, Object(m), value)
<1> DEFINE size == Len(Fields[m])
           written == WriteFields(write, m, value)[size]
           j == written.j
           old == Fresh[Object(m)]
           result == ReadFields(read, m, j, old)[size]
           restoring == Restoring(restored, Object(m), value)
           restoredField(field) ==
              CASE field.ignored -> Fresh[field.type]
                [] ~field.ignored /\ Omittable(field) ->
                      [x \in DOMAIN value[field.name] |->
                          restored[Inner(field.type)][value[field.name][x]]]
                [] ~field.ignored /\ ~Omittable(field) -> restored[field.type][value[field.name]]
           lossyField(field) ==
              IF Omittable(field)
              THEN \E x \in DOMAIN value[field.name] :
                      lossy[Inner(field.type)][value[field.name][x]]
              ELSE lossy[field.type][value[field.name]]
<1>1. size \in Nat /\ size \in 0 .. size
  BY FieldFacts
<1>2. Object(m) \in Types /\ Object(m).kind = "object" /\ Object(m).of = m
  BY StructFacts
<1>3. /\ old \in Objects[Object(m)]
      /\ old = [name \in Members(m) |-> Fresh[Member(m, name).type]]
  BY <1>2, ObjectsAssumption, ZenonT(60) DEF ValueInitialised, ScalarKinds, ArithmeticKinds, IntegerKinds
<1>4. /\ restoring = [name \in Members(m) |-> restoredField(Member(m, name))]
  <2>1. \A name \in Members(m) : Member(m, name).name = name
    BY FieldFacts
  <2> QED
    BY <1>2, <2>1 DEF Restoring, ScalarKinds, ArithmeticKinds, IntegerKinds
<1>5. LossyPart(lossy, write, Object(m), value) <=> \E field \in Managed(m) : lossyField(field)
  BY <1>2 DEF LossyPart, ScalarKinds, ArithmeticKinds, IntegerKinds
<1>6. SUFFICES ASSUME written.ok
               PROVE  /\ result.ok
                      /\ (\E field \in Managed(m) : lossyField(field)) \/ result.value = restoring
  BY <1>5
<1>7. \A h \in 1 .. size : old[Fields[m][h].name] = Fresh[Fields[m][h].type]
  BY <1>3, FieldFacts
<1> DEFINE member(h) == WrittenField(write, Fields[m][h], value[Fields[m][h].name])
<1>8. /\ \A h \in 1 .. size :
            ~Fields[m][h].ignored => (Contains(j, Fields[m][h].key) <=> Sent(Fields[m][h], value))
      /\ \A h \in 1 .. size : Sent(Fields[m][h], value) =>
            member(h).ok /\ j.members[Fields[m][h].key] = member(h).j
  <2>1. \A h \in 1 .. size : h <= size
    BY <1>1
  <2>2. SentSoFar(write, m, value, size)
    BY <1>1, FieldsWritten
  <2> QED
    BY <1>6, <2>1, <2>2 DEF SentSoFar
<1>9. ASSUME NEW h \in 1 .. size
      PROVE  /\ Accepts(read, j, Fields[m][h], old)
             /\ \/ ~Fields[m][h].ignored /\ lossyField(Fields[m][h])
                \/ Outcome(read, j, Fields[m][h], old) = restoredField(Fields[m][h])
  <2> DEFINE field == Fields[m][h]
             own == value[field.name]
  <2>1. CASE field.ignored
    BY <1>7, <2>1 DEF Accepts, Outcome
  <2>2. CASE ~field.ignored /\ ~Sent(field, value)
    <3>1. Omittable(field) /\ own = <<>> /\ ~Contains(j, field.key)
      BY <1>8, <2>2 DEF Sent, Omitted
    <3>2. Accepts(read, j, field, old)
      BY <3>1 DEF Accepts
    <3>3. Outcome(read, j, field, old) = Fresh[field.type]
      BY <1>7, <3>1 DEF Outcome
    <3>4. Fresh[field.type] = <<>>
      BY <3>1, FieldFacts, ObjectsAssumption DEF ValueInitialised, Omittable, IntegerKinds
    <3>5. restoredField(field) = <<>>
      <4>1. restoredField(field) = [x \in DOMAIN own |-> restored[Inner(field.type)][own[x]]]
        BY <2>2, <3>1
      <4> HIDE DEF own, field, restoredField
      <4> QED
        BY <3>1, <4>1
    <3> QED
      BY <3>2, <3>3, <3>4, <3>5
  <2>3. CASE Sent(field, value)
    <3>1. /\ ~field.ignored /\ Contains(j, field.key)
          /\ member(h).ok /\ j.members[field.key] = member(h).j
      BY <1>8, <2>3 DEF Sent
    <3> DEFINE found == ReadMember(read, field, member(h).j, Fresh[field.type])
    <3>2. found.ok /\ (lossyField(field) \/ found.value = restoredField(field))
      <4>1. /\ found.ok
            /\ CASE Omittable(field) ->
                          \/ \E x \in DOMAIN own : lossy[Inner(field.type)][own[x]]
                          \/ found.value =
                                [x \in DOMAIN own |-> restored[Inner(field.type)][own[x]]]
                 [] OTHER ->
                          lossy[field.type][own] \/ found.value = restored[field.type][own]
        <5>1. MemberOneMore(write, read, lossy, restored, Fields[m][h], value[Fields[m][h].name])
          BY <2>3, <3>1, MemberFaithful
        <5> QED
          BY <5>1, ZenonT(60) DEF MemberOneMore
      <4> HIDE DEF found, own, field
      <4>2. CASE Omittable(field)
        BY <3>1, <4>1, <4>2 DEF own
      <4>3. CASE ~Omittable(field)
        BY <3>1, <4>1, <4>3 DEF own
      <4> QED
        BY <4>2, <4>3
    <3>3. Accepts(read, j, field, old) /\ Outcome(read, j, field, old) = found.value
      BY <1>7, <3>1, <3>2 DEF Accepts, Outcome
    <3> QED
      BY <3>1, <3>2, <3>3
  <2> QED
    BY <2>1, <2>2, <2>3 DEF Sent
<1>10. /\ result.ok <=> \A h \in 1 .. size : Accepts(read, j, Fields[m][h], old)
       /\ result.ok =>
            /\ result.value = [name \in Members(m) |-> result.value[name]]
            /\ \A h \in 1 .. size :
                  result.value[Fields[m][h].name] = Outcome(read, j, Fields[m][h], old)
  <2>1. DOMAIN old = Members(m) /\ old = [name \in Members(m) |-> old[name]]
    BY <1>3
  <2>2. \A h \in 1 .. size : h <= size
    BY <1>1
  <2>3. ReadSoFar(read, m, j, old, size)
    BY <1>1, <2>1, FieldsRead
  <2> HIDE DEF old, j
  <2> QED
    BY <2>2, <2>3 DEF ReadSoFar
<1>11. result.ok
  BY <1>9, <1>10
<1>12. ASSUME ~(\E field \in Managed(m) : lossyField(field))
       PROVE  result.value = restoring
  <2>1. ASSUME NEW name \in Members(m)
        PROVE  result.value[name] = restoredField(Member(m, name))
    <3>1. PICK h \in 1 .. size : name = Fields[m][h].name
      BY FieldFacts
    <3>2. Member(m, name) = Fields[m][h] /\ (~Fields[m][h].ignored => Fields[m][h] \in Managed(m))
      BY <3>1, FieldFacts
    <3> HIDE DEF result, lossyField, restoredField
    <3> QED
      BY <1>9, <1>10, <1>11, <1>12, <3>1, <3>2
  <2> HIDE DEF result, restoredField, restoring
  <2> QED
    BY <1>4, <1>10, <1>11, <2>1
<1> QED
  BY <1>11, <1>12

\* So is a value of any type.
LEMMA OneMoreFaithful ==
    ASSUME NEW write, NEW read, NEW lossy, NEW restored, Faithful(write, read, lossy, restored),
           NEW type \in Types, NEW value \in Objects[type]
    PROVE  OneMore(write, read, lossy, restored, type, value)
<1>1. CASE type.kind = "object"
  <2>1. type.of \in Models /\ type = Object(type.of) /\ value \in Objects[Object(type.of)]
    BY <1>1, TypeFacts
  <2> DEFINE m == type.of
             size == Len(Fields[m])
             written == WriteFields(write, m, value)[size]
             result == ReadFields(read, m, written.j, Fresh[Object(m)])[size]
  <2>2. written.ok =>
            /\ result.ok
            /\ \/ LossyPart(lossy, write, Object(m), value)
               \/ result.value = Restoring(restored, Object(m), value)
    BY <2>1, StructFaithful
  <2>3. Writing(write, type, value) = written
    BY <1>1 DEF Writing, ScalarKinds, ArithmeticKinds, IntegerKinds
  <2>4. Reading(read, type, written.j, Fresh[type]) = result
    <3> HIDE DEF written
    <3> QED
      BY <1>1, <2>1 DEF Reading, ScalarKinds, ArithmeticKinds, IntegerKinds
  <2> HIDE DEF written, result
  <2> QED
    BY <2>1, <2>2, <2>3, <2>4 DEF OneMore
<1> QED
  BY <1>1, TypeFacts, ScalarFaithful, OptionalFaithful, SequenceFaithful, MapFaithful
  DEF ScalarKinds, ArithmeticKinds, IntegerKinds, Containers

\* What is written with some levels of nesting is read with as many.
LEMMA AllFaithful ==
    ASSUME NEW n \in 0 .. Depth
    PROVE  Faithful(WriteValue[n], ReadInto[n], Lossy[n], Restored[n])
<1> DEFINE Claim(x) == Faithful(WriteValue[x], ReadInto[x], Lossy[x], Restored[x])
           Claims == {x \in 0 .. Depth : Claim(x)}
<1>1. PICK bound \in Nat : Depth = bound + 1
  <2>1. Depth \in Nat /\ Depth # 0
    BY ObjectsAssumption
  <2>2. Depth - 1 \in Nat /\ Depth = (Depth - 1) + 1
    BY <2>1
  <2> QED
    BY <2>2
<1>2. Claim(0)
  <2>1. ASSUME NEW type \in Types, NEW value \in Objects[type]
        PROVE  ~WriteValue[0][type][value].ok /\ Restored[0][type][value] = value
    <3>1. WriteValue[0][type][value] = Written(FALSE, JsonNull)
      BY NoLevel
    <3>2. Restored[0] = ValueRestored(Restored, 0)
      BY <1>1, RestoredUnfold
    <3>3. Restored[0][type] = [v \in Objects[type] |-> v]
      BY <3>2 DEF ValueRestored
    <3> QED
      BY <3>1, <3>3 DEF Written
  <2> QED
    BY <2>1 DEF Faithful
<1>3. ASSUME NEW x \in 0 .. bound, Claim(x) PROVE Claim(x + 1)
  <2>1. x + 1 \in 1 .. Depth /\ x + 1 \in 0 .. Depth /\ (x + 1) - 1 = x
    BY <1>1
  <2> SUFFICES ASSUME NEW type \in Types, NEW value \in Objects[type]
               PROVE  /\ WriteValue[x + 1][type][value].ok =>
                            LET written == WriteValue[x + 1][type][value]
                                result == ReadInto[x + 1][type][written.j][Fresh[type]]
                            IN  /\ WriteValue[x + 1][type][value].j \in Documents
                                /\ result.ok
                                /\ \/ Lossy[x + 1][type][value]
                                   \/ result.value = Restored[x + 1][type][value]
                      /\ type.kind = "enum" => Restored[x + 1][type][value] = value
    BY DEF Faithful
  <2>2. /\ WriteValue[x + 1][type][value] = Writing(WriteValue[x], type, value)
        /\ Lossy[x + 1][type][value] = LossyPart(Lossy[x], WriteValue[x], type, value)
        /\ Restored[x + 1][type][value] = Restoring(Restored[x], type, value)
    BY <2>1, WriteAt, LossyAt, RestoredAt
  <2>3. OneMore(WriteValue[x], ReadInto[x], Lossy[x], Restored[x], type, value)
    BY <1>3, OneMoreFaithful
  <2>4. ASSUME WriteValue[x + 1][type][value].ok
        PROVE  LET result == ReadInto[x + 1][type][WriteValue[x + 1][type][value].j][Fresh[type]]
               IN  /\ WriteValue[x + 1][type][value].j \in Documents
                   /\ result.ok
                   /\ \/ Lossy[x + 1][type][value]
                      \/ result.value = Restored[x + 1][type][value]
    <3> DEFINE j == WriteValue[x + 1][type][value].j
    <3>1. j \in Documents
      BY <2>1, <2>4, WritingsAssumption
    <3>2. ReadInto[x + 1][type][j][Fresh[type]] = Reading(ReadInto[x], type, j, Fresh[type])
      <4>1. Fresh[type] \in Objects[type]
        BY ObjectsAssumption
      <4> HIDE DEF j
      <4> QED
        BY <2>1, <3>1, <4>1, ReadAt
    <3> QED
      BY <2>2, <2>3, <2>4, <3>1, <3>2 DEF OneMore
  <2>5. type.kind = "enum" => Restoring(Restored[x], type, value) = value
    BY DEF Restoring, ScalarKinds, ArithmeticKinds, IntegerKinds
  <2> QED
    BY <2>2, <2>4, <2>5
<1>4. 0 \in Claims /\ \A x \in 0 .. bound : x \in Claims => x + 1 \in Claims
  <2> HIDE DEF Claim
  <2> QED
    BY <1>1, <1>2, <1>3
<1>5. \A x \in 0 .. Depth : x \in Claims
  <2> HIDE DEF Claims
  <2> QED
    BY <1>1, <1>4, Climb
<1> QED
  <2>1. n \in Claims
    BY <1>5
  <2> QED
    BY <2>1

-----------------------------------------------------------------------------
(* The calls.                                                              *)

\* What to_json has after each field of the object given, and from_json after
\* each field of the object it starts with.
Writer == WriteValue[Depth - 1]
Reader == ReadInto[Depth - 1]
Start == IF origin = "writer" THEN Fresh[Object(model)] ELSE given
Sending(n) == WriteFields(Writer, model, given)[n]
Receiving(n) == ReadFields(Reader, model, doc, Start)[n]
Size == Len(Fields[model])

\* The object and the document are of the struct whose functions run.
CallOK ==
    /\ project \in Projects /\ model \in Range(project)
    /\ model \in Models
    /\ given \in Objects[Object(model)]
    /\ origin \in {"writer", "outside"}
    /\ pc \in {"write", "read", "done", "writeThrew", "readThrew"}
    /\ k \in 1 .. Size + 1
    /\ origin = "outside" => doc \in Documents /\ pc \in {"read", "done", "readThrew"}

\* The document behind a field that is written, and the finished one.
WriterOK ==
    origin = "writer" =>
        /\ pc = "write" => Sending(k - 1) = Written(TRUE, doc) /\ target = Start
        /\ pc \in {"read", "done", "readThrew"} => Sending(Size) = Written(TRUE, doc)

\* The object behind a field that is read, and the finished one.
ReaderOK ==
    /\ pc = "read" => Receiving(k - 1) = Read(TRUE, target)
    /\ pc = "done" => Receiving(Size) = Read(TRUE, target)
    /\ pc = "readThrew" => k \in 1 .. Size /\ ~Receiving(k).ok

IInv == CallOK /\ WriterOK /\ ReaderOK

\* Before its first field to_json has a null document.
LEMMA NothingSent ==
    ASSUME NEW write, NEW m \in Models, NEW value
    PROVE  WriteFields(write, m, value)[0] = Written(TRUE, JsonNull)
<1>1. PICK size \in Nat : size = Len(Fields[m])
  BY FieldFacts
<1>2. WriteFields(write, m, value)[0] =
              FieldWritten(write, m, value, WriteFields(write, m, value), 0)
  BY <1>1, WriteFieldsUnfold
<1> QED
  BY <1>2 DEF FieldWritten

\* Before its first field from_json has the object it was given.
LEMMA NothingRead ==
    ASSUME NEW read, NEW m \in Models, NEW j, NEW old
    PROVE  ReadFields(read, m, j, old)[0] = Read(TRUE, old)
<1>1. PICK size \in Nat : size = Len(Fields[m])
  BY FieldFacts
<1>2. ReadFields(read, m, j, old)[0] = FieldRead(read, m, j, old, ReadFields(read, m, j, old), 0)
  BY <1>1, ReadFieldsUnfold
<1> QED
  BY <1>2 DEF FieldRead

\* Every call begins in IInv.
LEMMA InitialCall == MappingInit => IInv
<1> SUFFICES ASSUME MappingInit PROVE IInv
  OBVIOUS
<1>1. project \in Projects /\ model \in Range(project) /\ k = 1
  BY DEF MappingInit, Init
<1>2. CASE \E w \in Writings :
             /\ model = w.model
             /\ given = w.value
             /\ target = Fresh[Object(w.model)]
             /\ doc = JsonNull
             /\ origin = "writer"
             /\ pc = "write"
  <2>1. /\ model \in Models /\ given \in Objects[Object(model)]
        /\ target = Start /\ doc = JsonNull /\ origin = "writer" /\ pc = "write"
    BY <1>2, CallsAssumption DEF Start
  <2>2. Sending(0) = Written(TRUE, doc)
    BY <2>1, NothingSent DEF Sending
  <2>3. 1 \in 1 .. Size + 1 /\ k - 1 = 0
    BY <1>1, <2>1, FieldFacts DEF Size
  <2> QED
    BY <1>1, <2>1, <2>2, <2>3 DEF IInv, CallOK, WriterOK, ReaderOK
<1>3. CASE \E r \in Readings :
             /\ model = r.model
             /\ given = r.target
             /\ target = r.target
             /\ doc = r.doc
             /\ origin = "outside"
             /\ pc = "read"
  <2>1. /\ model \in Models /\ given \in Objects[Object(model)] /\ doc \in Documents
        /\ target = Start /\ origin = "outside" /\ pc = "read"
    BY <1>3, CallsAssumption DEF Start
  <2>2. Receiving(0) = Read(TRUE, target)
    <3>1. ReadFields(Reader, model, doc, Start)[0] = Read(TRUE, Start)
      BY <2>1, NothingRead
    <3> QED
      BY <2>1, <3>1 DEF Receiving
  <2>3. 1 \in 1 .. Size + 1 /\ k - 1 = 0
    BY <1>1, <2>1, FieldFacts DEF Size
  <2> QED
    BY <1>1, <2>1, <2>2, <2>3 DEF IInv, CallOK, WriterOK, ReaderOK
<1> QED
  BY <1>2, <1>3 DEF MappingInit, Init

\* No step of a call leaves IInv.
LEMMA CallStep == IInv /\ [MappingNext]_<<vars, project>> => IInv'
<1> SUFFICES ASSUME IInv, [MappingNext]_<<vars, project>> PROVE IInv'
  OBVIOUS
<1>1. Size \in Nat /\ k \in 1 .. Size + 1 /\ model \in Models
  BY FieldFacts DEF IInv, CallOK, Size
<1>2. ASSUME UNCHANGED <<vars, project>> PROVE IInv'
  BY <1>2 DEF vars, IInv, CallOK, WriterOK, ReaderOK, Start, Sending, Receiving, Size
<1>3. ASSUME WriteNext, UNCHANGED project PROVE IInv'
  <2>1. /\ pc = "write" /\ k <= Size /\ origin = "writer"
        /\ UNCHANGED <<model, given, target, origin, project>>
    BY <1>3 DEF WriteNext, More, Size, IInv, CallOK
  <2>2. k \in 1 .. Size /\ (k + 1) - 1 = k /\ k + 1 \in 1 .. Size + 1
    BY <1>1, <2>1
  <2> DEFINE result == WriteField(Writer, doc, Current, given)
  <2>3. /\ doc' = result.j
        /\ IF result.ok THEN k' = k + 1 /\ pc' = pc ELSE k' = k /\ pc' = "writeThrew"
    BY <1>3 DEF WriteNext, Writer
  <2>4. Sending(k) = result
    <3>1. WriteFields(Writer, model, given)[k - 1] = Written(TRUE, doc)
      BY <2>1 DEF IInv, WriterOK, Sending
    <3>2. WriteFields(Writer, model, given)[k] =
              WriteField(Writer, doc, Fields[model][k], given)
      <4>1. WriteFields(Writer, model, given)[k] =
                    FieldWritten(Writer, model, given, WriteFields(Writer, model, given), k)
        <5> DEFINE all == WriteFields(Writer, model, given)
        <5>1. all = [n \in 0 .. Len(Fields[model]) |-> FieldWritten(Writer, model, given, all, n)]
          BY <1>1, WriteFieldsUnfold
        <5>2. k \in 0 .. Len(Fields[model])
          BY <1>1, <2>2 DEF Size
        <5> HIDE DEF all
        <5>3. all[k] = FieldWritten(Writer, model, given, all, k)
          BY <5>1, <5>2
        <5> QED
          BY <5>3 DEF all
      <4>2. k # 0
        BY <1>1, <2>2
      <4> QED
        BY <3>1, <4>1, <4>2 DEF FieldWritten, Written
    <3> QED
      BY <3>2 DEF Sending, Current
  <2>7. result = Written(result.ok, result.j)
    BY DEF WriteField, Written
  <2> HIDE DEF result
  <2>8. CASE result.ok
    <3>1. k' = k + 1 /\ pc' = "write"
      BY <2>1, <2>3, <2>8
    <3>2. Sending(k - 1)' = Written(TRUE, doc)'
      <4>1. Sending(k - 1)' = Sending(k)
        BY <2>1, <2>2, <3>1 DEF Sending
      <4> QED
        BY <2>3, <2>4, <2>7, <2>8, <4>1 DEF Written
    <3> QED
      BY <2>1, <2>2, <3>1, <3>2 DEF IInv, CallOK, WriterOK, ReaderOK, Start, Size
  <2>9. CASE ~result.ok
    <3>1. k' = k /\ pc' = "writeThrew"
      BY <2>3, <2>9
    <3> QED
      BY <2>1, <3>1 DEF IInv, CallOK, WriterOK, ReaderOK, Size
  <2> QED
    BY <2>8, <2>9
<1>4. ASSUME EndWrite, UNCHANGED project PROVE IInv'
  <2>1. /\ pc = "write" /\ ~(k <= Size) /\ origin = "writer" /\ pc' = "read" /\ k' = 1
        /\ UNCHANGED <<model, given, doc, target, origin, project>>
    BY <1>4 DEF EndWrite, More, Size, IInv, CallOK
  <2>2. k - 1 = Size /\ 1 \in 1 .. Size + 1 /\ 1 - 1 = 0
    BY <1>1, <2>1
  <2>3. Sending(Size)' = Written(TRUE, doc)'
    BY <2>1, <2>2 DEF Sending, Size, IInv, WriterOK
  <2>4. Receiving(k - 1)' = Read(TRUE, target)'
    <3>1. target = Start
      BY <2>1 DEF IInv, WriterOK
    <3>2. Receiving(0)' = Read(TRUE, Start)
      <4>1. ReadFields(Reader, model, doc, Start)[0] = Read(TRUE, Start)
        BY <1>1, NothingRead
      <4> QED
        BY <2>1, <4>1 DEF Receiving, Start
    <3> QED
      BY <2>1, <2>2, <3>1, <3>2
  <2> QED
    BY <2>1, <2>2, <2>3, <2>4 DEF IInv, CallOK, WriterOK, ReaderOK, Size
<1>5. ASSUME ReadNext, UNCHANGED project PROVE IInv'
  <2>1. /\ pc = "read" /\ k <= Size
        /\ UNCHANGED <<model, given, doc, origin, project>>
    BY <1>5 DEF ReadNext, More, Size
  <2>2. k \in 1 .. Size /\ (k + 1) - 1 = k /\ k + 1 \in 1 .. Size + 1
    BY <1>1, <2>1
  <2> DEFINE result == ReadField(Reader, doc, Current, target)
  <2>3. /\ target' = result.value
        /\ IF result.ok THEN k' = k + 1 /\ pc' = pc ELSE k' = k /\ pc' = "readThrew"
    BY <1>5 DEF ReadNext, Reader
  <2>4. Receiving(k) = result
    <3>1. ReadFields(Reader, model, doc, Start)[k - 1] = Read(TRUE, target)
      BY <2>1 DEF IInv, ReaderOK, Receiving
    <3>2. ReadFields(Reader, model, doc, Start)[k] =
              ReadField(Reader, doc, Fields[model][k], target)
      <4>1. ReadFields(Reader, model, doc, Start)[k] =
                    FieldRead(Reader, model, doc, Start, ReadFields(Reader, model, doc, Start), k)
        <5> DEFINE all == ReadFields(Reader, model, doc, Start)
        <5>1. all = [n \in 0 .. Len(Fields[model]) |-> FieldRead(Reader, model, doc, Start, all, n)]
          BY <1>1, ReadFieldsUnfold
        <5>2. k \in 0 .. Len(Fields[model])
          BY <1>1, <2>2 DEF Size
        <5> HIDE DEF all
        <5>3. all[k] = FieldRead(Reader, model, doc, Start, all, k)
          BY <5>1, <5>2
        <5> QED
          BY <5>3 DEF all
      <4>2. k # 0
        BY <1>1, <2>2
      <4> QED
        BY <3>1, <4>1, <4>2 DEF FieldRead, Read
    <3> QED
      BY <3>2 DEF Receiving, Current
  <2>5. result = Read(result.ok, result.value)
    BY DEF ReadField, Read
  <2>6. (Sending(Size) = Written(TRUE, doc))' <=> Sending(Size) = Written(TRUE, doc)
    BY <2>1 DEF Sending, Size
  <2> HIDE DEF result
  <2>7. CASE result.ok
    <3>1. k' = k + 1 /\ pc' = "read"
      BY <2>1, <2>3, <2>7
    <3>2. Receiving(k - 1)' = Read(TRUE, target)'
      <4>1. Receiving(k - 1)' = Receiving(k)
        BY <2>1, <2>2, <3>1 DEF Receiving, Start
      <4> QED
        BY <2>3, <2>4, <2>5, <2>7, <4>1 DEF Read
    <3> QED
      BY <2>1, <2>2, <2>6, <3>1, <3>2 DEF IInv, CallOK, WriterOK, ReaderOK, Size
  <2>8. CASE ~result.ok
    <3>1. k' = k /\ pc' = "readThrew"
      BY <2>3, <2>8
    <3>2. ~Receiving(k)'.ok
      BY <2>1, <2>4, <2>8, <3>1 DEF Receiving, Start
    <3> QED
      BY <2>1, <2>2, <2>6, <3>1, <3>2 DEF IInv, CallOK, WriterOK, ReaderOK, Size
  <2> QED
    BY <2>7, <2>8
<1>6. ASSUME EndRead, UNCHANGED project PROVE IInv'
  <2>1. /\ pc = "read" /\ ~(k <= Size) /\ pc' = "done"
        /\ UNCHANGED <<model, given, doc, target, k, origin, project>>
    BY <1>6 DEF EndRead, More, Size
  <2>2. k - 1 = Size
    BY <1>1, <2>1
  <2>3. Receiving(Size)' = Read(TRUE, target)'
    BY <2>1, <2>2 DEF Receiving, Start, Size, IInv, ReaderOK
  <2>4. (Sending(Size) = Written(TRUE, doc))' <=> Sending(Size) = Written(TRUE, doc)
    BY <2>1 DEF Sending, Size
  <2> QED
    BY <2>1, <2>3, <2>4 DEF IInv, CallOK, WriterOK, ReaderOK, Size
<1> QED
  BY <1>2, <1>3, <1>4, <1>5, <1>6 DEF MappingNext, Next, Returned, vars

\* The object given, what is read and the document are what the generated
\* functions make of them, field by field.
THEOREM CallsCorrect == MappingSpec => []IInv
<1> QED
  BY InitialCall, CallStep, PTL DEF MappingSpec

-----------------------------------------------------------------------------
(* Round trips.                                                            *)

\* The levels of the calls in a struct.
LEMMA LastLevel == Depth \in 1 .. Depth /\ Depth - 1 \in 0 .. Depth
<1>1. Depth \in Nat /\ Depth # 0
  BY ObjectsAssumption
<1> QED
  BY <1>1

\* A throw is never made good.
LEMMA ThrewForGood ==
    ASSUME NEW read, NEW m \in Models, NEW j, NEW old \in Objects[Object(m)],
           NEW n \in 1 .. Len(Fields[m]), ~ReadFields(read, m, j, old)[n].ok
    PROVE  ~ReadFields(read, m, j, old)[Len(Fields[m])].ok
<1>1. PICK size \in Nat : size = Len(Fields[m])
  BY FieldFacts
<1>2. DOMAIN old = Members(m) /\ old = [name \in Members(m) |-> old[name]]
  <2>1. Object(m) \in Types /\ Object(m).kind = "object" /\ Object(m).of = m
    BY StructFacts
  <2>2. IsValue(Object(m), old)
    BY <2>1, ObjectsAssumption
  <2> QED
    BY <2>1, <2>2, StructFacts DEF IsValue
<1>3. n \in 0 .. Len(Fields[m]) /\ Len(Fields[m]) \in 0 .. Len(Fields[m])
  BY <1>1
<1>4. ReadSoFar(read, m, j, old, n) /\ ReadSoFar(read, m, j, old, Len(Fields[m]))
  BY <1>2, <1>3, FieldsRead
<1>5. \A h \in 1 .. n : h \in 1 .. Len(Fields[m])
  BY <1>1
<1> QED
  BY <1>4, <1>5 DEF ReadSoFar

\* A finished round trip has read what was written.
LEMMA RoundTripFromInvariant == IInv => RoundTrip
<1> SUFFICES ASSUME IInv, origin = "writer", pc \in {"done", "readThrew"}
             PROVE  /\ pc # "readThrew"
                    /\ pc = "done" /\ ~Lossy[Depth][Object(model)][given] =>
                          target = Restored[Depth][Object(model)][given]
  BY DEF RoundTrip
<1>1. /\ model \in Models /\ given \in Objects[Object(model)] /\ k \in 1 .. Size + 1
      /\ Object(model) \in Types /\ Fresh[Object(model)] \in Objects[Object(model)]
      /\ Start = Fresh[Object(model)]
  BY StructFacts, ObjectsAssumption DEF IInv, CallOK, Start
<1>2. Sending(Size) = Written(TRUE, doc)
  BY DEF IInv, WriterOK
<1> DEFINE lossy == Lossy[Depth - 1]
           restored == Restored[Depth - 1]
<1>3. /\ Receiving(Size).ok
      /\ \/ LossyPart(lossy, Writer, Object(model), given)
         \/ Receiving(Size).value = Restoring(restored, Object(model), given)
  <2>1. Faithful(Writer, Reader, lossy, restored)
    BY LastLevel, AllFaithful DEF Writer, Reader
  <2> HIDE DEF lossy, restored
  <2>2. LET size == Len(Fields[model])
            written == WriteFields(Writer, model, given)[size]
            result == ReadFields(Reader, model, written.j, Fresh[Object(model)])[size]
        IN  written.ok =>
              /\ result.ok
              /\ \/ LossyPart(lossy, Writer, Object(model), given)
                 \/ result.value = Restoring(restored, Object(model), given)
    BY <1>1, <2>1, StructFaithful
  <2>3. WriteFields(Writer, model, given)[Len(Fields[model])] = Written(TRUE, doc)
    BY <1>2 DEF Sending, Size
  <2>4. Receiving(Size) = ReadFields(Reader, model, doc, Fresh[Object(model)])[Len(Fields[model])]
    BY <1>1 DEF Receiving, Size
  <2> QED
    BY <2>2, <2>3, <2>4 DEF Written
<1>4. pc # "readThrew"
  <2>1. SUFFICES ASSUME pc = "readThrew" PROVE FALSE
    OBVIOUS
  <2>2. k \in 1 .. Len(Fields[model]) /\ ~ReadFields(Reader, model, doc, Start)[k].ok
    BY <2>1 DEF IInv, ReaderOK, Receiving, Size
  <2>3. ~ReadFields(Reader, model, doc, Start)[Len(Fields[model])].ok
    BY <1>1, <2>2, ThrewForGood
  <2> QED
    BY <1>3, <2>3 DEF Receiving, Size
<1>5. ASSUME pc = "done", ~Lossy[Depth][Object(model)][given]
      PROVE  target = Restored[Depth][Object(model)][given]
  <2>1. target = Receiving(Size).value
    BY <1>5 DEF IInv, ReaderOK, Read
  <2>2. /\ Lossy[Depth][Object(model)][given] = LossyPart(lossy, Writer, Object(model), given)
        /\ Restored[Depth][Object(model)][given] = Restoring(restored, Object(model), given)
    BY <1>1, LastLevel, LossyAt, RestoredAt DEF Writer
  <2> QED
    BY <1>3, <1>5, <2>1, <2>2
<1> QED
  BY <1>4, <1>5

\* to_json and from_json are inverse: reading what was written never throws and
\* gives the object that was written, but for its ignored fields; the exceptions are
\* engaged optionals written as null and a long double that is no double.
THEOREM RoundTripsSucceed == MappingSpec => []RoundTrip
<1> QED
  BY CallsCorrect, RoundTripFromInvariant, PTL

-----------------------------------------------------------------------------
(* Reading into an object that is in use.                                  *)

\* A member of a document is a document.
LEMMA MemberIsDocument ==
    ASSUME NEW j \in Documents, NEW key, Contains(j, key)
    PROVE  j.members[key] \in Documents
<1>1. IsDocument(j) /\ j.t = "object" /\ key \in DOMAIN j.members
  BY DocumentsAssumption DEF Contains
<1>2. j.members \in [DOMAIN j.members -> Documents]
  BY <1>1 DEF IsDocument, JsonNull
<1> QED
  BY <1>1, <1>2

\* What was there does not decide whether reading throws, and if it does not is
\* replaced, but inside of structs.
Unaffected(a, b, type) == (a.ok <=> b.ok) /\ (a.ok /\ type.kind # "object" => a.value = b.value)
Independent(read) ==
    \A type \in Types : \A j \in Documents : \A a, b \in Objects[type] :
        Unaffected(read[type][j][a], read[type][j][b], type)

\* One field, given that the parts are independent of what was there.
LEMMA MemberIndependent ==
    ASSUME NEW read, Independent(read), NEW field, field.type \in Types, NEW j \in Documents,
           NEW a \in Objects[field.type], NEW b \in Objects[field.type]
    PROVE  Unaffected(ReadMember(read, field, j, a), ReadMember(read, field, j, b), field.type)
<1>1. CASE field.type.kind = "enum"
  <2>1. \A old : ReadMember(read, field, j, old) =
                    IF EnumNumbers(field.type.of, j) = {} THEN Threw(old)
                    ELSE Read(TRUE, EnumNumber(field.type.of, j))
    BY <1>1 DEF ReadMember, Omittable
  <2> QED
    BY <2>1 DEF Unaffected, Threw, Read
<1>2. CASE Omittable(field)
  <2> DEFINE contained == read[Inner(field.type)][j][Fresh[Inner(field.type)]]
  <2>1. field.type.kind # "enum"
    BY <1>2 DEF Omittable
  <2>2. \A old : ReadMember(read, field, j, old) =
                    IF contained.ok THEN Read(TRUE, <<contained.value>>) ELSE Threw(old)
    BY <1>2, <2>1 DEF ReadMember, Omittable
  <2> HIDE DEF contained
  <2> QED
    BY <2>2 DEF Unaffected, Threw, Read
<1>3. CASE field.type.kind # "enum" /\ ~Omittable(field)
  <2>1. \A old : ReadMember(read, field, j, old) = read[field.type][j][old]
    BY <1>3 DEF ReadMember, Omittable
  <2> QED
    BY <2>1 DEF Independent
<1> QED
  BY <1>1, <1>2, <1>3

\* One struct, likewise.
LEMMA StructIndependent ==
    ASSUME NEW read, Independent(read), NEW m \in Models, NEW j \in Documents,
           NEW a \in Objects[Object(m)], NEW b \in Objects[Object(m)]
    PROVE  /\ ReadFields(read, m, j, a)[Len(Fields[m])].ok <=>
                 ReadFields(read, m, j, b)[Len(Fields[m])].ok
           /\ \A h \in 1 .. Len(Fields[m]) :
                 /\ Accepts(read, j, Fields[m][h], a)
                 /\ Contains(j, Fields[m][h].key)
                 /\ ~Fields[m][h].ignored
                 /\ Fields[m][h].type.kind # "object"
                 => Outcome(read, j, Fields[m][h], a) = Outcome(read, j, Fields[m][h], b)
<1>1. PICK size \in Nat : size = Len(Fields[m])
  BY FieldFacts
<1>2. ASSUME NEW h \in 1 .. size
      PROVE  /\ Accepts(read, j, Fields[m][h], a) <=> Accepts(read, j, Fields[m][h], b)
             /\ Accepts(read, j, Fields[m][h], a) /\ Contains(j, Fields[m][h].key)
                /\ ~Fields[m][h].ignored /\ Fields[m][h].type.kind # "object"
                => Outcome(read, j, Fields[m][h], a) = Outcome(read, j, Fields[m][h], b)
  <2> DEFINE field == Fields[m][h]
             member == j.members[field.key]
  <2>1. CASE Contains(j, field.key)
    <3>1. /\ member \in Documents /\ field.type \in Types
          /\ a[field.name] \in Objects[field.type] /\ b[field.name] \in Objects[field.type]
      BY <1>1, <2>1, FieldFacts, StructFacts, MemberIsDocument
    <3>2. Unaffected(ReadMember(read, field, member, a[field.name]),
                     ReadMember(read, field, member, b[field.name]), field.type)
      <4> HIDE DEF field, member
      <4> QED
        BY <3>1, MemberIndependent
    <3> HIDE DEF field
    <3>3. /\ Accepts(read, j, field, a) <=> Accepts(read, j, field, b)
          /\ Accepts(read, j, field, a) /\ Contains(j, field.key)
             /\ ~field.ignored /\ field.type.kind # "object"
             => Outcome(read, j, field, a) = Outcome(read, j, field, b)
      BY <2>1, <3>2 DEF Accepts, Outcome, Unaffected
    <3> QED
      BY <3>3 DEF field
  <2>2. CASE ~Contains(j, field.key)
    BY <2>2 DEF Accepts
  <2> QED
    BY <2>1, <2>2
<1>3. size \in 0 .. Len(Fields[m])
  BY <1>1
<1>4. ASSUME NEW old \in Objects[Object(m)]
      PROVE  /\ DOMAIN old = Members(m) /\ old = [name \in Members(m) |-> old[name]]
             /\ ReadFields(read, m, j, old)[size].ok <=>
                    \A h \in 1 .. size : Accepts(read, j, Fields[m][h], old)
  <2>1. Object(m) \in Types /\ Object(m).kind = "object" /\ Object(m).of = m
    BY StructFacts
  <2>2. IsValue(Object(m), old)
    BY <2>1, ObjectsAssumption
  <2>3. DOMAIN old = Members(m) /\ old = [name \in Members(m) |-> old[name]]
    BY <2>1, <2>2, StructFacts DEF IsValue
  <2>4. ReadSoFar(read, m, j, old, size)
    BY <1>3, <2>3, FieldsRead
  <2> QED
    BY <2>3, <2>4 DEF ReadSoFar
<1>5. ReadFields(read, m, j, a)[size].ok <=> ReadFields(read, m, j, b)[size].ok
  BY <1>2, <1>4
<1> QED
  BY <1>1, <1>2, <1>5

\* One level more.
LEMMA LevelIndependent ==
    ASSUME NEW read, Independent(read), NEW type \in Types, NEW j \in Documents,
           NEW a \in Objects[type], NEW b \in Objects[type]
    PROVE  Unaffected(Reading(read, type, j, a), Reading(read, type, j, b), type)
<1> DEFINE get(element) == read[Inner(type)][element][Fresh[Inner(type)]]
<1>1. CASE type.kind \in ScalarKinds
  <2>1. \A old : Reading(read, type, j, old) =
                    IF Takes(type, j) THEN Read(TRUE, Converted(type, j)) ELSE Threw(old)
    BY <1>1 DEF Reading, ScalarKinds, ArithmeticKinds, IntegerKinds
  <2> QED
    BY <2>1 DEF Unaffected, Threw, Read
<1>2. CASE type.kind = "enum"
  <2>1. \A old : Reading(read, type, j, old) =
                    IF IsNumber(j) THEN Read(TRUE, Cast(type.of, j)) ELSE Threw(old)
    BY <1>2 DEF Reading, ScalarKinds, ArithmeticKinds, IntegerKinds
  <2> QED
    BY <2>1 DEF Unaffected, Threw, Read
<1>3. CASE type.kind = "optional"
  <2> DEFINE contained == get(j)
  <2>1. \A old : Reading(read, type, j, old) =
                    IF j.t = "null" THEN Read(TRUE, <<>>)
                    ELSE IF contained.ok THEN Read(TRUE, <<contained.value>>)
                    ELSE Threw(old)
    BY <1>3 DEF Reading, ScalarKinds, ArithmeticKinds, IntegerKinds
  <2> HIDE DEF contained
  <2> QED
    BY <2>1 DEF Unaffected, Threw, Read
<1>4. CASE type.kind = "vector"
  <2> DEFINE good == j.t = "array" /\ \A n \in DOMAIN j.items : get(j.items[n]).ok
             items == [n \in DOMAIN j.items |-> get(j.items[n]).value]
  <2>1. \A old : Reading(read, type, j, old) = IF good THEN Read(TRUE, items) ELSE Threw(old)
    BY <1>4 DEF Reading, ScalarKinds, ArithmeticKinds, IntegerKinds
  <2> HIDE DEF good, items
  <2> QED
    BY <2>1 DEF Unaffected, Threw, Read
<1>5. CASE type.kind = "map"
  <2> DEFINE good == j.t = "object" /\ \A key \in DOMAIN j.members : get(j.members[key]).ok
             members == [key \in DOMAIN j.members |-> get(j.members[key]).value]
  <2>1. \A old : Reading(read, type, j, old) = IF good THEN Read(TRUE, members) ELSE Threw(old)
    BY <1>5 DEF Reading, ScalarKinds, ArithmeticKinds, IntegerKinds
  <2> HIDE DEF good, members
  <2> QED
    BY <2>1 DEF Unaffected, Threw, Read
<1>6. CASE type.kind = "array"
  <2> DEFINE missing == {n \in 1 .. type.extent : n \notin DOMAIN j.items \/ ~get(j.items[n]).ok}
             elements(old) == [n \in 1 .. type.extent |->
                                  IF \E m \in missing : m <= n THEN old[n]
                                  ELSE get(j.items[n]).value]
  <2>1. \A old : Reading(read, type, j, old) =
                    IF j.t # "array" THEN Threw(old) ELSE Read(missing = {}, elements(old))
    BY <1>6 DEF Reading, ScalarKinds, ArithmeticKinds, IntegerKinds
  <2>2. missing = {} => elements(a) = elements(b)
    <3>1. ASSUME missing = {}, NEW old
          PROVE  elements(old) = [n \in 1 .. type.extent |-> get(j.items[n]).value]
      <4> HIDE DEF missing, get
      <4> QED
        BY <3>1
    <3> HIDE DEF missing, elements
    <3> QED
      BY <3>1
  <2> HIDE DEF missing, elements
  <2>3. CASE j.t # "array"
    BY <2>1, <2>3 DEF Unaffected, Threw, Read
  <2>4. CASE j.t = "array"
    <3>1. CASE missing = {}
      <4>1. \A old : Reading(read, type, j, old) = Read(TRUE, elements(old))
        BY <2>1, <2>4, <3>1
      <4> QED
        BY <2>2, <3>1, <4>1 DEF Unaffected, Read
    <3>2. CASE missing # {}
      <4>1. \A old : Reading(read, type, j, old) = Read(FALSE, elements(old))
        BY <2>1, <2>4, <3>2
      <4> QED
        BY <4>1 DEF Unaffected, Read
    <3> QED
      BY <3>1, <3>2
  <2> QED
    BY <2>3, <2>4
<1>7. CASE type.kind = "object"
  <2>1. type.of \in Models /\ type = Object(type.of)
    BY <1>7, TypeFacts
  <2>2. \A old : Reading(read, type, j, old) =
                    ReadFields(read, type.of, j, old)[Len(Fields[type.of])]
    BY <1>7 DEF Reading, ScalarKinds, ArithmeticKinds, IntegerKinds
  <2>3. ReadFields(read, type.of, j, a)[Len(Fields[type.of])].ok <=>
            ReadFields(read, type.of, j, b)[Len(Fields[type.of])].ok
    <3>1. a \in Objects[Object(type.of)] /\ b \in Objects[Object(type.of)]
      BY <2>1
    <3> QED
      BY <2>1, <3>1, StructIndependent
  <2> QED
    BY <1>7, <2>2, <2>3 DEF Unaffected
<1> QED
  BY <1>1, <1>2, <1>3, <1>4, <1>5, <1>6, <1>7, TypeFacts DEF Containers

\* Every level of reading is independent of what was there.
LEMMA AllIndependent ==
    ASSUME NEW n \in 0 .. Depth
    PROVE  Independent(ReadInto[n])
<1> DEFINE Claim(x) == Independent(ReadInto[x])
           Claims == {x \in 0 .. Depth : Claim(x)}
<1>1. PICK bound \in Nat : Depth = bound + 1
  <2>1. Depth \in Nat /\ Depth # 0
    BY ObjectsAssumption
  <2>2. Depth - 1 \in Nat /\ Depth = (Depth - 1) + 1
    BY <2>1
  <2> QED
    BY <2>2
<1>2. Claim(0)
  <2>1. ASSUME NEW type \in Types, NEW j \in Documents, NEW a \in Objects[type]
        PROVE  ~ReadInto[0][type][j][a].ok
    <3>1. ReadInto[0][type][j][a] = Threw(a)
      BY NoLevel
    <3> QED
      BY <3>1 DEF Threw, Read
  <2> QED
    BY <2>1 DEF Independent, Unaffected
<1>3. ASSUME NEW x \in 0 .. bound, Claim(x) PROVE Claim(x + 1)
  <2>1. x + 1 \in 1 .. Depth /\ (x + 1) - 1 = x
    BY <1>1
  <2>2. ASSUME NEW type \in Types, NEW j \in Documents,
              NEW a \in Objects[type], NEW b \in Objects[type]
        PROVE  Unaffected(ReadInto[x + 1][type][j][a], ReadInto[x + 1][type][j][b], type)
    <3>1. /\ ReadInto[x + 1][type][j][a] = Reading(ReadInto[x], type, j, a)
          /\ ReadInto[x + 1][type][j][b] = Reading(ReadInto[x], type, j, b)
      BY <2>1, ReadAt
    <3>2. Unaffected(Reading(ReadInto[x], type, j, a), Reading(ReadInto[x], type, j, b), type)
      BY <1>3, LevelIndependent
    <3> QED
      BY <3>1, <3>2
  <2> QED
    BY <2>2 DEF Independent
<1>4. 0 \in Claims /\ \A x \in 0 .. bound : x \in Claims => x + 1 \in Claims
  <2> HIDE DEF Claim
  <2> QED
    BY <1>1, <1>2, <1>3
<1>5. \A x \in 0 .. Depth : x \in Claims
  <2> HIDE DEF Claims
  <2> QED
    BY <1>1, <1>4, Climb
<1> QED
  <2>1. n \in Claims
    BY <1>5
  <2> QED
    BY <2>1

\* Kept, one level.
LEMMA KeptAt ==
    ASSUME NEW n \in 1 .. Depth, NEW m \in Models, NEW j \in Documents,
           NEW old \in Objects[Object(m)]
    PROVE  Kept[n][m][j][old] = KeptMembers(Kept[n - 1], ReadInto[n], m, j, old)
<1>1. n \in 0 .. Depth /\ n # 0
  BY ObjectsAssumption
<1>2. Kept[n] = ValueKept(Kept, n)
  BY <1>1, KeptUnfold
<1> QED
  BY <1>1, <1>2 DEF ValueKept

\* Reading a struct: from_json, with a level less.
LEMMA ReadStruct ==
    ASSUME NEW n \in 1 .. Depth, NEW m \in Models, NEW j \in Documents,
           NEW old \in Objects[Object(m)]
    PROVE  ReadInto[n][Object(m)][j][old] = ReadFields(ReadInto[n - 1], m, j, old)[Len(Fields[m])]
<1>1. Object(m) \in Types /\ Object(m).kind = "object" /\ Object(m).of = m
  BY StructFacts
<1>2. ReadInto[n][Object(m)][j][old] = Reading(ReadInto[n - 1], Object(m), j, old)
  BY <1>1, ReadAt
<1> QED
  BY <1>1, <1>2 DEF Reading, ScalarKinds, ArithmeticKinds, IntegerKinds

\* What from_json leaves when it has not thrown.
AllRead(read, m, j, old) ==
    LET value == ReadFields(read, m, j, old)[Len(Fields[m])].value
    IN  /\ \A h \in 1 .. Len(Fields[m]) : Accepts(read, j, Fields[m][h], old)
        /\ value = [name \in Members(m) |-> value[name]]
        /\ \A h \in 1 .. Len(Fields[m]) :
              value[Fields[m][h].name] = Outcome(read, j, Fields[m][h], old)

\* AllRead is what a reading that has not thrown achieves.
LEMMA StructRead ==
    ASSUME NEW read, NEW m \in Models, NEW j, NEW old \in Objects[Object(m)],
           ReadFields(read, m, j, old)[Len(Fields[m])].ok
    PROVE  AllRead(read, m, j, old)
<1>1. PICK size \in Nat : size = Len(Fields[m])
  BY FieldFacts
<1>2. Object(m) \in Types /\ Object(m).kind = "object" /\ Object(m).of = m
  BY StructFacts
<1>3. IsValue(Object(m), old)
  BY <1>2, ObjectsAssumption
<1>4. DOMAIN old = Members(m) /\ old = [name \in Members(m) |-> old[name]]
  BY <1>2, <1>3, StructFacts DEF IsValue
<1>5. ReadSoFar(read, m, j, old, Len(Fields[m]))
  <2>1. Len(Fields[m]) \in 0 .. Len(Fields[m])
    BY <1>1
  <2> QED
    BY <1>4, <2>1, FieldsRead
<1>6. \A h \in 1 .. Len(Fields[m]) : h <= Len(Fields[m])
  BY <1>1
<1> QED
  BY <1>5, <1>6 DEF ReadSoFar, AllRead

\* Nested structs are read to what they should be; and one field, given that.
KeptBelow(read, kept) ==
    \A u \in Models : \A i \in Documents : \A was \in Objects[Object(u)] :
        read[Object(u)][i][was].ok => read[Object(u)][i][was].value = kept[u][i][was]
FieldKeep(kept, fresh, j, old, field) ==
    CASE field.ignored \/ (Omittable(field) /\ ~Contains(j, field.key)) -> old[field.name]
      [] ~field.ignored /\ field.type.kind = "object" ->
            kept[field.type.of][j.members[field.key]][old[field.name]]
      [] OTHER -> fresh[field.name]

\* One field is read to what it should be.
LEMMA FieldKept ==
    ASSUME NEW read, Independent(read), NEW kept, KeptBelow(read, kept),
           NEW m \in Models, NEW j \in Documents, NEW old \in Objects[Object(m)],
           NEW h \in 1 .. Len(Fields[m]),
           ReadFields(read, m, j, old)[Len(Fields[m])].ok
    PROVE  Outcome(read, j, Fields[m][h], old) =
               FieldKeep(kept, ReadFields(read, m, j, Fresh[Object(m)])[Len(Fields[m])].value,
                         j, old, Fields[m][h])
<1> DEFINE field == Fields[m][h]
           type == field.type
           fresh == ReadFields(read, m, j, Fresh[Object(m)])[Len(Fields[m])]
           outcome == Outcome(read, j, field, old)
<1>1. /\ type \in Types /\ old[field.name] \in Objects[type]
      /\ Accepts(read, j, field, old)
      /\ Fresh[Object(m)] \in Objects[Object(m)]
  <2>1. AllRead(read, m, j, old)
    BY StructRead
  <2> QED
    BY <2>1, FieldFacts, StructFacts, ObjectsAssumption DEF AllRead
<1>2. CASE field.ignored \/ (Omittable(field) /\ ~Contains(j, field.key))
  <2> DEFINE after == FieldKeep(kept, fresh.value, j, old, field)
  <2>1. outcome = old[field.name]
    BY <1>1, <1>2 DEF Outcome
  <2>2. after = old[field.name]
    <3> HIDE DEF field, fresh, outcome
    <3> QED
      BY <1>2 DEF FieldKeep, Omittable
  <2> QED
    BY <2>1, <2>2
<1>3. CASE ~field.ignored /\ Contains(j, field.key) /\ type.kind = "object"
  <2>1. type.of \in Models /\ type = Object(type.of)
    BY <1>1, <1>3, TypeFacts
  <2> DEFINE u == type.of
             member == j.members[field.key]
             was == old[field.name]
  <2>2. ReadMember(read, field, member, was) = read[type][member][was]
    BY <1>3 DEF ReadMember, Omittable
  <2>3. read[type][member][was].ok /\ outcome = read[type][member][was].value
    BY <1>1, <1>3, <2>2 DEF Accepts, Outcome
  <2>4. member \in Documents
    BY <1>3, MemberIsDocument
  <2>5. outcome = kept[u][member][was]
    <3> HIDE DEF u, member, was, outcome, type, field
    <3>1. was \in Objects[Object(u)] /\ u \in Models /\ type = Object(u)
      BY <1>1, <2>1 DEF u, was
    <3> QED
      BY <2>3, <2>4, <3>1 DEF KeptBelow
  <2>6. ~(field.ignored \/ (Omittable(field) /\ ~Contains(j, field.key)))
    BY <1>3
  <2> HIDE DEF outcome, field
  <2> QED
    BY <1>3, <2>5, <2>6 DEF outcome, field, FieldKeep
<1>4. CASE ~field.ignored /\ Contains(j, field.key) /\ type.kind # "object"
  <2>1. outcome = Outcome(read, j, field, Fresh[Object(m)])
    BY <1>1, <1>4, StructIndependent
  <2>2. fresh.ok
    BY <1>1, StructIndependent
  <2>3. fresh.value[field.name] = Outcome(read, j, field, Fresh[Object(m)])
    <3>1. AllRead(read, m, j, Fresh[Object(m)])
      BY <1>1, <2>2, StructRead
    <3> QED
      BY <3>1 DEF AllRead
  <2>4. ~(field.ignored \/ (Omittable(field) /\ ~Contains(j, field.key)))
    BY <1>4
  <2> HIDE DEF outcome, field, fresh, type, FieldKeep
  <2> QED
    BY <1>4, <2>1, <2>3, <2>4 DEF outcome, field, fresh, type, FieldKeep
<1>5. field.ignored \/ Omittable(field) \/ Contains(j, field.key)
  BY <1>1 DEF Accepts
<1> QED
  BY <1>2, <1>3, <1>4, <1>5

\* Without a level nothing is read.
LEMMA NothingWithout ==
    ASSUME NEW type \in Types, NEW j \in Documents, NEW old \in Objects[type]
    PROVE  ~ReadInto[0][type][j][old].ok
<1>1. ReadInto[0][type][j][old] = Threw(old)
  BY NoLevel
<1> QED
  BY <1>1 DEF Threw, Read

\* What there should be in a struct, field by field.
ByField(kept, fresh, m, j, old) ==
    [name \in Members(m) |-> FieldKeep(kept, fresh, j, old, Member(m, name))]

LEMMA KeptByField ==
    ASSUME NEW kept, NEW read, NEW m \in Models, NEW j, NEW old
    PROVE  KeptMembers(kept, read, m, j, old) =
               ByField(kept, read[Object(m)][j][Fresh[Object(m)]].value, m, j, old)
<1> DEFINE new == read[Object(m)][j][Fresh[Object(m)]].value
           member(name, field) ==
               CASE field.ignored \/ (Omittable(field) /\ ~Contains(j, field.key)) -> old[name]
                 [] ~field.ignored /\ field.type.kind = "object" ->
                       kept[field.type.of][j.members[field.key]][old[name]]
                 [] OTHER -> new[name]
<1>1. KeptMembers(kept, read, m, j, old) = [name \in Members(m) |-> member(name, Member(m, name))]
  BY DEF KeptMembers
<1>2. \A field : member(field.name, field) = FieldKeep(kept, new, j, old, field)
  BY DEF FieldKeep
<1> HIDE DEF member, new
<1>3. \A name \in Members(m) :
          member(name, Member(m, name)) = FieldKeep(kept, new, j, old, Member(m, name))
  <2>1. \A name \in Members(m) : Member(m, name).name = name
    BY FieldFacts
  <2> QED
    BY <1>2, <2>1
<1> QED
  BY <1>1, <1>3 DEF new, ByField

\* At every level a struct is read to what it should be.
LEMMA AllKept ==
    ASSUME NEW n \in 0 .. Depth, NEW m \in Models, NEW j \in Documents,
           NEW old \in Objects[Object(m)], ReadInto[n][Object(m)][j][old].ok
    PROVE  ReadInto[n][Object(m)][j][old].value = Kept[n][m][j][old]
<1> DEFINE Claim(x) ==
             \A u \in Models : \A i \in Documents : \A was \in Objects[Object(u)] :
                 ReadInto[x][Object(u)][i][was].ok =>
                     ReadInto[x][Object(u)][i][was].value = Kept[x][u][i][was]
           Claims == {x \in 0 .. Depth : Claim(x)}
<1>1. PICK bound \in Nat : Depth = bound + 1
  <2>1. Depth \in Nat /\ Depth # 0
    BY ObjectsAssumption
  <2>2. Depth - 1 \in Nat /\ Depth = (Depth - 1) + 1
    BY <2>1
  <2> QED
    BY <2>2
<1>2. Claim(0)
  <2>1. ASSUME NEW u \in Models, NEW i \in Documents, NEW was \in Objects[Object(u)]
        PROVE  ~ReadInto[0][Object(u)][i][was].ok
    BY StructFacts, NothingWithout
  <2> QED
    BY <2>1
<1>3. ASSUME NEW x \in 0 .. bound, Claim(x) PROVE Claim(x + 1)
  <2>1. x + 1 \in 1 .. Depth /\ (x + 1) - 1 = x /\ x \in 0 .. Depth
    BY <1>1
  <2> SUFFICES ASSUME NEW u \in Models, NEW i \in Documents, NEW was \in Objects[Object(u)],
                      ReadInto[x + 1][Object(u)][i][was].ok
               PROVE  ReadInto[x + 1][Object(u)][i][was].value = Kept[x + 1][u][i][was]
    OBVIOUS
  <2> DEFINE read == ReadInto[x]
             kept == Kept[x]
             size == Len(Fields[u])
             fresh == ReadFields(read, u, i, Fresh[Object(u)])[size]
             result == ReadFields(read, u, i, was)[size]
             keep(field) == FieldKeep(kept, fresh.value, i, was, field)
  <2>2. Fresh[Object(u)] \in Objects[Object(u)]
    BY StructFacts, ObjectsAssumption
  <2>3. /\ ReadInto[x + 1][Object(u)][i][was] = result
        /\ ReadInto[x + 1][Object(u)][i][Fresh[Object(u)]] = fresh
    <3>1. PICK level \in 1 .. Depth : level = x + 1 /\ level - 1 = x
      BY <2>1
    <3>2. ReadInto[level][Object(u)][i][was] = result
      BY <3>1, ReadStruct
    <3>3. ReadInto[level][Object(u)][i][Fresh[Object(u)]] = fresh
      BY <2>2, <3>1, ReadStruct
    <3> QED
      BY <3>1, <3>2, <3>3
  <2>4. Kept[x + 1][u][i][was] = [name \in Members(u) |-> keep(Member(u, name))]
    <3>1. Kept[x + 1][u][i][was] = KeptMembers(kept, ReadInto[x + 1], u, i, was)
      BY <2>1, KeptAt
    <3>2. Kept[x + 1][u][i][was] = ByField(kept, fresh.value, u, i, was)
      <4> HIDE DEF kept, fresh
      <4> QED
        BY <2>3, <3>1, KeptByField
    <3> QED
      BY <3>2 DEF ByField
  <2>5. Independent(read)
    BY <2>1, AllIndependent
  <2>6. \A h \in 1 .. size : Outcome(read, i, Fields[u][h], was) = keep(Fields[u][h])
    <3>1. TAKE h \in 1 .. size
    <3>2. KeptBelow(read, kept)
      BY <1>3 DEF KeptBelow
    <3>3. result.ok
      BY <2>3
    <3> HIDE DEF read, kept
    <3> QED
      BY <2>5, <3>2, <3>3, FieldKept
  <2>7. /\ result.value = [name \in Members(u) |-> result.value[name]]
        /\ \A h \in 1 .. size :
              result.value[Fields[u][h].name] = Outcome(read, i, Fields[u][h], was)
    <3>1. result.ok
      BY <2>3
    <3>2. AllRead(read, u, i, was)
      <4> HIDE DEF read
      <4> QED
        BY <3>1, StructRead
    <3> QED
      BY <3>2 DEF AllRead
  <2>8. ASSUME NEW name \in Members(u)
        PROVE  result.value[name] = keep(Member(u, name))
    <3>1. PICK h \in 1 .. size : name = Fields[u][h].name
      BY FieldFacts
    <3>2. Member(u, name) = Fields[u][h]
      BY <3>1, FieldFacts
    <3> HIDE DEF result, keep
    <3> QED
      BY <2>6, <2>7, <3>1, <3>2
  <2> HIDE DEF result, keep
  <2> QED
    BY <2>3, <2>4, <2>7, <2>8
<1>4. 0 \in Claims /\ \A x \in 0 .. bound : x \in Claims => x + 1 \in Claims
  <2> HIDE DEF Claim
  <2> QED
    BY <1>1, <1>2, <1>3
<1>5. \A x \in 0 .. Depth : x \in Claims
  <2> HIDE DEF Claims
  <2> QED
    BY <1>1, <1>4, Climb
<1> QED
  <2>1. n \in Claims
    BY <1>5
  <2> QED
    BY <2>1

\* A finished reading has left what it should.
LEMMA OldValuesFromInvariant == IInv => OldValuesSurviveOnlyIfAbsent
<1> SUFFICES ASSUME IInv, origin = "outside", pc = "done"
             PROVE  target = Kept[Depth][model][doc][given]
  BY DEF OldValuesSurviveOnlyIfAbsent
<1>1. /\ model \in Models /\ given \in Objects[Object(model)] /\ doc \in Documents
      /\ Receiving(Size) = Read(TRUE, target) /\ Start = given
  BY DEF IInv, CallOK, ReaderOK, Start
<1>2. ReadInto[Depth][Object(model)][doc][given] = Read(TRUE, target)
  <2>1. ReadInto[Depth][Object(model)][doc][given] =
            ReadFields(Reader, model, doc, given)[Len(Fields[model])]
    BY <1>1, LastLevel, ReadStruct DEF Reader
  <2> QED
    BY <1>1, <2>1 DEF Receiving, Size
<1>3. Depth \in 0 .. Depth
  BY LastLevel
<1>4. ReadInto[Depth][Object(model)][doc][given].value = Kept[Depth][model][doc][given]
  <2>1. ReadInto[Depth][Object(model)][doc][given].ok
    BY <1>2 DEF Read
  <2> QED
    BY <1>1, <1>3, <2>1, AllKept
<1> QED
  BY <1>2, <1>4 DEF Read

\* Behind the reading of a document into an object that was in use, the ignored
\* fields, and the optionals with omitempty that the document does not have, are
\* what they were, at any depth of nested structs, and all else is what it would
\* be in a new object.
THEOREM OldValuesReplaced == MappingSpec => []OldValuesSurviveOnlyIfAbsent
<1> QED
  BY CallsCorrect, OldValuesFromInvariant, PTL

-----------------------------------------------------------------------------
(* References of the schema.                                               *)

LEMMA DefinedOrAmbiguous ==
    ASSUME project \in Seq(Models), NEW u \in Range(project)
    PROVE  Defined(u) \/ u = project[1] \/ \E w \in Range(project) \ {u} : Name[w] = Name[u]
<1> DEFINE defs == Definitions(project)
<1>1. Len(project) \in Nat /\ DOMAIN project = 1 .. Len(project)
  BY LenProperties
<1>2. PICK size \in Nat : size = Len(project) - 1
  <2>1. PICK n \in DOMAIN project : u = project[n]
    BY DEF Range
  <2>2. Len(project) - 1 \in Nat
    BY <1>1, <2>1
  <2> QED
    BY <2>2
<1>3. SUFFICES ASSUME u # project[1], \A w \in Range(project) : Name[w] = Name[u] => w = u
               PROVE  Defined(u)
  OBVIOUS
<1>4. PICK n \in DOMAIN project : u = project[n]
  BY DEF Range
<1>5. n - 1 \in 1 .. size /\ (n - 1) + 1 = n
  <2>1. n # 1
    BY <1>3, <1>4
  <2> QED
    BY <1>1, <1>2, <1>4, <2>1
<1>6. /\ DOMAIN defs = 1 .. size
      /\ \A x \in 1 .. size :
            defs[x] = [name |-> Name[project[x + 1]],
                       schema |-> ObjectSchema(project, project[x + 1])]
  BY <1>2 DEF Definitions
<1> HIDE DEF defs
<1>7. defs[n - 1].name = Name[u] /\ defs[n - 1].schema = ObjectSchema(project, u)
  BY <1>4, <1>5, <1>6
<1>8. ASSUME NEW x \in 1 .. size, defs[x].name = Name[u]
      PROVE  defs[x].schema = ObjectSchema(project, u)
  <2>1. x + 1 \in DOMAIN project
    BY <1>1, <1>2
  <2>2. project[x + 1] \in Range(project)
    BY <2>1 DEF Range
  <2>3. /\ defs[x].name = Name[project[x + 1]]
        /\ defs[x].schema = ObjectSchema(project, project[x + 1])
    BY <1>6
  <2> QED
    BY <1>3, <1>8, <2>2, <2>3
<1>9. Range(defs) = {defs[x] : x \in 1 .. size}
  BY <1>6 DEF Range
<1>10. Resolved(defs, Name[u]) = {ObjectSchema(project, u)}
  <2>1. ASSUME NEW schema \in Resolved(defs, Name[u]) PROVE schema = ObjectSchema(project, u)
    <3>1. PICK def \in Range(defs) : def.name = Name[u] /\ schema = def.schema
      BY DEF Resolved
    <3> QED
      BY <1>8, <1>9, <3>1
  <2>2. ObjectSchema(project, u) \in Resolved(defs, Name[u])
    <3>1. defs[n - 1] \in {d \in Range(defs) : d.name = Name[u]}
      BY <1>5, <1>7, <1>9
    <3> QED
      BY <1>7, <3>1 DEF Resolved
  <2> QED
    BY <2>1, <2>2
<1>11. Schema(project).defs = defs
  BY DEF Schema, defs
<1> QED
  BY <1>10, <1>11 DEF Defined

\* A reference of the schema is to the struct of its field, but for the root and
\* for structs of one unqualified name.
THEOREM ReferencesResolve == MappingSpec => []ReferencesMeanTheirType
<1>1. IInv => ReferencesMeanTheirType
  <2> SUFFICES ASSUME IInv PROVE ReferencesMeanTheirType
    OBVIOUS
  <2>1. project \in Seq(Models)
    BY ProjectsAssumption DEF IInv, CallOK
  <2> QED
    BY <2>1, DefinedOrAmbiguous DEF ReferencesMeanTheirType
<1> QED
  BY <1>1, CallsCorrect, PTL

-----------------------------------------------------------------------------
(* The recursion on types.                                                 *)

Below(x) == {type \in Types : Height[type] < x}


\* Fragment is defined for every type: by induction on the height.
LEMMA FragmentUnfold ==
    Fragment = [type \in Types |-> TypeFragment(Fragment, type)]
<1>1. PICK top \in Nat : \A type \in Types : Height[type] \in Nat /\ Height[type] <= top
  BY ModelsAssumption
<1> DEFINE Solved == {x \in Nat : \E g : g = [t \in Below(x) |-> TypeFragment(g, t)]}
<1>2. 0 \in Solved
  <2>1. Below(0) = {}
    BY <1>1 DEF Below
  <2>2. PICK g : g = [t \in Below(0) |-> TypeFragment(<<>>, t)]
    OBVIOUS
  <2>3. g = [t \in Below(0) |-> TypeFragment(g, t)]
    BY <2>1, <2>2
  <2> QED
    BY <2>3
<1>3. ASSUME NEW x \in 0 .. top, x \in Solved
      PROVE  x + 1 \in Solved
  <2>1. PICK g : g = [t \in Below(x) |-> TypeFragment(g, t)]
    BY <1>3
  <2>2. PICK h : h = [t \in Below(x + 1) |-> TypeFragment(g, t)]
    OBVIOUS
  <2>3. ASSUME NEW t \in Below(x + 1) PROVE TypeFragment(g, t) = TypeFragment(h, t)
    <3>1. t \in Types
      BY DEF Below
    <3>2. CASE t.kind \in Containers
      <4>1. Inner(t) \in Types /\ Height[Inner(t)] < Height[t]
        BY <3>1, <3>2, TypeFacts
      <4>2. Inner(t) \in Below(x) /\ Inner(t) \in Below(x + 1)
        BY <1>1, <3>1, <4>1 DEF Below
      <4>3. g[Inner(t)] = h[Inner(t)]
        BY <2>1, <2>2, <4>2
      <4> QED
        BY <3>2, <4>3 DEF TypeFragment, Containers, ScalarKinds, ArithmeticKinds, IntegerKinds
    <3>3. CASE t.kind \notin Containers
      BY <3>1, <3>3, TypeFacts DEF TypeFragment, Containers, ScalarKinds, ArithmeticKinds, IntegerKinds
    <3> QED
      BY <3>2, <3>3
  <2>4. h = [t \in Below(x + 1) |-> TypeFragment(h, t)]
    BY <2>2, <2>3
  <2> QED
    BY <2>4
<1>4. top + 1 \in Solved
  <2> HIDE DEF Solved
  <2> QED
    BY <1>2, <1>3, Climb
<1>5. Below(top + 1) = Types
  BY <1>1 DEF Below
<1>6. \E g : g = [t \in Types |-> TypeFragment(g, t)]
  BY <1>4, <1>5
<1>7. Fragment = CHOOSE g : g = [type \in Types |-> TypeFragment(g, type)]
  BY DEF Fragment
<1> QED
  BY <1>6, <1>7


\* And so is Supported.
LEMMA SupportedUnfold ==
    ASSUME NEW p
    PROVE  Supported(p) = [type \in Types |-> SupportedType(Supported(p), p, type)]
<1>1. PICK top \in Nat : \A type \in Types : Height[type] \in Nat /\ Height[type] <= top
  BY ModelsAssumption
<1> DEFINE Solved == {x \in Nat : \E g : g = [t \in Below(x) |-> SupportedType(g, p, t)]}
<1>2. 0 \in Solved
  <2>1. Below(0) = {}
    BY <1>1 DEF Below
  <2>2. PICK g : g = [t \in Below(0) |-> SupportedType(<<>>, p, t)]
    OBVIOUS
  <2>3. g = [t \in Below(0) |-> SupportedType(g, p, t)]
    BY <2>1, <2>2
  <2> QED
    BY <2>3
<1>3. ASSUME NEW x \in 0 .. top, x \in Solved
      PROVE  x + 1 \in Solved
  <2>1. PICK g : g = [t \in Below(x) |-> SupportedType(g, p, t)]
    BY <1>3
  <2>2. PICK h : h = [t \in Below(x + 1) |-> SupportedType(g, p, t)]
    OBVIOUS
  <2>3. ASSUME NEW t \in Below(x + 1) PROVE SupportedType(g, p, t) = SupportedType(h, p, t)
    <3>1. t \in Types
      BY DEF Below
    <3>2. CASE t.kind \in Containers
      <4>1. Inner(t) \in Types /\ Height[Inner(t)] < Height[t]
        BY <3>1, <3>2, TypeFacts
      <4>2. Inner(t) \in Below(x) /\ Inner(t) \in Below(x + 1)
        BY <1>1, <3>1, <4>1 DEF Below
      <4>3. g[Inner(t)] = h[Inner(t)]
        BY <2>1, <2>2, <4>2
      <4> QED
        BY <3>2, <4>3 DEF SupportedType, Containers, ScalarKinds, ArithmeticKinds, IntegerKinds
    <3>3. CASE t.kind \notin Containers
      BY <3>1, <3>3, TypeFacts DEF SupportedType, Containers, ScalarKinds, ArithmeticKinds, IntegerKinds
    <3> QED
      BY <3>2, <3>3
  <2>4. h = [t \in Below(x + 1) |-> SupportedType(h, p, t)]
    BY <2>2, <2>3
  <2> QED
    BY <2>4
<1>4. top + 1 \in Solved
  <2> HIDE DEF Solved
  <2> QED
    BY <1>2, <1>3, Climb
<1>5. Below(top + 1) = Types
  BY <1>1 DEF Below
<1>6. \E g : g = [t \in Types |-> SupportedType(g, p, t)]
  BY <1>4, <1>5
<1>7. Supported(p) = CHOOSE g : g = [type \in Types |-> SupportedType(g, p, type)]
  BY DEF Supported
<1> QED
  BY <1>6, <1>7

\* What the schema of a type says of a document.
LEMMA FragmentAt ==
    ASSUME NEW type \in Types
    PROVE  Fragment[type] = TypeFragment(Fragment, type)
BY FragmentUnfold

\* What is valid against the schema of a scalar.
LEMMA ValidScalar ==
    ASSUME NEW defs, NEW validates, NEW type \in Types, NEW j
    PROVE  LET valid == Valid(defs, validates, Fragment[type], j)
           IN  /\ type.kind = "bool" => (valid <=> j.t = "bool")
               /\ type.kind \in IntegerKinds => (valid <=> IsNumber(j) /\ ~HasFraction(j))
               /\ type.kind = "float" => (valid <=> IsNumber(j))
               /\ type.kind = "string" => (valid <=> j.t = "string")
<1> DEFINE schema == Fragment[type]
<1>1. \A name : DOMAIN [type |-> name] = {"type"} /\ [type |-> name].type = name
  OBVIOUS
<1>2. /\ type.kind = "bool" => schema = [type |-> "boolean"]
      /\ type.kind \in IntegerKinds => schema = [type |-> "integer"]
      /\ type.kind = "float" => schema = [type |-> "number"]
      /\ type.kind = "string" => schema = [type |-> "string"]
  BY FragmentAt DEF TypeFragment, IntegerKinds
<1> HIDE DEF schema
<1>3. CASE type.kind = "bool"
  <2>1. DOMAIN schema = {"type"} /\ schema.type = "boolean"
    BY <1>1, <1>2, <1>3
  <2>2. Valid(defs, validates, schema, j) <=> j.t = "bool"
    BY <2>1 DEF Valid
  <2> QED
    BY <1>3, <2>2 DEF schema, IntegerKinds
<1>4. CASE type.kind \in IntegerKinds
  <2>1. DOMAIN schema = {"type"} /\ schema.type = "integer"
    BY <1>1, <1>2, <1>4
  <2>2. Valid(defs, validates, schema, j) <=> IsNumber(j) /\ ~HasFraction(j)
    BY <2>1 DEF Valid
  <2> QED
    BY <1>4, <2>2 DEF schema, IntegerKinds
<1>5. CASE type.kind = "float"
  <2>1. DOMAIN schema = {"type"} /\ schema.type = "number"
    BY <1>1, <1>2, <1>5
  <2>2. Valid(defs, validates, schema, j) <=> IsNumber(j)
    BY <2>1 DEF Valid
  <2> QED
    BY <1>5, <2>2 DEF schema, IntegerKinds
<1>6. CASE type.kind = "string"
  <2>1. DOMAIN schema = {"type"} /\ schema.type = "string"
    BY <1>1, <1>2, <1>6
  <2>2. Valid(defs, validates, schema, j) <=> j.t = "string"
    BY <2>1 DEF Valid
  <2> QED
    BY <1>6, <2>2 DEF schema, IntegerKinds
<1> QED
  BY <1>3, <1>4, <1>5, <1>6

\* What is valid against the schema of an enum.
LEMMA ValidEnum ==
    ASSUME NEW defs, NEW validates, NEW type \in Types, NEW j, type.kind = "enum"
    PROVE  Valid(defs, validates, Fragment[type], j) <=>
               j.t = "string" /\ j.s \in Range(Enumerators[type.of])
<1> DEFINE schema == Fragment[type]
<1>1. schema = [type |-> "string", enum |-> Range(Enumerators[type.of])]
  BY FragmentAt DEF TypeFragment, ScalarKinds, ArithmeticKinds, IntegerKinds
<1> HIDE DEF schema
<1>2. DOMAIN schema = {"type", "enum"} /\ schema.enum = Range(Enumerators[type.of])
  BY <1>1
<1>3. Valid(defs, validates, schema, j) <=> j.t = "string" /\ j.s \in schema.enum
  BY <1>2 DEF Valid
<1> QED
  BY <1>2, <1>3 DEF schema

\* What is valid against the schema of an optional.
LEMMA ValidOptional ==
    ASSUME NEW defs, NEW validates, NEW type \in Types, NEW j, type.kind = "optional"
    PROVE  Valid(defs, validates, Fragment[type], j) <=>
               j.t = "null" \/ validates[Fragment[Inner(type)]][j]
<1> DEFINE schema == Fragment[type]
<1>1. schema = [orNull |-> Fragment[Inner(type)]]
  BY FragmentAt DEF TypeFragment, ScalarKinds, ArithmeticKinds, IntegerKinds
<1> HIDE DEF schema
<1>2. DOMAIN schema = {"orNull"} /\ schema.orNull = Fragment[Inner(type)]
  BY <1>1
<1>3. Valid(defs, validates, schema, j) <=> j.t = "null" \/ validates[schema.orNull][j]
  BY <1>2 DEF Valid
<1> QED
  BY <1>2, <1>3 DEF schema

\* What is valid against the schema of a vector.
LEMMA ValidVector ==
    ASSUME NEW defs, NEW validates, NEW type \in Types, NEW j, type.kind = "vector"
    PROVE  Valid(defs, validates, Fragment[type], j) <=>
               /\ j.t = "array"
               /\ \A n \in DOMAIN j.items : validates[Fragment[Inner(type)]][j.items[n]]
<1> DEFINE schema == Fragment[type]
<1>1. schema = [type |-> "array", items |-> Fragment[Inner(type)]]
  BY FragmentAt DEF TypeFragment, ScalarKinds, ArithmeticKinds, IntegerKinds
<1> HIDE DEF schema
<1>2. DOMAIN schema = {"type", "items"} /\ schema.items = Fragment[Inner(type)]
  BY <1>1
<1>3. /\ "ref" \notin DOMAIN schema /\ "orNull" \notin DOMAIN schema /\ "enum" \notin DOMAIN schema
      /\ "items" \in DOMAIN schema /\ "extent" \notin DOMAIN schema
      /\ "additional" \notin DOMAIN schema
      /\ DOMAIN schema # {"type"}
  BY <1>2
<1>4. Valid(defs, validates, schema, j) <=>
          j.t = "array" /\ \A n \in DOMAIN j.items : validates[schema.items][j.items[n]]
  <2>1. Valid(defs, validates, schema, j) <=>
            /\ j.t = "array" /\ FitsExtent(schema, j.items)
            /\ \A n \in DOMAIN j.items : validates[schema.items][j.items[n]]
    BY <1>3 DEF Valid
  <2> QED
    BY <1>3, <2>1 DEF FitsExtent
<1> QED
  BY <1>2, <1>4 DEF schema

\* What is valid against the schema of a fixed array.
LEMMA ValidArray ==
    ASSUME NEW defs, NEW validates, NEW type \in Types, NEW j, type.kind = "array"
    PROVE  Valid(defs, validates, Fragment[type], j) <=>
               /\ j.t = "array" /\ Len(j.items) = type.extent
               /\ \A n \in DOMAIN j.items : validates[Fragment[Inner(type)]][j.items[n]]
<1> DEFINE schema == Fragment[type]
<1>1. schema = [type |-> "array", items |-> Fragment[Inner(type)], extent |-> type.extent]
  BY FragmentAt DEF TypeFragment, ScalarKinds, ArithmeticKinds, IntegerKinds
<1> HIDE DEF schema
<1>2. /\ DOMAIN schema = {"type", "items", "extent"}
      /\ schema.items = Fragment[Inner(type)] /\ schema.extent = type.extent
  BY <1>1
<1>3. Valid(defs, validates, schema, j) <=>
          /\ j.t = "array" /\ FitsExtent(schema, j.items)
          /\ \A n \in DOMAIN j.items : validates[schema.items][j.items[n]]
  BY <1>2 DEF Valid
<1>4. FitsExtent(schema, j.items) <=> Len(j.items) = type.extent
  BY <1>2 DEF FitsExtent
<1> QED
  BY <1>2, <1>3, <1>4 DEF schema

\* What is valid against the schema of a map.
LEMMA ValidMap ==
    ASSUME NEW defs, NEW validates, NEW type \in Types, NEW j, type.kind = "map"
    PROVE  Valid(defs, validates, Fragment[type], j) <=>
               /\ j.t = "object"
               /\ \A key \in DOMAIN j.members : validates[Fragment[Inner(type)]][j.members[key]]
<1> DEFINE schema == Fragment[type]
<1>1. schema = [type |-> "object", additional |-> Fragment[Inner(type)]]
  BY FragmentAt DEF TypeFragment, ScalarKinds, ArithmeticKinds, IntegerKinds
<1> HIDE DEF schema
<1>2. DOMAIN schema = {"type", "additional"} /\ schema.additional = Fragment[Inner(type)]
  BY <1>1
<1>3. /\ "ref" \notin DOMAIN schema /\ "orNull" \notin DOMAIN schema /\ "enum" \notin DOMAIN schema
      /\ "additional" \in DOMAIN schema /\ "items" \notin DOMAIN schema
      /\ DOMAIN schema # {"type"}
  BY <1>2
<1>4. Valid(defs, validates, schema, j) <=>
          /\ j.t = "object"
          /\ \A key \in DOMAIN j.members : validates[schema.additional][j.members[key]]
  BY <1>3 DEF Valid
<1> QED
  BY <1>2, <1>4 DEF schema

\* What is valid against a reference that means its struct.
LEMMA ValidStruct ==
    ASSUME NEW validates, NEW type \in Types, NEW j, type.kind = "object", Defined(type.of)
    PROVE  Valid(Schema(project).defs, validates, Fragment[type], j) <=>
               ValidObject(validates, ObjectSchema(project, type.of), j)
<1> DEFINE schema == Fragment[type]
           defs == Schema(project).defs
<1>1. schema = [ref |-> Name[type.of]]
  BY FragmentAt DEF TypeFragment, ScalarKinds, ArithmeticKinds, IntegerKinds
<1> HIDE DEF schema, defs
<1>2. DOMAIN schema = {"ref"} /\ schema.ref = Name[type.of]
  BY <1>1
<1>3. Valid(defs, validates, schema, j) <=>
          \E definition \in Resolved(defs, schema.ref) : ValidObject(validates, definition, j)
  BY <1>2 DEF Valid
<1>4. Resolved(defs, schema.ref) = {ObjectSchema(project, type.of)}
  BY <1>2 DEF Defined, defs
<1>5. Valid(defs, validates, schema, j) <=>
          ValidObject(validates, ObjectSchema(project, type.of), j)
  BY <1>3, <1>4
<1> QED
  BY <1>5 DEF schema, defs

\* Validates, one level.
LEMMA ValidatesAt ==
    ASSUME NEW n \in 1 .. 2 * Depth, NEW type \in Types, NEW j \in Documents
    PROVE  Validates[n][Fragment[type]][j] <=>
               Valid(Schema(project).defs, Validates[n - 1], Fragment[type], j)
<1>1. n \in 0 .. 2 * Depth /\ n # 0
  BY ObjectsAssumption
<1>2. Validates[n] = ValueValid(Validates, n)
  BY <1>1, ValidatesUnfold
<1>3. Fragment[type] \in {Fragment[t] : t \in Types}
  OBVIOUS
<1>4. ValueValid(Validates, n)[Fragment[type]][j] =
          (n # 0 /\ Valid(Schema(project).defs, Validates[n - 1], Fragment[type], j))
  BY <1>3 DEF ValueValid
<1> QED
  BY <1>1, <1>2, <1>4

\* Without a level nothing is valid.
LEMMA NotValidYet ==
    ASSUME NEW type \in Types, NEW j \in Documents
    PROVE  ~Validates[0][Fragment[type]][j]
<1>1. 0 \in 0 .. 2 * Depth
  BY ObjectsAssumption
<1>2. Validates[0] = ValueValid(Validates, 0)
  BY <1>1, ValidatesUnfold
<1>3. Fragment[type] \in {Fragment[t] : t \in Types}
  OBVIOUS
<1>4. ValueValid(Validates, 0)[Fragment[type]][j] =
          (0 # 0 /\ Valid(Schema(project).defs, Validates[0 - 1], Fragment[type], j))
  BY <1>3 DEF ValueValid
<1> QED
  BY <1>2, <1>4

\* Contested, one level.
LEMMA ContestedAt ==
    ASSUME NEW n \in 1 .. Depth, NEW type \in Types, NEW j \in Documents
    PROVE  Contested[n][type][j] <=> ContestedPart(Contested[n - 1], type, j)
<1>1. n \in 0 .. Depth /\ n # 0
  BY ObjectsAssumption
<1>2. Contested[n] = ValueContested(Contested, n)
  BY <1>1, ContestedUnfold
<1>3. ValueContested(Contested, n)[type][j] = (n # 0 /\ ContestedPart(Contested[n - 1], type, j))
  BY DEF ValueContested
<1> QED
  BY <1>1, <1>2, <1>3

-----------------------------------------------------------------------------
(* The reader against the schema.                                          *)

\* Of the supported types and the places that are not contested: what is read is
\* valid, and what is valid is read.
Sound(read, contested, validates) ==
    \A type \in Types : \A j \in Documents :
        /\ Supported(project)[type] /\ ~contested[type][j]
        /\ read[type][j][Fresh[type]].ok
        => validates[Fragment[type]][j]
Complete(read, contested, validates) ==
    \A type \in Types : \A j \in Documents :
        /\ Supported(project)[type] /\ ~contested[type][j]
        /\ validates[Fragment[type]][j]
        => read[type][j][Fresh[type]].ok

\* One more level of validation.
LevelUp(validates, below) ==
    \A type \in Types : \A j \in Documents :
        Valid(Schema(project).defs, below, Fragment[type], j) => validates[Fragment[type]][j]
LevelDown(validates, below) ==
    \A type \in Types : \A j \in Documents :
        validates[Fragment[type]][j] => Valid(Schema(project).defs, below, Fragment[type], j)

\* A container is supported if and only if what is inside is.
LEMMA SupportedAt ==
    ASSUME NEW type \in Types
    PROVE  type.kind \in Containers =>
               (Supported(project)[type] <=> Supported(project)[Inner(type)])
<1>1. Supported(project)[type] = SupportedType(Supported(project), project, type)
  BY SupportedUnfold
<1> QED
  BY <1>1 DEF SupportedType, Containers, ScalarKinds, ArithmeticKinds, IntegerKinds

\* The enumerators as the reader and as the schema sees them.
LEMMA EnumAgrees ==
    ASSUME NEW name \in DOMAIN Enumerators, NEW j \in Documents
    PROVE  EnumNumbers(name, j) # {} <=> j.t = "string" /\ j.s \in Range(Enumerators[name])
<1> DEFINE texts == Enumerators[name]
<1>1. Len(texts) \in Nat /\ DOMAIN texts = 1 .. Len(texts)
  BY ModelsAssumption, LenProperties
<1>2. ASSUME NEW number \in EnumNumbers(name, j)
      PROVE  j.t = "string" /\ j.s \in Range(texts)
  <2>1. number + 1 \in DOMAIN texts /\ j = JsonString(texts[number + 1])
    BY <1>1 DEF EnumNumbers, EnumText
  <2> QED
    BY <2>1 DEF JsonString, Range
<1>3. ASSUME j.t = "string", j.s \in Range(texts)
      PROVE  EnumNumbers(name, j) # {}
  <2>1. PICK n \in DOMAIN texts : j.s = texts[n]
    BY <1>3 DEF Range
  <2>2. j = JsonString(j.s)
    <3>1. IsDocument(j)
      BY DocumentsAssumption
    <3> QED
      BY <1>3, <3>1 DEF IsDocument, JsonNull
  <2>3. n - 1 \in 0 .. Len(texts) - 1 /\ (n - 1) + 1 = n
    BY <1>1
  <2>4. EnumText(name, n - 1) = j
    BY <2>1, <2>2, <2>3 DEF EnumText
  <2> QED
    BY <2>3, <2>4 DEF EnumNumbers
<1> QED
  BY <1>2, <1>3

\* The fields in the schema of a struct.
LEMMA SchemaFacts ==
    ASSUME NEW m \in Models
    PROVE  LET schema == ObjectSchema(project, m)
           IN  /\ \A h \in 1 .. Len(Fields[m]) :
                     ~Fields[m][h].ignored /\ Supported(project)[Fields[m][h].type] =>
                         /\ Fields[m][h].key \in DOMAIN schema.properties
                         /\ schema.properties[Fields[m][h].key] = Fragment[Fields[m][h].type]
                         /\ Fields[m][h].type.kind # "optional" =>
                                   Fields[m][h].key \in schema.required
               /\ \A key \in DOMAIN schema.properties : \E h \in 1 .. Len(Fields[m]) :
                     /\ key = Fields[m][h].key /\ ~Fields[m][h].ignored
                     /\ Supported(project)[Fields[m][h].type]
                     /\ schema.properties[key] = Fragment[Fields[m][h].type]
               /\ \A key \in schema.required : \E h \in 1 .. Len(Fields[m]) :
                     /\ key = Fields[m][h].key /\ ~Fields[m][h].ignored
                     /\ Fields[m][h].type.kind # "optional"
<1> DEFINE schema == ObjectSchema(project, m)
           listed == Listed(project, m)
           required == {field \in listed : field.type.kind # "optional"}
<1>1. /\ schema.properties =
            [key \in {field.key : field \in listed} |-> Fragment[FieldOf(m, key).type]]
      /\ schema.required = {field.key : field \in required}
  BY DEF ObjectSchema, Required
<1>2. \A h \in 1 .. Len(Fields[m]) :
          ~Fields[m][h].ignored /\ Supported(project)[Fields[m][h].type] =>
              Fields[m][h] \in listed /\ FieldOf(m, Fields[m][h].key) = Fields[m][h]
  BY FieldFacts DEF Listed
<1>3. \A field \in listed : \E h \in 1 .. Len(Fields[m]) :
          field = Fields[m][h] /\ ~Fields[m][h].ignored /\ Supported(project)[Fields[m][h].type]
  <2> TAKE field \in listed
  <2>1. field \in Range(Fields[m]) /\ ~field.ignored /\ Supported(project)[field.type]
    BY DEF Listed, Managed
  <2>2. PICK h \in DOMAIN Fields[m] : field = Fields[m][h]
    BY <2>1 DEF Range
  <2>3. h \in 1 .. Len(Fields[m])
    BY FieldFacts
  <2> QED
    BY <2>1, <2>2, <2>3
<1> HIDE DEF schema, listed
<1>4. \A h \in 1 .. Len(Fields[m]) :
          ~Fields[m][h].ignored /\ Supported(project)[Fields[m][h].type] =>
              /\ Fields[m][h].key \in DOMAIN schema.properties
              /\ schema.properties[Fields[m][h].key] = Fragment[Fields[m][h].type]
              /\ Fields[m][h].type.kind # "optional" => Fields[m][h].key \in schema.required
  BY <1>1, <1>2
<1>5. \A key \in DOMAIN schema.properties : \E h \in 1 .. Len(Fields[m]) :
          /\ key = Fields[m][h].key /\ ~Fields[m][h].ignored
          /\ Supported(project)[Fields[m][h].type]
          /\ schema.properties[key] = Fragment[Fields[m][h].type]
  <2> TAKE key \in DOMAIN schema.properties
  <2>1. PICK field \in listed : key = field.key
    BY <1>1
  <2>2. PICK h \in 1 .. Len(Fields[m]) :
            field = Fields[m][h] /\ ~Fields[m][h].ignored /\ Supported(project)[Fields[m][h].type]
    BY <1>3
  <2> QED
    BY <1>4, <2>1, <2>2
<1>6. \A key \in schema.required : \E h \in 1 .. Len(Fields[m]) :
          /\ key = Fields[m][h].key /\ ~Fields[m][h].ignored
          /\ Fields[m][h].type.kind # "optional"
  BY <1>1, <1>3
<1> QED
  BY <1>4, <1>5, <1>6 DEF schema

\* A member that is not contested, of a field that is read from it.
Undisputed(contested, field, member) ==
    /\ Omittable(field) => member.t # "null" /\ ~contested[Inner(field.type)][member]
    /\ ~Omittable(field) /\ field.type.kind # "enum" => ~contested[field.type][member]

\* What is read of one field is valid.
LEMMA MemberSound ==
    ASSUME NEW read, NEW contested, NEW validates, NEW below, LevelUp(validates, below),
           Sound(read, contested, validates), Sound(read, contested, below), Independent(read),
           NEW field, field.type \in Types, NEW member \in Documents,
           NEW old \in Objects[field.type],
           Supported(project)[field.type], Undisputed(contested, field, member),
           ReadMember(read, field, member, old).ok
    PROVE  validates[Fragment[field.type]][member]
<1> DEFINE type == field.type
           inner == Inner(type)
           fragment == Fragment[type]
<1>1. CASE type.kind = "enum"
  <2>1. ReadMember(read, field, member, old) =
            IF EnumNumbers(type.of, member) = {} THEN Threw(old)
            ELSE Read(TRUE, EnumNumber(type.of, member))
    BY <1>1 DEF ReadMember, Omittable
  <2>2. EnumNumbers(type.of, member) # {}
    BY <2>1 DEF Threw, Read
  <2>3. type.of \in DOMAIN Enumerators
    BY <1>1, TypeFacts
  <2>4. Valid(Schema(project).defs, below, fragment, member)
    BY <1>1, <2>2, <2>3, EnumAgrees, ValidEnum
  <2> QED
    BY <2>4 DEF LevelUp
<1>2. CASE Omittable(field)
  <2>1. type.kind = "optional" /\ type.kind # "enum"
    BY <1>2 DEF Omittable
  <2> DEFINE contained == read[inner][member][Fresh[inner]]
  <2>2. ReadMember(read, field, member, old) =
            IF contained.ok THEN Read(TRUE, <<contained.value>>) ELSE Threw(old)
    BY <1>2, <2>1 DEF ReadMember, Omittable
  <2>3. contained.ok
    <3> HIDE DEF contained
    <3> QED
      BY <2>2 DEF Threw, Read
  <2>4. inner \in Types /\ Supported(project)[inner]
    BY <2>1, TypeFacts, SupportedAt DEF Containers
  <2>5. ~contested[inner][member]
    BY <1>2 DEF Undisputed
  <2>6. below[Fragment[inner]][member]
    BY <2>3, <2>4, <2>5 DEF Sound
  <2>7. Valid(Schema(project).defs, below, fragment, member)
    BY <2>1, <2>6, ValidOptional
  <2> QED
    BY <2>7 DEF LevelUp
<1>3. CASE type.kind # "enum" /\ ~Omittable(field)
  <2>1. ReadMember(read, field, member, old) = read[type][member][old]
    BY <1>3 DEF ReadMember, Omittable
  <2>2. Fresh[type] \in Objects[type]
    BY ObjectsAssumption
  <2>3. read[type][member][Fresh[type]].ok
    BY <2>1, <2>2 DEF Independent, Unaffected
  <2>4. ~contested[type][member]
    BY <1>3 DEF Undisputed
  <2> QED
    BY <2>3, <2>4 DEF Sound
<1> QED
  BY <1>1, <1>2, <1>3

\* What is valid for one field is read.
LEMMA MemberComplete ==
    ASSUME NEW read, NEW contested, NEW validates, NEW below, LevelDown(validates, below),
           Complete(read, contested, validates), Complete(read, contested, below),
           Independent(read),
           NEW field, field.type \in Types, NEW member \in Documents,
           NEW old \in Objects[field.type],
           Supported(project)[field.type], Undisputed(contested, field, member),
           validates[Fragment[field.type]][member]
    PROVE  ReadMember(read, field, member, old).ok
<1> DEFINE type == field.type
           inner == Inner(type)
           fragment == Fragment[type]
<1>1. Valid(Schema(project).defs, below, fragment, member)
  BY DEF LevelDown
<1>2. CASE type.kind = "enum"
  <2>1. ReadMember(read, field, member, old) =
            IF EnumNumbers(type.of, member) = {} THEN Threw(old)
            ELSE Read(TRUE, EnumNumber(type.of, member))
    BY <1>2 DEF ReadMember, Omittable
  <2>2. type.of \in DOMAIN Enumerators
    BY <1>2, TypeFacts
  <2>3. EnumNumbers(type.of, member) # {}
    BY <1>1, <1>2, <2>2, EnumAgrees, ValidEnum
  <2> QED
    BY <2>1, <2>3 DEF Read
<1>3. CASE Omittable(field)
  <2>1. type.kind = "optional" /\ type.kind # "enum"
    BY <1>3 DEF Omittable
  <2> DEFINE contained == read[inner][member][Fresh[inner]]
  <2>2. ReadMember(read, field, member, old) =
            IF contained.ok THEN Read(TRUE, <<contained.value>>) ELSE Threw(old)
    BY <1>3, <2>1 DEF ReadMember, Omittable
  <2>3. inner \in Types /\ Supported(project)[inner]
    BY <2>1, TypeFacts, SupportedAt DEF Containers
  <2>4. member.t # "null" /\ ~contested[inner][member]
    BY <1>3 DEF Undisputed
  <2>5. below[Fragment[inner]][member]
    BY <1>1, <2>1, <2>4, ValidOptional
  <2>6. contained.ok
    BY <2>3, <2>4, <2>5 DEF Complete
  <2> HIDE DEF contained
  <2> QED
    BY <2>2, <2>6 DEF Read
<1>4. CASE type.kind # "enum" /\ ~Omittable(field)
  <2>1. ReadMember(read, field, member, old) = read[type][member][old]
    BY <1>4 DEF ReadMember, Omittable
  <2>2. Fresh[type] \in Objects[type]
    BY ObjectsAssumption
  <2>3. ~contested[type][member]
    BY <1>4 DEF Undisputed
  <2>4. read[type][member][Fresh[type]].ok
    BY <2>3 DEF Complete
  <2> QED
    BY <2>1, <2>2, <2>4 DEF Independent, Unaffected
<1> QED
  BY <1>2, <1>3, <1>4

\* What it takes for an object not to be contested.
LEMMA UncontestedFields ==
    ASSUME NEW contested, NEW m \in Models, NEW j, j.t = "object",
           ~ContestedObject(contested, m, j), NEW h \in 1 .. Len(Fields[m]), ~Fields[m][h].ignored
    PROVE  LET field == Fields[m][h]
           IN  /\ Supported(project)[field.type]
               /\ ~Contains(j, field.key) => (field.type.kind = "optional" => Omittable(field))
               /\ Contains(j, field.key) => Undisputed(contested, field, j.members[field.key])
<1>1. Fields[m][h] \in Managed(m)
  BY FieldFacts
<1>2. ASSUME NEW field \in Managed(m)
      PROVE  /\ Supported(project)[field.type]
             /\ ~Contains(j, field.key) => (field.type.kind = "optional" => Omittable(field))
             /\ Contains(j, field.key) => Undisputed(contested, field, j.members[field.key])
  <2>1. /\ Supported(project)[field.type]
        /\ ~(/\ field.key \notin DOMAIN j.members
             /\ field.type.kind = "optional" /\ ~field.omitEmpty)
        /\ ~(/\ field.key \in DOMAIN j.members
             /\ Omittable(field)
             /\ \/ j.members[field.key].t = "null"
                \/ contested[Inner(field.type)][j.members[field.key]])
        /\ ~(/\ field.key \in DOMAIN j.members
             /\ ~Omittable(field) /\ field.type.kind # "enum"
             /\ contested[field.type][j.members[field.key]])
    BY DEF ContestedObject
  <2>2. Contains(j, field.key) <=> field.key \in DOMAIN j.members
    BY DEF Contains
  <2>3. ~Contains(j, field.key) => (field.type.kind = "optional" => Omittable(field))
    BY <2>1, <2>2 DEF Omittable
  <2>4. Contains(j, field.key) => Undisputed(contested, field, j.members[field.key])
    BY <2>1, <2>2 DEF Undisputed
  <2> QED
    BY <2>1, <2>3, <2>4
<1> QED
  BY <1>1, <1>2

\* The properties and the required keys of a struct.
ListedAs(m, schema) ==
    /\ \A h \in 1 .. Len(Fields[m]) :
          ~Fields[m][h].ignored /\ Supported(project)[Fields[m][h].type] =>
              /\ Fields[m][h].key \in DOMAIN schema.properties
              /\ schema.properties[Fields[m][h].key] = Fragment[Fields[m][h].type]
              /\ Fields[m][h].type.kind # "optional" => Fields[m][h].key \in schema.required
    /\ \A key \in DOMAIN schema.properties : \E h \in 1 .. Len(Fields[m]) :
          /\ key = Fields[m][h].key /\ ~Fields[m][h].ignored
          /\ Supported(project)[Fields[m][h].type]
          /\ schema.properties[key] = Fragment[Fields[m][h].type]
    /\ \A key \in schema.required : \E h \in 1 .. Len(Fields[m]) :
          /\ key = Fields[m][h].key /\ ~Fields[m][h].ignored
          /\ Fields[m][h].type.kind # "optional"

\* The schema of a struct lists its supported fields.
LEMMA StructListed ==
    ASSUME NEW m \in Models
    PROVE  ListedAs(m, ObjectSchema(project, m))
BY SchemaFacts DEF ListedAs

\* A document that from_json takes is valid.
LEMMA StructSound ==
    ASSUME NEW read, NEW contested, NEW validates, NEW below, LevelUp(validates, below),
           Sound(read, contested, validates), Sound(read, contested, below), Independent(read),
           NEW m \in Models, NEW j \in Documents, NEW old \in Objects[Object(m)],
           ~ContestedObject(contested, m, j), ReadFields(read, m, j, old)[Len(Fields[m])].ok
    PROVE  ValidObject(validates, ObjectSchema(project, m), j)
<1> DEFINE accepts(h) == Accepts(read, j, Fields[m][h], old)
<1>1. \A h \in 1 .. Len(Fields[m]) : accepts(h)
  <2>1. AllRead(read, m, j, old)
    BY StructRead
  <2> QED
    BY <2>1 DEF AllRead
<1>2. j.t = "object"
  <2> SUFFICES ASSUME j.t # "object" PROVE FALSE
    OBVIOUS
  <2>1. PICK field \in Managed(m) : ~Omittable(field)
    BY DEF ContestedObject
  <2>2. field \in Range(Fields[m]) /\ ~field.ignored
    BY <2>1 DEF Managed
  <2>3. PICK h \in 1 .. Len(Fields[m]) : field = Fields[m][h]
    BY <2>2, FieldFacts
  <2>4. Accepts(read, j, field, old)
    BY <1>1, <2>3
  <2> QED
    BY <2>1, <2>2, <2>4 DEF Accepts, Contains
<1> DEFINE schema == ObjectSchema(project, m)
<1>3. ListedAs(m, schema)
  BY StructListed
<1>4. ASSUME NEW key \in schema.required PROVE key \in DOMAIN j.members
  <2>1. PICK h \in 1 .. Len(Fields[m]) :
            key = Fields[m][h].key /\ ~Fields[m][h].ignored /\ Fields[m][h].type.kind # "optional"
    BY <1>3 DEF ListedAs
  <2>2. Accepts(read, j, Fields[m][h], old)
    BY <1>1
  <2>3. ~Omittable(Fields[m][h])
    BY <2>1 DEF Omittable
  <2> QED
    BY <2>1, <2>2, <2>3 DEF Accepts, Contains
<1>5. ASSUME NEW key \in DOMAIN schema.properties \cap DOMAIN j.members
      PROVE  validates[schema.properties[key]][j.members[key]]
  <2>1. PICK h \in 1 .. Len(Fields[m]) :
            /\ key = Fields[m][h].key /\ ~Fields[m][h].ignored
            /\ Supported(project)[Fields[m][h].type]
            /\ schema.properties[key] = Fragment[Fields[m][h].type]
    BY <1>3 DEF ListedAs
  <2>2. PICK field : field = Fields[m][h]
    OBVIOUS
  <2>3. Contains(j, key)
    BY <1>2 DEF Contains
  <2>4. PICK member \in Documents : member = j.members[key]
    BY <2>3, MemberIsDocument
  <2>5. PICK was \in Objects[field.type] : was = old[field.name]
    BY <2>2, StructFacts
  <2>6. ReadMember(read, field, member, was).ok
    <3>1. Accepts(read, j, field, old) /\ ~field.ignored /\ Contains(j, field.key)
      BY <1>1, <2>1, <2>2, <2>3
    <3> QED
      BY <2>1, <2>2, <2>4, <2>5, <3>1 DEF Accepts
  <2>7. Undisputed(contested, field, member)
    BY <1>2, <2>1, <2>2, <2>3, <2>4, UncontestedFields
  <2>8. field.type \in Types /\ Supported(project)[field.type]
    BY <2>1, <2>2, FieldFacts
  <2>9. validates[Fragment[field.type]][member]
    BY <2>6, <2>7, <2>8, MemberSound
  <2> QED
    BY <2>1, <2>2, <2>4, <2>9
<1> HIDE DEF schema
<1>6. ValidObject(validates, schema, j)
  BY <1>2, <1>4, <1>5 DEF ValidObject
<1> QED
  BY <1>6 DEF schema

\* A valid document is one that from_json takes.
LEMMA StructComplete ==
    ASSUME NEW read, NEW contested, NEW validates, NEW below, LevelDown(validates, below),
           Complete(read, contested, validates), Complete(read, contested, below),
           Independent(read),
           NEW m \in Models, NEW j \in Documents, NEW old \in Objects[Object(m)],
           ~ContestedObject(contested, m, j), ValidObject(validates, ObjectSchema(project, m), j)
    PROVE  ReadFields(read, m, j, old)[Len(Fields[m])].ok
<1> DEFINE schema == ObjectSchema(project, m)
<1>1. ListedAs(m, schema)
  BY StructListed
<1>2. /\ j.t = "object" /\ schema.required \subseteq DOMAIN j.members
      /\ \A key \in DOMAIN schema.properties \cap DOMAIN j.members :
            validates[schema.properties[key]][j.members[key]]
  BY DEF ValidObject
<1> HIDE DEF schema
<1>3. ASSUME NEW h \in 1 .. Len(Fields[m])
      PROVE  Accepts(read, j, Fields[m][h], old)
  <2>1. PICK field : field = Fields[m][h]
    OBVIOUS
  <2>2. CASE field.ignored
    BY <2>1, <2>2 DEF Accepts
  <2>3. CASE ~field.ignored /\ ~Contains(j, field.key)
    <3>1. /\ Supported(project)[field.type]
          /\ field.type.kind = "optional" => Omittable(field)
      BY <1>2, <2>1, <2>3, UncontestedFields
    <3>2. field.type.kind = "optional"
      BY <1>1, <1>2, <2>1, <2>3, <3>1 DEF ListedAs, Contains
    <3> QED
      BY <2>1, <2>3, <3>1, <3>2 DEF Accepts
  <2>4. CASE ~field.ignored /\ Contains(j, field.key)
    <3>1. PICK member \in Documents : member = j.members[field.key]
      BY <2>4, MemberIsDocument
    <3>2. PICK was \in Objects[field.type] : was = old[field.name]
      BY <2>1, StructFacts
    <3>3. Supported(project)[field.type] /\ Undisputed(contested, field, member)
      BY <1>2, <2>1, <2>4, <3>1, UncontestedFields
    <3>4. field.key \in DOMAIN j.members
      BY <2>4 DEF Contains
    <3>5. /\ field.key \in DOMAIN schema.properties
          /\ schema.properties[field.key] = Fragment[field.type]
      BY <1>1, <2>1, <2>4, <3>3 DEF ListedAs
    <3>6. validates[Fragment[field.type]][member]
      BY <1>2, <3>1, <3>4, <3>5
    <3>7. field.type \in Types
      BY <2>1, FieldFacts
    <3>8. ReadMember(read, field, member, was).ok
      BY <3>3, <3>6, <3>7, MemberComplete
    <3> QED
      BY <2>1, <2>4, <3>1, <3>2, <3>8 DEF Accepts
  <2> QED
    BY <2>2, <2>3, <2>4
<1>4. ReadSoFar(read, m, j, old, Len(Fields[m]))
  <2>1. Object(m) \in Types /\ Object(m).kind = "object" /\ Object(m).of = m
    BY StructFacts
  <2>2. IsValue(Object(m), old)
    BY <2>1, ObjectsAssumption
  <2>3. DOMAIN old = Members(m) /\ old = [name \in Members(m) |-> old[name]]
    BY <2>1, <2>2, StructFacts DEF IsValue
  <2>4. Len(Fields[m]) \in 0 .. Len(Fields[m])
    <3>1. PICK size \in Nat : size = Len(Fields[m])
      BY FieldFacts
    <3> QED
      BY <3>1
  <2> QED
    BY <2>3, <2>4, FieldsRead
<1> QED
  BY <1>3, <1>4 DEF ReadSoFar

\* The elements and members of a document are documents.
LEMMA PartsAreDocuments ==
    ASSUME NEW j \in Documents
    PROVE  /\ j.t = "array" => /\ Len(j.items) \in Nat /\ DOMAIN j.items = 1 .. Len(j.items)
                               /\ \A n \in DOMAIN j.items : j.items[n] \in Documents
           /\ j.t = "object" => \A key \in DOMAIN j.members : j.members[key] \in Documents
<1>1. IsDocument(j)
  BY DocumentsAssumption
<1>2. ASSUME j.t = "array"
      PROVE  /\ Len(j.items) \in Nat /\ DOMAIN j.items = 1 .. Len(j.items)
             /\ \A n \in DOMAIN j.items : j.items[n] \in Documents
  <2>1. j.items \in Seq(Documents)
    BY <1>1, <1>2 DEF IsDocument, JsonNull
  <2> QED
    BY <2>1, LenProperties, ElementOfSeq
<1>3. ASSUME j.t = "object", NEW key \in DOMAIN j.members
      PROVE  j.members[key] \in Documents
  BY <1>3, MemberIsDocument DEF Contains
<1> QED
  BY <1>2, <1>3

\* One level of the reader is as one level of the schema.
LEMMA LevelSound ==
    ASSUME NEW read, NEW contested, NEW validates, NEW below, LevelUp(validates, below),
           Sound(read, contested, validates), Sound(read, contested, below), Independent(read),
           NEW type \in Types, NEW j \in Documents, Supported(project)[type],
           ~ContestedPart(contested, type, j), Reading(read, type, j, Fresh[type]).ok
    PROVE  Valid(Schema(project).defs, validates, Fragment[type], j)
<1> DEFINE inner == Inner(type)
           get(element) == read[inner][element][Fresh[inner]]
           valid == Valid(Schema(project).defs, validates, Fragment[type], j)
<1>1. type.kind \in Containers => inner \in Types /\ Supported(project)[inner]
  BY TypeFacts, SupportedAt
<1>2. ASSUME type.kind \in Containers, NEW element \in Documents, get(element).ok,
             ~contested[inner][element]
      PROVE  validates[Fragment[inner]][element]
  BY <1>1, <1>2 DEF Sound
<1>3. CASE type.kind \in ScalarKinds
  <2>1. Takes(type, j)
    <3>1. Reading(read, type, j, Fresh[type]) =
              IF Takes(type, j) THEN Read(TRUE, Converted(type, j))
              ELSE Threw(Fresh[type])
      BY <1>3 DEF Reading, ScalarKinds, ArithmeticKinds, IntegerKinds
    <3> QED
      BY <3>1 DEF Threw, Read
  <2>2. /\ type.kind \in IntegerKinds => ~HasFraction(j)
        /\ type.kind \in ArithmeticKinds => type.of \in Wide \/ j.t # "bool"
    BY <1>3 DEF ContestedPart, ScalarKinds, ArithmeticKinds, IntegerKinds
  <2> HIDE DEF valid
  <2>3. /\ type.kind = "bool" => (valid <=> j.t = "bool")
        /\ type.kind \in IntegerKinds => (valid <=> IsNumber(j) /\ ~HasFraction(j))
        /\ type.kind = "float" => (valid <=> IsNumber(j))
        /\ type.kind = "string" => (valid <=> j.t = "string")
    BY ValidScalar DEF valid
  <2>4. valid
    BY <1>3, <2>1, <2>2, <2>3 DEF Takes, ScalarKinds, ArithmeticKinds
  <2> QED
    BY <2>4 DEF valid
<1>4. CASE type.kind = "enum"
  <2>1. IsNumber(j)
    <3>1. Reading(read, type, j, Fresh[type]) =
              IF IsNumber(j) THEN Read(TRUE, Cast(type.of, j)) ELSE Threw(Fresh[type])
      BY <1>4 DEF Reading, ScalarKinds, ArithmeticKinds, IntegerKinds
    <3> QED
      BY <3>1 DEF Threw, Read
  <2>2. ~(IsNumber(j) \/ j.t = "string")
    BY <1>4 DEF ContestedPart, ScalarKinds, ArithmeticKinds, IntegerKinds
  <2> QED
    BY <2>1, <2>2
<1>5. CASE type.kind = "optional"
  <2> DEFINE contained == get(j)
  <2>1. Reading(read, type, j, Fresh[type]) =
            IF j.t = "null" THEN Read(TRUE, <<>>)
            ELSE IF contained.ok THEN Read(TRUE, <<contained.value>>)
            ELSE Threw(Fresh[type])
    BY <1>5 DEF Reading, ScalarKinds, ArithmeticKinds, IntegerKinds
  <2>2. j.t = "null" \/ contained.ok
    <3> HIDE DEF contained
    <3> QED
      BY <2>1 DEF Threw, Read
  <2>3. j.t # "null" => ~contested[inner][j]
    BY <1>5 DEF ContestedPart, ScalarKinds, ArithmeticKinds, IntegerKinds
  <2>4. j.t = "null" \/ validates[Fragment[inner]][j]
    BY <1>2, <1>5, <2>2, <2>3 DEF Containers
  <2> QED
    BY <1>5, <2>4, ValidOptional
<1>6. CASE type.kind = "vector"
  <2> DEFINE good == j.t = "array" /\ \A n \in DOMAIN j.items : get(j.items[n]).ok
             items == [n \in DOMAIN j.items |-> get(j.items[n]).value]
  <2>1. Reading(read, type, j, Fresh[type]) =
            IF good THEN Read(TRUE, items) ELSE Threw(Fresh[type])
    BY <1>6 DEF Reading, ScalarKinds, ArithmeticKinds, IntegerKinds
  <2>2. good
    <3> HIDE DEF good, items
    <3> QED
      BY <2>1 DEF Threw, Read
  <2>3. \A n \in DOMAIN j.items : ~contested[inner][j.items[n]]
    BY <1>6, <2>2 DEF ContestedPart, ScalarKinds, ArithmeticKinds, IntegerKinds
  <2>4. \A n \in DOMAIN j.items : validates[Fragment[inner]][j.items[n]]
    BY <1>2, <1>6, <2>2, <2>3, PartsAreDocuments DEF Containers
  <2> QED
    BY <1>6, <2>2, <2>4, ValidVector
<1>7. CASE type.kind = "map"
  <2> DEFINE good == j.t = "object" /\ \A key \in DOMAIN j.members : get(j.members[key]).ok
             members == [key \in DOMAIN j.members |-> get(j.members[key]).value]
  <2>1. Reading(read, type, j, Fresh[type]) =
            IF good THEN Read(TRUE, members) ELSE Threw(Fresh[type])
    BY <1>7 DEF Reading, ScalarKinds, ArithmeticKinds, IntegerKinds
  <2>2. good
    <3> HIDE DEF good, members
    <3> QED
      BY <2>1 DEF Threw, Read
  <2>3. \A key \in DOMAIN j.members : ~contested[inner][j.members[key]]
    BY <1>7, <2>2 DEF ContestedPart, ScalarKinds, ArithmeticKinds, IntegerKinds
  <2>4. \A key \in DOMAIN j.members : validates[Fragment[inner]][j.members[key]]
    BY <1>2, <1>7, <2>2, <2>3, PartsAreDocuments DEF Containers
  <2> QED
    BY <1>7, <2>2, <2>4, ValidMap
<1>8. CASE type.kind = "array"
  <2> DEFINE missing == {n \in 1 .. type.extent : n \notin DOMAIN j.items \/ ~get(j.items[n]).ok}
             elements == [n \in 1 .. type.extent |->
                             IF \E m \in missing : m <= n THEN Fresh[type][n]
                             ELSE get(j.items[n]).value]
  <2>1. Reading(read, type, j, Fresh[type]) =
            IF j.t # "array" THEN Threw(Fresh[type]) ELSE Read(missing = {}, elements)
    BY <1>8 DEF Reading, ScalarKinds, ArithmeticKinds, IntegerKinds
  <2>2. j.t = "array" /\ missing = {}
    <3> HIDE DEF missing, elements
    <3>1. CASE j.t # "array"
      BY <2>1, <3>1 DEF Threw, Read
    <3>2. CASE j.t = "array" /\ missing # {}
      <4>1. Reading(read, type, j, Fresh[type]) = Read(FALSE, elements)
        BY <2>1, <3>2
      <4> QED
        BY <4>1 DEF Read
    <3> QED
      BY <3>1, <3>2
  <2>3. ~(Len(j.items) > type.extent) /\ \A n \in DOMAIN j.items : ~contested[inner][j.items[n]]
    BY <1>8, <2>2 DEF ContestedPart, ScalarKinds, ArithmeticKinds, IntegerKinds
  <2>4. \A n \in 1 .. type.extent : n \in DOMAIN j.items /\ get(j.items[n]).ok
    BY <2>2
  <2>5. /\ Len(j.items) \in Nat /\ DOMAIN j.items = 1 .. Len(j.items) /\ type.extent \in Nat
        /\ \A n \in DOMAIN j.items : j.items[n] \in Documents
    BY <1>8, <2>2, PartsAreDocuments, TypeFacts DEF Containers
  <2>6. Len(j.items) = type.extent
    <3>1. type.extent = 0 \/ type.extent \in DOMAIN j.items
      BY <2>4, <2>5
    <3> QED
      BY <2>3, <2>5, <3>1
  <2>7. \A n \in DOMAIN j.items : validates[Fragment[inner]][j.items[n]]
    <3> TAKE n \in DOMAIN j.items
    <3>1. get(j.items[n]).ok
      BY <2>4, <2>5, <2>6
    <3> QED
      BY <1>2, <1>8, <2>3, <2>5, <3>1 DEF Containers
  <2> QED
    BY <1>8, <2>2, <2>6, <2>7, ValidArray
<1>9. CASE type.kind = "object"
  <2>1. type.of \in Models /\ type = Object(type.of) /\ Fresh[type] \in Objects[type]
    BY <1>9, TypeFacts, ObjectsAssumption
  <2>2. PICK old \in Objects[Object(type.of)] : old = Fresh[type]
    BY <2>1
  <2>3. ReadFields(read, type.of, j, old)[Len(Fields[type.of])].ok
    BY <1>9, <2>2 DEF Reading, ScalarKinds, ArithmeticKinds, IntegerKinds
  <2>4. Defined(type.of) /\ ~ContestedObject(contested, type.of, j)
    BY <1>9 DEF ContestedPart, ScalarKinds, ArithmeticKinds, IntegerKinds
  <2>5. ValidObject(validates, ObjectSchema(project, type.of), j)
    BY <2>1, <2>3, <2>4, StructSound
  <2> QED
    BY <1>9, <2>4, <2>5, ValidStruct
<1> QED
  BY <1>3, <1>4, <1>5, <1>6, <1>7, <1>8, <1>9, TypeFacts DEF Containers

\* And the other way around.
LEMMA LevelComplete ==
    ASSUME NEW read, NEW contested, NEW validates, NEW below, LevelDown(validates, below),
           Complete(read, contested, validates), Complete(read, contested, below),
           Independent(read),
           NEW type \in Types, NEW j \in Documents, Supported(project)[type],
           ~ContestedPart(contested, type, j),
           Valid(Schema(project).defs, validates, Fragment[type], j)
    PROVE  Reading(read, type, j, Fresh[type]).ok
<1> DEFINE inner == Inner(type)
           get(element) == read[inner][element][Fresh[inner]]
           valid == Valid(Schema(project).defs, validates, Fragment[type], j)
<1>1. type.kind \in Containers => inner \in Types /\ Supported(project)[inner]
  BY TypeFacts, SupportedAt
<1>2. ASSUME type.kind \in Containers, NEW element \in Documents,
             validates[Fragment[inner]][element], ~contested[inner][element]
      PROVE  get(element).ok
  BY <1>1, <1>2 DEF Complete
<1>3. CASE type.kind \in ScalarKinds
  <2> HIDE DEF valid
  <2>1. /\ type.kind = "bool" => (valid <=> j.t = "bool")
        /\ type.kind \in IntegerKinds => (valid <=> IsNumber(j) /\ ~HasFraction(j))
        /\ type.kind = "float" => (valid <=> IsNumber(j))
        /\ type.kind = "string" => (valid <=> j.t = "string")
    BY ValidScalar DEF valid
  <2>2. valid
    BY DEF valid
  <2>3. Takes(type, j)
    BY <1>3, <2>1, <2>2 DEF Takes, ScalarKinds, ArithmeticKinds
  <2>4. Reading(read, type, j, Fresh[type]) = Read(TRUE, Converted(type, j))
    BY <1>3, <2>3 DEF Reading, ScalarKinds, ArithmeticKinds, IntegerKinds
  <2> QED
    BY <2>4 DEF Read
<1>4. CASE type.kind = "enum"
  <2>1. ~(IsNumber(j) \/ j.t = "string")
    BY <1>4 DEF ContestedPart, ScalarKinds, ArithmeticKinds, IntegerKinds
  <2> QED
    BY <1>4, <2>1, ValidEnum
<1>5. CASE type.kind = "optional"
  <2> DEFINE contained == get(j)
  <2>1. Reading(read, type, j, Fresh[type]) =
            IF j.t = "null" THEN Read(TRUE, <<>>)
            ELSE IF contained.ok THEN Read(TRUE, <<contained.value>>)
            ELSE Threw(Fresh[type])
    BY <1>5 DEF Reading, ScalarKinds, ArithmeticKinds, IntegerKinds
  <2>2. j.t = "null" \/ validates[Fragment[inner]][j]
    BY <1>5, ValidOptional
  <2>3. j.t # "null" => ~contested[inner][j]
    BY <1>5 DEF ContestedPart, ScalarKinds, ArithmeticKinds, IntegerKinds
  <2>4. j.t = "null" \/ contained.ok
    BY <1>2, <1>5, <2>2, <2>3 DEF Containers
  <2> HIDE DEF contained
  <2> QED
    BY <2>1, <2>4 DEF Read
<1>6. CASE type.kind = "vector"
  <2> DEFINE good == j.t = "array" /\ \A n \in DOMAIN j.items : get(j.items[n]).ok
             items == [n \in DOMAIN j.items |-> get(j.items[n]).value]
  <2>1. Reading(read, type, j, Fresh[type]) =
            IF good THEN Read(TRUE, items) ELSE Threw(Fresh[type])
    BY <1>6 DEF Reading, ScalarKinds, ArithmeticKinds, IntegerKinds
  <2>2. j.t = "array" /\ \A n \in DOMAIN j.items : validates[Fragment[inner]][j.items[n]]
    BY <1>6, ValidVector
  <2>3. \A n \in DOMAIN j.items : ~contested[inner][j.items[n]]
    BY <1>6, <2>2 DEF ContestedPart, ScalarKinds, ArithmeticKinds, IntegerKinds
  <2>4. good
    BY <1>2, <1>6, <2>2, <2>3, PartsAreDocuments DEF Containers
  <2> HIDE DEF good, items
  <2> QED
    BY <2>1, <2>4 DEF Read
<1>7. CASE type.kind = "map"
  <2> DEFINE good == j.t = "object" /\ \A key \in DOMAIN j.members : get(j.members[key]).ok
             members == [key \in DOMAIN j.members |-> get(j.members[key]).value]
  <2>1. Reading(read, type, j, Fresh[type]) =
            IF good THEN Read(TRUE, members) ELSE Threw(Fresh[type])
    BY <1>7 DEF Reading, ScalarKinds, ArithmeticKinds, IntegerKinds
  <2>2. j.t = "object" /\ \A key \in DOMAIN j.members : validates[Fragment[inner]][j.members[key]]
    BY <1>7, ValidMap
  <2>3. \A key \in DOMAIN j.members : ~contested[inner][j.members[key]]
    BY <1>7, <2>2 DEF ContestedPart, ScalarKinds, ArithmeticKinds, IntegerKinds
  <2>4. good
    BY <1>2, <1>7, <2>2, <2>3, PartsAreDocuments DEF Containers
  <2> HIDE DEF good, members
  <2> QED
    BY <2>1, <2>4 DEF Read
<1>8. CASE type.kind = "array"
  <2> DEFINE missing == {n \in 1 .. type.extent : n \notin DOMAIN j.items \/ ~get(j.items[n]).ok}
             elements == [n \in 1 .. type.extent |->
                             IF \E m \in missing : m <= n THEN Fresh[type][n]
                             ELSE get(j.items[n]).value]
  <2>1. Reading(read, type, j, Fresh[type]) =
            IF j.t # "array" THEN Threw(Fresh[type]) ELSE Read(missing = {}, elements)
    BY <1>8 DEF Reading, ScalarKinds, ArithmeticKinds, IntegerKinds
  <2>2. /\ j.t = "array" /\ Len(j.items) = type.extent
        /\ \A n \in DOMAIN j.items : validates[Fragment[inner]][j.items[n]]
    BY <1>8, ValidArray
  <2>3. \A n \in DOMAIN j.items : ~contested[inner][j.items[n]]
    BY <1>8, <2>2 DEF ContestedPart, ScalarKinds, ArithmeticKinds, IntegerKinds
  <2>4. \A n \in DOMAIN j.items : get(j.items[n]).ok
    BY <1>2, <1>8, <2>2, <2>3, PartsAreDocuments DEF Containers
  <2>5. DOMAIN j.items = 1 .. type.extent
    BY <2>2, PartsAreDocuments
  <2>6. missing = {}
    BY <2>4, <2>5
  <2> HIDE DEF missing, elements
  <2>7. Reading(read, type, j, Fresh[type]) = Read(TRUE, elements)
    BY <2>1, <2>2, <2>6
  <2> QED
    BY <2>7 DEF Read
<1>9. CASE type.kind = "object"
  <2>1. type.of \in Models /\ type = Object(type.of) /\ Fresh[type] \in Objects[type]
    BY <1>9, TypeFacts, ObjectsAssumption
  <2>2. PICK old \in Objects[Object(type.of)] : old = Fresh[type]
    BY <2>1
  <2>3. Defined(type.of) /\ ~ContestedObject(contested, type.of, j)
    BY <1>9 DEF ContestedPart, ScalarKinds, ArithmeticKinds, IntegerKinds
  <2>4. ValidObject(validates, ObjectSchema(project, type.of), j)
    BY <1>9, <2>3, ValidStruct
  <2>5. ReadFields(read, type.of, j, old)[Len(Fields[type.of])].ok
    BY <2>1, <2>3, <2>4, StructComplete
  <2> QED
    BY <1>9, <2>2, <2>5 DEF Reading, ScalarKinds, ArithmeticKinds, IntegerKinds
<1> QED
  BY <1>3, <1>4, <1>5, <1>6, <1>7, <1>8, <1>9, TypeFacts DEF Containers

\* The levels of Validates.
LEMMA OneLevel ==
    ASSUME NEW level \in 1 .. 2 * Depth
    PROVE  LevelUp(Validates[level], Validates[level - 1])
           /\ LevelDown(Validates[level], Validates[level - 1])
BY ValidatesAt DEF LevelUp, LevelDown

\* Nothing is valid without a level.
LEMMA NothingValid ==
    ASSUME NEW read, NEW contested, NEW below
    PROVE  Complete(read, contested, Validates[0]) /\ LevelDown(Validates[0], below)
BY NotValidYet DEF Complete, LevelDown

\* What is read with n levels is valid with twice as many.
SoundBeyond(read, contested, n) ==
    \A level \in 2 * n .. 2 * Depth : Sound(read, contested, Validates[level])

\* SoundBeyond holds at every level of reading.
LEMMA AllSound ==
    ASSUME NEW n \in 0 .. Depth
    PROVE  SoundBeyond(ReadInto[n], Contested[n], n)
<1> DEFINE Claim(x) == SoundBeyond(ReadInto[x], Contested[x], x)
           Claims == {x \in 0 .. Depth : Claim(x)}
<1>1. PICK bound \in Nat : Depth = bound + 1
  <2>1. Depth \in Nat /\ Depth # 0
    BY ObjectsAssumption
  <2>2. Depth - 1 \in Nat /\ Depth = (Depth - 1) + 1
    BY <2>1
  <2> QED
    BY <2>2
<1>2. Claim(0)
  <2>1. ASSUME NEW type \in Types, NEW j \in Documents
        PROVE  ~ReadInto[0][type][j][Fresh[type]].ok
    BY NothingWithout, ObjectsAssumption
  <2> QED
    BY <2>1 DEF SoundBeyond, Sound
<1>3. ASSUME NEW x \in 0 .. bound, Claim(x) PROVE Claim(x + 1)
  <2>1. x + 1 \in 1 .. Depth /\ (x + 1) - 1 = x /\ x \in 0 .. Depth
    BY <1>1
  <2>2. PICK read : read = ReadInto[x]
    OBVIOUS
  <2>3. PICK contested : contested = Contested[x]
    OBVIOUS
  <2>4. Independent(read)
    BY <2>1, <2>2, AllIndependent
  <2>5. SoundBeyond(read, contested, x)
    BY <1>3, <2>2, <2>3
  <2> SUFFICES ASSUME NEW level \in 2 * (x + 1) .. 2 * Depth,
                      NEW type \in Types, NEW j \in Documents,
                      Supported(project)[type], ~Contested[x + 1][type][j],
                      ReadInto[x + 1][type][j][Fresh[type]].ok
               PROVE  Validates[level][Fragment[type]][j]
    BY DEF SoundBeyond, Sound
  <2>6. /\ level \in 1 .. 2 * Depth /\ level - 1 \in 1 .. 2 * Depth
        /\ level - 1 \in 2 * x .. 2 * Depth /\ (level - 1) - 1 \in 2 * x .. 2 * Depth
    BY <1>1
  <2>7. PICK validates : validates = Validates[level - 1]
    OBVIOUS
  <2>8. PICK below : below = Validates[(level - 1) - 1]
    OBVIOUS
  <2>9. LevelUp(validates, below)
    BY <2>6, <2>7, <2>8, OneLevel
  <2>10. Sound(read, contested, validates) /\ Sound(read, contested, below)
    BY <2>5, <2>6, <2>7, <2>8 DEF SoundBeyond
  <2>11. ~ContestedPart(contested, type, j)
    BY <2>1, <2>3, ContestedAt
  <2>12. Reading(read, type, j, Fresh[type]).ok
    <3>1. Fresh[type] \in Objects[type]
      BY ObjectsAssumption
    <3>2. ReadInto[x + 1][type][j][Fresh[type]] = Reading(ReadInto[x], type, j, Fresh[type])
      BY <2>1, <3>1, ReadAt
    <3> QED
      BY <2>2, <3>2
  <2>13. Valid(Schema(project).defs, validates, Fragment[type], j)
    BY <2>4, <2>9, <2>10, <2>11, <2>12, LevelSound
  <2> QED
    BY <2>6, <2>7, <2>13, ValidatesAt
<1>4. 0 \in Claims /\ \A x \in 0 .. bound : x \in Claims => x + 1 \in Claims
  <2> HIDE DEF Claim
  <2> QED
    BY <1>1, <1>2, <1>3
<1>5. \A x \in 0 .. Depth : x \in Claims
  <2> HIDE DEF Claims
  <2> QED
    BY <1>1, <1>4, Climb
<1> QED
  <2>1. n \in Claims
    BY <1>5
  <2> QED
    BY <2>1

\* What is valid with n levels is read with as many.
CompleteUpTo(read, contested, n) ==
    \A level \in 0 .. n : Complete(read, contested, Validates[level])

\* CompleteUpTo holds at every level of reading.
LEMMA AllComplete ==
    ASSUME NEW n \in 0 .. Depth
    PROVE  CompleteUpTo(ReadInto[n], Contested[n], n)
<1> DEFINE Claim(x) == CompleteUpTo(ReadInto[x], Contested[x], x)
           Claims == {x \in 0 .. Depth : Claim(x)}
<1>1. PICK bound \in Nat : Depth = bound + 1
  <2>1. Depth \in Nat /\ Depth # 0
    BY ObjectsAssumption
  <2>2. Depth - 1 \in Nat /\ Depth = (Depth - 1) + 1
    BY <2>1
  <2> QED
    BY <2>2
<1>2. Claim(0)
  BY NothingValid DEF CompleteUpTo
<1>3. ASSUME NEW x \in 0 .. bound, Claim(x) PROVE Claim(x + 1)
  <2>1. x + 1 \in 1 .. Depth /\ (x + 1) - 1 = x /\ x \in 0 .. Depth
    BY <1>1
  <2>2. PICK read : read = ReadInto[x]
    OBVIOUS
  <2>3. PICK contested : contested = Contested[x]
    OBVIOUS
  <2>4. Independent(read)
    BY <2>1, <2>2, AllIndependent
  <2>5. CompleteUpTo(read, contested, x)
    BY <1>3, <2>2, <2>3
  <2> SUFFICES ASSUME NEW level \in 0 .. x + 1,
                      NEW type \in Types, NEW j \in Documents,
                      Supported(project)[type], ~Contested[x + 1][type][j],
                      Validates[level][Fragment[type]][j]
               PROVE  ReadInto[x + 1][type][j][Fresh[type]].ok
    BY DEF CompleteUpTo, Complete
  <2>6. level # 0
    BY NotValidYet
  <2>7. level \in 1 .. 2 * Depth /\ level - 1 \in 0 .. x
    BY <1>1, <2>6
  <2>8. PICK validates : validates = Validates[level - 1]
    OBVIOUS
  <2>9. PICK below : LevelDown(validates, below) /\ Complete(read, contested, below)
    <3>1. CASE level - 1 = 0
      <4>1. PICK none : none = Validates[0]
        OBVIOUS
      <4>2. LevelDown(none, none) /\ Complete(read, contested, none)
        BY <4>1, NothingValid
      <4> QED
        BY <2>8, <3>1, <4>1, <4>2
    <3>2. CASE level - 1 # 0
      <4>1. level - 1 \in 1 .. 2 * Depth /\ (level - 1) - 1 \in 0 .. x
        BY <1>1, <2>7, <3>2
      <4>2. PICK none : none = Validates[(level - 1) - 1]
        OBVIOUS
      <4>3. LevelDown(validates, none)
        BY <2>8, <4>1, <4>2, OneLevel
      <4>4. Complete(read, contested, none)
        BY <2>5, <4>1, <4>2 DEF CompleteUpTo
      <4> QED
        BY <4>3, <4>4
    <3> QED
      BY <3>1, <3>2
  <2>10. Complete(read, contested, validates)
    BY <2>5, <2>7, <2>8 DEF CompleteUpTo
  <2>11. ~ContestedPart(contested, type, j)
    BY <2>1, <2>3, ContestedAt
  <2>12. Valid(Schema(project).defs, validates, Fragment[type], j)
    BY <2>7, <2>8, ValidatesAt
  <2>13. Reading(read, type, j, Fresh[type]).ok
    BY <2>4, <2>9, <2>10, <2>11, <2>12, LevelComplete
  <2> QED
    <3>1. Fresh[type] \in Objects[type]
      BY ObjectsAssumption
    <3>2. ReadInto[x + 1][type][j][Fresh[type]] = Reading(ReadInto[x], type, j, Fresh[type])
      BY <2>1, <3>1, ReadAt
    <3> QED
      BY <2>2, <2>13, <3>2
<1>4. 0 \in Claims /\ \A x \in 0 .. bound : x \in Claims => x + 1 \in Claims
  <2> HIDE DEF Claim
  <2> QED
    BY <1>1, <1>2, <1>3
<1>5. \A x \in 0 .. Depth : x \in Claims
  <2> HIDE DEF Claims
  <2> QED
    BY <1>1, <1>4, Climb
<1> QED
  <2>1. n \in Claims
    BY <1>5
  <2> QED
    BY <2>1

\* A finished reading agrees with the schema.
LEMMA AgreementFromInvariant == IInv => ReaderAndSchemaAgree
<1> DEFINE valid(n) == ValidObject(Validates[n], ObjectSchema(project, model), doc)
<1> SUFFICES ASSUME IInv, origin = "outside", pc \in {"done", "readThrew"},
                    ~ContestedObject(Contested[Depth - 1], model, doc)
             PROVE  /\ pc = "done" => valid(2 * Depth)
                    /\ valid(Depth - 1) => pc = "done"
  BY DEF ReaderAndSchemaAgree
<1>1. /\ model \in Models /\ given \in Objects[Object(model)] /\ doc \in Documents
      /\ Start = given /\ k \in 1 .. Size + 1
  BY DEF IInv, CallOK, Start
<1>2. PICK n \in 0 .. Depth : n = Depth - 1 /\ Depth \in Nat /\ Depth # 0
  BY LastLevel, ObjectsAssumption
<1>3. PICK read : read = Reader
  OBVIOUS
<1>4. PICK contested : contested = Contested[Depth - 1]
  OBVIOUS
<1>5. read = ReadInto[n] /\ contested = Contested[n]
  BY <1>2, <1>3, <1>4 DEF Reader
<1>6. Independent(read)
  BY <1>5, AllIndependent
<1>7. ~ContestedObject(contested, model, doc)
  BY <1>4
<1>8. ASSUME pc = "done" PROVE valid(2 * Depth)
  <2>1. /\ 2 * Depth \in 1 .. 2 * Depth
        /\ 2 * Depth \in 2 * n .. 2 * Depth /\ 2 * Depth - 1 \in 2 * n .. 2 * Depth
    BY <1>2
  <2>2. PICK validates : validates = Validates[2 * Depth]
    OBVIOUS
  <2>3. PICK below : below = Validates[2 * Depth - 1]
    OBVIOUS
  <2>4. LevelUp(validates, below)
    BY <2>1, <2>2, <2>3, OneLevel
  <2>5. SoundBeyond(read, contested, n)
    BY <1>5, AllSound
  <2>6. Sound(read, contested, validates) /\ Sound(read, contested, below)
    BY <2>1, <2>2, <2>3, <2>5 DEF SoundBeyond
  <2>7. ReadFields(read, model, doc, given)[Len(Fields[model])].ok
    <3>1. Receiving(Size) = Read(TRUE, target)
      BY <1>8 DEF IInv, ReaderOK
    <3> QED
      BY <1>1, <1>3, <3>1 DEF Receiving, Size, Read
  <2>8. ValidObject(validates, ObjectSchema(project, model), doc)
    BY <1>1, <1>6, <1>7, <2>4, <2>6, <2>7, StructSound
  <2> QED
    BY <2>2, <2>8
<1>9. ASSUME valid(Depth - 1) PROVE pc = "done"
  <2>1. PICK validates : validates = Validates[n]
    OBVIOUS
  <2>2. CompleteUpTo(read, contested, n)
    BY <1>5, AllComplete
  <2>3. Complete(read, contested, validates)
    BY <2>1, <2>2 DEF CompleteUpTo
  <2>4. PICK below : LevelDown(validates, below) /\ Complete(read, contested, below)
    <3>1. CASE n = 0
      BY <2>1, <2>3, <3>1, NothingValid
    <3>2. CASE n # 0
      <4>1. n \in 1 .. 2 * Depth /\ n - 1 \in 0 .. n
        BY <1>2, <3>2
      <4>2. PICK none : none = Validates[n - 1]
        OBVIOUS
      <4>3. LevelDown(validates, none) /\ Complete(read, contested, none)
        BY <2>1, <2>2, <4>1, <4>2, OneLevel DEF CompleteUpTo
      <4> QED
        BY <4>3
    <3> QED
      BY <3>1, <3>2
  <2>5. ValidObject(validates, ObjectSchema(project, model), doc)
    BY <1>2, <1>9, <2>1
  <2>6. ReadFields(read, model, doc, given)[Len(Fields[model])].ok
    BY <1>1, <1>6, <1>7, <2>3, <2>4, <2>5, StructComplete
  <2>7. ASSUME pc = "readThrew" PROVE FALSE
    <3>1. k \in 1 .. Len(Fields[model]) /\ ~ReadFields(read, model, doc, given)[k].ok
      BY <1>1, <1>3, <2>7 DEF IInv, ReaderOK, Receiving, Size
    <3> QED
      BY <1>1, <2>6, <3>1, ThrewForGood
  <2> QED
    BY <2>7
<1> QED
  BY <1>8, <1>9

\* Where reader and schema do not part ways, a document that from_json takes is
\* valid against the schema that is generated for the same struct, and from_json
\* does not throw on one that is valid.
THEOREM SchemaDescribesReader == MappingSpec => []ReaderAndSchemaAgree
<1> QED
  BY CallsCorrect, AgreementFromInvariant, PTL
=============================================================================
