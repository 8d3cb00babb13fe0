---------------------- MODULE ContractGenerator_proof ----------------------
(***************************************************************************)
(* Theorems about ContractGenerator, for every project whose types have at *)
(* most two arguments each, nested as deep as one likes.                   *)
(*                                                                         *)
(* The argument: a name that extends the name of a field by "_type" and    *)
(* more belongs to that field alone, the one before its last "_type"; the  *)
(* names of one field are positions in the tree of its type, which the     *)
(* recursion visits once each, arguments first.  The second invariant,     *)
(* Meant, gives each descriptor the type it was emitted for, so that the   *)
(* descriptors and arrays it points to are those of the type's arguments;  *)
(* reading the header back then finds that type.                           *)
(***************************************************************************)
EXTENDS ContractGenerator, SequenceTheorems, WellFoundedInduction, TLAPS

AllParts == Parts \cup {"_type", "_arg0", "_arg1", "_arguments", "_enum_values", "fields"}
Identifiers == Seq(AllParts)
TraitsNames == {<<"cjm::model_traits", s.path, s.name>> : s \in Structs}

Spaces == {Namespace(s) : s \in Structs}
Declarations ==
    [what : {"arguments", "values", "descriptor", "fields", "traits"}, space : Spaces,
     name : Identifiers \cup TraitsNames, uses : Seq(Identifiers)]

Calls == [name : Identifiers, type : Types, argument : Nat \ {0}]

TypeOK ==
    /\ project \in Projects
    /\ m \in 1 .. Len(project) + 1 /\ f \in Nat \ {0}
    /\ m <= Len(project) => f <= Len(Model.fields) + 1
    /\ stack \in Seq(Calls) /\ out \in Seq(Declarations)
    /\ \A n \in DOMAIN stack : stack[n].argument <= Len(stack[n].type.arguments) + 1
    /\ stack # <<>> => m <= Len(project) /\ f <= Len(Model.fields)

-----------------------------------------------------------------------------
(* Identifiers.                                                            *)

\* A part more.
LEMMA OneMore ==
    ASSUME NEW x \in Identifiers, NEW p \in AllParts
    PROVE  /\ x \o <<p>> \in Identifiers
           /\ Len(x) \in Nat /\ Len(x \o <<p>>) = Len(x) + 1
           /\ \A j \in 1 .. Len(x) : (x \o <<p>>)[j] = x[j]
           /\ (x \o <<p>>)[Len(x) + 1] = p
<1>1. <<p>> \in Seq(AllParts) /\ Len(<<p>>) = 1 /\ <<p>>[1] = p
  OBVIOUS
<1>2. Len(x) \in Nat
  BY DEF Identifiers
<1> QED
  BY <1>1, <1>2, ConcatProperties DEF Identifiers

LEMMA ConcatFacts ==
    ASSUME NEW S, NEW s \in Seq(S), NEW t \in Seq(S)
    PROVE  /\ s \o t \in Seq(S)
           /\ Len(s) \in Nat /\ Len(t) \in Nat /\ Len(s \o t) = Len(s) + Len(t)
           /\ \A j \in 1 .. Len(s) : (s \o t)[j] = s[j]
           /\ \A j \in 1 .. Len(t) : (s \o t)[Len(s) + j] = t[j]
<1>1. Len(s) \in Nat /\ Len(t) \in Nat
  OBVIOUS
<1>2. \A j \in 1 .. Len(t) : Len(s) + j \in 1 .. Len(s) + Len(t) /\ ~(Len(s) + j <= Len(s))
  BY <1>1
<1>3. \A j \in 1 .. Len(s) : j \in 1 .. Len(s) + Len(t) /\ j <= Len(s)
  BY <1>1
<1>4. \A j \in 1 .. Len(t) : (Len(s) + j) - Len(s) = j
  BY <1>1
<1> QED
  BY <1>1, <1>2, <1>3, <1>4, ConcatProperties

\* x is y, part, and perhaps more.
Extends(x, y, part) ==
    /\ Len(y) < Len(x)
    /\ \A j \in 1 .. Len(y) : x[j] = y[j]
    /\ x[Len(y) + 1] = part

LEMMA ExtendsOnce ==
    ASSUME NEW x \in Identifiers, NEW y \in Identifiers, NEW p, NEW q,
           Extends(x, y, p), Extends(x, y, q)
    PROVE  p = q
BY DEF Extends

LEMMA ExtendsFurther ==
    ASSUME NEW x \in Identifiers, NEW y \in Identifiers, NEW z \in Identifiers,
           NEW p, NEW q, Extends(x, y, p), Extends(y, z, q)
    PROVE  Extends(x, z, q)
<1>1. Len(x) \in Nat /\ Len(y) \in Nat /\ Len(z) \in Nat
  BY DEF Identifiers
<1> QED
  BY <1>1 DEF Extends

\* A name of a field's descriptors: the last "_type" comes behind the field's name.
BelongsTo(x, field) ==
    /\ Extends(x, field, "_type")
    /\ \A j \in Len(field) + 2 .. Len(x) : x[j] # "_type"

LEMMA OneOwner ==
    ASSUME NEW x \in Identifiers, NEW a \in Identifiers, NEW b \in Identifiers,
           BelongsTo(x, a), BelongsTo(x, b)
    PROVE  a = b
<1>1. Len(x) \in Nat /\ Len(a) \in Nat /\ Len(b) \in Nat
  BY DEF Identifiers
<1>2. Len(a) = Len(b)
  BY <1>1 DEF BelongsTo, Extends
<1>3. \A j \in 1 .. Len(a) : a[j] = b[j]
  BY <1>1, <1>2 DEF BelongsTo, Extends
<1> QED
  BY <1>2, <1>3, SeqEqual DEF Identifiers

\* What is appended to the name of a descriptor leaves it with its field.
LEMMA StillBelongs ==
    ASSUME NEW x \in Identifiers, NEW a \in Identifiers, BelongsTo(x, a),
           NEW p \in {"_arg0", "_arg1", "_arguments", "_enum_values"}
    PROVE  x \o <<p>> \in Identifiers /\ BelongsTo(x \o <<p>>, a) /\ Extends(x \o <<p>>, x, p)
<1> DEFINE y == x \o <<p>>
<1>1. /\ y \in Identifiers /\ Len(x) \in Nat /\ Len(y) = Len(x) + 1
      /\ \A j \in 1 .. Len(x) : y[j] = x[j]
      /\ y[Len(x) + 1] = p
  BY OneMore DEF AllParts
<1>2. Len(a) \in Nat
  BY DEF Identifiers
<1> HIDE DEF y
<1>3. Extends(y, x, p)
  BY <1>1 DEF Extends
<1>4. Extends(y, a, "_type")
  BY <1>1, <1>2 DEF BelongsTo, Extends
<1>5. \A j \in Len(a) + 2 .. Len(y) : y[j] # "_type"
  <2>1. SUFFICES ASSUME NEW j \in Len(a) + 2 .. Len(y) PROVE y[j] # "_type"
    OBVIOUS
  <2>2. CASE j = Len(x) + 1
    BY <1>1, <2>2
  <2>3. CASE j # Len(x) + 1
    BY <1>1, <1>2, <2>3 DEF BelongsTo, Extends
  <2> QED
    BY <2>2, <2>3
<1> QED
  BY <1>1, <1>3, <1>4, <1>5 DEF BelongsTo, y

LEMMA FieldTypeNameBelongs ==
    ASSUME NEW a \in Identifiers
    PROVE  FieldTypeName(a) \in Identifiers /\ BelongsTo(FieldTypeName(a), a)
<1>1. "_type" \in AllParts
  BY DEF AllParts
<1> QED
  BY <1>1, OneMore DEF FieldTypeName, BelongsTo, Extends

-----------------------------------------------------------------------------
(* The project and the stack.                                              *)

LEMMA ModelFacts ==
    ASSUME TypeOK, m <= Len(project)
    PROVE  /\ m \in DOMAIN project /\ Len(project) \in Nat
           /\ Model.fields \in Seq(Fields) /\ Len(Model.fields) \in Nat
           /\ DOMAIN Model.fields = 1 .. Len(Model.fields)
           /\ \A g \in DOMAIN Model.fields :
                 /\ Model.fields[g].name \in Identifiers /\ Model.fields[g].name \in Seq(Parts)
                 /\ Model.fields[g].type \in Types
           /\ \A g, h \in DOMAIN Model.fields :
                 Model.fields[g].name = Model.fields[h].name => g = h
           /\ Namespace(Model) \in Spaces
           /\ <<"cjm::model_traits", Model.path, Model.name>> \in TraitsNames
<1>1. project \in Seq(Structs) /\ project \in Projects
  BY ProjectsAssumption DEF TypeOK
<1>2. Len(project) \in Nat /\ m \in DOMAIN project /\ Model \in Structs
  BY <1>1 DEF TypeOK, Model
<1>3. Model.fields \in Seq(Fields)
  BY <1>2 DEF Structs
<1>4. \A g \in DOMAIN Model.fields : Model.fields[g] \in Fields
  BY <1>3
<1>5. Seq(Parts) \subseteq Identifiers
  BY SeqMonotonic DEF Identifiers, AllParts
<1>6. \A g \in DOMAIN Model.fields :
         /\ Model.fields[g].name \in Identifiers /\ Model.fields[g].name \in Seq(Parts)
         /\ Model.fields[g].type \in Types
  BY <1>4, <1>5 DEF Fields
<1>7. \A g, h \in DOMAIN Model.fields : Model.fields[g].name = Model.fields[h].name => g = h
  BY <1>1, <1>2, ProjectsAssumption DEF Model
<1>8. Len(Model.fields) \in Nat /\ DOMAIN Model.fields = 1 .. Len(Model.fields)
  BY <1>3
<1>9. /\ Namespace(Model) \in Spaces
      /\ <<"cjm::model_traits", Model.path, Model.name>> \in TraitsNames
  BY <1>2 DEF Spaces, TraitsNames
<1> QED
  BY <1>1, <1>2, <1>3, <1>6, <1>7, <1>8, <1>9

LEMMA StackFacts ==
    ASSUME TypeOK, stack # <<>>
    PROVE  /\ Len(stack) \in Nat \ {0} /\ DOMAIN stack = 1 .. Len(stack)
           /\ Top \in Calls /\ Top = stack[Len(stack)]
           /\ \A n \in DOMAIN stack :
                 /\ stack[n].name \in Identifiers /\ stack[n].type \in Types
                 /\ stack[n].argument \in Nat \ {0}
           /\ m <= Len(project) /\ f \in 1 .. Len(Model.fields)
<1>1. stack \in Seq(Calls)
  BY DEF TypeOK
<1>2. Len(stack) \in Nat \ {0} /\ DOMAIN stack = 1 .. Len(stack)
  BY <1>1
<1>3. \A n \in DOMAIN stack : stack[n] \in Calls
  BY <1>1
<1>4. m <= Len(project) /\ f \in 1 .. Len(Model.fields)
  <2>1. m <= Len(project) /\ f <= Len(Model.fields) /\ f \in Nat \ {0}
    BY DEF TypeOK
  <2>2. Len(Model.fields) \in Nat
    BY <2>1, ModelFacts
  <2> QED
    BY <2>1, <2>2
<1> QED
  BY <1>2, <1>3, <1>4 DEF Calls, Top

\* The names of arguments.
LEMMA ArgumentFacts ==
    ASSUME NEW type \in Types, NEW x \in Identifiers,
           NEW a \in 1 .. Len(type.arguments)
    PROVE  /\ type.arguments[a] \in Types
           /\ ArgumentParts[a] \in {"_arg0", "_arg1"}
           /\ ArgumentName(x, a) = x \o <<ArgumentParts[a]>>
           /\ ArgumentName(x, a) \in Identifiers
<1>1. type.arguments \in Seq(Types) /\ Len(type.arguments) <= 2
  BY ProjectsAssumption
<1>2. type.arguments[a] \in Types /\ a \in {1, 2}
  BY <1>1
<1>3. ArgumentParts[a] \in {"_arg0", "_arg1"}
  BY <1>2 DEF ArgumentParts
<1> QED
  BY <1>2, <1>3, OneMore DEF ArgumentName, AllParts

LEMMA ArgumentPartsDiffer == ArgumentParts[1] # ArgumentParts[2]
BY DEF ArgumentParts

\* Concatenations that are written out.
LEMMA Written ==
    ASSUME NEW p, NEW q, NEW r
    PROVE  /\ <<>> \o <<p>> = <<p>> /\ <<p>> \o <<>> = <<p>>
           /\ <<p>> \o <<q>> = <<p, q>>
           /\ <<p, q>> \o <<r>> = <<p, q, r>>
<1> DEFINE S == {p, q, r}
<1>1. /\ <<p>> \in Seq(S) /\ <<q>> \in Seq(S) /\ <<r>> \in Seq(S)
      /\ <<p, q>> \in Seq(S) /\ <<p, q, r>> \in Seq(S)
  OBVIOUS
<1>2. <<>> \o <<p>> = <<p>> /\ <<p>> \o <<>> = <<p>>
  BY <1>1, ConcatEmptySeq
<1>3. <<p>> \o <<q>> = <<p, q>>
  <2> DEFINE c2 == <<p>> \o <<q>>
  <2>1. c2 \in Seq(S) /\ Len(c2) = 2 /\ c2[1] = p /\ c2[1 + 1] = q
    BY <1>1, ConcatFacts
  <2> HIDE DEF c2
  <2>2. c2 = <<p, q>>
    BY <1>1, <2>1, SeqEqual
  <2> QED
    BY <2>2 DEF c2
<1>4. <<p, q>> \o <<r>> = <<p, q, r>>
  <2> DEFINE c3 == <<p, q>> \o <<r>>
  <2>1. /\ c3 \in Seq(S) /\ Len(c3) = 3
        /\ c3[1] = p /\ c3[2] = q /\ c3[2 + 1] = r
    BY <1>1, ConcatFacts
  <2> HIDE DEF c3
  <2>2. c3 = <<p, q, r>>
    BY <1>1, <2>1, SeqEqual
  <2> QED
    BY <2>2 DEF c3
<1> QED
  BY <1>2, <1>3, <1>4

\* What a descriptor emits: declarations with names of their own, the descriptor
\* last, whose initialisers name what stands before them or the arguments.
LEMMA Emission ==
    ASSUME NEW call \in Calls, NEW space \in Spaces, NEW E, E = EmittedFor(call, space)
    PROVE  /\ E \in Seq(Declarations) /\ Len(E) \in Nat \ {0} /\ DOMAIN E = 1 .. Len(E)
           /\ \A d \in DOMAIN E :
                 /\ E[d].space = space
                 /\ E[d].name \in {call.name, ArgumentsName(call.name), EnumValuesName(call.name)}
                 /\ \A u \in DOMAIN E[d].uses :
                       \/ \E e \in 1 .. d - 1 : E[d].uses[u] = E[e].name
                       \/ \E a \in 1 .. Len(call.type.arguments) :
                             E[d].uses[u] = ArgumentName(call.name, a)
           /\ E[Len(E)].name = call.name
           /\ \A d, e \in DOMAIN E : E[d].name = E[e].name => d = e
<1> DEFINE A == ArgumentArray(call, space)
           V == EnumValues(call, space)
           D == Descriptor(call, space)
           x == call.name
<1>1. /\ x \in Identifiers /\ Len(x) \in Nat /\ call.type \in Types
      /\ ArgumentsName(x) \in Identifiers /\ EnumValuesName(x) \in Identifiers
      /\ x # ArgumentsName(x) /\ x # EnumValuesName(x) /\ ArgumentsName(x) # EnumValuesName(x)
  <2>1. x \in Identifiers /\ call.type \in Types
    BY DEF Calls
  <2>2. "_arguments" \in AllParts /\ "_enum_values" \in AllParts
    BY DEF AllParts
  <2>3. /\ ArgumentsName(x) \in Identifiers /\ Len(ArgumentsName(x)) = Len(x) + 1
        /\ Len(x) \in Nat /\ ArgumentsName(x)[Len(x) + 1] = "_arguments"
    BY <2>1, <2>2, OneMore DEF ArgumentsName
  <2>4. /\ EnumValuesName(x) \in Identifiers /\ Len(EnumValuesName(x)) = Len(x) + 1
        /\ EnumValuesName(x)[Len(x) + 1] = "_enum_values"
    BY <2>1, <2>2, OneMore DEF EnumValuesName
  <2> QED
    BY <2>1, <2>3, <2>4
<1>2. /\ A.name = ArgumentsName(x) /\ A.space = space
      /\ V.name = EnumValuesName(x) /\ V.space = space /\ V.uses = <<>>
      /\ D.name = x /\ D.space = space
  BY DEF ArgumentArray, EnumValues, Descriptor, Declaration
<1>3. /\ A.uses \in Seq(Identifiers)
      /\ \A u \in DOMAIN A.uses : u \in 1 .. Len(call.type.arguments)
                                  /\ A.uses[u] = ArgumentName(x, u)
  <2>1. call.type.arguments \in Seq(Types)
    BY <1>1, ProjectsAssumption
  <2>2. A.uses = [n \in DOMAIN call.type.arguments |-> ArgumentName(x, n)]
    BY DEF ArgumentArray, Declaration
  <2>3. \A n \in 1 .. Len(call.type.arguments) : ArgumentName(x, n) \in Identifiers
    BY <1>1, ArgumentFacts
  <2> QED
    BY <2>1, <2>2, <2>3
<1>4. D.uses = (IF call.type.arguments = <<>> THEN <<>> ELSE <<ArgumentsName(x)>>)
                 \o (IF call.type.values THEN <<EnumValuesName(x)>> ELSE <<>>)
  BY DEF Descriptor, Declaration
<1>5. E = (IF call.type.arguments = <<>> THEN <<>> ELSE <<A>>)
            \o (IF call.type.values THEN <<V>> ELSE <<>>) \o <<D>>
  BY DEF EmittedFor
<1>6. D.uses \in Seq(Identifiers)
  BY <1>1, <1>4
<1>7. A \in Declarations /\ V \in Declarations /\ D \in Declarations
  <2>1. \A what \in {"arguments", "values", "descriptor"} :
           \A name \in Identifiers : \A uses \in Seq(Identifiers) :
              Declaration(what, space, name, uses) \in Declarations
    BY DEF Declaration, Declarations
  <2>2. A = Declaration("arguments", space, ArgumentsName(x), A.uses)
    BY DEF ArgumentArray, Declaration
  <2>3. V = Declaration("values", space, EnumValuesName(x), <<>>)
    BY DEF EnumValues
  <2>4. D = Declaration("descriptor", space, x, D.uses)
    BY DEF Descriptor, Declaration
  <2>5. <<>> \in Seq(Identifiers)
    OBVIOUS
  <2> HIDE DEF A, V, D, x
  <2> QED
    BY <1>1, <1>3, <1>6, <2>1, <2>2, <2>3, <2>4, <2>5
<1> HIDE DEF A, V, D, x
<1>8. \A u \in DOMAIN A.uses : \E a \in 1 .. Len(call.type.arguments) :
         A.uses[u] = ArgumentName(x, a)
  BY <1>3
<1>9. CASE call.type.arguments = <<>> /\ call.type.values
  <2>0. E = <<>> \o <<V>> \o <<D>> /\ D.uses = <<>> \o <<EnumValuesName(x)>>
    BY <1>4, <1>5, <1>9
  <2>1. E = <<V, D>> /\ D.uses = <<EnumValuesName(x)>>
    BY <2>0, Written
  <2>2. E \in Seq(Declarations) /\ Len(E) = 2 /\ DOMAIN E = 1 .. 2 /\ E[1] = V /\ E[2] = D
    BY <1>7, <2>1
  <2>3. DOMAIN V.uses = {} /\ \A u \in DOMAIN D.uses : D.uses[u] = E[1].name
    BY <1>2, <2>1, <2>2
  <2> QED
    BY <1>1, <1>2, <2>2, <2>3 DEF x
<1>10. CASE call.type.arguments = <<>> /\ ~call.type.values
  <2>1. E = <<D>> /\ D.uses = <<>>
    BY <1>4, <1>5, <1>10
  <2>2. E \in Seq(Declarations) /\ Len(E) = 1 /\ DOMAIN E = 1 .. 1 /\ E[1] = D
    BY <1>7, <2>1
  <2>3. DOMAIN D.uses = {}
    BY <2>1
  <2> QED
    BY <1>1, <1>2, <2>2, <2>3 DEF x
<1>11. CASE call.type.arguments # <<>> /\ ~call.type.values
  <2>1. E = <<A, D>> /\ D.uses = <<ArgumentsName(x)>>
    BY <1>4, <1>5, <1>11, Written
  <2>2. E \in Seq(Declarations) /\ Len(E) = 2 /\ DOMAIN E = 1 .. 2 /\ E[1] = A /\ E[2] = D
    BY <1>7, <2>1
  <2>3. \A u \in DOMAIN D.uses : D.uses[u] = E[1].name
    BY <1>2, <2>1, <2>2
  <2> QED
    BY <1>1, <1>2, <1>8, <2>2, <2>3 DEF x
<1>12. CASE call.type.arguments # <<>> /\ call.type.values
  <2>0. /\ E = <<A>> \o <<V>> \o <<D>>
        /\ D.uses = <<ArgumentsName(x)>> \o <<EnumValuesName(x)>>
    BY <1>4, <1>5, <1>12
  <2>1. E = <<A, V, D>> /\ D.uses = <<ArgumentsName(x), EnumValuesName(x)>>
    BY <2>0, Written, ZenonT(40)
  <2>2. /\ E \in Seq(Declarations) /\ Len(E) = 3 /\ DOMAIN E = 1 .. 3
        /\ E[1] = A /\ E[2] = V /\ E[3] = D
    BY <1>7, <2>1
  <2>3. /\ DOMAIN V.uses = {}
        /\ \A u \in DOMAIN D.uses : D.uses[u] = E[1].name \/ D.uses[u] = E[2].name
    BY <1>2, <2>1, <2>2
  <2> QED
    BY <1>1, <1>2, <1>8, <2>2, <2>3 DEF x
<1> QED
  BY <1>9, <1>10, <1>11, <1>12

-----------------------------------------------------------------------------
(* The inductive invariant.                                                *)

\* The struct of the loop has a declaration of this name.
Seen(x) == \E d \in DOMAIN out : out[d].space = Namespace(Model) /\ out[d].name = x

\* The arguments of a frame whose calls have returned; the last one of a frame that
\* is not on top is the next frame.
Finished(n) == stack[n].argument - (IF n = Len(stack) THEN 1 ELSE 2)

\* The frames are a path in the tree of the field's type, and so are their names.
StackOK ==
    /\ stack # <<>> => stack[1].name = FieldTypeName(Model.fields[f].name)
    /\ \A n \in DOMAIN stack :
          /\ BelongsTo(stack[n].name, Model.fields[f].name)
          /\ n < Len(stack) =>
                /\ stack[n].argument >= 2
                /\ stack[n + 1].name = ArgumentName(stack[n].name, stack[n].argument - 1)
    /\ \A n, q \in DOMAIN stack :
          n < q => Extends(stack[q].name, stack[n].name, ArgumentParts[stack[n].argument - 1])

\* What has been visited has been declared.
SeenOK ==
    m <= Len(project) =>
        /\ \A g \in 1 .. f - 1 : Seen(FieldTypeName(Model.fields[g].name))
        /\ \A n \in DOMAIN stack : \A a \in 1 .. Finished(n) :
              Seen(ArgumentName(stack[n].name, a))

\* A name of a place that has been visited.
Visited(x) ==
    \/ \E g \in 1 .. f - 1 : BelongsTo(x, Model.fields[g].name)
    \/ /\ stack # <<>> /\ BelongsTo(x, Model.fields[f].name)
       /\ \E n \in DOMAIN stack : \E a \in 1 .. Finished(n) :
             Extends(x, stack[n].name, ArgumentParts[a])

\* Whatever has been declared has been visited.
PlacedOK ==
    \A d \in DOMAIN out : \E k \in 1 .. Len(project) :
        /\ k <= m /\ out[d].space = Namespace(project[k])
        /\ k = m => out[d].name \in Identifiers /\ Visited(out[d].name)

IInv == TypeOK /\ StackOK /\ SeenOK /\ PlacedOK /\ DeclaredBeforeUse /\ DeclaredOnce

\* Declarations that name what is there, and whose names are new.
LEMMA Appending ==
    ASSUME DeclaredBeforeUse, DeclaredOnce, out \in Seq(Declarations),
           NEW E \in Seq(Declarations), out' = out \o E, project' = project,
           \A d \in DOMAIN E : \A u \in DOMAIN E[d].uses :
              \/ \E e \in 1 .. d - 1 : E[e].space = E[d].space /\ E[e].name = E[d].uses[u]
              \/ \E e \in DOMAIN out : out[e].space = E[d].space /\ out[e].name = E[d].uses[u],
           ~NamespacesCollide =>
              /\ \A d, e \in DOMAIN E : E[d].space = E[e].space /\ E[d].name = E[e].name => d = e
              /\ \A d \in DOMAIN out : \A e \in DOMAIN E :
                    ~(out[d].space = E[e].space /\ out[d].name = E[e].name)
    PROVE  DeclaredBeforeUse' /\ DeclaredOnce' /\ out' \in Seq(Declarations)
<1> DEFINE L == Len(out)
<1>1. /\ L \in Nat /\ Len(E) \in Nat /\ DOMAIN out = 1 .. L /\ DOMAIN E = 1 .. Len(E)
      /\ out' \in Seq(Declarations) /\ DOMAIN out' = 1 .. L + Len(E)
      /\ \A j \in 1 .. L : out'[j] = out[j]
      /\ \A j \in 1 .. Len(E) : out'[L + j] = E[j]
  BY ConcatFacts
<1> HIDE DEF L
<1>2. \A n \in DOMAIN out' : n \in DOMAIN out \/ \E j \in DOMAIN E : n = L + j
  <2>1. SUFFICES ASSUME NEW n \in DOMAIN out', n \notin DOMAIN out
                 PROVE  \E j \in DOMAIN E : n = L + j
    OBVIOUS
  <2>2. n - L \in DOMAIN E /\ n = L + (n - L)
    BY <1>1, <2>1
  <2> QED
    BY <2>2
<1>3. DeclaredBeforeUse'
  <2>1. SUFFICES ASSUME NEW n \in DOMAIN out', NEW u \in DOMAIN out'[n].uses
                 PROVE  \E d \in 1 .. n - 1 :
                           out'[d].space = out'[n].space /\ out'[d].name = out'[n].uses[u]
    BY DEF DeclaredBeforeUse
  <2>2. CASE n \in DOMAIN out
    <3>1. PICK d \in 1 .. n - 1 :
             out[d].space = out[n].space /\ out[d].name = out[n].uses[u]
      BY <1>1, <2>1, <2>2 DEF DeclaredBeforeUse
    <3>2. n \in 1 .. L /\ d \in 1 .. L
      BY <1>1, <2>2, <3>1
    <3>3. out'[n] = out[n] /\ out'[d] = out[d]
      BY <1>1, <3>2
    <3> QED
      BY <3>1, <3>3
  <2>3. ASSUME NEW j \in DOMAIN E, n = L + j
        PROVE  \E d \in 1 .. n - 1 :
                  out'[d].space = out'[n].space /\ out'[d].name = out'[n].uses[u]
    <3>1. out'[n] = E[j] /\ u \in DOMAIN E[j].uses
      BY <1>1, <2>1, <2>3
    <3>2. CASE \E e \in 1 .. j - 1 : E[e].space = E[j].space /\ E[e].name = E[j].uses[u]
      <4>1. PICK e \in 1 .. j - 1 : E[e].space = E[j].space /\ E[e].name = E[j].uses[u]
        BY <3>2
      <4>2. j \in 1 .. Len(E) /\ e \in 1 .. Len(E) /\ L + e \in 1 .. n - 1
        BY <1>1, <2>3, <4>1
      <4>3. out'[L + e] = E[e]
        BY <1>1, <4>2
      <4> QED
        BY <3>1, <4>1, <4>2, <4>3
    <3>3. CASE \E e \in DOMAIN out : out[e].space = E[j].space /\ out[e].name = E[j].uses[u]
      <4>1. PICK e \in DOMAIN out : out[e].space = E[j].space /\ out[e].name = E[j].uses[u]
        BY <3>3
      <4>2. e \in 1 .. n - 1 /\ out'[e] = out[e]
        BY <1>1, <2>3, <4>1
      <4> QED
        BY <3>1, <4>1, <4>2
    <3> QED
      BY <3>1, <3>2, <3>3
  <2> QED
    BY <1>2, <2>1, <2>2, <2>3
<1>4. DeclaredOnce'
  <2>1. NamespacesCollide' = NamespacesCollide
    BY DEF NamespacesCollide
  <2>2. SUFFICES ASSUME ~NamespacesCollide, NEW n \in DOMAIN out', NEW o \in DOMAIN out',
                        out'[n].space = out'[o].space, out'[n].name = out'[o].name
                 PROVE  n = o
    BY <2>1 DEF DeclaredOnce
  <2>3. CASE n \in DOMAIN out /\ o \in DOMAIN out
    BY <1>1, <2>2, <2>3 DEF DeclaredOnce
  <2>4. ASSUME n \in DOMAIN out, NEW j \in DOMAIN E, o = L + j PROVE FALSE
    BY <1>1, <2>2, <2>4
  <2>5. ASSUME o \in DOMAIN out, NEW j \in DOMAIN E, n = L + j PROVE FALSE
    BY <1>1, <2>2, <2>5
  <2>6. ASSUME NEW j \in DOMAIN E, n = L + j, NEW k \in DOMAIN E, o = L + k PROVE n = o
    BY <1>1, <2>2, <2>6, SMTT(30)
  <2> QED
    BY <1>2, <2>3, <2>4, <2>5, <2>6
<1> QED
  BY <1>1, <1>3, <1>4

LEMMA InitialInvariant == Init => IInv
<1> SUFFICES ASSUME Init PROVE IInv
  OBVIOUS
<1>1. project \in Seq(Structs) /\ project \in Projects
  BY ProjectsAssumption DEF Init
<1>2. Len(project) \in Nat /\ m = 1 /\ f = 1 /\ stack = <<>> /\ out = <<>>
  BY <1>1 DEF Init
<1>3. m <= Len(project) => Len(Model.fields) \in Nat
  <2>1. SUFFICES ASSUME m <= Len(project) PROVE Len(Model.fields) \in Nat
    OBVIOUS
  <2>2. Model \in Structs
    BY <1>1, <1>2, <2>1 DEF Model
  <2> QED
    BY <2>2 DEF Structs
<1>4. TypeOK
  BY <1>1, <1>2, <1>3 DEF TypeOK
<1>5. StackOK /\ SeenOK /\ PlacedOK /\ DeclaredBeforeUse /\ DeclaredOnce
  BY <1>2 DEF StackOK, SeenOK, PlacedOK, DeclaredBeforeUse, DeclaredOnce
<1> QED
  BY <1>4, <1>5 DEF IInv

LEMMA Beginning == ASSUME IInv, BeginField PROVE IInv'
<1>1. /\ project' = project /\ m' = m /\ f' = f /\ out' = out /\ Model' = Model
      /\ m <= Len(project) /\ f <= Len(Model.fields) /\ stack = <<>>
  BY DEF BeginField, Model
<1>2. /\ f \in DOMAIN Model.fields /\ Model.fields[f].name \in Identifiers
      /\ Model.fields[f].type \in Types
  BY <1>1, ModelFacts DEF IInv, TypeOK
<1> DEFINE new == Call(FieldTypeName(Model.fields[f].name), Model.fields[f].type)
<1>3. stack' = <<new>> /\ Len(stack') = 1 /\ DOMAIN stack' = {1} /\ stack'[1] = new
  BY DEF BeginField
<1>4. /\ new \in Calls /\ new.argument = 1 /\ new.type = Model.fields[f].type
      /\ new.name = FieldTypeName(Model.fields[f].name)
      /\ BelongsTo(new.name, Model.fields[f].name)
  BY <1>2, FieldTypeNameBelongs DEF Call, Calls
<1> HIDE DEF new
<1>5. Len(new.type.arguments) \in Nat
  BY <1>2, <1>4, ProjectsAssumption
<1>6. TypeOK'
  BY <1>1, <1>3, <1>4, <1>5 DEF IInv, TypeOK
<1>7. StackOK'
  BY <1>1, <1>3, <1>4 DEF StackOK
<1>8. SeenOK'
  <2>1. \A x : Seen(x)' = Seen(x)
    BY <1>1 DEF Seen
  <2>2. \A n \in DOMAIN stack' : Finished(n)' = 0
    BY <1>3, <1>4 DEF Finished
  <2> QED
    BY <1>1, <2>1, <2>2 DEF IInv, SeenOK
<1>9. PlacedOK'
  <2>1. \A x : Visited(x) => Visited(x)'
    BY <1>1 DEF Visited
  <2> QED
    BY <1>1, <2>1 DEF IInv, PlacedOK
<1>10. DeclaredBeforeUse' /\ DeclaredOnce'
  BY <1>1 DEF IInv, DeclaredBeforeUse, DeclaredOnce, NamespacesCollide
<1> QED
  BY <1>6, <1>7, <1>8, <1>9, <1>10 DEF IInv

\* The recursive call for the next argument.
LEMMA Descending == ASSUME IInv, BeginArgument PROVE IInv'
<1> DEFINE L == Len(stack)
           a == Top.argument
           new == Call(ArgumentName(Top.name, a), Top.type.arguments[a])
           moved == [stack EXCEPT ![Len(stack)].argument = @ + 1]
<1>1. /\ project' = project /\ m' = m /\ f' = f /\ out' = out /\ Model' = Model
      /\ stack # <<>> /\ a <= Len(Top.type.arguments)
  BY DEF BeginArgument, Model
<1>2. /\ L \in Nat \ {0} /\ DOMAIN stack = 1 .. L /\ Top \in Calls /\ Top = stack[L]
      /\ m <= Len(project) /\ f \in 1 .. Len(Model.fields) /\ L \in DOMAIN stack
      /\ TypeOK /\ StackOK /\ stack \in Seq(Calls)
  BY <1>1, StackFacts DEF IInv, TypeOK
<1>3. /\ Top.name \in Identifiers /\ Top.type \in Types /\ a \in Nat \ {0}
      /\ Len(Top.type.arguments) \in Nat
  BY <1>2, ProjectsAssumption DEF Calls
<1>4. /\ a \in 1 .. Len(Top.type.arguments) /\ Top.type.arguments[a] \in Types
      /\ ArgumentParts[a] \in {"_arg0", "_arg1"}
      /\ ArgumentName(Top.name, a) = Top.name \o <<ArgumentParts[a]>>
      /\ ArgumentName(Top.name, a) \in Identifiers
  <2>1. a \in 1 .. Len(Top.type.arguments)
    BY <1>1, <1>3
  <2> QED
    BY <1>3, <2>1, ArgumentFacts
<1>5. /\ new \in Calls /\ new.name = ArgumentName(Top.name, a)
      /\ new.type = Top.type.arguments[a] /\ new.argument = 1
  BY <1>4 DEF Call, Calls
<1>6. Model.fields[f].name \in Identifiers
  BY <1>2, ModelFacts
<1>7. BelongsTo(new.name, Model.fields[f].name) /\ Extends(new.name, Top.name, ArgumentParts[a])
  BY <1>2, <1>3, <1>4, <1>5, <1>6, StillBelongs, ZenonT(40) DEF StackOK
<1>8. /\ moved \in Seq(Calls) /\ Len(moved) = L
      /\ \A n \in 1 .. L : /\ moved[n].name = stack[n].name /\ moved[n].type = stack[n].type
                           /\ moved[n].argument = IF n = L THEN a + 1 ELSE stack[n].argument
  <2>1. [Top EXCEPT !.argument = a + 1] \in Calls
    BY <1>2, <1>3 DEF Calls
  <2>2. moved = [stack EXCEPT ![L] = [Top EXCEPT !.argument = a + 1]]
    BY <1>2
  <2>3. \A n \in 1 .. L : stack[n] \in Calls
    BY <1>2
  <2> QED
    BY <1>2, <2>1, <2>2, <2>3, ExceptSeq DEF Calls
<1>9. stack' = Append(moved, new)
  BY DEF BeginArgument
<1> HIDE DEF L, a, new, moved
<1>10. /\ stack' \in Seq(Calls) /\ Len(stack') = L + 1 /\ DOMAIN stack' = 1 .. L + 1
       /\ stack'[L + 1] = new
       /\ \A n \in 1 .. L :
             /\ stack'[n].name = stack[n].name /\ stack'[n].type = stack[n].type
             /\ stack'[n].argument = IF n = L THEN a + 1 ELSE stack[n].argument
  BY <1>2, <1>5, <1>8, <1>9
<1>11. TypeOK'
  <2>1. Len(new.type.arguments) \in Nat
    BY <1>4, <1>5, ProjectsAssumption
  <2>2. \A n \in DOMAIN stack' : stack'[n].argument <= Len(stack'[n].type.arguments) + 1
    <3>1. SUFFICES ASSUME NEW n \in 1 .. L + 1
                   PROVE  stack'[n].argument <= Len(stack'[n].type.arguments) + 1
      BY <1>10
    <3>2. CASE n = L + 1
      BY <1>5, <1>10, <2>1, <3>2
    <3>3. CASE n = L
      BY <1>1, <1>2, <1>3, <1>10, <3>3
    <3>4. CASE n # L + 1 /\ n # L
      <4>1. n \in 1 .. L /\ n \in DOMAIN stack
        BY <1>2, <3>4
      <4> QED
        BY <1>2, <1>10, <3>4, <4>1 DEF TypeOK
    <3> QED
      BY <3>2, <3>3, <3>4
  <2> QED
    BY <1>1, <1>2, <1>10, <2>2 DEF TypeOK
<1>12. StackOK'
  <2>1. \A n \in 1 .. L : n # L + 1
    BY <1>2
  <2>2. stack'[1].name = FieldTypeName(Model.fields[f].name)
    BY <1>1, <1>2, <1>10 DEF StackOK
  <2>3. \A n \in DOMAIN stack' : BelongsTo(stack'[n].name, Model.fields[f].name)
    BY <1>2, <1>7, <1>10 DEF StackOK
  <2>4. \A n \in DOMAIN stack' : n < Len(stack') =>
           /\ stack'[n].argument >= 2
           /\ stack'[n + 1].name = ArgumentName(stack'[n].name, stack'[n].argument - 1)
    <3>1. SUFFICES ASSUME NEW n \in 1 .. L
                   PROVE  /\ stack'[n].argument >= 2
                          /\ stack'[n + 1].name = ArgumentName(stack'[n].name, stack'[n].argument - 1)
      BY <1>2, <1>10
    <3>2. CASE n = L
      <4>1. /\ stack'[n].argument = a + 1 /\ (a + 1) - 1 = a /\ a + 1 >= 2
            /\ stack'[n].name = Top.name /\ stack'[n + 1] = new
        BY <1>2, <1>3, <1>10, <3>2
      <4> QED
        BY <1>5, <4>1
    <3>3. CASE n # L
      <4>1. n < L /\ n + 1 \in 1 .. L
        BY <1>2, <3>3
      <4>2. /\ stack[n].argument >= 2 /\ n \in DOMAIN stack /\ n < Len(stack)
            /\ stack[n + 1].name = ArgumentName(stack[n].name, stack[n].argument - 1)
        BY <1>2, <4>1 DEF StackOK, L
      <4>3. /\ stack'[n].argument = stack[n].argument /\ stack'[n].name = stack[n].name
            /\ stack'[n + 1].name = stack[n + 1].name
        BY <1>10, <3>3, <4>1
      <4> QED
        BY <4>2, <4>3
    <3> QED
      BY <3>2, <3>3
  <2>5. \A n, q \in DOMAIN stack' : n < q =>
           Extends(stack'[q].name, stack'[n].name, ArgumentParts[stack'[n].argument - 1])
    <3>1. SUFFICES ASSUME NEW n \in 1 .. L, NEW q \in 1 .. L + 1, n < q
                   PROVE  Extends(stack'[q].name, stack'[n].name,
                                  ArgumentParts[stack'[n].argument - 1])
      BY <1>2, <1>10
    <3>2. CASE q # L + 1
      <4>1. q \in 1 .. L /\ n # L
        BY <1>2, <3>1, <3>2
      <4> QED
        BY <1>2, <1>10, <3>1, <4>1 DEF StackOK
    <3>3. CASE q = L + 1 /\ n = L
      <4>1. L \in 1 .. L
        BY <1>2
      <4>2. /\ stack'[q].name = new.name /\ stack'[n].name = Top.name
            /\ stack'[n].argument = a + 1
        BY <1>2, <1>10, <3>3, <4>1
      <4>3. (a + 1) - 1 = a
        BY <1>3
      <4>4. stack'[n].argument - 1 = a
        BY <4>2, <4>3
      <4> QED
        BY <1>7, <4>2, <4>4
    <3>4. CASE q = L + 1 /\ n # L
      <4>1. n < L /\ stack[n].name \in Identifiers
        BY <1>1, <1>2, <3>4, StackFacts
      <4>2. Extends(Top.name, stack[n].name, ArgumentParts[stack[n].argument - 1])
        BY <1>2, <3>1, <4>1 DEF StackOK
      <4>3. Extends(new.name, stack[n].name, ArgumentParts[stack[n].argument - 1])
        BY <1>3, <1>4, <1>5, <1>7, <4>1, <4>2, ExtendsFurther
      <4> QED
        BY <1>10, <3>1, <3>4, <4>3
    <3> QED
      BY <3>2, <3>3, <3>4
  <2> QED
    BY <1>1, <2>2, <2>3, <2>4, <2>5 DEF StackOK
<1>13. /\ \A n \in 1 .. L : Finished(n)' = Finished(n)
       /\ \A n : n = L + 1 => Finished(n)' = 0
  <2>1. Len(stack) = L /\ Len(stack') = L + 1 /\ stack[L].argument = a
    BY <1>2, <1>10 DEF L, a
  <2>2. \A n : n = L + 1 => Finished(n)' = 0
    BY <1>2, <1>5, <1>10, <2>1 DEF Finished
  <2>3. \A n : n = L => Finished(n)' = (a + 1) - 2 /\ Finished(n) = a - 1
    BY <1>2, <1>10, <2>1 DEF Finished
  <2>4. \A n \in 1 .. L : n # L => Finished(n)' = Finished(n)
    BY <1>2, <1>10, <2>1 DEF Finished
  <2> QED
    BY <1>3, <2>2, <2>3, <2>4
<1>14. SeenOK'
  <2>1. \A x : Seen(x)' = Seen(x)
    BY <1>1 DEF Seen
  <2>2. SUFFICES ASSUME NEW n \in DOMAIN stack', NEW b \in 1 .. Finished(n)'
                 PROVE  Seen(ArgumentName(stack'[n].name, b))
    BY <1>1, <1>2, <2>1 DEF IInv, SeenOK
  <2>3. n \in 1 .. L
    <3>1. n \in 1 .. L + 1 /\ n # L + 1
      BY <1>10, <1>13, <2>2
    <3> QED
      BY <1>2, <3>1
  <2> QED
    BY <1>2, <1>10, <1>13, <2>2, <2>3 DEF IInv, SeenOK
<1>15. PlacedOK'
  <2>1. ASSUME NEW x, Visited(x) PROVE Visited(x)'
    <3>1. CASE \E g \in 1 .. f - 1 : BelongsTo(x, Model.fields[g].name)
      BY <1>1, <3>1 DEF Visited
    <3>2. CASE /\ BelongsTo(x, Model.fields[f].name)
               /\ \E n \in DOMAIN stack : \E b \in 1 .. Finished(n) :
                     Extends(x, stack[n].name, ArgumentParts[b])
      <4>1. PICK n \in 1 .. L : \E b \in 1 .. Finished(n) :
                     Extends(x, stack[n].name, ArgumentParts[b])
        BY <1>2, <3>2
      <4>2. n \in DOMAIN stack' /\ Finished(n)' = Finished(n) /\ stack'[n].name = stack[n].name
        BY <1>2, <1>10, <1>13
      <4>3. stack' # <<>>
        BY <1>2, <1>10
      <4> QED
        BY <1>1, <3>2, <4>1, <4>2, <4>3 DEF Visited
    <3> QED
      BY <2>1, <3>1, <3>2 DEF Visited
  <2> QED
    BY <1>1, <2>1 DEF IInv, PlacedOK
<1>16. DeclaredBeforeUse' /\ DeclaredOnce'
  BY <1>1 DEF IInv, DeclaredBeforeUse, DeclaredOnce, NamespacesCollide
<1> QED
  BY <1>11, <1>12, <1>14, <1>15, <1>16 DEF IInv

\* The names that the frame on top emits have not been visited, and lie where the
\* frames below it are at work.
LEMMA NewNames ==
    ASSUME TypeOK, StackOK, stack # <<>>,
           NEW y \in {Top.name, ArgumentsName(Top.name), EnumValuesName(Top.name)}
    PROVE  /\ y \in Identifiers /\ BelongsTo(y, Model.fields[f].name)
           /\ \A n \in 1 .. Len(stack) - 1 :
                 Extends(y, stack[n].name, ArgumentParts[stack[n].argument - 1])
           /\ ~Visited(y)
<1> DEFINE x == Top.name
           L == Len(stack)
<1>1. /\ L \in Nat \ {0} /\ L \in DOMAIN stack /\ DOMAIN stack = 1 .. L
      /\ x = stack[L].name /\ m <= Len(project) /\ f \in 1 .. Len(Model.fields)
      /\ \A n \in DOMAIN stack :
            /\ stack[n].name \in Identifiers /\ stack[n].type \in Types
            /\ stack[n].argument \in Nat \ {0}
            /\ stack[n].argument <= Len(stack[n].type.arguments) + 1
  BY StackFacts DEF TypeOK
<1>2. /\ \A g \in DOMAIN Model.fields : Model.fields[g].name \in Identifiers
      /\ \A g, h \in DOMAIN Model.fields :
            Model.fields[g].name = Model.fields[h].name => g = h
      /\ DOMAIN Model.fields = 1 .. Len(Model.fields) /\ Len(Model.fields) \in Nat
  BY <1>1, ModelFacts
<1>3. x \in Identifiers /\ BelongsTo(x, Model.fields[f].name)
  BY <1>1 DEF StackOK
<1>4. /\ y \in Identifiers /\ BelongsTo(y, Model.fields[f].name)
      /\ y = x \/ Extends(y, x, "_arguments") \/ Extends(y, x, "_enum_values")
  <2>1. f \in DOMAIN Model.fields /\ Model.fields[f].name \in Identifiers
    BY <1>1, <1>2
  <2>2. /\ ArgumentsName(x) \in Identifiers /\ EnumValuesName(x) \in Identifiers
        /\ BelongsTo(ArgumentsName(x), Model.fields[f].name)
        /\ BelongsTo(EnumValuesName(x), Model.fields[f].name)
        /\ Extends(ArgumentsName(x), x, "_arguments")
        /\ Extends(EnumValuesName(x), x, "_enum_values")
    BY <1>3, <2>1, StillBelongs DEF ArgumentsName, EnumValuesName
  <2> QED
    BY <1>3, <2>2
<1>5. ASSUME NEW n \in 1 .. L - 1
      PROVE  /\ Extends(y, stack[n].name, ArgumentParts[stack[n].argument - 1])
             /\ stack[n].argument >= 2
  <2>1. n \in DOMAIN stack /\ n < L /\ n < Len(stack)
    BY <1>1
  <2>2. Extends(x, stack[n].name, ArgumentParts[stack[n].argument - 1])
    BY <1>1, <2>1 DEF StackOK
  <2>3. stack[n].argument >= 2
    BY <2>1 DEF StackOK
  <2> HIDE DEF x
  <2> QED
    BY <1>1, <1>3, <1>4, <2>1, <2>2, <2>3, ExtendsFurther
<1>6. \A n \in DOMAIN stack : stack[n].argument - 1 <= 2
  BY <1>1, ProjectsAssumption
<1>7. ~Visited(y)
  <2>1. ASSUME NEW g \in 1 .. f - 1, BelongsTo(y, Model.fields[g].name) PROVE FALSE
    <3>1. g \in DOMAIN Model.fields /\ f \in DOMAIN Model.fields /\ g # f
      BY <1>1, <1>2
    <3>2. Model.fields[g].name = Model.fields[f].name
      BY <1>2, <1>4, <2>1, <3>1, OneOwner
    <3> QED
      BY <1>2, <3>1, <3>2
  <2>2. ASSUME NEW n \in DOMAIN stack, NEW b \in 1 .. Finished(n),
               Extends(y, stack[n].name, ArgumentParts[b])
        PROVE  FALSE
    <3>1. CASE n = L
      <4>1. b \in 1 .. stack[n].argument - 1
        BY <2>2, <3>1 DEF Finished
      <4>2. b \in {1, 2}
        BY <1>1, <1>6, <2>2, <4>1
      <4>3. Extends(y, x, ArgumentParts[b]) /\ ArgumentParts[b] \in {"_arg0", "_arg1"}
        BY <1>1, <2>2, <3>1, <4>2 DEF ArgumentParts
      <4>4. y # x
        BY <1>1, <1>3, <4>3 DEF Extends, Identifiers
      <4> HIDE DEF x
      <4>5. ArgumentParts[b] \in {"_arguments", "_enum_values"}
        BY <1>3, <1>4, <4>3, <4>4, ExtendsOnce
      <4> QED
        BY <4>3, <4>5
    <3>2. CASE n # L
      <4>1. n \in 1 .. L - 1
        BY <1>1, <2>2, <3>2
      <4>2. b \in 1 .. stack[n].argument - 2
        BY <2>2, <3>2 DEF Finished
      <4>3. b = 1 /\ stack[n].argument - 1 = 2
        BY <1>1, <1>5, <1>6, <2>2, <4>1, <4>2
      <4>4. Extends(y, stack[n].name, ArgumentParts[2])
        BY <1>5, <4>1, <4>3
      <4>5. stack[n].name \in Identifiers
        BY <1>1, <2>2
      <4> QED
        BY <1>4, <2>2, <4>3, <4>4, <4>5, ExtendsOnce, ArgumentPartsDiffer
    <3> QED
      BY <3>1, <3>2
  <2> QED
    BY <2>1, <2>2 DEF Visited
<1> QED
  BY <1>4, <1>5, <1>7

\* A declaration of the namespace of the current struct is one of this struct.
LEMMA OwnNames ==
    ASSUME TypeOK, PlacedOK, ~NamespacesCollide, m <= Len(project),
           NEW d \in DOMAIN out, out[d].space = Namespace(Model)
    PROVE  out[d].name \in Identifiers /\ Visited(out[d].name)
<1>1. PICK k \in 1 .. Len(project) :
         /\ k <= m /\ out[d].space = Namespace(project[k])
         /\ k = m => out[d].name \in Identifiers /\ Visited(out[d].name)
  BY DEF PlacedOK
<1>2. m \in DOMAIN project /\ DOMAIN project = 1 .. Len(project)
  <2>1. project \in Seq(Structs)
    BY ProjectsAssumption DEF TypeOK
  <2> QED
    BY <2>1, ModelFacts
<1>3. k = m
  BY <1>1, <1>2 DEF NamespacesCollide, Model
<1> QED
  BY <1>1, <1>3

\* The end of a call: the descriptor and its arrays are declared.
LEMMA Ascending == ASSUME IInv, EndDescriptor PROVE IInv'
<1>1. /\ project' = project /\ m' = m /\ Model' = Model
      /\ stack # <<>> /\ Top.argument > Len(Top.type.arguments)
      /\ TypeOK /\ StackOK /\ PlacedOK
  BY DEF EndDescriptor, Model, IInv
<1>2. PICK L \in Nat \ {0} : L = Len(stack)
  BY <1>1, StackFacts
<1>3. /\ DOMAIN stack = 1 .. L /\ L \in DOMAIN stack /\ Top = stack[L] /\ Top \in Calls
      /\ m <= Len(project) /\ f \in 1 .. Len(Model.fields) /\ stack \in Seq(Calls)
      /\ Top.name \in Identifiers /\ Top.type \in Types /\ Top.argument \in Nat \ {0}
      /\ Len(Top.type.arguments) \in Nat /\ Top.argument <= Len(Top.type.arguments) + 1
  <2>1. Top \in Calls /\ DOMAIN stack = 1 .. L /\ Top = stack[L] /\ L \in DOMAIN stack
    BY <1>1, <1>2, StackFacts
  <2>2. Top.name \in Identifiers /\ Top.type \in Types /\ Top.argument \in Nat \ {0}
    BY <2>1 DEF Calls
  <2>3. Len(Top.type.arguments) \in Nat
    BY <2>2, ProjectsAssumption
  <2>4. Top.argument <= Len(Top.type.arguments) + 1 /\ stack \in Seq(Calls)
    BY <1>1, <2>1 DEF TypeOK
  <2>5. m <= Len(project) /\ f \in 1 .. Len(Model.fields)
    BY <1>1, StackFacts
  <2> QED
    BY <2>1, <2>2, <2>3, <2>4, <2>5
<1>4. /\ Namespace(Model) \in Spaces /\ Len(Model.fields) \in Nat
      /\ m \in DOMAIN project /\ Len(project) \in Nat
  BY <1>1, <1>3, ModelFacts
<1>0. PICK x \in Identifiers : x = Top.name
  BY <1>3
<1>5. PICK E : E = EmittedFor(Top, Namespace(Model))
  OBVIOUS
<1>6. out' = out \o E
  BY <1>5 DEF EndDescriptor
<1>7. /\ E \in Seq(Declarations) /\ Len(E) \in Nat \ {0} /\ DOMAIN E = 1 .. Len(E)
      /\ \A d \in DOMAIN E :
            /\ E[d].space = Namespace(Model)
            /\ E[d].name \in {x, ArgumentsName(x), EnumValuesName(x)}
            /\ \A u \in DOMAIN E[d].uses :
                  \/ \E e \in 1 .. d - 1 : E[d].uses[u] = E[e].name
                  \/ \E b \in 1 .. Len(Top.type.arguments) :
                        E[d].uses[u] = ArgumentName(x, b)
      /\ E[Len(E)].name = x
      /\ \A d, e \in DOMAIN E : E[d].name = E[e].name => d = e
  <2>1. /\ E \in Seq(Declarations) /\ Len(E) \in Nat \ {0} /\ DOMAIN E = 1 .. Len(E)
        /\ \A d \in DOMAIN E :
              /\ E[d].space = Namespace(Model)
              /\ E[d].name \in {Top.name, ArgumentsName(Top.name), EnumValuesName(Top.name)}
              /\ \A u \in DOMAIN E[d].uses :
                    \/ \E e \in 1 .. d - 1 : E[d].uses[u] = E[e].name
                    \/ \E a \in 1 .. Len(Top.type.arguments) :
                          E[d].uses[u] = ArgumentName(Top.name, a)
        /\ E[Len(E)].name = Top.name
        /\ \A d, e \in DOMAIN E : E[d].name = E[e].name => d = e
    <3>1. Top \in Calls /\ Namespace(Model) \in Spaces
      BY <1>3, <1>4
    <3> QED
      BY <1>5, <3>1, Emission
  <2> QED
    BY <1>0, <2>1
<1>8. \A d \in DOMAIN E :
         /\ E[d].name \in Identifiers /\ BelongsTo(E[d].name, Model.fields[f].name)
         /\ \A n \in 1 .. L - 1 :
               Extends(E[d].name, stack[n].name, ArgumentParts[stack[n].argument - 1])
         /\ ~Visited(E[d].name)
  BY <1>0, <1>1, <1>2, <1>7, NewNames
<1>9. \A b \in 1 .. Len(Top.type.arguments) : Seen(ArgumentName(x, b))
  <2>1. Finished(L) = Top.argument - 1
    BY <1>2, <1>3 DEF Finished
  <2>2. Len(Top.type.arguments) = Top.argument - 1
    BY <1>1, <1>3
  <2> QED
    BY <1>0, <1>3, <2>1, <2>2 DEF IInv, SeenOK
<1>10. DeclaredBeforeUse' /\ DeclaredOnce' /\ out' \in Seq(Declarations)
  <2>1. \A d \in DOMAIN E : \A u \in DOMAIN E[d].uses :
           \/ \E e \in 1 .. d - 1 : E[e].space = E[d].space /\ E[e].name = E[d].uses[u]
           \/ \E e \in DOMAIN out : out[e].space = E[d].space /\ out[e].name = E[d].uses[u]
    <3>1. SUFFICES ASSUME NEW d \in DOMAIN E, NEW u \in DOMAIN E[d].uses
                   PROVE  \/ \E e \in 1 .. d - 1 : E[e].space = E[d].space
                                                   /\ E[e].name = E[d].uses[u]
                          \/ \E e \in DOMAIN out : out[e].space = E[d].space
                                                   /\ out[e].name = E[d].uses[u]
      OBVIOUS
    <3>2. CASE \E e \in 1 .. d - 1 : E[d].uses[u] = E[e].name
      <4>1. PICK e \in 1 .. d - 1 : E[d].uses[u] = E[e].name
        BY <3>2
      <4>2. e \in DOMAIN E
        BY <1>7, <3>1, <4>1
      <4> QED
        BY <1>7, <4>1, <4>2
    <3>3. CASE \E b \in 1 .. Len(Top.type.arguments) : E[d].uses[u] = ArgumentName(x, b)
      <4>1. Seen(E[d].uses[u])
        BY <1>9, <3>3
      <4> QED
        BY <1>7, <4>1 DEF Seen
    <3> QED
      BY <1>7, <3>1, <3>2, <3>3
  <2>2. ~NamespacesCollide =>
           \A d \in DOMAIN out : \A e \in DOMAIN E :
              ~(out[d].space = E[e].space /\ out[d].name = E[e].name)
    <3>1. SUFFICES ASSUME ~NamespacesCollide, NEW d \in DOMAIN out, NEW e \in DOMAIN E,
                          out[d].space = E[e].space, out[d].name = E[e].name
                   PROVE  FALSE
      OBVIOUS
    <3>2. out[d].space = Namespace(Model)
      BY <1>7, <3>1
    <3>3. Visited(out[d].name)
      BY <1>1, <1>3, <3>1, <3>2, OwnNames
    <3> QED
      BY <1>8, <3>1, <3>3
  <2>3. out \in Seq(Declarations) /\ DeclaredBeforeUse /\ DeclaredOnce
    BY DEF IInv, TypeOK
  <2> QED
    BY <1>1, <1>6, <1>7, <2>1, <2>2, <2>3, Appending
<1>11. PICK O \in Nat :
          /\ DOMAIN out = 1 .. O /\ DOMAIN out' = 1 .. O + Len(E)
          /\ \A d \in 1 .. O : out'[d] = out[d]
          /\ \A d \in 1 .. Len(E) : out'[O + d] = E[d]
  <2>1. out \in Seq(Declarations) /\ Len(out) \in Nat /\ DOMAIN out = 1 .. Len(out)
    BY DEF IInv, TypeOK
  <2> QED
    <3>1. /\ out \o E \in Seq(Declarations) /\ Len(out \o E) = Len(out) + Len(E)
          /\ \A d \in 1 .. Len(out) : (out \o E)[d] = out[d]
          /\ \A d \in 1 .. Len(E) : (out \o E)[Len(out) + d] = E[d]
      BY <1>7, <2>1, ConcatFacts
    <3>2. DOMAIN (out \o E) = 1 .. Len(out) + Len(E)
      BY <3>1
    <3> QED
      BY <1>6, <2>1, <3>1, <3>2
<1>12. /\ \A y : Seen(y) => Seen(y)'
       /\ \A d \in DOMAIN E : Seen(E[d].name)'
  <2>1. \A d \in 1 .. O : d \in DOMAIN out'
    BY <1>7, <1>11
  <2>2. \A d \in DOMAIN E : O + d \in DOMAIN out' /\ out'[O + d] = E[d]
    BY <1>7, <1>11
  <2>3. \A y : Seen(y) => Seen(y)'
    BY <1>1, <1>11, <2>1 DEF Seen
  <2>4. \A d \in DOMAIN E : Seen(E[d].name)'
    BY <1>1, <1>7, <2>2 DEF Seen
  <2> QED
    BY <2>3, <2>4
<1>13. Seen(x)'
  <2>1. Len(E) \in DOMAIN E /\ E[Len(E)].name = x
    BY <1>7
  <2>2. \A d \in DOMAIN E : \A y : y = E[d].name => Seen(y)'
    BY <1>12
  <2> QED
    BY <2>1, <2>2
<1>14. stack' = SubSeq(stack, 1, L - 1) /\ f' = IF L = 1 THEN f + 1 ELSE f
  BY <1>2 DEF EndDescriptor
<1>15. /\ stack' \in Seq(Calls) /\ Len(stack') = L - 1 /\ DOMAIN stack' = 1 .. L - 1
       /\ \A n \in 1 .. L - 1 : stack'[n] = stack[n] /\ n \in DOMAIN stack
       /\ stack' # <<>> <=> L # 1
  <2>1. \A n \in 1 .. L - 1 : n \in DOMAIN stack /\ stack[n] \in Calls
    BY <1>2, <1>3
  <2>2. /\ stack' \in Seq(Calls) /\ Len(stack') = IF 1 <= L - 1 THEN (L - 1) - 1 + 1 ELSE 0
        /\ \A n \in 1 .. (L - 1) - 1 + 1 : stack'[n] = stack[1 + n - 1]
    BY <1>2, <1>14, <2>1, SubSeqProperties
  <2>3. Len(stack') = L - 1
    BY <1>2, <2>2
  <2>4. \A n \in 1 .. L - 1 : stack'[n] = stack[n]
    BY <1>2, <2>2
  <2> QED
    <3>1. DOMAIN stack' = 1 .. L - 1
      BY <2>2, <2>3
    <3>2. stack' # <<>> <=> L # 1
      BY <1>2, <2>2, <2>3
    <3> QED
      BY <2>1, <2>2, <2>3, <2>4, <3>1, <3>2
<1>16. TypeOK'
  <2>1. f' \in Nat \ {0} /\ f' <= Len(Model.fields) + 1
    BY <1>3, <1>4, <1>14
  <2>2. \A n \in DOMAIN stack' : stack'[n].argument <= Len(stack'[n].type.arguments) + 1
    BY <1>1, <1>15 DEF TypeOK
  <2>3. stack' # <<>> => f' <= Len(Model.fields)
    BY <1>3, <1>4, <1>14, <1>15
  <2> QED
    BY <1>1, <1>3, <1>10, <1>15, <2>1, <2>2, <2>3 DEF TypeOK
<1>17. StackOK'
  <2>1. CASE L = 1
    BY <1>15, <2>1 DEF StackOK
  <2>2. CASE L # 1
    <3>1. f' = f /\ 1 \in DOMAIN stack' /\ \A n \in DOMAIN stack' : n \in DOMAIN stack
      BY <1>2, <1>14, <1>15, <2>2
    <3>2. \A n \in DOMAIN stack' : n < Len(stack') =>
             n + 1 \in DOMAIN stack' /\ n < Len(stack)
      BY <1>2, <1>15
    <3> QED
      BY <1>1, <1>15, <3>1, <3>2 DEF StackOK
  <2> QED
    BY <2>1, <2>2
\* The frames below know of one argument more.
<1>18. /\ \A n \in 1 .. L - 1 : n # L - 1 => Finished(n)' = Finished(n)
       /\ \A n \in 1 .. L - 1 : n = L - 1 =>
             Finished(n)' = stack[n].argument - 1 /\ Finished(n) = stack[n].argument - 2
       /\ \A n \in 1 .. L - 1 : stack[n].argument \in Nat /\ stack[n].argument >= 2
  <2>1. \A n \in 1 .. L - 1 : n # L /\ n < Len(stack) /\ n \in DOMAIN stack
    BY <1>2, <1>3
  <2>2. \A n \in 1 .. L - 1 : stack[n].argument \in Nat /\ stack[n].argument >= 2
    BY <1>1, <2>1, StackFacts DEF StackOK
  <2> QED
    BY <1>2, <1>15, <2>1, <2>2 DEF Finished
<1>19. SeenOK'
  <2>1. /\ \A g \in 1 .. f - 1 : Seen(FieldTypeName(Model.fields[g].name))
        /\ \A n \in 1 .. L : \A b \in 1 .. Finished(n) : Seen(ArgumentName(stack[n].name, b))
    BY <1>3 DEF IInv, SeenOK
  <2>2. ASSUME NEW g \in 1 .. f' - 1, NEW y, y = FieldTypeName(Model.fields[g].name)
        PROVE  Seen(y)'
    <3>1. CASE g \in 1 .. f - 1
      BY <1>12, <2>1, <2>2, <3>1
    <3>2. CASE g \notin 1 .. f - 1
      <4>1. L = 1 /\ g = f
        BY <1>3, <1>14, <2>2, <3>2
      <4>2. x = FieldTypeName(Model.fields[f].name)
        BY <1>0, <1>1, <1>3, <4>1 DEF StackOK
      <4> QED
        BY <1>13, <2>2, <4>1, <4>2
    <3> QED
      BY <3>1, <3>2
  <2>3. ASSUME NEW n \in 1 .. L - 1, NEW b \in 1 .. Finished(n)',
               NEW y, y = ArgumentName(stack[n].name, b)
        PROVE  Seen(y)'
    <3>1. n \in 1 .. L
      BY <1>2, <2>3
    <3>2. CASE b \in 1 .. Finished(n)
      BY <1>12, <2>1, <2>3, <3>1, <3>2
    <3>3. CASE b \notin 1 .. Finished(n)
      <4>1. n = L - 1 /\ b = stack[n].argument - 1
        BY <1>18, <2>3, <3>3
      <4>2. n \in DOMAIN stack /\ n < Len(stack) /\ n + 1 = L
        BY <1>2, <1>3, <3>1, <4>1
      <4>3. stack[n + 1].name = ArgumentName(stack[n].name, stack[n].argument - 1)
        BY <1>1, <4>2 DEF StackOK
      <4>4. y = x
        BY <1>0, <1>3, <2>3, <4>1, <4>2, <4>3
      <4> QED
        BY <1>13, <4>4
    <3> QED
      BY <3>2, <3>3
  <2>4. \A g \in 1 .. f' - 1 : Seen(FieldTypeName(Model.fields[g].name))'
    BY <1>1, <2>2
  <2>5. \A n \in DOMAIN stack' : \A b \in 1 .. Finished(n)' :
           Seen(ArgumentName(stack[n].name, b))'
    BY <1>15, <2>3
  <2> QED
    BY <2>4, <2>5 DEF SeenOK
<1>20. \A y : y \in Identifiers /\ Visited(y) => Visited(y)'
  <2>1. SUFFICES ASSUME NEW y \in Identifiers, Visited(y) PROVE Visited(y)'
    OBVIOUS
  <2>2. CASE \E g \in 1 .. f - 1 : BelongsTo(y, Model.fields[g].name)
    <3>1. \A g \in 1 .. f - 1 : g \in 1 .. f' - 1
      BY <1>3, <1>14
    <3> QED
      BY <1>1, <2>2, <3>1 DEF Visited
  <2>3. CASE /\ BelongsTo(y, Model.fields[f].name)
             /\ \E n \in DOMAIN stack : \E b \in 1 .. Finished(n) :
                   Extends(y, stack[n].name, ArgumentParts[b])
    <3>1. CASE L = 1
      <4>1. f \in 1 .. f' - 1
        BY <1>3, <1>14, <3>1
      <4> QED
        BY <1>1, <2>3, <4>1 DEF Visited
    <3>2. CASE L # 1
      <4>1. f' = f /\ stack' # <<>>
        BY <1>14, <1>15, <3>2
      <4>2. PICK n \in 1 .. L : \E b \in 1 .. Finished(n) :
                   Extends(y, stack[n].name, ArgumentParts[b])
        BY <1>3, <2>3
      <4>3. CASE n # L
        <5>1. n \in 1 .. L - 1
          BY <1>2, <4>2, <4>3
        <5>2. \A b \in 1 .. Finished(n) : b \in 1 .. Finished(n)'
          BY <1>18, <5>1
        <5>3. n \in DOMAIN stack' /\ stack'[n] = stack[n]
          BY <1>15, <5>1
        <5> QED
          BY <1>1, <2>3, <4>1, <4>2, <5>2, <5>3 DEF Visited
      <4>4. CASE n = L
        <5>1. PICK b : Extends(y, x, ArgumentParts[b])
          BY <1>0, <1>3, <4>2, <4>4
        <5>2. PICK k \in 1 .. L - 1 : k = L - 1
          BY <1>2, <3>2
        <5>3. /\ Extends(x, stack[k].name, ArgumentParts[stack[k].argument - 1])
              /\ stack[k].name \in Identifiers
          <6>1. k \in DOMAIN stack /\ k < L
            BY <1>2, <1>3, <5>2
          <6> QED
            BY <1>0, <1>1, <1>3, <6>1, StackFacts DEF StackOK
        <5>4. Extends(y, stack[k].name, ArgumentParts[stack[k].argument - 1])
          BY <1>3, <5>1, <5>3, ExtendsFurther
        <5>5. stack[k].argument - 1 \in 1 .. Finished(k)'
          BY <1>18, <5>2
        <5>6. k \in DOMAIN stack' /\ stack'[k] = stack[k]
          BY <1>15, <5>2
        <5> QED
          BY <1>1, <2>3, <4>1, <5>4, <5>5, <5>6 DEF Visited
      <4> QED
        BY <4>3, <4>4
    <3> QED
      BY <3>1, <3>2
  <2> QED
    BY <2>1, <2>2, <2>3 DEF Visited
<1>21. \A d \in DOMAIN E : Visited(E[d].name)'
  <2>1. SUFFICES ASSUME NEW d \in DOMAIN E PROVE Visited(E[d].name)'
    OBVIOUS
  <2>2. CASE L = 1
    <3>1. f \in 1 .. f' - 1
      BY <1>3, <1>14, <2>2
    <3> QED
      BY <1>1, <1>8, <3>1 DEF Visited
  <2>3. CASE L # 1
    <3>1. PICK k \in 1 .. L - 1 : k = L - 1
      BY <1>2, <2>3
    <3>2. Extends(E[d].name, stack[k].name, ArgumentParts[stack[k].argument - 1])
      BY <1>8, <3>1
    <3>3. stack[k].argument - 1 \in 1 .. Finished(k)'
      BY <1>18, <3>1
    <3>4. k \in DOMAIN stack' /\ stack'[k] = stack[k] /\ f' = f /\ stack' # <<>>
      BY <1>14, <1>15, <2>3, <3>1
    <3> QED
      BY <1>1, <1>8, <3>2, <3>3, <3>4 DEF Visited
  <2> QED
    BY <2>2, <2>3
<1>22. PlacedOK'
  <2>1. SUFFICES ASSUME NEW d \in DOMAIN out'
                 PROVE  \E k \in 1 .. Len(project) :
                           /\ k <= m /\ out'[d].space = Namespace(project[k])
                           /\ k = m => out'[d].name \in Identifiers /\ Visited(out[d].name)'
    BY <1>1 DEF PlacedOK
  <2>2. CASE d \in 1 .. O
    <3>1. PICK k \in 1 .. Len(project) :
             /\ k <= m /\ out[d].space = Namespace(project[k])
             /\ k = m => out[d].name \in Identifiers /\ Visited(out[d].name)
      BY <1>1, <1>11, <2>2 DEF PlacedOK
    <3>2. out'[d] = out[d]
      BY <1>11, <2>2
    <3>3. \A y : y = out[d].name /\ k = m => y \in Identifiers /\ Visited(y)'
      BY <1>20, <3>1
    <3> QED
      BY <3>1, <3>2, <3>3
  <2>3. CASE d \notin 1 .. O
    <3>1. PICK e \in DOMAIN E : d = O + e
      <4>1. d - O \in 1 .. Len(E) /\ d = O + (d - O)
        BY <1>7, <1>11, <2>1, <2>3
      <4> QED
        BY <1>7, <4>1
    <3>2. out'[d] = E[e]
      BY <1>7, <1>11, <3>1
    <3>3. m \in 1 .. Len(project) /\ m <= m
      BY <1>1, <1>3, <1>4 DEF TypeOK
    <3>4. \A y : y = E[e].name => y \in Identifiers /\ Visited(y)'
      BY <1>8, <1>21
    <3> QED
      BY <1>7, <3>2, <3>3, <3>4 DEF Model
  <2> QED
    BY <2>2, <2>3
<1> QED
  BY <1>10, <1>16, <1>17, <1>19, <1>22 DEF IInv

\* The names of the array of fields and of the traits belong to no field.
LEMMA NoFieldsName ==
    ASSUME NEW a \in Identifiers, a \in Seq(Parts), NEW x, BelongsTo(x, a)
    PROVE  /\ x # <<"fields">>
           /\ \A p, q : x # <<"cjm::model_traits", p, q>>
<1>1. Len(a) \in Nat /\ \A j \in 1 .. Len(a) : a[j] \in Parts
  OBVIOUS
<1>2. x[1] # "cjm::model_traits"
  <2>1. CASE Len(a) = 0
    BY <2>1 DEF BelongsTo, Extends
  <2>2. CASE Len(a) # 0
    <3>1. x[1] = a[1] /\ a[1] \in Parts
      BY <1>1, <2>2 DEF BelongsTo, Extends
    <3> QED
      BY <3>1, ProjectsAssumption
  <2> QED
    BY <2>1, <2>2
<1>3. x # <<"fields">>
  <2>1. SUFFICES ASSUME x = <<"fields">> PROVE FALSE
    OBVIOUS
  <2>2. Len(x) = 1 /\ x[1] = "fields"
    BY <2>1
  <2>3. Len(a) = 0
    BY <1>1, <2>2 DEF BelongsTo, Extends
  <2> QED
    BY <2>2, <2>3 DEF BelongsTo, Extends
<1> QED
  BY <1>2, <1>3

\* The end of a struct: all its fields have been declared.
LEMMA Describing == ASSUME IInv, EndModel PROVE IInv'
<1>1. /\ project' = project /\ stack' = stack /\ stack = <<>> /\ m' = m + 1 /\ f' = 1
      /\ m <= Len(project) /\ f > Len(Model.fields)
      /\ TypeOK /\ PlacedOK /\ DeclaredBeforeUse /\ DeclaredOnce
  BY DEF EndModel, IInv
<1>2. /\ m \in DOMAIN project /\ Len(project) \in Nat
      /\ Model.fields \in Seq(Fields) /\ Len(Model.fields) \in Nat
      /\ DOMAIN Model.fields = 1 .. Len(Model.fields)
      /\ \A g \in DOMAIN Model.fields :
            Model.fields[g].name \in Identifiers /\ Model.fields[g].name \in Seq(Parts)
      /\ Namespace(Model) \in Spaces
      /\ <<"cjm::model_traits", Model.path, Model.name>> \in TraitsNames
  BY <1>1, ModelFacts
<1>3. f \in Nat \ {0} /\ f = Len(Model.fields) + 1 /\ m \in 1 .. Len(project)
  BY <1>1, <1>2, SMTT(30) DEF TypeOK
<1>4. PICK F : F = Declaration("fields", Namespace(Model), <<"fields">>,
                      [n \in DOMAIN Model.fields |-> FieldTypeName(Model.fields[n].name)])
  OBVIOUS
<1>5. PICK T : T = Declaration("traits", Namespace(Model),
                      <<"cjm::model_traits", Model.path, Model.name>>, <<<<"fields">>>>)
  OBVIOUS
<1>6. out' = out \o <<F, T>>
  BY <1>4, <1>5 DEF EndModel, FieldsDescribed
<1>7. <<"fields">> \in Identifiers
  BY DEF Identifiers, AllParts
<1>8. /\ F.uses \in Seq(Identifiers) /\ DOMAIN F.uses = DOMAIN Model.fields
      /\ \A u \in DOMAIN F.uses : F.uses[u] = FieldTypeName(Model.fields[u].name)
  <2>1. \A n \in 1 .. Len(Model.fields) : FieldTypeName(Model.fields[n].name) \in Identifiers
    BY <1>2, FieldTypeNameBelongs
  <2>2. F.uses = [n \in DOMAIN Model.fields |-> FieldTypeName(Model.fields[n].name)]
    BY <1>4 DEF Declaration
  <2>3. DOMAIN F.uses = 1 .. Len(Model.fields)
    BY <1>2, <2>2
  <2>4. \A u \in 1 .. Len(Model.fields) : F.uses[u] = FieldTypeName(Model.fields[u].name)
    BY <1>2, <2>2
  <2>5. F.uses = [n \in 1 .. Len(Model.fields) |-> FieldTypeName(Model.fields[n].name)]
    BY <1>2, <2>2
  <2>6. F.uses \in Seq(Identifiers)
    BY <1>2, <2>1, <2>5
  <2> QED
    BY <1>2, <2>3, <2>4, <2>6
<1>9. /\ F.name = <<"fields">> /\ F.space = Namespace(Model) /\ F.what = "fields"
      /\ T.name = <<"cjm::model_traits", Model.path, Model.name>> /\ T.space = Namespace(Model)
      /\ T.uses = <<<<"fields">>>> /\ T.what = "traits"
  BY <1>4, <1>5 DEF Declaration
<1>10. F \in Declarations /\ T \in Declarations
  <2>1. \A what \in {"fields", "traits"} : \A name \in Identifiers \cup TraitsNames :
           \A uses \in Seq(Identifiers) :
              Declaration(what, Namespace(Model), name, uses) \in Declarations
    BY <1>2 DEF Declaration, Declarations
  <2>2. F = Declaration("fields", Namespace(Model), <<"fields">>, F.uses)
    BY <1>4 DEF Declaration
  <2>3. <<<<"fields">>>> \in Seq(Identifiers)
    BY <1>7
  <2>4. F \in Declarations
    BY <1>7, <1>8, <2>1, <2>2
  <2>5. T \in Declarations
    BY <1>2, <1>5, <2>1, <2>3
  <2> QED
    BY <2>4, <2>5
<1>11. PICK E : E = <<F, T>>
  OBVIOUS
<1>12. /\ E \in Seq(Declarations) /\ Len(E) = 2 /\ DOMAIN E = 1 .. 2 /\ E[1] = F /\ E[2] = T
  BY <1>10, <1>11
<1>13. F.name # T.name
  BY <1>9
<1>14. DeclaredBeforeUse' /\ DeclaredOnce' /\ out' \in Seq(Declarations)
  <2>1. \A d \in DOMAIN E : \A u \in DOMAIN E[d].uses :
           \/ \E e \in 1 .. d - 1 : E[e].space = E[d].space /\ E[e].name = E[d].uses[u]
           \/ \E e \in DOMAIN out : out[e].space = E[d].space /\ out[e].name = E[d].uses[u]
    <3>1. \A u \in DOMAIN F.uses :
             \E e \in DOMAIN out : out[e].space = F.space /\ out[e].name = F.uses[u]
      <4>1. SUFFICES ASSUME NEW u \in DOMAIN F.uses PROVE Seen(F.uses[u])
        BY <1>9 DEF Seen
      <4>2. u \in 1 .. f - 1
        BY <1>2, <1>3, <1>8, <4>1
      <4> QED
        BY <1>1, <1>8, <4>1, <4>2 DEF IInv, SeenOK
    <3>2. \A u \in DOMAIN T.uses : T.uses[u] = F.name
      BY <1>9
    <3>3. F.space = T.space
      BY <1>9
    <3> QED
      BY <1>12, <3>1, <3>2, <3>3
  <2>2. ASSUME ~NamespacesCollide
        PROVE  /\ \A d, e \in DOMAIN E : E[d].space = E[e].space /\ E[d].name = E[e].name => d = e
               /\ \A d \in DOMAIN out : \A e \in DOMAIN E :
                     ~(out[d].space = E[e].space /\ out[d].name = E[e].name)
    <3>1. SUFFICES ASSUME NEW d \in DOMAIN out, out[d].space = Namespace(Model)
                   PROVE  out[d].name # F.name /\ out[d].name # T.name
      BY <1>9, <1>12, <1>13
    <3>2. out[d].name \in Identifiers /\ Visited(out[d].name)
      BY <1>1, <2>2, <3>1, OwnNames
    <3>3. PICK g \in 1 .. f - 1 : BelongsTo(out[d].name, Model.fields[g].name)
      BY <1>1, <3>2 DEF Visited
    <3>4. g \in DOMAIN Model.fields
      BY <1>2, <1>3, <3>3
    <3> QED
      BY <1>2, <1>9, <3>3, <3>4, NoFieldsName
  <2>3. out \in Seq(Declarations) /\ out' = out \o E
    BY <1>1, <1>6, <1>11 DEF TypeOK
  <2> QED
    BY <1>1, <1>12, <2>1, <2>2, <2>3, Appending
<1>15. TypeOK'
  <2>1. m' \in 1 .. Len(project) + 1
    BY <1>1, <1>3
  <2>2. (m <= Len(project) => f <= Len(Model.fields) + 1)'
    <3>1. SUFFICES ASSUME m' <= Len(project) PROVE Len(Model'.fields) \in Nat
      BY <1>1
    <3>2. Model' = project[m + 1] /\ m + 1 \in 1 .. Len(project)
      BY <1>1, <1>3, <3>1 DEF Model
    <3>3. project \in Seq(Structs)
      BY <1>1, ProjectsAssumption DEF TypeOK
    <3>4. Model' \in Structs
      BY <3>2, <3>3
    <3> QED
      BY <3>4 DEF Structs
  <2> QED
    BY <1>1, <1>14, <2>1, <2>2 DEF TypeOK
<1>16. StackOK' /\ SeenOK'
  BY <1>1 DEF StackOK, SeenOK
<1>17. PlacedOK'
  <2>1. SUFFICES ASSUME NEW d \in DOMAIN out'
                 PROVE  \E k \in 1 .. Len(project) :
                           k < m + 1 /\ out'[d].space = Namespace(project[k])
    BY <1>1, <1>3 DEF PlacedOK
  <2>2. out \in Seq(Declarations) /\ Len(out) \in Nat /\ DOMAIN out = 1 .. Len(out)
    BY <1>1 DEF TypeOK
  <2>3. /\ DOMAIN (out \o E) = 1 .. Len(out) + 2
        /\ \A e \in 1 .. Len(out) : (out \o E)[e] = out[e]
        /\ \A e \in 1 .. 2 : (out \o E)[Len(out) + e] = E[e]
    <3>1. /\ out \o E \in Seq(Declarations) /\ Len(out \o E) = Len(out) + Len(E)
          /\ \A e \in 1 .. Len(out) : (out \o E)[e] = out[e]
          /\ \A e \in 1 .. Len(E) : (out \o E)[Len(out) + e] = E[e]
      <4>1. out \in Seq(Declarations) /\ E \in Seq(Declarations)
        BY <1>12, <2>2
      <4> QED
        BY <4>1, ConcatFacts
    <3>2. DOMAIN (out \o E) = 1 .. Len(out) + Len(E)
      BY <3>1
    <3> QED
      BY <1>12, <3>1, <3>2
  <2>4. CASE d \in 1 .. Len(out)
    <3>1. PICK k \in 1 .. Len(project) : k <= m /\ out[d].space = Namespace(project[k])
      BY <1>1, <2>2, <2>4 DEF PlacedOK
    <3>2. out'[d] = out[d] /\ k < m + 1
      BY <1>3, <1>6, <1>11, <2>3, <2>4, <3>1
    <3> QED
      BY <3>1, <3>2
  <2>5. CASE d \notin 1 .. Len(out)
    <3>1. d = Len(out) + 1 \/ d = Len(out) + 2
      BY <1>6, <1>11, <2>1, <2>2, <2>3, <2>5
    <3>2. out'[d] = E[1] \/ out'[d] = E[2]
      BY <1>6, <1>11, <2>3, <3>1
    <3>3. out'[d].space = Namespace(project[m]) /\ m < m + 1
      BY <1>3, <1>9, <1>12, <3>2 DEF Model
    <3> QED
      BY <1>3, <3>3
  <2> QED
    BY <2>4, <2>5
<1> QED
  BY <1>14, <1>15, <1>16, <1>17 DEF IInv

LEMMA InvariantStep == IInv /\ [Next]_vars => IInv'
<1> SUFFICES ASSUME IInv, [Next]_vars PROVE IInv'
  OBVIOUS
<1>1. CASE BeginField \/ BeginArgument \/ EndDescriptor \/ EndModel
  BY <1>1, Beginning, Descending, Ascending, Describing
<1>2. CASE Returned \/ UNCHANGED vars
  <2>1. project' = project /\ m' = m /\ f' = f /\ stack' = stack /\ out' = out
    BY <1>2 DEF Returned, vars
  <2>2. Model' = Model /\ \A n : Finished(n)' = Finished(n)
    BY <2>1 DEF Model, Finished
  <2>3. \A x : Visited(x)' = Visited(x) /\ Seen(x)' = Seen(x)
    BY <2>1, <2>2 DEF Visited, Seen
  <2>4. TypeOK' /\ StackOK'
    BY <2>1, <2>2 DEF IInv, TypeOK, StackOK
  <2>5. SeenOK' /\ PlacedOK'
    BY <2>1, <2>2, <2>3 DEF IInv, SeenOK, PlacedOK
  <2>6. DeclaredBeforeUse' /\ DeclaredOnce'
    BY <2>1 DEF IInv, DeclaredBeforeUse, DeclaredOnce, NamespacesCollide
  <2> QED
    BY <2>4, <2>5, <2>6 DEF IInv
<1> QED
  BY <1>1, <1>2 DEF Next

\* The generated header compiles from top to bottom, for every project
\* (generate_contract_type_descriptor emits arguments and arrays first).
THEOREM DeclarationHolds == Spec => []DeclaredBeforeUse
<1>1. IInv => DeclaredBeforeUse
  BY DEF IInv
<1> QED
  BY <1>1, InitialInvariant, InvariantStep, PTL DEF Spec

\* No two declarations of the generated header have one name, for every project
\* without two structs that share a descriptor namespace.
THEOREM UniquenessHolds == Spec => []DeclaredOnce
<1>1. IInv => DeclaredOnce
  BY DEF IInv
<1> QED
  BY <1>1, InitialInvariant, InvariantStep, PTL DEF Spec

-----------------------------------------------------------------------------
(* What the declarations mean.                                             *)

\* A descriptor of this name, of the type that ty gives it.
Typed(ty, space, x, t) ==
    \E d \in DOMAIN out :
        /\ out[d].what = "descriptor" /\ out[d].space = space /\ out[d].name = x
        /\ ty[d] = t

Stands(declaration) == \E d \in DOMAIN out : out[d] = declaration

\* All that a descriptor of the type that ty gives it points to.
Complete(ty, d) ==
    LET call == Call(out[d].name, ty[d])
        space == out[d].space
    IN  /\ ty[d] \in Types
        /\ out[d] = Descriptor(call, space)
        /\ call.type.arguments # <<>> => Stands(ArgumentArray(call, space))
        /\ \A a \in DOMAIN call.type.arguments :
              Typed(ty, space, ArgumentName(call.name, a), call.type.arguments[a])
        /\ call.type.values => Stands(EnumValues(call, space))

DescriptorsMeant(ty) == \A d \in DOMAIN out : out[d].what = "descriptor" => Complete(ty, d)

\* The fields and arguments that have been visited, and the types of the frames.
PlacesMeant(ty) ==
    /\ m <= Len(project) =>
          \A g \in 1 .. f - 1 :
              Typed(ty, Namespace(Model), FieldTypeName(Model.fields[g].name),
                    Model.fields[g].type)
    /\ stack # <<>> => stack[1].type = Model.fields[f].type
    /\ \A n \in DOMAIN stack :
          /\ \A a \in 1 .. Finished(n) :
                Typed(ty, Namespace(Model), ArgumentName(stack[n].name, a),
                      stack[n].type.arguments[a])
          /\ n < Len(stack) =>
                stack[n + 1].type = stack[n].type.arguments[stack[n].argument - 1]

FieldsOf(type) ==
    Declaration("fields", Namespace(type), <<"fields">>,
                [n \in DOMAIN type.fields |-> FieldTypeName(type.fields[n].name)])
TraitsOf(type) ==
    Declaration("traits", Namespace(type),
                <<"cjm::model_traits", type.path, type.name>>, <<<<"fields">>>>)

\* The structs behind the loop, and no traits but theirs.
ModelsMeant(ty) ==
    /\ \A k \in 1 .. m - 1 :
          /\ Stands(FieldsOf(project[k])) /\ Stands(TraitsOf(project[k]))
          /\ \A g \in DOMAIN project[k].fields :
                Typed(ty, Namespace(project[k]), FieldTypeName(project[k].fields[g].name),
                      project[k].fields[g].type)
    /\ \A d \in DOMAIN out :
          out[d].what = "traits" => \E k \in 1 .. m - 1 : out[d] = TraitsOf(project[k])

Meant == \E ty : DescriptorsMeant(ty) /\ PlacesMeant(ty) /\ ModelsMeant(ty)

\* What has been declared keeps its meaning, and what is new has the type t0.
Growth(ty, tz, t0, E) ==
    /\ \A space, x, t : Typed(ty, space, x, t) => Typed(tz, space, x, t)'
    /\ \A declaration : Stands(declaration) => Stands(declaration)'
    /\ \A e \in DOMAIN E : Stands(E[e])'
    /\ \A d \in DOMAIN out : Complete(ty, d) => Complete(tz, d)'
    /\ \A d \in DOMAIN out : d \in DOMAIN out' /\ out'[d] = out[d]
    /\ \A d \in DOMAIN out' : d \notin DOMAIN out =>
          tz[d] = t0 /\ \E e \in DOMAIN E : out'[d] = E[e]
    /\ \A e \in DOMAIN E : \E d \in DOMAIN out' : out'[d] = E[e] /\ tz[d] = t0

LEMMA Grown ==
    ASSUME out \in Seq(Declarations), NEW E \in Seq(Declarations), out' = out \o E,
           NEW ty, NEW t0
    PROVE  \E tz : Growth(ty, tz, t0, E)
<1>0. PICK tz : tz = [d \in DOMAIN out' |-> IF d \in DOMAIN out THEN ty[d] ELSE t0]
  OBVIOUS
<1>1. PICK L \in Nat : L = Len(out)
  OBVIOUS
<1>2. /\ DOMAIN out = 1 .. L /\ DOMAIN E = 1 .. Len(E) /\ Len(E) \in Nat
      /\ DOMAIN out' = 1 .. L + Len(E)
      /\ \A d \in 1 .. L : out'[d] = out[d]
      /\ \A e \in 1 .. Len(E) : out'[L + e] = E[e]
  <2>1. /\ out \o E \in Seq(Declarations) /\ Len(out \o E) = Len(out) + Len(E)
        /\ \A d \in 1 .. Len(out) : (out \o E)[d] = out[d]
        /\ \A e \in 1 .. Len(E) : (out \o E)[Len(out) + e] = E[e]
    BY ConcatFacts
  <2>2. DOMAIN (out \o E) = 1 .. Len(out) + Len(E)
    BY <2>1
  <2> QED
    BY <1>1, <2>1, <2>2
<1>3. \A d \in DOMAIN out : d \in DOMAIN out' /\ out'[d] = out[d] /\ tz[d] = ty[d]
  BY <1>0, <1>2
<1>4. \A e \in DOMAIN E : L + e \in DOMAIN out' /\ L + e \notin DOMAIN out
  BY <1>2
<1>5. \A e \in DOMAIN E : \E d \in DOMAIN out' : out'[d] = E[e] /\ tz[d] = t0
  BY <1>0, <1>2, <1>4
<1>6. \A d \in DOMAIN out' : d \notin DOMAIN out =>
         tz[d] = t0 /\ \E e \in DOMAIN E : out'[d] = E[e]
  <2>1. SUFFICES ASSUME NEW d \in DOMAIN out', d \notin DOMAIN out
                 PROVE  tz[d] = t0 /\ \E e \in DOMAIN E : out'[d] = E[e]
    OBVIOUS
  <2>2. d - L \in 1 .. Len(E) /\ L + (d - L) = d
    BY <1>2, <2>1
  <2> QED
    BY <1>0, <1>2, <2>1, <2>2
<1>7. \A space, x, t : Typed(ty, space, x, t) => Typed(tz, space, x, t)'
  BY <1>3 DEF Typed
<1>8. /\ \A declaration : Stands(declaration) => Stands(declaration)'
      /\ \A e \in DOMAIN E : Stands(E[e])'
  BY <1>3, <1>5 DEF Stands
<1>9. ASSUME NEW d \in DOMAIN out, Complete(ty, d) PROVE Complete(tz, d)'
  BY <1>3, <1>7, <1>8, <1>9 DEF Complete
<1> QED
  BY <1>3, <1>5, <1>6, <1>7, <1>8, <1>9 DEF Growth

LEMMA InitialMeaning == Init => Meant
<1> SUFFICES ASSUME Init PROVE Meant
  OBVIOUS
<1>1. m = 1 /\ f = 1 /\ stack = <<>> /\ out = <<>> /\ DOMAIN out = {} /\ DOMAIN stack = {}
  BY DEF Init
<1>2. \A ty : DescriptorsMeant(ty) /\ PlacesMeant(ty) /\ ModelsMeant(ty)
  BY <1>1 DEF DescriptorsMeant, PlacesMeant, ModelsMeant
<1> QED
  BY <1>2 DEF Meant

\* Steps that declare nothing.
LEMMA NothingDeclared ==
    ASSUME out' = out, project' = project, m' = m, NEW ty,
           DescriptorsMeant(ty), ModelsMeant(ty)
    PROVE  DescriptorsMeant(ty)' /\ ModelsMeant(ty)'
<1>1. /\ \A space, x, t : Typed(ty, space, x, t)' = Typed(ty, space, x, t)
      /\ \A declaration : Stands(declaration)' = Stands(declaration)
  BY DEF Typed, Stands
<1>2. \A d : Complete(ty, d)' = Complete(ty, d)
  BY <1>1 DEF Complete
<1> QED
  BY <1>1, <1>2 DEF DescriptorsMeant, ModelsMeant

LEMMA BeginningMeans == ASSUME IInv, Meant, BeginField PROVE Meant'
<1>1. /\ project' = project /\ m' = m /\ f' = f /\ out' = out /\ Model' = Model
      /\ m <= Len(project) /\ stack = <<>>
      /\ stack' = <<Call(FieldTypeName(Model.fields[f].name), Model.fields[f].type)>>
  BY DEF BeginField, Model
<1>2. PICK ty : DescriptorsMeant(ty) /\ PlacesMeant(ty) /\ ModelsMeant(ty)
  BY DEF Meant
<1>3. /\ Len(stack') = 1 /\ DOMAIN stack' = {1} /\ stack'[1].argument = 1
      /\ stack'[1].type = Model.fields[f].type
  BY <1>1 DEF Call
<1>4. \A n \in DOMAIN stack' : Finished(n)' = 0
  BY <1>3 DEF Finished
<1>5. \A space, x, t : Typed(ty, space, x, t)' = Typed(ty, space, x, t)
  BY <1>1 DEF Typed
<1>6. PlacesMeant(ty)'
  <2>1. \A g \in 1 .. f - 1 :
           Typed(ty, Namespace(Model), FieldTypeName(Model.fields[g].name), Model.fields[g].type)
    BY <1>1, <1>2 DEF PlacesMeant
  <2>2. \A g \in 1 .. f - 1 :
           Typed(ty, Namespace(Model), FieldTypeName(Model.fields[g].name), Model.fields[g].type)'
    BY <1>1, <1>5, <2>1
  <2>3. \A n \in DOMAIN stack' : ~(n < Len(stack')) /\ \A a : a \notin 1 .. Finished(n)'
    BY <1>3, <1>4
  <2> QED
    BY <1>1, <1>3, <2>2, <2>3 DEF PlacesMeant
<1> QED
  BY <1>1, <1>2, <1>6, NothingDeclared DEF Meant

LEMMA DescendingMeans == ASSUME IInv, Meant, BeginArgument PROVE Meant'
<1>1. /\ project' = project /\ m' = m /\ f' = f /\ out' = out /\ Model' = Model
      /\ stack # <<>>
  BY DEF BeginArgument, Model
<1>2. PICK ty : DescriptorsMeant(ty) /\ PlacesMeant(ty) /\ ModelsMeant(ty)
  BY DEF Meant
<1>3. PICK L \in Nat \ {0} : L = Len(stack)
  BY <1>1, StackFacts DEF IInv
<1>4. /\ DOMAIN stack = 1 .. L /\ Top = stack[L] /\ stack \in Seq(Calls) /\ Top \in Calls
  BY <1>1, <1>3, StackFacts DEF IInv, TypeOK
<1>5. PICK a \in Nat \ {0} : a = Top.argument
  BY <1>4 DEF Calls
<1>6. /\ a <= Len(Top.type.arguments) /\ a \in 1 .. Len(Top.type.arguments)
      /\ Top.type.arguments[a] \in Types /\ ArgumentName(Top.name, a) \in Identifiers
  <2>1. Top.name \in Identifiers /\ Top.type \in Types
    BY <1>4 DEF Calls
  <2>2. Len(Top.type.arguments) \in Nat
    BY <2>1, ProjectsAssumption
  <2>3. a \in 1 .. Len(Top.type.arguments) /\ a <= Len(Top.type.arguments)
    BY <1>5, <2>2 DEF BeginArgument
  <2> QED
    BY <2>1, <2>3, ArgumentFacts
<1>7. PICK new \in Calls :
         /\ new = Call(ArgumentName(Top.name, a), Top.type.arguments[a])
         /\ new.argument = 1 /\ new.type = Top.type.arguments[a]
  <2>1. \A x \in Identifiers : \A t \in Types :
           Call(x, t) \in Calls /\ Call(x, t).argument = 1 /\ Call(x, t).type = t
    BY DEF Call, Calls
  <2> QED
    BY <1>6, <2>1
<1>8. /\ Len(stack') = L + 1 /\ DOMAIN stack' = 1 .. L + 1 /\ stack'[L + 1] = new
      /\ \A n \in 1 .. L :
            /\ stack'[n].name = stack[n].name /\ stack'[n].type = stack[n].type
            /\ stack'[n].argument = IF n = L THEN a + 1 ELSE stack[n].argument
  <2> DEFINE moved == [stack EXCEPT ![Len(stack)].argument = @ + 1]
  <2>1. stack' = Append(moved, new)
    BY <1>5, <1>7 DEF BeginArgument
  <2>2. [Top EXCEPT !.argument = a + 1] \in Calls
    <3>1. a + 1 \in Nat \ {0}
      BY <1>5
    <3>2. \A call \in Calls : \A k \in Nat \ {0} : [call EXCEPT !.argument = k] \in Calls
      BY DEF Calls
    <3> QED
      BY <1>4, <3>1, <3>2
  <2>3. moved = [stack EXCEPT ![L] = [Top EXCEPT !.argument = a + 1]]
    BY <1>3, <1>4, <1>5
  <2>4. \A n \in 1 .. L : stack[n] \in Calls
    BY <1>4
  <2>5. L \in 1 .. L /\ L = Len(stack)
    BY <1>3
  <2>6. /\ moved \in Seq(Calls) /\ Len(moved) = L
        /\ \A n \in 1 .. L :
              /\ moved[n].name = stack[n].name /\ moved[n].type = stack[n].type
              /\ moved[n].argument = IF n = L THEN a + 1 ELSE stack[n].argument
    BY <1>3, <1>4, <1>5, <2>2, <2>3, <2>4, <2>5, ExceptSeq DEF Calls
  <2> HIDE DEF moved
  <2> QED
    BY <2>1, <2>6
<1>9. /\ \A n \in 1 .. L : Finished(n)' = Finished(n)
      /\ \A n : n = L + 1 => Finished(n)' = 0
  <2>1. \A n : n = L => Finished(n)' = (a + 1) - 2 /\ Finished(n) = a - 1
    BY <1>3, <1>4, <1>5, <1>8 DEF Finished
  <2>2. \A n \in 1 .. L : n # L => Finished(n)' = Finished(n)
    BY <1>3, <1>8 DEF Finished
  <2>3. \A n : n = L + 1 => Finished(n)' = 0
    BY <1>7, <1>8 DEF Finished
  <2> QED
    BY <2>1, <2>2, <2>3
<1>10. \A space, x, t : Typed(ty, space, x, t)' = Typed(ty, space, x, t)
  BY <1>1 DEF Typed
<1>11. ASSUME NEW n \in 1 .. L, NEW b \in 1 .. Finished(n)
       PROVE  Typed(ty, Namespace(Model), ArgumentName(stack'[n].name, b),
                    stack'[n].type.arguments[b])
  BY <1>2, <1>4, <1>8, <1>11 DEF PlacesMeant
<1>12. ASSUME NEW n \in 1 .. L
       PROVE  stack'[n + 1].type = stack'[n].type.arguments[stack'[n].argument - 1]
  <2>1. CASE n = L
    BY <1>4, <1>7, <1>8, <2>1, SMTT(30)
  <2>2. CASE n # L
    <3>1. n + 1 \in 1 .. L /\ n \in DOMAIN stack /\ n < Len(stack)
      BY <1>3, <1>4, <1>12, <2>2
    <3>2. stack[n + 1].type = stack[n].type.arguments[stack[n].argument - 1]
      BY <1>2, <3>1 DEF PlacesMeant
    <3> QED
      BY <1>8, <2>2, <3>1, <3>2
  <2> QED
    BY <2>1, <2>2
<1>13. PlacesMeant(ty)'
  <2>1. \A n \in DOMAIN stack' : n \in 1 .. L \/ n = L + 1
    BY <1>8
  <2>2. \A n \in DOMAIN stack' : n < Len(stack') => n \in 1 .. L
    BY <1>8
  <2>3. stack'[1].type = Model.fields[f].type
    BY <1>1, <1>2, <1>8 DEF PlacesMeant
  <2>4. \A n \in DOMAIN stack' : \A b \in 1 .. Finished(n)' :
           Typed(ty, Namespace(Model), ArgumentName(stack'[n].name, b),
                 stack'[n].type.arguments[b])
    BY <1>9, <1>11, <2>1
  <2>5. m <= Len(project) => \A g \in 1 .. f - 1 :
              Typed(ty, Namespace(Model), FieldTypeName(Model.fields[g].name),
                    Model.fields[g].type)
    BY <1>2 DEF PlacesMeant
  <2> QED
    BY <1>1, <1>10, <1>12, <2>2, <2>3, <2>4, <2>5 DEF PlacesMeant
<1> QED
  BY <1>1, <1>2, <1>13, NothingDeclared DEF Meant

\* A call emits its descriptor, and the arrays that the descriptor points to.
LEMMA EmissionParts ==
    ASSUME NEW call \in Calls, NEW space \in Spaces, NEW E, E = EmittedFor(call, space)
    PROVE  /\ \E d \in DOMAIN E : E[d] = Descriptor(call, space)
           /\ call.type.arguments # <<>> => \E d \in DOMAIN E : E[d] = ArgumentArray(call, space)
           /\ call.type.values => \E d \in DOMAIN E : E[d] = EnumValues(call, space)
           /\ \A d \in DOMAIN E :
                 /\ E[d].what = "descriptor" => E[d] = Descriptor(call, space)
                 /\ E[d].what # "traits"
<1> DEFINE A == ArgumentArray(call, space)
           V == EnumValues(call, space)
           D == Descriptor(call, space)
<1>1. A.what = "arguments" /\ V.what = "values" /\ D.what = "descriptor"
  BY DEF ArgumentArray, EnumValues, Descriptor, Declaration
<1>2. E = (IF call.type.arguments = <<>> THEN <<>> ELSE <<A>>)
            \o (IF call.type.values THEN <<V>> ELSE <<>>) \o <<D>>
  BY DEF EmittedFor
<1> HIDE DEF A, V, D
<1>3. CASE call.type.arguments = <<>> /\ call.type.values
  <2>1. E = <<V, D>>
    BY <1>2, <1>3, Written, ZenonT(40)
  <2>2. DOMAIN E = {1, 2} /\ E[1] = V /\ E[2] = D
    BY <2>1
  <2> QED
    BY <1>1, <1>3, <2>2 DEF V, D
<1>4. CASE call.type.arguments = <<>> /\ ~call.type.values
  <2>1. E = <<D>>
    BY <1>2, <1>4, Written
  <2>2. DOMAIN E = {1} /\ E[1] = D
    BY <2>1
  <2> QED
    BY <1>1, <1>4, <2>2 DEF D
<1>5. CASE call.type.arguments # <<>> /\ ~call.type.values
  <2>1. E = <<A, D>>
    BY <1>2, <1>5, Written
  <2>2. DOMAIN E = {1, 2} /\ E[1] = A /\ E[2] = D
    BY <2>1
  <2> QED
    BY <1>1, <1>5, <2>2 DEF A, D
<1>6. CASE call.type.arguments # <<>> /\ call.type.values
  <2>1. E = <<A>> \o <<V>> \o <<D>>
    BY <1>2, <1>6
  <2>2. E = <<A, V, D>>
    BY <2>1, Written
  <2>3. DOMAIN E = {1, 2, 3} /\ E[1] = A /\ E[2] = V /\ E[3] = D
    BY <2>2
  <2> QED
    BY <1>1, <1>6, <2>3 DEF A, V, D
<1> QED
  BY <1>3, <1>4, <1>5, <1>6

\* Declarations are known by the name and the type of their call.
LEMMA SameCall ==
    ASSUME NEW call, NEW space, NEW other, other = Call(call.name, call.type)
    PROVE  /\ Descriptor(other, space) = Descriptor(call, space)
           /\ ArgumentArray(other, space) = ArgumentArray(call, space)
           /\ EnumValues(other, space) = EnumValues(call, space)
           /\ other.name = call.name /\ other.type = call.type
           /\ Descriptor(call, space).name = call.name
           /\ Descriptor(call, space).space = space
BY DEF Call, Descriptor, ArgumentArray, EnumValues, Declaration

LEMMA AscendingMeans == ASSUME IInv, Meant, EndDescriptor PROVE Meant'
<1>1. /\ project' = project /\ m' = m /\ Model' = Model
      /\ stack # <<>> /\ Top.argument > Len(Top.type.arguments)
      /\ TypeOK /\ StackOK
  BY DEF EndDescriptor, Model, IInv
<1>2. PICK L \in Nat \ {0} : L = Len(stack)
  BY <1>1, StackFacts
<1>3. /\ DOMAIN stack = 1 .. L /\ L \in DOMAIN stack /\ Top = stack[L] /\ Top \in Calls
      /\ m <= Len(project) /\ f \in 1 .. Len(Model.fields) /\ stack \in Seq(Calls)
  BY <1>1, <1>2, StackFacts DEF TypeOK
<1>4. PICK call \in Calls : call = Top
  BY <1>3
<1>5. /\ call.name \in Identifiers /\ call.type \in Types /\ call.argument \in Nat \ {0}
      /\ Len(call.type.arguments) \in Nat /\ call.type.arguments \in Seq(Types)
  BY <1>4, ProjectsAssumption DEF Calls
<1>6. PICK space \in Spaces : space = Namespace(Model)
  BY <1>1, <1>3, ModelFacts
<1>7. PICK E : E = EmittedFor(call, space)
  OBVIOUS
<1>8. E \in Seq(Declarations) /\ out' = out \o E /\ out \in Seq(Declarations)
  BY <1>1, <1>4, <1>6, <1>7, Emission DEF EndDescriptor, TypeOK
<1>9. PICK ty : DescriptorsMeant(ty) /\ PlacesMeant(ty) /\ ModelsMeant(ty)
  BY DEF Meant
<1>10. PICK tz : Growth(ty, tz, call.type, E)
  BY <1>8, Grown
<1>11. /\ \A s, x, t : Typed(ty, s, x, t) => Typed(tz, s, x, t)'
       /\ \A declaration : Stands(declaration) => Stands(declaration)'
       /\ \A e \in DOMAIN E : Stands(E[e])'
       /\ \A d \in DOMAIN out : Complete(ty, d) => Complete(tz, d)'
       /\ \A d \in DOMAIN out : d \in DOMAIN out' /\ out'[d] = out[d]
       /\ \A d \in DOMAIN out' : d \notin DOMAIN out =>
             tz[d] = call.type /\ \E e \in DOMAIN E : out'[d] = E[e]
       /\ \A e \in DOMAIN E : \E d \in DOMAIN out' : out'[d] = E[e] /\ tz[d] = call.type
  BY <1>10 DEF Growth
<1>12. /\ \E d \in DOMAIN E : E[d] = Descriptor(call, space)
       /\ call.type.arguments # <<>> => \E d \in DOMAIN E : E[d] = ArgumentArray(call, space)
       /\ call.type.values => \E d \in DOMAIN E : E[d] = EnumValues(call, space)
       /\ \A d \in DOMAIN E :
             /\ E[d].what = "descriptor" => E[d] = Descriptor(call, space)
             /\ E[d].what # "traits"
  BY <1>7, EmissionParts
<1>13. \A a \in 1 .. Len(call.type.arguments) :
          Typed(ty, space, ArgumentName(call.name, a), call.type.arguments[a])
  <2>1. Finished(L) = Top.argument - 1 /\ Len(call.type.arguments) <= Top.argument - 1
    BY <1>1, <1>2, <1>3, <1>4, <1>5 DEF Finished
  <2>2. \A a \in 1 .. Len(call.type.arguments) : a \in 1 .. Finished(L)
    BY <1>4, <1>5, <2>1
  <2>3. \A a \in 1 .. Finished(L) :
           Typed(ty, Namespace(Model), ArgumentName(stack[L].name, a), stack[L].type.arguments[a])
    BY <1>3, <1>9 DEF PlacesMeant
  <2> QED
    BY <1>3, <1>4, <1>6, <2>2, <2>3
\* The new descriptor.
<1>14. ASSUME NEW d \in DOMAIN out', out'[d] = Descriptor(call, space), tz[d] = call.type
       PROVE  Complete(tz, d)'
  <2>1. PICK other : other = Call(call.name, call.type)
    OBVIOUS
  <2>2. /\ Descriptor(other, space) = Descriptor(call, space)
        /\ ArgumentArray(other, space) = ArgumentArray(call, space)
        /\ EnumValues(other, space) = EnumValues(call, space)
        /\ other.name = call.name /\ other.type = call.type
        /\ Descriptor(call, space).name = call.name
        /\ Descriptor(call, space).space = space
    BY <2>1, SameCall
  <2>3. out'[d].name = call.name /\ out'[d].space = space
    BY <1>14, <2>2
  <2>4. /\ other.type.arguments # <<>> => Stands(ArgumentArray(other, space))'
        /\ other.type.values => Stands(EnumValues(other, space))'
    BY <1>11, <1>12, <2>2
  <2>5. \A a \in DOMAIN other.type.arguments :
           Typed(tz, space, ArgumentName(other.name, a), other.type.arguments[a])'
    BY <1>5, <1>11, <1>13, <2>2
  <2> QED
    BY <1>5, <1>14, <2>1, <2>2, <2>3, <2>4, <2>5 DEF Complete
<1>15. DescriptorsMeant(tz)'
  <2>1. SUFFICES ASSUME NEW d \in DOMAIN out', out'[d].what = "descriptor"
                 PROVE  Complete(tz, d)'
    BY DEF DescriptorsMeant
  <2>2. CASE d \in DOMAIN out
    BY <1>9, <1>11, <2>1, <2>2 DEF DescriptorsMeant
  <2>3. CASE d \notin DOMAIN out
    BY <1>11, <1>12, <1>14, <2>1, <2>3
  <2> QED
    BY <2>2, <2>3
<1>16. Typed(tz, space, call.name, call.type)'
  <2>1. PICK d \in DOMAIN out' : out'[d] = Descriptor(call, space) /\ tz[d] = call.type
    BY <1>11, <1>12
  <2>2. out'[d].name = call.name /\ out'[d].space = space /\ out'[d].what = "descriptor"
    BY <2>1 DEF Descriptor, Declaration
  <2> QED
    BY <2>1, <2>2 DEF Typed
<1>17. ModelsMeant(tz)'
  <2>1. ASSUME NEW k \in 1 .. m - 1
        PROVE  /\ Stands(FieldsOf(project[k]))' /\ Stands(TraitsOf(project[k]))'
               /\ \A g \in DOMAIN project[k].fields :
                     Typed(tz, Namespace(project[k]), FieldTypeName(project[k].fields[g].name),
                           project[k].fields[g].type)'
    <3>1. /\ Stands(FieldsOf(project[k])) /\ Stands(TraitsOf(project[k]))
          /\ \A g \in DOMAIN project[k].fields :
                Typed(ty, Namespace(project[k]), FieldTypeName(project[k].fields[g].name),
                      project[k].fields[g].type)
      BY <1>9, <2>1 DEF ModelsMeant
    <3>2. PICK p : p = project
      OBVIOUS
    <3>3. /\ Stands(FieldsOf(p[k]))' /\ Stands(TraitsOf(p[k]))'
          /\ \A g \in DOMAIN p[k].fields :
                Typed(tz, Namespace(p[k]), FieldTypeName(p[k].fields[g].name), p[k].fields[g].type)'
      BY <1>11, <3>1, <3>2
    <3> QED
      BY <1>1, <3>2, <3>3
  <2>2. \A d \in DOMAIN out' :
           out'[d].what = "traits" => \E k \in 1 .. m - 1 : out'[d] = TraitsOf(project[k])
    BY <1>9, <1>11, <1>12 DEF ModelsMeant
  <2> QED
    BY <1>1, <2>1, <2>2 DEF ModelsMeant
<1>18. stack' = SubSeq(stack, 1, L - 1) /\ f' = IF L = 1 THEN f + 1 ELSE f
  BY <1>2 DEF EndDescriptor
<1>19. /\ Len(stack') = L - 1 /\ DOMAIN stack' = 1 .. L - 1
       /\ \A n \in 1 .. L - 1 : stack'[n] = stack[n] /\ n \in DOMAIN stack /\ n < Len(stack)
  <2>1. \A n \in 1 .. L - 1 : n \in DOMAIN stack /\ stack[n] \in Calls /\ n < Len(stack)
    BY <1>2, <1>3
  <2>2. /\ stack' \in Seq(Calls) /\ Len(stack') = IF 1 <= L - 1 THEN (L - 1) - 1 + 1 ELSE 0
        /\ \A n \in 1 .. (L - 1) - 1 + 1 : stack'[n] = stack[1 + n - 1]
    BY <1>2, <1>18, <2>1, SubSeqProperties
  <2>3. Len(stack') = L - 1
    BY <1>2, <2>2
  <2>4. \A n \in 1 .. L - 1 : stack'[n] = stack[n]
    BY <1>2, <2>2
  <2> QED
    <3>1. DOMAIN stack' = 1 .. L - 1
      BY <2>2, <2>3
    <3> QED
      BY <2>1, <2>3, <2>4, <3>1
\* The frame below knows of one argument more, or the loop of one field more.
<1>20. ASSUME NEW n \in 1 .. L - 1, NEW a \in 1 .. Finished(n)', NEW x, NEW t,
              x = ArgumentName(stack[n].name, a), t = stack[n].type.arguments[a]
       PROVE  Typed(tz, space, x, t)'
  <2>1. /\ stack[n].argument \in Nat \ {0} /\ n \in DOMAIN stack /\ n < Len(stack)
        /\ stack[n].argument >= 2
    BY <1>1, <1>19, <1>20, StackFacts DEF StackOK
  <2>2. CASE a \in 1 .. Finished(n)
    <3>1. Typed(ty, space, x, t)
      BY <1>6, <1>9, <1>20, <2>1, <2>2 DEF PlacesMeant
    <3> QED
      BY <1>11, <3>1
  <2>3. CASE a \notin 1 .. Finished(n)
    <3>1. n # L /\ Finished(n) = stack[n].argument - 2
      BY <1>2, <1>20, <2>1 DEF Finished
    <3>2. /\ n = L - 1 => Finished(n)' = stack[n].argument - 1
          /\ n # L - 1 => Finished(n)' = stack[n].argument - 2
      BY <1>2, <1>19, <1>20 DEF Finished
    <3>3. n = L - 1 /\ a = stack[n].argument - 1
      BY <1>2, <1>20, <2>1, <2>3, <3>1, <3>2
    <3>4. n + 1 = L
      BY <1>2, <3>3
    <3>5. x = call.name
      BY <1>1, <1>3, <1>4, <1>20, <2>1, <3>3, <3>4 DEF StackOK
    <3>6. t = call.type
      BY <1>3, <1>4, <1>9, <1>20, <2>1, <3>3, <3>4 DEF PlacesMeant
    <3> QED
      BY <1>16, <3>5, <3>6
  <2> QED
    BY <2>2, <2>3
<1>21. ASSUME NEW g \in 1 .. f' - 1, NEW x, NEW t,
              x = FieldTypeName(Model.fields[g].name), t = Model.fields[g].type
       PROVE  Typed(tz, space, x, t)'
  <2>1. CASE g \in 1 .. f - 1
    <3>1. Typed(ty, space, x, t)
      BY <1>3, <1>6, <1>9, <1>21, <2>1 DEF PlacesMeant
    <3> QED
      BY <1>11, <3>1
  <2>2. CASE g \notin 1 .. f - 1
    <3>1. L = 1 /\ g = f
      BY <1>3, <1>18, <1>21, <2>2
    <3>2. x = call.name
      BY <1>1, <1>3, <1>4, <1>21, <3>1 DEF StackOK
    <3>3. t = call.type
      BY <1>1, <1>3, <1>4, <1>9, <1>21, <3>1 DEF PlacesMeant
    <3> QED
      BY <1>16, <3>2, <3>3
  <2> QED
    BY <2>1, <2>2
<1>22. PlacesMeant(tz)'
  <2>1. \A g \in 1 .. f' - 1 :
           Typed(tz, space, FieldTypeName(Model.fields[g].name), Model.fields[g].type)'
    BY <1>1, <1>21
  <2>2. \A n \in 1 .. L - 1 : \A a \in 1 .. Finished(n)' :
           Typed(tz, space, ArgumentName(stack[n].name, a), stack[n].type.arguments[a])'
    <3>1. \A n \in 1 .. L - 1 : \A a \in 1 .. Finished(n)' : \A x, t :
             x = ArgumentName(stack[n].name, a) /\ t = stack[n].type.arguments[a]
             => Typed(tz, space, x, t)'
      BY <1>20
    <3>2. \A n \in 1 .. L - 1 : \A a \in 1 .. Finished(n)' : \A x, t :
             x = ArgumentName(stack'[n].name, a) /\ t = stack'[n].type.arguments[a]
             => Typed(tz, space, x, t)'
      BY <1>19, <3>1
    <3> QED
      BY <3>2
  <2>3. stack' # <<>> => stack'[1].type = Model.fields[f'].type
    <3>1. SUFFICES ASSUME stack' # <<>> PROVE stack'[1].type = Model.fields[f'].type
      OBVIOUS
    <3>2. L # 1
      BY <1>18, <1>19, <3>1
    <3>3. f' = f /\ 1 \in 1 .. L - 1
      BY <1>2, <1>18, <3>2
    <3> QED
      BY <1>1, <1>9, <1>19, <3>3 DEF PlacesMeant
  <2>4. ASSUME NEW n \in 1 .. L - 1, n < Len(stack')
        PROVE  stack'[n + 1].type = stack'[n].type.arguments[stack'[n].argument - 1]
    <3>1. n + 1 \in 1 .. L - 1
      BY <1>2, <1>19, <2>4
    <3> QED
      BY <1>9, <1>19, <2>4, <3>1 DEF PlacesMeant
  <2> QED
    <3>1. Namespace(Model)' = space
      BY <1>1, <1>6
    <3>2. \A n \in DOMAIN stack' :
             /\ \A a \in 1 .. Finished(n)' :
                   Typed(tz, Namespace(Model), ArgumentName(stack[n].name, a),
                         stack[n].type.arguments[a])'
             /\ n < Len(stack') =>
                   stack'[n + 1].type = stack'[n].type.arguments[stack'[n].argument - 1]
      BY <1>19, <2>2, <2>4, <3>1
    <3>3. \A g \in 1 .. f' - 1 :
             Typed(tz, Namespace(Model), FieldTypeName(Model.fields[g].name),
                   Model.fields[g].type)'
      BY <1>1, <2>1, <3>1
    <3> QED
      BY <1>1, <2>3, <3>2, <3>3 DEF PlacesMeant
<1> QED
  BY <1>15, <1>17, <1>22 DEF Meant

LEMMA DescribingMeans == ASSUME IInv, Meant, EndModel PROVE Meant'
<1>1. /\ project' = project /\ stack' = stack /\ stack = <<>> /\ m' = m + 1 /\ f' = 1
      /\ m <= Len(project) /\ f > Len(Model.fields) /\ TypeOK
  BY DEF EndModel, IInv
<1>2. /\ m \in DOMAIN project /\ Len(project) \in Nat /\ m \in Nat \ {0}
      /\ Len(Model.fields) \in Nat /\ DOMAIN Model.fields = 1 .. Len(Model.fields)
      /\ f \in Nat \ {0} /\ f = Len(Model.fields) + 1
  <2>1. /\ m \in DOMAIN project /\ Len(project) \in Nat
        /\ Len(Model.fields) \in Nat /\ DOMAIN Model.fields = 1 .. Len(Model.fields)
    BY <1>1, ModelFacts
  <2>2. m \in 1 .. Len(project) + 1 /\ f \in Nat \ {0} /\ f <= Len(Model.fields) + 1
    BY <1>1 DEF TypeOK
  <2> QED
    BY <1>1, <2>1, <2>2
<1>3. PICK F : F = FieldsOf(Model)
  OBVIOUS
<1>4. PICK T : T = TraitsOf(Model)
  OBVIOUS
<1>5. out' = out \o <<F, T>>
  BY <1>3, <1>4 DEF EndModel, FieldsDescribed, FieldsOf, TraitsOf
<1>6. F \in Declarations /\ T \in Declarations /\ F.what = "fields" /\ T.what = "traits"
  <2>1. Len(out) \in Nat /\ out \in Seq(Declarations) /\ out' \in Seq(Declarations)
    <3>1. TypeOK'
      BY Describing DEF IInv
    <3> QED
      BY <1>1, <3>1 DEF TypeOK
  <2>2. F.what = "fields" /\ T.what = "traits"
    BY <1>3, <1>4 DEF FieldsOf, TraitsOf, Declaration
  <2>3. PICK S : S = Declarations \cup {F, T}
    OBVIOUS
  <2>4. <<F, T>> \in Seq(S) /\ Len(<<F, T>>) = 2 /\ out \in Seq(S)
    BY <2>1, <2>3, SeqMonotonic
  <2>5. /\ Len(out') = Len(out) + 2
        /\ out'[Len(out) + 1] = F /\ out'[Len(out) + 2] = T
    BY <1>5, <2>4, ConcatFacts
  <2>6. Len(out) + 1 \in 1 .. Len(out') /\ Len(out) + 2 \in 1 .. Len(out')
    BY <2>1, <2>5
  <2> QED
    BY <2>1, <2>2, <2>5, <2>6
<1>7. PICK E \in Seq(Declarations) : E = <<F, T>> /\ DOMAIN E = {1, 2} /\ E[1] = F /\ E[2] = T
  <2>1. DOMAIN <<F, T>> = {1, 2} /\ <<F, T>>[1] = F /\ <<F, T>>[2] = T
    OBVIOUS
  <2>2. <<F, T>> \in Seq(Declarations)
    BY <1>6
  <2> QED
    BY <2>1, <2>2
<1>8. out' = out \o E /\ out \in Seq(Declarations)
  BY <1>1, <1>5, <1>7 DEF TypeOK
<1>9. PICK ty : DescriptorsMeant(ty) /\ PlacesMeant(ty) /\ ModelsMeant(ty)
  BY DEF Meant
<1>10. PICK tz : Growth(ty, tz, 0, E)
  BY <1>8, Grown
<1>11. /\ \A s, x, t : Typed(ty, s, x, t) => Typed(tz, s, x, t)'
       /\ \A declaration : Stands(declaration) => Stands(declaration)'
       /\ \A e \in DOMAIN E : Stands(E[e])'
       /\ \A d \in DOMAIN out : Complete(ty, d) => Complete(tz, d)'
       /\ \A d \in DOMAIN out : d \in DOMAIN out' /\ out'[d] = out[d]
       /\ \A d \in DOMAIN out' : d \notin DOMAIN out => \E e \in DOMAIN E : out'[d] = E[e]
  BY <1>10 DEF Growth
<1>12. DescriptorsMeant(tz)'
  <2>1. SUFFICES ASSUME NEW d \in DOMAIN out', out'[d].what = "descriptor"
                 PROVE  d \in DOMAIN out
    BY <1>9, <1>11 DEF DescriptorsMeant
  <2> QED
    BY <1>6, <1>7, <1>11, <2>1
<1>13. PlacesMeant(tz)'
  <2>1. DOMAIN stack' = {} /\ \A g : g \notin 1 .. f' - 1
    BY <1>1
  <2> QED
    BY <1>1, <2>1 DEF PlacesMeant
<1>14. ASSUME NEW p, p = project, NEW k \in 1 .. m
       PROVE  /\ Stands(FieldsOf(p[k]))' /\ Stands(TraitsOf(p[k]))'
              /\ \A g \in DOMAIN p[k].fields :
                    Typed(tz, Namespace(p[k]), FieldTypeName(p[k].fields[g].name),
                          p[k].fields[g].type)'
  <2>1. CASE k \in 1 .. m - 1
    <3>1. /\ Stands(FieldsOf(p[k])) /\ Stands(TraitsOf(p[k]))
          /\ \A g \in DOMAIN p[k].fields :
                Typed(ty, Namespace(p[k]), FieldTypeName(p[k].fields[g].name),
                      p[k].fields[g].type)
      BY <1>9, <1>14, <2>1 DEF ModelsMeant
    <3> QED
      BY <1>11, <3>1
  <2>2. CASE k \notin 1 .. m - 1
    <3>1. k = m /\ p[k] = Model
      BY <1>2, <1>14, <2>2 DEF Model
    <3>2. Stands(F)' /\ Stands(T)'
      BY <1>7, <1>11
    <3>3. Stands(FieldsOf(p[k]))' /\ Stands(TraitsOf(p[k]))'
      BY <1>3, <1>4, <3>1, <3>2
    <3>4. \A g \in DOMAIN p[k].fields :
             Typed(ty, Namespace(p[k]), FieldTypeName(p[k].fields[g].name), p[k].fields[g].type)
      BY <1>1, <1>2, <1>9, <3>1 DEF PlacesMeant
    <3> QED
      BY <1>11, <3>3, <3>4
  <2> QED
    BY <2>1, <2>2
<1>15. ModelsMeant(tz)'
  <2>1. PICK p : p = project
    OBVIOUS
  <2>2. \A k \in 1 .. m' - 1 : k \in 1 .. m
    BY <1>1, <1>2
  <2>3. ASSUME NEW k \in 1 .. m' - 1
        PROVE  /\ Stands(FieldsOf(p[k]))' /\ Stands(TraitsOf(p[k]))'
               /\ \A g \in DOMAIN p[k].fields :
                     Typed(tz, Namespace(p[k]), FieldTypeName(p[k].fields[g].name),
                           p[k].fields[g].type)'
    BY <1>14, <2>1, <2>2, <2>3
  <2>4. ASSUME NEW d \in DOMAIN out', out'[d].what = "traits"
        PROVE  \E k \in 1 .. m' - 1 : out'[d] = TraitsOf(p[k])
    <3>1. CASE d \in DOMAIN out
      <4>1. PICK k \in 1 .. m - 1 : out[d] = TraitsOf(project[k])
        BY <1>9, <1>11, <2>4, <3>1 DEF ModelsMeant
      <4>2. k \in 1 .. m' - 1
        BY <1>1, <1>2
      <4> QED
        BY <1>11, <2>1, <3>1, <4>1, <4>2
    <3>2. CASE d \notin DOMAIN out
      <4>1. out'[d] = T
        BY <1>6, <1>7, <1>11, <2>4, <3>2
      <4>2. m \in 1 .. m' - 1 /\ p[m] = Model
        BY <1>1, <1>2, <2>1 DEF Model
      <4> QED
        BY <1>4, <4>1, <4>2
    <3> QED
      BY <3>1, <3>2
  <2>5. project' = p
    BY <1>1, <2>1
  <2> QED
    BY <2>3, <2>4, <2>5 DEF ModelsMeant
<1> QED
  BY <1>12, <1>13, <1>15 DEF Meant

LEMMA MeaningStep == IInv /\ Meant /\ [Next]_vars => Meant'
<1> SUFFICES ASSUME IInv, Meant, [Next]_vars PROVE Meant'
  OBVIOUS
<1>1. CASE BeginField \/ BeginArgument \/ EndDescriptor \/ EndModel
  BY <1>1, BeginningMeans, DescendingMeans, AscendingMeans, DescribingMeans
<1>2. CASE Returned \/ UNCHANGED vars
  <2>1. project' = project /\ m' = m /\ f' = f /\ stack' = stack /\ out' = out
    BY <1>2 DEF Returned, vars
  <2>2. PICK ty : DescriptorsMeant(ty) /\ PlacesMeant(ty) /\ ModelsMeant(ty)
    BY DEF Meant
  <2>3. Model' = Model /\ \A n : Finished(n)' = Finished(n)
    BY <2>1 DEF Model, Finished
  <2>4. \A space, x, t : Typed(ty, space, x, t)' = Typed(ty, space, x, t)
    BY <2>1 DEF Typed
  <2>5. PlacesMeant(ty)'
    BY <2>1, <2>2, <2>3, <2>4 DEF PlacesMeant
  <2> QED
    BY <2>1, <2>2, <2>5, NothingDeclared DEF Meant
<1> QED
  BY <1>1, <1>2 DEF Next

-----------------------------------------------------------------------------
(* The reader.                                                             *)

LEMMA NatLeast == ASSUME NEW S \in SUBSET Nat, NEW n \in S
                  PROVE \E k \in S : \A j \in S : k <= j
<1>1. IsWellFoundedOn(OpToRel(<, Nat), Nat)
  BY NatLessThanWellFounded
<1>2. PICK k \in S : \A j \in S : ~(<<j, k>> \in OpToRel(<, Nat))
  BY <1>1, WFMin
<1>3. ASSUME NEW j \in S PROVE k <= j
  <2>1. j \in Nat /\ k \in Nat
    OBVIOUS
  <2>2. ~(j < k)
    BY <1>2, <1>3, <2>1 DEF OpToRel
  <2> QED
    BY <2>1, <2>2
<1> QED
  BY <1>2, <1>3

Readable ==
    /\ out \in Seq(Declarations) /\ DeclaredBeforeUse
    /\ \A n, o \in DOMAIN out :
          out[n].space = out[o].space /\ out[n].name = out[o].name => n = o

\* A name leads to its declaration, which stands before its users.
LEMMA FindFacts ==
    ASSUME Readable
    PROVE  /\ Len(out) \in Nat /\ DOMAIN out = 1 .. Len(out)
           /\ \A n \in DOMAIN out : Find(out[n].space, out[n].name) = n
           /\ \A n \in DOMAIN out : \A u \in DOMAIN out[n].uses :
                 Find(out[n].space, out[n].uses[u]) \in 1 .. n - 1
           /\ \A n \in DOMAIN out : \A d \in Pointed(n) : d \in 1 .. n - 1 /\ d \in DOMAIN out
<1>1. Len(out) \in Nat /\ DOMAIN out = 1 .. Len(out)
  BY DEF Readable
<1>2. ASSUME NEW n \in DOMAIN out PROVE Find(out[n].space, out[n].name) = n
  BY <1>2 DEF Find, Readable
<1>3. ASSUME NEW n \in DOMAIN out, NEW u \in DOMAIN out[n].uses
      PROVE  Find(out[n].space, out[n].uses[u]) \in 1 .. n - 1
  <2>1. PICK d \in 1 .. n - 1 : out[d].space = out[n].space /\ out[d].name = out[n].uses[u]
    BY <1>3 DEF Readable, DeclaredBeforeUse
  <2>2. d \in DOMAIN out
    BY <1>1, <1>3
  <2> QED
    BY <1>2, <2>1, <2>2
<1>4. \A n \in DOMAIN out : \A d \in 1 .. n - 1 : d \in DOMAIN out
  BY <1>1
<1> QED
  BY <1>1, <1>2, <1>3, <1>4 DEF Pointed

\* What a descriptor describes depends on the ones before it alone.
LEMMA ReadLocal ==
    ASSUME Readable, NEW n \in DOMAIN out, NEW g, NEW h, \A d \in 1 .. n - 1 : g[d] = h[d]
    PROVE  Read(g, n) = Read(h, n)
<1> DEFINE arrays == {d \in Pointed(n) : out[d].what = "arguments"}
           array == CHOOSE d \in arrays : TRUE
           found(a) == Find(out[array].space, out[array].uses[a])
<1>1. CASE arrays = {}
  BY <1>1 DEF Read
<1>2. CASE arrays # {}
  <2>1. array \in arrays
    BY <1>2
  <2>2. array \in 1 .. n - 1 /\ array \in DOMAIN out
    BY <2>1, FindFacts
  <2>3. \A a \in DOMAIN out[array].uses : found(a) \in 1 .. n - 1
    <3>1. n \in Nat
      BY FindFacts
    <3>2. ASSUME NEW a \in DOMAIN out[array].uses PROVE found(a) \in 1 .. array - 1
      BY <2>2, <3>2, FindFacts
    <3> QED
      BY <2>2, <3>1, <3>2
  <2>4. [a \in DOMAIN out[array].uses |-> g[found(a)]] = [a \in DOMAIN out[array].uses |-> h[found(a)]]
    BY <2>3
  <2> QED
    BY <1>2, <2>4 DEF Read
<1> QED
  BY <1>1, <1>2

\* The recursion along the pointers has a solution.
LEMMA MeaningUnfolds ==
    ASSUME Readable
    PROVE  \A n \in DOMAIN out : Meaning[n] = Read(Meaning, n)
<1> DEFINE Solved(k) == \E g : g = [n \in 1 .. k |-> Read(g, n)]
           Unsolved == {k \in 0 .. Len(out) : ~Solved(k)}
<1>1. Len(out) \in Nat /\ DOMAIN out = 1 .. Len(out)
  BY FindFacts
<1>2. Solved(Len(out))
  <2>1. SUFFICES ASSUME ~Solved(Len(out)) PROVE FALSE
    OBVIOUS
  <2>2. Len(out) \in Unsolved /\ Unsolved \in SUBSET Nat
    BY <1>1, <2>1
  <2> HIDE DEF Unsolved
  <2>3. PICK k \in Unsolved : \A j \in Unsolved : k <= j
    BY <2>2, NatLeast
  <2>4. k \in 0 .. Len(out) /\ ~Solved(k)
    BY <2>3 DEF Unsolved
  <2>5. CASE k = 0
    <3>1. [n \in 1 .. 0 |-> Read(<<>>, n)] = [n \in 1 .. 0 |-> Read([o \in 1 .. 0 |-> Read(<<>>, o)], n)]
      OBVIOUS
    <3> QED
      BY <2>4, <2>5, <3>1
  <2>6. CASE k # 0
    <3>1. k - 1 \in 0 .. Len(out) /\ ~(k <= k - 1) /\ k \in DOMAIN out
      BY <1>1, <2>4, <2>6
    <3>2. Solved(k - 1)
      BY <2>3, <3>1 DEF Unsolved
    <3>3. PICK g : g = [n \in 1 .. k - 1 |-> Read(g, n)]
      BY <3>2
    <3>4. PICK h : h = [n \in 1 .. k |-> IF n < k THEN Read(g, n) ELSE Read(g, k)]
      OBVIOUS
    <3>5. \A n \in 1 .. k - 1 : g[n] = h[n]
      BY <2>4, <3>3, <3>4
    <3>6. \A n \in 1 .. k : n \in DOMAIN out /\ \A d \in 1 .. n - 1 : d \in 1 .. k - 1
      BY <1>1, <3>1
    <3>7. \A n \in 1 .. k : Read(g, n) = Read(h, n)
      BY <3>5, <3>6, ReadLocal
    <3>8. \A n \in 1 .. k : h[n] = Read(h, n)
      <4>1. \A n \in 1 .. k : h[n] = Read(g, n)
        BY <2>4, <3>4
      <4> QED
        BY <3>7, <4>1
    <3>9. h = [n \in 1 .. k |-> Read(h, n)]
      BY <3>4, <3>8
    <3> QED
      BY <2>4, <3>9
  <2> QED
    BY <2>5, <2>6
<1>3. \E g : g = [n \in DOMAIN out |-> Read(g, n)]
  BY <1>1, <1>2
<1>4. Meaning = CHOOSE g : g = [n \in DOMAIN out |-> Read(g, n)]
  BY DEF Meaning
<1>5. Meaning = [n \in DOMAIN out |-> Read(Meaning, n)]
  BY <1>3, <1>4
<1> QED
  BY <1>5

\* The names in the initialiser of a descriptor.
PointTo(uses, call) ==
    /\ \A u \in DOMAIN uses :
          \/ call.type.arguments # <<>> /\ uses[u] = ArgumentsName(call.name)
          \/ call.type.values /\ uses[u] = EnumValuesName(call.name)
    /\ call.type.arguments # <<>> =>
          \E u \in DOMAIN uses : uses[u] = ArgumentsName(call.name)
    /\ call.type.values => \E u \in DOMAIN uses : uses[u] = EnumValuesName(call.name)

LEMMA Pointers == ASSUME NEW call, NEW space PROVE PointTo(Descriptor(call, space).uses, call)
<1> PICK uses : uses = Descriptor(call, space).uses
  OBVIOUS
<1> SUFFICES PointTo(uses, call)
  OBVIOUS
<1> USE DEF PointTo
<1> DEFINE A == ArgumentsName(call.name)
           V == EnumValuesName(call.name)
<1>1. uses = (IF call.type.arguments = <<>> THEN <<>> ELSE <<A>>)
                 \o (IF call.type.values THEN <<V>> ELSE <<>>)
  BY DEF Descriptor, Declaration
<1> HIDE DEF A, V
<1>2. CASE call.type.arguments = <<>> /\ call.type.values
  <2>1. uses = <<V>>
    BY <1>1, <1>2, Written
  <2>2. DOMAIN uses = {1} /\ uses[1] = V
    BY <2>1
  <2> QED
    BY <1>2, <2>2 DEF V
<1>3. CASE call.type.arguments = <<>> /\ ~call.type.values
  <2>1. uses = <<>>
    BY <1>1, <1>3
  <2> QED
    BY <1>3, <2>1
<1>4. CASE call.type.arguments # <<>> /\ ~call.type.values
  <2>1. uses = <<A>>
    BY <1>1, <1>4, Written
  <2>2. DOMAIN uses = {1} /\ uses[1] = A
    BY <2>1
  <2> QED
    BY <1>4, <2>2 DEF A
<1>5. CASE call.type.arguments # <<>> /\ call.type.values
  <2>1. uses = <<A, V>>
    BY <1>1, <1>5, Written
  <2>2. DOMAIN uses = {1, 2} /\ uses[1] = A /\ uses[2] = V
    BY <2>1
  <2> QED
    BY <1>5, <2>2 DEF A, V
<1> QED
  BY <1>2, <1>3, <1>4, <1>5

\* One descriptor is read, given that the ones before it are read as ty has them.
LEMMA ReadOne ==
    ASSUME Readable, NEW ty, NEW n \in DOMAIN out, Complete(ty, n), NEW g,
           \A d \in 1 .. n - 1 : out[d].what = "descriptor" => g[d] = ty[d]
    PROVE  Read(g, n) = ty[n]
<1>1. PICK t : t = ty[n]
  OBVIOUS
<1>2. PICK space : space = out[n].space
  OBVIOUS
<1>3. PICK call : call = Call(out[n].name, t)
  OBVIOUS
<1>4. call.type = t /\ call.name = out[n].name
  BY <1>3 DEF Call
<1>5. /\ t \in Types /\ out[n] = Descriptor(call, space)
      /\ t.arguments # <<>> => Stands(ArgumentArray(call, space))
      /\ \A a \in DOMAIN t.arguments :
            Typed(ty, space, ArgumentName(call.name, a), t.arguments[a])
      /\ t.values => Stands(EnumValues(call, space))
  BY <1>1, <1>2, <1>3, <1>4 DEF Complete
<1>6. /\ t.arguments \in Seq(Types) /\ t.values \in BOOLEAN
      /\ t = [arguments |-> t.arguments, values |-> t.values]
  BY <1>5, ProjectsAssumption
<1>7. PICK uses : uses = out[n].uses
  OBVIOUS
<1>8. /\ \A u \in DOMAIN uses :
            \/ t.arguments # <<>> /\ uses[u] = ArgumentsName(call.name)
            \/ t.values /\ uses[u] = EnumValuesName(call.name)
      /\ t.arguments # <<>> => \E u \in DOMAIN uses : uses[u] = ArgumentsName(call.name)
      /\ t.values => \E u \in DOMAIN uses : uses[u] = EnumValuesName(call.name)
  <2>1. uses = Descriptor(call, space).uses
    BY <1>5, <1>7
  <2>2. PointTo(uses, call)
    BY <2>1, Pointers
  <2> QED
    BY <1>4, <2>2 DEF PointTo
<1>9. Pointed(n) = {Find(space, uses[u]) : u \in DOMAIN uses}
  BY <1>2, <1>7 DEF Pointed
<1>10. PICK A : A = Find(space, ArgumentsName(call.name))
  OBVIOUS
<1>11. PICK V : V = Find(space, EnumValuesName(call.name))
  OBVIOUS
<1>12. t.arguments # <<>> => A \in DOMAIN out /\ out[A] = ArgumentArray(call, space)
  <2>1. SUFFICES ASSUME t.arguments # <<>>
                 PROVE  A \in DOMAIN out /\ out[A] = ArgumentArray(call, space)
    OBVIOUS
  <2>2. PICK e \in DOMAIN out : out[e] = ArgumentArray(call, space)
    BY <1>5, <2>1 DEF Stands
  <2>3. out[e].space = space /\ out[e].name = ArgumentsName(call.name)
    BY <2>2 DEF ArgumentArray, Declaration
  <2>4. A = e
    BY <1>10, <2>3, FindFacts
  <2> QED
    BY <2>2, <2>4
<1>13. t.values => V \in DOMAIN out /\ out[V] = EnumValues(call, space)
  <2>1. SUFFICES ASSUME t.values PROVE V \in DOMAIN out /\ out[V] = EnumValues(call, space)
    OBVIOUS
  <2>2. PICK e \in DOMAIN out : out[e] = EnumValues(call, space)
    BY <1>5, <2>1 DEF Stands
  <2>3. out[e].space = space /\ out[e].name = EnumValuesName(call.name)
    BY <2>2 DEF EnumValues, Declaration
  <2>4. V = e
    BY <1>11, <2>3, FindFacts
  <2> QED
    BY <2>2, <2>4
<1>14. /\ \A d \in Pointed(n) : (t.arguments # <<>> /\ d = A) \/ (t.values /\ d = V)
       /\ t.arguments # <<>> => A \in Pointed(n)
       /\ t.values => V \in Pointed(n)
  BY <1>8, <1>9, <1>10, <1>11
<1>15. /\ ArgumentArray(call, space).what = "arguments"
       /\ EnumValues(call, space).what = "values"
  BY DEF ArgumentArray, EnumValues, Declaration
<1>16. (\E d \in Pointed(n) : out[d].what = "values") = t.values
  BY <1>6, <1>12, <1>13, <1>14, <1>15
<1>17. {d \in Pointed(n) : out[d].what = "arguments"} = IF t.arguments = <<>> THEN {} ELSE {A}
  BY <1>12, <1>13, <1>14, <1>15
<1>18. CASE t.arguments = <<>>
  BY <1>1, <1>6, <1>16, <1>17, <1>18 DEF Read
<1>19. CASE t.arguments # <<>>
  <2>1. /\ {d \in Pointed(n) : out[d].what = "arguments"} # {}
        /\ (CHOOSE d \in {d \in Pointed(n) : out[d].what = "arguments"} : TRUE) = A
    BY <1>17, <1>19
  <2>2. /\ A \in DOMAIN out /\ A \in 1 .. n - 1 /\ out[A].space = space
        /\ out[A].uses = [a \in DOMAIN t.arguments |-> ArgumentName(call.name, a)]
    BY <1>4, <1>12, <1>14, <1>19, FindFacts DEF ArgumentArray, Declaration
  <2>3. ASSUME NEW a \in DOMAIN t.arguments
        PROVE  g[Find(out[A].space, out[A].uses[a])] = t.arguments[a]
    <3>1. PICK k \in DOMAIN out :
             /\ out[k].what = "descriptor" /\ out[k].space = space
             /\ out[k].name = ArgumentName(call.name, a) /\ ty[k] = t.arguments[a]
      BY <1>5, <2>3 DEF Typed
    <3>2. out[A].uses[a] = out[k].name /\ a \in DOMAIN out[A].uses
      BY <2>2, <2>3, <3>1
    <3>3. Find(out[A].space, out[A].uses[a]) = k
      BY <2>2, <3>1, <3>2, FindFacts
    <3>4. Find(out[A].space, out[A].uses[a]) \in 1 .. A - 1
      BY <2>2, <3>2, FindFacts
    <3>5. k \in 1 .. n - 1
      <4>1. n \in Nat
        BY FindFacts
      <4> QED
        BY <2>2, <3>3, <3>4, <4>1
    <3> QED
      BY <3>1, <3>3, <3>5
  <2>4. [a \in DOMAIN out[A].uses |-> g[Find(out[A].space, out[A].uses[a])]] = t.arguments
    BY <1>6, <2>2, <2>3
  <2> QED
    BY <1>1, <1>6, <1>16, <1>17, <1>19, <2>1, <2>4 DEF Read
<1> QED
  BY <1>18, <1>19

LEMMA DescriptorsAreRead ==
    ASSUME Readable, NEW ty, DescriptorsMeant(ty)
    PROVE  \A n \in DOMAIN out : out[n].what = "descriptor" => Meaning[n] = ty[n]
<1> DEFINE Misread == {n \in DOMAIN out : out[n].what = "descriptor" /\ Meaning[n] # ty[n]}
<1>1. SUFFICES ASSUME NEW n \in Misread PROVE FALSE
  OBVIOUS
<1>2. Misread \in SUBSET Nat
  BY FindFacts
<1> HIDE DEF Misread
<1>3. PICK k \in Misread : \A j \in Misread : k <= j
  BY <1>2, NatLeast
<1>4. k \in DOMAIN out /\ out[k].what = "descriptor" /\ Meaning[k] # ty[k] /\ k \in Nat
  BY <1>2, <1>3 DEF Misread
<1>5. \A d \in 1 .. k - 1 : d \in DOMAIN out /\ ~(k <= d)
  BY <1>4, FindFacts
<1>6. \A d \in 1 .. k - 1 : out[d].what = "descriptor" => Meaning[d] = ty[d]
  BY <1>3, <1>5 DEF Misread
<1>7. Complete(ty, k)
  BY <1>4 DEF DescriptorsMeant
<1>8. PICK g : g = Meaning
  OBVIOUS
<1>9. Read(g, k) = ty[k]
  BY <1>4, <1>6, <1>7, <1>8, ReadOne
<1> QED
  BY <1>4, <1>8, <1>9, MeaningUnfolds

LEMMA ModelsAreRead == IInv /\ Meant => TraitsDescribeTheirModel
<1> SUFFICES ASSUME IInv, Meant, ~NamespacesCollide, NEW n \in 1 .. m - 1
    PROVE  LET traits == CHOOSE t \in DOMAIN out :
                            /\ out[t].what = "traits"
                            /\ out[t].name = <<"cjm::model_traits", project[n].path, project[n].name>>
               fields == Find(out[traits].space, out[traits].uses[1])
           IN  /\ Len(out[fields].uses) = Len(project[n].fields)
               /\ \A i \in DOMAIN project[n].fields :
                    /\ out[fields].uses[i] = FieldTypeName(project[n].fields[i].name)
                    /\ Meaning[Find(out[fields].space, out[fields].uses[i])]
                          = project[n].fields[i].type
  BY DEF TraitsDescribeTheirModel
<1>1. Readable
  BY DEF IInv, TypeOK, DeclaredOnce, Readable
<1>2. PICK ty : DescriptorsMeant(ty) /\ ModelsMeant(ty)
  BY DEF Meant
<1>3. PICK type : type = project[n]
  OBVIOUS
<1>4. /\ project \in Seq(Structs) /\ Len(project) \in Nat /\ m \in 1 .. Len(project) + 1
      /\ DOMAIN project = 1 .. Len(project)
  BY ProjectsAssumption DEF IInv, TypeOK
<1>5. \A k \in 1 .. m - 1 : k \in DOMAIN project /\ project[k] \in Structs
  BY <1>4
<1>6. type.fields \in Seq(Fields) /\ Len(type.fields) \in Nat /\ DOMAIN type.fields = 1 .. Len(type.fields)
  BY <1>3, <1>5 DEF Structs
<1>7. PICK space : space = Namespace(type)
  OBVIOUS
<1>8. /\ Stands(FieldsOf(type)) /\ Stands(TraitsOf(type))
      /\ \A g \in DOMAIN type.fields :
            Typed(ty, space, FieldTypeName(type.fields[g].name), type.fields[g].type)
  BY <1>2, <1>3, <1>7 DEF ModelsMeant
<1> DEFINE Ours(t) ==
              /\ out[t].what = "traits"
              /\ out[t].name = <<"cjm::model_traits", project[n].path, project[n].name>>
           traits == CHOOSE t \in DOMAIN out : Ours(t)
           fields == Find(out[traits].space, out[traits].uses[1])
<1>9. PICK T \in DOMAIN out : out[T] = TraitsOf(type)
  BY <1>8 DEF Stands
<1>10. /\ out[T].what = "traits" /\ out[T].space = space /\ out[T].uses[1] = <<"fields">>
       /\ out[T].name = <<"cjm::model_traits", type.path, type.name>>
  BY <1>7, <1>9 DEF TraitsOf, Declaration
<1>11. ASSUME NEW t \in DOMAIN out, Ours(t) PROVE t = T
  <2>1. PICK k \in 1 .. m - 1 : out[t] = TraitsOf(project[k])
    BY <1>2, <1>11 DEF ModelsMeant
  <2>2. /\ out[t].name = <<"cjm::model_traits", project[k].path, project[k].name>>
        /\ out[t].space = Namespace(project[k])
    BY <2>1 DEF TraitsOf, Declaration
  <2>3. project[k].path = project[n].path /\ project[k].name = project[n].name
    BY <1>11, <2>2
  <2>4. Namespace(project[k]) = Namespace(project[n])
    BY <2>3 DEF Namespace
  <2> QED
    BY <1>1, <1>3, <1>7, <1>10, <1>11, <2>2, <2>4 DEF Readable
<1>12. traits = T
  <2>1. Ours(T)
    BY <1>3, <1>10
  <2> HIDE DEF Ours
  <2> QED
    BY <1>11, <2>1
<1>13. PICK F \in DOMAIN out : out[F] = FieldsOf(type)
  BY <1>8 DEF Stands
<1>14. /\ out[F].space = space /\ out[F].name = <<"fields">>
       /\ out[F].uses = [i \in DOMAIN type.fields |-> FieldTypeName(type.fields[i].name)]
  BY <1>7, <1>13 DEF FieldsOf, Declaration
<1>15. fields = F
  <2>1. Find(out[F].space, out[F].name) = F
    BY <1>1, FindFacts
  <2> HIDE DEF traits
  <2> QED
    BY <1>10, <1>12, <1>14, <2>1
<1>16. Len(out[F].uses) = Len(type.fields)
  <2>1. out[F].uses \in Seq({FieldTypeName(type.fields[i].name) : i \in DOMAIN type.fields})
    BY <1>6, <1>14
  <2>2. DOMAIN out[F].uses = 1 .. Len(type.fields)
    BY <1>6, <1>14
  <2> QED
    BY <1>6, <2>1, <2>2
<1>17. ASSUME NEW i \in DOMAIN type.fields
       PROVE  /\ out[F].uses[i] = FieldTypeName(type.fields[i].name)
              /\ Meaning[Find(out[F].space, out[F].uses[i])] = type.fields[i].type
  <2>1. out[F].uses[i] = FieldTypeName(type.fields[i].name)
    BY <1>14, <1>17
  <2>2. PICK d \in DOMAIN out :
           /\ out[d].what = "descriptor" /\ out[d].space = space
           /\ out[d].name = FieldTypeName(type.fields[i].name) /\ ty[d] = type.fields[i].type
    BY <1>8, <1>17 DEF Typed
  <2>3. Find(out[d].space, out[d].name) = d
    BY <1>1, FindFacts
  <2>4. Meaning[d] = ty[d]
    BY <1>1, <1>2, <2>2, DescriptorsAreRead
  <2> QED
    BY <1>14, <2>1, <2>2, <2>3, <2>4
<1> HIDE DEF fields, traits
<1>18. /\ Len(out[fields].uses) = Len(project[n].fields)
       /\ \A i \in DOMAIN project[n].fields :
            /\ out[fields].uses[i] = FieldTypeName(project[n].fields[i].name)
            /\ Meaning[Find(out[fields].space, out[fields].uses[i])]
                  = project[n].fields[i].type
  BY <1>3, <1>15, <1>16, <1>17
<1> QED
  BY <1>18 DEF fields, traits

\* The descriptors of a struct, read from its model_traits through their pointers,
\* are its fields, each once and in order, with the types they have, however deep:
\* for every project without two structs that share a descriptor namespace.
THEOREM TraitsAreTheModel == Spec => []TraitsDescribeTheirModel
<1>1. Init => IInv /\ Meant
  BY InitialInvariant, InitialMeaning
<1>2. IInv /\ Meant /\ [Next]_vars => (IInv /\ Meant)'
  BY InvariantStep, MeaningStep
<1> QED
  BY <1>1, <1>2, ModelsAreRead, PTL DEF Spec
=============================================================================
