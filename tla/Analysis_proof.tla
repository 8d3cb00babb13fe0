--------------------------- MODULE Analysis_proof ---------------------------
(***************************************************************************)
(* Theorems about Analysis, for every set of names and every set of files. *)
(*                                                                         *)
(* The inductive invariant says what each phase has established.  While    *)
(* files are merged, the declarations merged so far are those of the files *)
(* before k, each in one place (MergedSoFar).  In the loops, success is    *)
(* the verdict on everything seen so far, and while it is TRUE the types   *)
(* are the models of the declarations passed (Loop).  While the types are  *)
(* ordered, the invariant of TypeOrder_proof holds of them (Sorting).  The *)
(* answer is then right because the ordering fails just when names repeat  *)
(* or uses are circular, in the models as in the source.                   *)
(***************************************************************************)
EXTENDS Analysis, SequenceTheorems, TLAPS

Ordering == INSTANCE TypeOrder_proof WITH Inputs <- Seq(TypeModels), pc <- sweep

\* The locals of order_types_by_dependency before it is called.
Unswept ==
    /\ ordered = <<>>
    /\ orderedNames = {}
    /\ i = 1
    /\ progress = FALSE
    /\ sweep = "check"

\* What the theorems of TypeOrder assume.
LEMMA OrderingAssumptions ==
    /\ \A t \in TypeModels : t.name \in TypeNames /\ t.uses \subseteq TypeNames
    /\ Seq(TypeModels) \subseteq Seq(TypeModels)
  BY DEF TypeModels

LEMMA OrderingBegins ==
    ASSUME types \in Seq(TypeModels), Unswept
    PROVE  Ordering!IInv
<1>1. Ordering!Init
  BY DEF Unswept, Ordering!Init
<1> QED
  BY <1>1, OrderingAssumptions, Ordering!InitIInv

LEMMA OrderingSteps ==
    ASSUME Ordering!IInv, Order!Next
    PROVE  Ordering!IInv'
<1>1. Ordering!Next
  BY DEF Order!Next, Order!StartSweep, Order!Finish, Order!Scanning, Order!SkipOrdered,
         Order!SkipBlocked, Order!Emit, Order!EndSweep, Order!GiveUp, Order!Returned,
         Order!vars, Order!Blocked, Order!DependsOn,
         Ordering!Next, Ordering!StartSweep, Ordering!Finish, Ordering!Scanning,
         Ordering!SkipOrdered, Ordering!SkipBlocked, Ordering!Emit, Ordering!EndSweep,
         Ordering!GiveUp, Ordering!Returned, Ordering!vars, Ordering!Blocked, Ordering!DependsOn
<1> QED
  BY <1>1, OrderingAssumptions, Ordering!NextIInv

LEMMA OrderingStays ==
    ASSUME Ordering!IInv, UNCHANGED <<types, sweepVars>>
    PROVE  Ordering!IInv'
<1>1. UNCHANGED Ordering!vars
  BY DEF sweepVars, Ordering!vars
<1> QED
  BY <1>1, OrderingAssumptions, Ordering!NextIInv

\* What a successful ordering returns.
LEMMA OrderingDone ==
    ASSUME Ordering!IInv, sweep = "done"
    PROVE  /\ ordered \in Seq(TypeModels)
           /\ \A n \in DOMAIN types : \E j \in DOMAIN ordered : ordered[j] = types[n]
           /\ \A j \in DOMAIN ordered : \E n \in DOMAIN types : ordered[j] = types[n]
           /\ \A a, b \in DOMAIN ordered : ordered[a].name = ordered[b].name => a = b
           /\ Ordering!DependenciesPrecedeUsers
           /\ ~Ordering!Cyclic /\ ~Ordering!Duplicated
<1>1. ~Ordering!Cyclic /\ ~Ordering!Duplicated
  BY OrderingAssumptions, Ordering!DoneIsAcyclic
<1>2. types \in Seq(TypeModels) /\ ordered \in Seq(TypeModels)
  BY DEF Ordering!IInv, Ordering!TypeOK
<1>3. Len(ordered) = Len(types)
  BY <1>2, OrderingAssumptions, Ordering!FullOutput DEF Ordering!IInv, Ordering!DoneIsFull
<1>4. \A n \in DOMAIN types : \E j \in DOMAIN ordered : ordered[j] = types[n]
  BY <1>3, OrderingAssumptions, Ordering!FullOutput
<1> QED
  BY <1>1, <1>2, <1>4
  DEF Ordering!IInv, Ordering!OutputIsDistinct, Ordering!OutputIsFromInput

LEMMA OrderingFailed ==
    ASSUME Ordering!IInv, sweep = "failed"
    PROVE  Ordering!Cyclic \/ Ordering!Duplicated
  BY OrderingAssumptions, Ordering!FailedIsCyclic
-----------------------------------------------------------------------------
(* The data the loops handle. *)

\* Appending to a sequence of any set.
LEMMA AppendTypes ==
    ASSUME NEW S, NEW s \in Seq(S), NEW e \in S
    PROVE  /\ Append(s, e) \in Seq(S) /\ Append(s, e) # <<>>
           /\ Len(s) \in Nat /\ DOMAIN s = 1 .. Len(s)
           /\ Len(Append(s, e)) = Len(s) + 1 /\ DOMAIN Append(s, e) = 1 .. Len(s) + 1
           /\ Append(s, e)[Len(s) + 1] = e
           /\ \A n \in 1 .. Len(s) : Append(s, e)[n] = s[n]
  OBVIOUS

LEMMA ElementTypes ==
    ASSUME NEW S, NEW s \in Seq(S)
    PROVE  /\ Len(s) \in Nat /\ DOMAIN s = 1 .. Len(s) /\ (s = <<>> <=> Len(s) = 0)
           /\ \A n \in DOMAIN s : s[n] \in S
  OBVIOUS

LEMMA TagTypes ==
    ASSUME NEW field \in Fields
    PROVE  /\ Tag(field).name \in Words
           /\ Tag(field).valid \in BOOLEAN /\ Tag(field).ignored \in BOOLEAN
<1> DEFINE Comment == [json : BOOLEAN, quoted : BOOLEAN, options : Seq(Words)]
<1>1. NoName \in Words
  BY WordsAssumption
<1>2. CASE JsonComments(field) = {}
  BY <1>1, <1>2 DEF Tag, NoTag
<1>3. CASE JsonComments(field) # {}
  <2> DEFINE first == CHOOSE n \in JsonComments(field) : \A m \in JsonComments(field) : n <= m
  <2>1. field.comments \in Seq(Comment)
    BY DEF Fields
  <2>2. JsonComments(field) \subseteq DOMAIN field.comments /\ JsonComments(field) \subseteq Nat
    BY <2>1 DEF JsonComments
  <2>3. \E n \in JsonComments(field) : \A m \in JsonComments(field) : n <= m
    BY <1>3, <2>2, OrderingAssumptions, Ordering!NatLeast
  <2>4. first \in DOMAIN field.comments
    BY <2>2, <2>3
  <2>5. field.comments[first] \in Comment
    BY <2>1, <2>4, ElementTypes
  <2>6. Tag(field) = Parse(field.comments[first])
    BY <1>3 DEF Tag
  <2> HIDE DEF first
  <2>7. ASSUME NEW c \in Comment
        PROVE  Parse(c).name \in Words /\ Parse(c).valid \in BOOLEAN /\ Parse(c).ignored \in BOOLEAN
    <3>1. c.options \in Seq(Words)
      BY <2>7
    <3>2. c.options # <<>> => c.options[1] \in Words
      BY <3>1
    <3>3. CASE Parse(c).name = c.options[1] /\ c.options # <<>>
      BY <3>2, <3>3 DEF Parse, NoTag
    <3>4. CASE ~(Parse(c).name = c.options[1] /\ c.options # <<>>)
      BY <1>1, <3>4 DEF Parse, NoTag
    <3> QED
      BY <3>3, <3>4
  <2> QED
    BY <2>5, <2>6, <2>7
<1> QED
  BY <1>2, <1>3

LEMMA FieldModelTypes ==
    ASSUME merged \in Files, NEW field \in Fields
    PROVE  FieldModel(field) \in FieldModels
<1>1. Tag(field).name \in Words /\ Tag(field).ignored \in BOOLEAN /\ NoName \in Words
  BY TagTypes, WordsAssumption
<1>2. field.name \in Words
  BY DEF Fields
<1>3. JsonName(field) \in Words
  BY <1>1, <1>2 DEF JsonName
<1>4. GeneratedTypes \subseteq TypeNames
  <2>1. merged.declarations \in Seq(Declarations)
    BY DEF Files
  <2>2. \A n \in DOMAIN merged.declarations : merged.declarations[n] \in Declarations
    BY <2>1, ElementTypes
  <2> QED
    BY <2>2 DEF GeneratedTypes, Declarations
<1>5. Uses(field.type) \in SUBSET TypeNames
  BY <1>4 DEF Uses
<1>6. (Tag(field).omitEmpty /\ ~Tag(field).ignored) \in BOOLEAN
  OBVIOUS
<1>7. (IF Tag(field).ignored THEN NoName ELSE JsonName(field)) \in Words
  BY <1>1, <1>3
<1> QED
  BY <1>1, <1>2, <1>5, <1>6, <1>7 DEF FieldModel, FieldModels

LEMMA TypeModelTypes ==
    ASSUME NEW name \in TypeNames, NEW members \in Seq(FieldModels)
    PROVE  TypeModel(name, members) \in TypeModels
<1>1. \A n \in DOMAIN members : members[n] \in FieldModels
  BY ElementTypes
<1>2. \A n \in DOMAIN members : members[n].uses \in SUBSET TypeNames
  BY <1>1 DEF FieldModels
<1>3. UNION {members[n].uses : n \in DOMAIN members} \in SUBSET TypeNames
  BY <1>2
<1> QED
  BY <1>3 DEF TypeModel, TypeModels

LEMMA FileTypes ==
    ASSUME files \in Inputs
    PROVE  /\ Len(files) \in Nat /\ DOMAIN files = 1 .. Len(files)
           /\ (files = <<>> <=> Len(files) = 0)
           /\ \A a \in DOMAIN files :
                 /\ files[a].declarations \in Seq(Declarations)
                 /\ files[a].enums \in Seq(TypeNames)
<1>1. files \in Seq(Files)
  BY InputsAssumption
<1>2. \A a \in DOMAIN files : files[a] \in Files
  BY <1>1, ElementTypes
<1> QED
  BY <1>1, <1>2, ElementTypes DEF Files

LEMMA MergedTypes ==
    ASSUME merged \in Files
    PROVE  /\ merged.declarations \in Seq(Declarations) /\ merged.enums \in Seq(TypeNames)
           /\ Len(merged.declarations) \in Nat
           /\ DOMAIN merged.declarations = 1 .. Len(merged.declarations)
           /\ \A p \in DOMAIN merged.declarations :
                 /\ merged.declarations[p].name \in TypeNames
                 /\ merged.declarations[p].fields \in Seq(Fields)
<1>1. merged.declarations \in Seq(Declarations) /\ merged.enums \in Seq(TypeNames)
  BY DEF Files
<1>2. \A p \in DOMAIN merged.declarations : merged.declarations[p] \in Declarations
  BY <1>1, ElementTypes
<1> QED
  BY <1>1, <1>2, ElementTypes DEF Declarations

-----------------------------------------------------------------------------
(* The inductive invariant, in parts. *)

\* The positions of the declarations in the first n - 1 files.
SourceBefore(n) ==
    UNION {{<<a, x>> : x \in DOMAIN files[a].declarations} : a \in 1 .. n - 1}

\* merged holds the declarations of the files before k, each once.
MergedFrom(source) ==
    /\ source \in [DOMAIN merged.declarations -> SourceBefore(k)]
    /\ \A p, q \in DOMAIN source : source[p] = source[q] => p = q
    /\ \A nm \in SourceBefore(k) : \E p \in DOMAIN source : source[p] = nm
    /\ \A p \in DOMAIN source : merged.declarations[p] = At(source[p])

MergedSoFar ==
    /\ \E source : MergedFrom(source)
    /\ EnumNames = UNION {{files[a].enums[x] : x \in DOMAIN files[a].enums} : a \in 1 .. k - 1}

\* The model of a declaration all of whose fields are included.
Model(declaration) ==
    TypeModel(declaration.name,
              [n \in DOMAIN declaration.fields |-> FieldModel(declaration.fields[n])])

\* list holds the models of the first n declarations merged, without those
\* that have no fields; origin is where each comes from.
ModelsFrom(list, origin, n) ==
    /\ origin \in [DOMAIN list -> 1 .. n]
    /\ \A a, b \in DOMAIN list : origin[a] = origin[b] => a = b
    /\ \A p \in 1 .. n : merged.declarations[p].fields # <<>> =>
          \E a \in DOMAIN list : origin[a] = p
    /\ \A a \in DOMAIN list :
          /\ merged.declarations[origin[a]].fields # <<>>
          /\ list[a] = Model(merged.declarations[origin[a]])

ModelsOf(list, n) == \E origin : ModelsFrom(list, origin, n)

\* What the fields up to position n of a declaration must be like.
FieldsUnderstood(own, n) ==
    /\ \A x \in 1 .. n : Tag(own[x]).valid
    /\ \A x, y \in 1 .. n :
          ~Tag(own[x]).ignored /\ ~Tag(own[y]).ignored /\ JsonName(own[x]) = JsonName(own[y])
             => x = y
    /\ \A x \in 1 .. n : ~Tag(own[x]).ignored => Supported(own[x].type)

NamesUsed(own, n) ==
    {JsonName(own[x]) : x \in {y \in 1 .. n : ~Tag(own[y]).ignored}}

DeclarationsUnderstood(n) ==
    \A p \in 1 .. n :
        FieldsUnderstood(merged.declarations[p].fields, Len(merged.declarations[p].fields))

\* Before the loops.
Start ==
    /\ pc = "merge" =>
          success /\ d = 1 /\ f = 1 /\ jsonNames = {} /\ fields = <<>> /\ types = <<>>
    /\ pc \in {"merge", "fields"} => Unswept
    /\ pc \in {"fields", "order"} => k = Len(files) + 1

\* In the loops: success is the verdict on everything seen, and as long as it
\* holds nothing seen is missing.
Loop ==
    pc = "fields" =>
        /\ success <=>
              /\ DeclarationsUnderstood(d - 1)
              /\ AtDeclaration => FieldsUnderstood(Declaration.fields, f - 1)
        /\ success => ModelsOf(types, d - 1)
        /\ success /\ AtDeclaration =>
              /\ jsonNames = NamesUsed(Declaration.fields, f - 1)
              /\ Len(fields) = f - 1
              /\ \A x \in 1 .. f - 1 : fields[x] = FieldModel(Declaration.fields[x])
        /\ ~AtDeclaration => fields = <<>>

\* While the types are ordered.
Sorting ==
    pc = "order" =>
        /\ Ordering!IInv
        /\ success
        /\ DeclarationsUnderstood(Len(merged.declarations))
        /\ ModelsOf(types, Len(merged.declarations))

Explained == ~success => diags # <<>>

Answer ==
    VerdictMatchesSource /\ FailureExposesNothing /\ NothingIsDropped /\ ProjectIsOrdered

IInv == TypeOK /\ MergedSoFar /\ Start /\ Loop /\ Sorting /\ Explained /\ Answer

-----------------------------------------------------------------------------
(* Types. *)

LEMMA InitTypeOK == Init => TypeOK
<1> SUFFICES ASSUME Init PROVE TypeOK
  OBVIOUS
<1>1. <<>> \in Seq(Declarations) /\ <<>> \in Seq(TypeNames) /\ <<>> \in Seq(FieldModels)
      /\ <<>> \in Seq(TypeModels) /\ <<>> \in Seq(Diagnostics)
  OBVIOUS
<1>2. merged \in Files
  BY <1>1 DEF Init, Files
<1>3. Len(files) \in Nat
  BY FileTypes DEF Init
<1>4. Len(merged.declarations) = 0
  BY DEF Init
<1>5. success \in BOOLEAN
  BY Zenon DEF Init
<1>6. k \in 1 .. Len(files) + 1 /\ d \in 1 .. Len(merged.declarations) + 1 /\ f \in Nat \ {0}
  BY <1>3, <1>4 DEF Init
<1>7. pc = "merge"
  BY DEF Init
<1> QED
  BY <1>1, <1>2, <1>5, <1>6, <1>7 DEF Init, TypeOK, AtDeclaration

\* What every action on a field has in common.
FieldStep == RejectMetadata \/ IncludeIgnored \/ RejectDuplicateName \/ RejectType \/ IncludeField

LEMMA FieldStepFacts ==
    ASSUME FieldStep
    PROVE  /\ AtField /\ pc = "fields" /\ f' = f + 1
           /\ UNCHANGED <<files, k, merged, d, types, enums, pc, sweepVars>>
           /\ fields' = fields \/ fields' = Append(fields, FieldModel(Field))
           /\ diags' = diags \/ \E kind \in Diagnostics : diags' = Append(diags, kind)
           /\ success' = success \/ success' = FALSE
           /\ success' # success => \E kind \in Diagnostics : diags' = Append(diags, kind)
<1>1. {"metadata", "duplicate_json_name", "type"} \subseteq Diagnostics
  BY DEF Diagnostics
<1> QED
  BY <1>1
  DEF FieldStep, RejectMetadata, IncludeIgnored, RejectDuplicateName, RejectType, IncludeField,
      Active, NextField, Refuse, Include, AtField, AtDeclaration

LEMMA FieldPlace ==
    ASSUME TypeOK, AtField
    PROVE  /\ d \in 1 .. Len(merged.declarations) /\ d \in DOMAIN merged.declarations
           /\ Declaration.fields \in Seq(Fields) /\ Declaration.name \in TypeNames
           /\ f \in 1 .. Len(Declaration.fields)
           /\ Field \in Fields /\ FieldModel(Field) \in FieldModels
<1>1. d \in 1 .. Len(merged.declarations) /\ d \in DOMAIN merged.declarations
  BY MergedTypes DEF TypeOK, AtField, AtDeclaration
<1>2. Declaration.fields \in Seq(Fields) /\ Declaration.name \in TypeNames
  BY <1>1, MergedTypes DEF TypeOK, Declaration
<1>3. f \in 1 .. Len(Declaration.fields)
  BY <1>2 DEF TypeOK, AtField
<1>4. Field \in Fields
  BY <1>2, <1>3 DEF Field
<1> QED
  BY <1>1, <1>2, <1>3, <1>4, FieldModelTypes DEF TypeOK

LEMMA FieldStepTypeOK == ASSUME TypeOK, FieldStep PROVE TypeOK'
<1>1. /\ AtField /\ pc = "fields" /\ f' = f + 1
      /\ UNCHANGED <<files, k, merged, d, types, enums, pc, sweepVars>>
      /\ fields' = fields \/ fields' = Append(fields, FieldModel(Field))
      /\ diags' = diags \/ \E kind \in Diagnostics : diags' = Append(diags, kind)
      /\ success' = success \/ success' = FALSE
  BY FieldStepFacts
<1>2. f \in 1 .. Len(Declaration.fields) /\ FieldModel(Field) \in FieldModels
      /\ Declaration.fields \in Seq(Fields)
  BY <1>1, FieldPlace
<1>3. fields' \in Seq(FieldModels)
  <2>1. fields \in Seq(FieldModels)
    BY DEF TypeOK
  <2>2. Append(fields, FieldModel(Field)) \in Seq(FieldModels)
    BY <1>2, <2>1, AppendTypes
  <2> QED
    BY <1>1, <2>1, <2>2
<1>4. diags' \in Seq(Diagnostics)
  <2>1. diags \in Seq(Diagnostics)
    BY DEF TypeOK
  <2>2. \A kind \in Diagnostics : Append(diags, kind) \in Seq(Diagnostics)
    BY <2>1, AppendTypes
  <2> QED
    BY <1>1, <2>1, <2>2
<1>5. success' \in BOOLEAN
  BY <1>1, Zenon DEF TypeOK
<1>6. f' \in Nat \ {0} /\ f' <= Len(Declaration.fields) + 1
  BY <1>1, <1>2
<1>7. Declaration' = Declaration
  BY <1>1 DEF Declaration
<1> QED
  BY <1>1, <1>3, <1>4, <1>5, <1>6, <1>7 DEF TypeOK

LEMMA MergeFileTypes ==
    ASSUME TypeOK, MergeFile
    PROVE  /\ k \in DOMAIN files /\ k' = k + 1 /\ k' \in 1 .. Len(files) + 1
           /\ merged' \in Files
           /\ UNCHANGED <<files, d, f, jsonNames, fields, types, enums, diags, success, pc,
                          sweepVars>>
<1>1. k \in DOMAIN files /\ k' = k + 1 /\ k' \in 1 .. Len(files) + 1
  BY FileTypes DEF TypeOK, MergeFile
<1>2. /\ files[k].declarations \in Seq(Declarations) /\ files[k].enums \in Seq(TypeNames)
      /\ merged.declarations \in Seq(Declarations) /\ merged.enums \in Seq(TypeNames)
  BY <1>1, FileTypes, MergedTypes DEF TypeOK
<1>3. /\ merged.declarations \o files[k].declarations \in Seq(Declarations)
      /\ merged.enums \o files[k].enums \in Seq(TypeNames)
  BY <1>2
<1>4. merged' \in Files
  BY <1>3 DEF MergeFile, Files
<1> QED
  BY <1>1, <1>4 DEF MergeFile

LEMMA EndDeclarationTypes ==
    ASSUME TypeOK, EndDeclaration
    PROVE  /\ d \in DOMAIN merged.declarations /\ d \in 1 .. Len(merged.declarations)
           /\ Declaration.fields \in Seq(Fields) /\ f = Len(Declaration.fields) + 1
           /\ TypeModel(Declaration.name, fields) \in TypeModels
           /\ types' \in Seq(TypeModels)
<1>1. d \in 1 .. Len(merged.declarations) /\ d \in DOMAIN merged.declarations
  BY MergedTypes DEF TypeOK, EndDeclaration, AtDeclaration
<1>2. Declaration.fields \in Seq(Fields) /\ Declaration.name \in TypeNames
  BY <1>1, MergedTypes DEF TypeOK, Declaration
<1>3. f = Len(Declaration.fields) + 1
  BY <1>2 DEF TypeOK, EndDeclaration
<1>4. TypeModel(Declaration.name, fields) \in TypeModels
  BY <1>2, TypeModelTypes DEF TypeOK
<1>5. types \in Seq(TypeModels)
  BY DEF TypeOK
<1>6. Append(types, TypeModel(Declaration.name, fields)) \in Seq(TypeModels)
  BY <1>4, <1>5, AppendTypes
<1>7. types' \in Seq(TypeModels)
  BY <1>5, <1>6 DEF EndDeclaration
<1> QED
  BY <1>1, <1>2, <1>3, <1>4, <1>7

LEMMA NextTypeOK == IInv /\ [Next]_vars => TypeOK'
<1> SUFFICES ASSUME IInv, [Next]_vars PROVE TypeOK'
  OBVIOUS
<1>0. TypeOK
  BY DEF IInv
<1>1. CASE NoFiles
  BY <1>0, <1>1 DEF NoFiles, TypeOK, AtDeclaration
<1>2. CASE MergeFile
  <2>1. d = 1 /\ pc = "merge"
    BY <1>2 DEF MergeFile, IInv, Start
  <2>2. Len(merged'.declarations) \in Nat
    BY <1>0, <1>2, MergeFileTypes DEF Files
  <2>3. d' \in 1 .. Len(merged'.declarations) + 1
    BY <1>0, <1>2, <2>1, <2>2, MergeFileTypes
  <2> QED
    BY <1>0, <1>2, <2>1, <2>3, MergeFileTypes DEF TypeOK, AtDeclaration
<1>3. CASE BeginAnalysis
  <2>1. /\ f = 1 /\ UNCHANGED <<files, k, merged, d, f, fields, types, diags, success>>
        /\ enums' = merged.enums /\ pc' = "fields"
    BY <1>3 DEF BeginAnalysis, IInv, Start
  <2>2. ASSUME AtDeclaration' PROVE Len(Declaration.fields)' \in Nat
    <3>1. d \in 1 .. Len(merged.declarations)
      BY <1>0, <2>1, <2>2, MergedTypes DEF TypeOK, AtDeclaration
    <3>2. merged.declarations[d].fields \in Seq(Fields)
      BY <1>0, <3>1, MergedTypes DEF TypeOK
    <3> QED
      BY <2>1, <3>2 DEF Declaration
  <2> QED
    BY <1>0, <2>1, <2>2, MergedTypes DEF TypeOK
<1>4. CASE FieldStep
  BY <1>0, <1>4, FieldStepTypeOK
<1>5. CASE EndDeclaration
  <2>1. /\ d' = d + 1 /\ f' = 1 /\ fields' = <<>> /\ pc' = "fields"
        /\ UNCHANGED <<files, k, merged, enums, diags, success>>
    BY <1>5 DEF EndDeclaration, AtDeclaration
  <2>2. d' \in 1 .. Len(merged.declarations) + 1
    BY <1>0, <1>5, <2>1, EndDeclarationTypes, MergedTypes DEF TypeOK
  <2>3. ASSUME AtDeclaration' PROVE Len(Declaration.fields)' \in Nat
    <3>1. d' \in 1 .. Len(merged.declarations)
      BY <1>0, <2>1, <2>2, <2>3, MergedTypes DEF TypeOK, AtDeclaration
    <3>2. merged.declarations[d'].fields \in Seq(Fields)
      BY <1>0, <3>1, MergedTypes DEF TypeOK
    <3> QED
      BY <2>1, <3>2 DEF Declaration
  <2>4. types' \in Seq(TypeModels)
    BY <1>0, <1>5, EndDeclarationTypes
  <2> QED
    BY <1>0, <2>1, <2>2, <2>3, <2>4 DEF TypeOK
<1>6. CASE FailAnalysis
  BY <1>0, <1>6 DEF FailAnalysis, ExposeNothing, TypeOK, AtDeclaration
<1>7. CASE BeginOrder
  BY <1>0, <1>7 DEF BeginOrder, TypeOK, AtDeclaration
<1>8. CASE OrderStep
  <2>1. /\ UNCHANGED types /\ pc' = pc /\ pc = "order"
        /\ UNCHANGED <<files, k, merged, d, f, fields, enums, diags, success>>
    BY <1>8 DEF OrderStep, Order!Next, Order!StartSweep, Order!Finish, Order!SkipOrdered,
                Order!SkipBlocked, Order!Emit, Order!EndSweep, Order!GiveUp, Order!Returned,
                Order!vars
  <2> QED
    BY <1>0, <2>1 DEF TypeOK, AtDeclaration
<1>9. CASE AcceptOrder
  <2>1. ordered \in Seq(TypeModels)
    BY <1>9, OrderingDone DEF IInv, Sorting, AcceptOrder
  <2> QED
    BY <1>0, <1>9, <2>1 DEF AcceptOrder, TypeOK, AtDeclaration
<1>10. CASE FailOrder
  <2>1. diags \in Seq(Diagnostics) /\ "cyclic_dependency" \in Diagnostics
    BY <1>0 DEF TypeOK, Diagnostics
  <2>2. diags' \in Seq(Diagnostics)
    BY <1>10, <2>1, AppendTypes DEF FailOrder
  <2>3. /\ types' = <<>> /\ enums' = <<>> /\ success' = FALSE /\ pc' = "done"
        /\ UNCHANGED <<files, k, merged, d, f, fields>>
    BY <1>10 DEF FailOrder, ExposeNothing
  <2>4. success' \in BOOLEAN
    BY <2>3, Zenon
  <2>5. types' \in Seq(TypeModels) /\ enums' \in Seq(TypeNames)
    BY <2>3
  <2>6. ~AtDeclaration'
    BY <2>3 DEF AtDeclaration
  <2> QED
    BY <1>0, <2>2, <2>3, <2>4, <2>5, <2>6 DEF TypeOK
<1>11. CASE Returned \/ UNCHANGED vars
  BY <1>0, <1>11 DEF Returned, vars, TypeOK, AtDeclaration, Declaration
<1> QED
  BY <1>1, <1>2, <1>3, <1>4, <1>5, <1>6, <1>7, <1>8, <1>9, <1>10, <1>11 DEF Next, FieldStep

-----------------------------------------------------------------------------
(* The loop over the fields of a declaration. *)

LEMMA NamesGrow ==
    ASSUME NEW own, NEW n \in Nat
    PROVE  NamesUsed(own, n + 1) =
             NamesUsed(own, n) \cup
               (IF Tag(own[n + 1]).ignored THEN {} ELSE {JsonName(own[n + 1])})
<1>1. \A y : y \in 1 .. n + 1 <=> y \in 1 .. n \/ y = n + 1
  OBVIOUS
<1> QED
  BY <1>1 DEF NamesUsed

LEMMA UnderstoodGrows ==
    ASSUME NEW own, NEW n \in Nat
    PROVE  FieldsUnderstood(own, n + 1) <=>
             /\ FieldsUnderstood(own, n)
             /\ Tag(own[n + 1]).valid
             /\ ~Tag(own[n + 1]).ignored =>
                   /\ JsonName(own[n + 1]) \notin NamesUsed(own, n)
                   /\ Supported(own[n + 1].type)
<1>1. \A y : y \in 1 .. n + 1 <=> y \in 1 .. n \/ y = n + 1
  OBVIOUS
<1>2. n + 1 \notin 1 .. n
  OBVIOUS
<1> DEFINE Live(x) == ~Tag(own[x]).ignored
           Name(x) == JsonName(own[x])
<1>3. \A name : name \in NamesUsed(own, n) <=> \E x \in 1 .. n : Live(x) /\ Name(x) = name
  BY DEF NamesUsed
<1>4. (\A x, y \in 1 .. n + 1 : Live(x) /\ Live(y) /\ Name(x) = Name(y) => x = y) <=>
        /\ \A x, y \in 1 .. n : Live(x) /\ Live(y) /\ Name(x) = Name(y) => x = y
        /\ Live(n + 1) => Name(n + 1) \notin NamesUsed(own, n)
  <2> HIDE DEF Live, Name
  <2> QED
    BY <1>1, <1>2, <1>3
<1>5. (\A x \in 1 .. n + 1 : Tag(own[x]).valid) <=>
         (\A x \in 1 .. n : Tag(own[x]).valid) /\ Tag(own[n + 1]).valid
  BY <1>1
<1>6. (\A x \in 1 .. n + 1 : Live(x) => Supported(own[x].type)) <=>
         /\ \A x \in 1 .. n : Live(x) => Supported(own[x].type)
         /\ Live(n + 1) => Supported(own[n + 1].type)
  BY <1>1
<1> QED
  BY <1>4, <1>5, <1>6 DEF FieldsUnderstood

\* Whether the current field is one the code accepts.
Accepted ==
    /\ Tag(Field).valid
    /\ ~Tag(Field).ignored => JsonName(Field) \notin jsonNames /\ Supported(Field.type)

LEMMA FieldStepCases ==
    ASSUME FieldStep
    PROVE  /\ Accepted => /\ success' = success
                          /\ fields' = Append(fields, FieldModel(Field))
                          /\ jsonNames' = jsonNames \cup
                               (IF Tag(Field).ignored THEN {} ELSE {JsonName(Field)})
           /\ ~Accepted => success' = FALSE
<1>1. CASE RejectMetadata
  BY <1>1 DEF RejectMetadata, Refuse, Accepted
<1>2. CASE IncludeIgnored
  BY <1>2 DEF IncludeIgnored, Include, Accepted
<1>3. CASE RejectDuplicateName
  BY <1>3 DEF RejectDuplicateName, Refuse, Accepted, Active
<1>4. CASE RejectType
  BY <1>4 DEF RejectType, Refuse, Accepted, Active
<1>5. CASE IncludeField
  BY <1>5 DEF IncludeField, Include, Accepted, Active
<1> QED
  BY <1>1, <1>2, <1>3, <1>4, <1>5 DEF FieldStep

LEMMA FieldStepLoop == ASSUME IInv, FieldStep PROVE Loop'
<1> DEFINE own == Declaration.fields
<1>0. TypeOK
  BY DEF IInv
<1>1. /\ AtField /\ pc = "fields" /\ f' = f + 1
      /\ UNCHANGED <<files, k, merged, d, types, enums, pc, sweepVars>>
      /\ success' = success \/ success' = FALSE
  BY FieldStepFacts
<1>2. /\ own \in Seq(Fields) /\ f \in 1 .. Len(own) /\ Field = own[f]
      /\ FieldModel(Field) \in FieldModels /\ f \in Nat /\ f - 1 \in Nat
      /\ fields \in Seq(FieldModels)
  BY <1>0, <1>1, FieldPlace DEF Field, TypeOK
<1>3. AtDeclaration
  BY <1>1 DEF AtField
<1>4. /\ success <=> DeclarationsUnderstood(d - 1) /\ FieldsUnderstood(own, f - 1)
      /\ success => ModelsOf(types, d - 1)
      /\ success => /\ jsonNames = NamesUsed(own, f - 1)
                    /\ Len(fields) = f - 1
                    /\ \A x \in 1 .. f - 1 : fields[x] = FieldModel(own[x])
  BY <1>1, <1>3 DEF IInv, Loop
<1>5. FieldsUnderstood(own, f) <=>
        /\ FieldsUnderstood(own, f - 1)
        /\ Tag(Field).valid
        /\ ~Tag(Field).ignored =>
              JsonName(Field) \notin NamesUsed(own, f - 1) /\ Supported(Field.type)
  <2>1. f - 1 + 1 = f
    BY <1>2
  <2>2. own[f - 1 + 1] = Field
    BY <1>2, <2>1
  <2>3. FieldsUnderstood(own, f - 1 + 1) <=>
           /\ FieldsUnderstood(own, f - 1)
           /\ Tag(own[f - 1 + 1]).valid
           /\ ~Tag(own[f - 1 + 1]).ignored =>
                 /\ JsonName(own[f - 1 + 1]) \notin NamesUsed(own, f - 1)
                 /\ Supported(own[f - 1 + 1].type)
    BY <1>2, UnderstoodGrows, Zenon
  <2> QED
    BY <2>1, <2>2, <2>3, Zenon
<1>6. NamesUsed(own, f) =
         NamesUsed(own, f - 1) \cup (IF Tag(Field).ignored THEN {} ELSE {JsonName(Field)})
  <2>1. f - 1 + 1 = f
    BY <1>2
  <2> QED
    BY <1>2, <2>1, NamesGrow
<1>7. success \in BOOLEAN /\ success' \in BOOLEAN
  BY <1>0, FieldStepTypeOK, Zenon DEF TypeOK
<1>8. success' <=> DeclarationsUnderstood(d - 1) /\ FieldsUnderstood(own, f)
  BY <1>1, <1>4, <1>5, <1>7, FieldStepCases, Zenon DEF Accepted
<1>9. success' => success /\ Accepted
  BY <1>1, FieldStepCases, Zenon
<1>10. ASSUME success'
       PROVE  /\ jsonNames' = NamesUsed(own, f)
              /\ Len(fields') = f
              /\ \A x \in 1 .. f : fields'[x] = FieldModel(own[x])
  <2>1. /\ success /\ fields' = Append(fields, FieldModel(Field))
        /\ jsonNames' = jsonNames \cup (IF Tag(Field).ignored THEN {} ELSE {JsonName(Field)})
    BY <1>9, <1>10, FieldStepCases
  <2>2. jsonNames' = NamesUsed(own, f)
    BY <1>4, <1>6, <2>1
  <2>3. Len(fields) = f - 1 /\ \A x \in 1 .. f - 1 : fields[x] = FieldModel(own[x])
    BY <1>4, <2>1
  <2>4. Len(fields') = f /\ fields'[f] = FieldModel(Field)
        /\ \A x \in 1 .. f - 1 : fields'[x] = fields[x]
    BY <1>2, <2>1, <2>3, AppendTypes
  <2>5. \A x \in 1 .. f : x \in 1 .. f - 1 \/ x = f
    BY <1>2
  <2> QED
    BY <1>2, <2>2, <2>3, <2>4, <2>5
<1>11. UNCHANGED <<GeneratedTypes, EnumNames, Declaration>> /\ AtDeclaration'
  BY <1>1, <1>3 DEF GeneratedTypes, EnumNames, Declaration, AtDeclaration
<1>12. f' - 1 = f
  BY <1>1, <1>2
<1>13. (DeclarationsUnderstood(d - 1))' = DeclarationsUnderstood(d - 1)
  BY <1>1, <1>11 DEF DeclarationsUnderstood, FieldsUnderstood, Supported
<1>14. FieldsUnderstood(own, f - 1)' = FieldsUnderstood(own, f)
  BY <1>11, <1>12 DEF FieldsUnderstood, Supported
<1>15. ModelsOf(types, d - 1)' = ModelsOf(types, d - 1)
  BY <1>1, <1>11 DEF ModelsOf, ModelsFrom, Model, FieldModel, Uses
<1>16. \A x : FieldModel(own[x])' = FieldModel(own[x])
  BY <1>11 DEF FieldModel, Uses
<1>17. NamesUsed(own, f - 1)' = NamesUsed(own, f)
  BY <1>11, <1>12 DEF NamesUsed
<1>18. success' => /\ jsonNames' = NamesUsed(own, f - 1)'
                   /\ Len(fields') = f' - 1
                   /\ \A x \in 1 .. f' - 1 : fields'[x] = FieldModel(own[x])'
  BY <1>10, <1>12, <1>16, <1>17
<1>19. success' => ModelsOf(types, d - 1)'
  BY <1>4, <1>9, <1>15, Zenon
<1>20. success' <=> DeclarationsUnderstood(d - 1)' /\ FieldsUnderstood(own, f - 1)'
  BY <1>8, <1>13, <1>14, Zenon
<1> QED
  BY <1>11, <1>18, <1>19, <1>20, Zenon DEF Loop

\* A step that leaves merged, types and d alone leaves what is said of them.
LEMMA VerdictStays ==
    ASSUME UNCHANGED <<merged, types, d>>
    PROVE  /\ ModelsOf(types, d - 1)' = ModelsOf(types, d - 1)
           /\ ModelsOf(types, Len(merged.declarations))' = ModelsOf(types, Len(merged.declarations))
           /\ DeclarationsUnderstood(d - 1)' = DeclarationsUnderstood(d - 1)
           /\ DeclarationsUnderstood(Len(merged.declarations))'
                = DeclarationsUnderstood(Len(merged.declarations))
<1>1. UNCHANGED <<merged, types, d, GeneratedTypes, EnumNames>>
  BY DEF GeneratedTypes, EnumNames
<1>2. ModelsOf(types, d - 1)' = ModelsOf(types, d - 1)
  BY <1>1 DEF ModelsOf, ModelsFrom, Model, FieldModel, Uses
<1>3. ModelsOf(types, Len(merged.declarations))' = ModelsOf(types, Len(merged.declarations))
  <2>1. ASSUME NEW origin
        PROVE  ModelsFrom(types, origin, Len(merged.declarations))'
                 <=> ModelsFrom(types, origin, Len(merged.declarations))
    <3>1. \A p : Model(merged.declarations[p])' = Model(merged.declarations[p])
      BY <1>1 DEF Model, FieldModel, Uses
    <3> QED
      BY <1>1, <3>1 DEF ModelsFrom
  <2> QED
    BY <2>1 DEF ModelsOf
<1>4. DeclarationsUnderstood(d - 1)' = DeclarationsUnderstood(d - 1)
  BY <1>1 DEF DeclarationsUnderstood, FieldsUnderstood, Supported
<1>5. DeclarationsUnderstood(Len(merged.declarations))'
        = DeclarationsUnderstood(Len(merged.declarations))
  BY <1>1 DEF DeclarationsUnderstood, FieldsUnderstood, Supported
<1> QED
  BY <1>2, <1>3, <1>4, <1>5

LEMMA NothingYet ==
    /\ DeclarationsUnderstood(0)
    /\ \A own : FieldsUnderstood(own, 0) /\ NamesUsed(own, 0) = {}
    /\ ModelsOf(<<>>, 0)
<1>1. \A x : x \notin 1 .. 0
  OBVIOUS
<1>2. ModelsFrom(<<>>, <<>>, 0)
  BY <1>1 DEF ModelsFrom
<1>3. ModelsOf(<<>>, 0)
  BY <1>2 DEF ModelsOf
<1>4. DeclarationsUnderstood(0)
  BY <1>1 DEF DeclarationsUnderstood
<1>5. ASSUME NEW own PROVE FieldsUnderstood(own, 0) /\ NamesUsed(own, 0) = {}
  BY <1>1 DEF FieldsUnderstood, NamesUsed
<1> QED
  BY <1>3, <1>4, <1>5

LEMMA BeginLoop == ASSUME IInv, BeginAnalysis PROVE Loop'
<1>1. /\ success /\ d = 1 /\ f = 1 /\ jsonNames = {} /\ fields = <<>> /\ types = <<>>
      /\ UNCHANGED <<merged, d, f, jsonNames, fields, types, success>>
      /\ pc' = "fields"
  BY DEF BeginAnalysis, IInv, Start
<1>2. UNCHANGED <<GeneratedTypes, EnumNames>>
  BY <1>1 DEF GeneratedTypes, EnumNames
<1>3. d' - 1 = 0 /\ f' - 1 = 0
  BY <1>1
<1>4. DeclarationsUnderstood(d - 1)'
  BY <1>1, <1>3 DEF DeclarationsUnderstood
<1>5. FieldsUnderstood(Declaration.fields, f - 1)'
  BY <1>3 DEF FieldsUnderstood
<1>6. NamesUsed(Declaration.fields, f - 1)' = {}
  BY <1>3 DEF NamesUsed
<1>7. ModelsOf(types, d - 1)'
  <2>1. types' = <<>> /\ ModelsFrom(<<>>, <<>>, 0)
    BY <1>1 DEF ModelsFrom
  <2>2. ModelsFrom(<<>>, <<>>, 0)'
    BY DEF ModelsFrom
  <2> QED
    BY <1>3, <2>1, <2>2 DEF ModelsOf
<1>8. \A x : x \notin 1 .. f' - 1
  BY <1>3
<1>9. Len(fields') = f' - 1 /\ fields' = <<>> /\ success' /\ jsonNames' = {}
  BY <1>1, <1>3
<1> QED
  BY <1>4, <1>5, <1>6, <1>7, <1>8, <1>9 DEF Loop

\* One more declaration without fields.
LEMMA ModelsSkip ==
    ASSUME NEW list, NEW n \in Nat \ {0}, ModelsOf(list, n - 1),
           merged.declarations[n].fields = <<>>
    PROVE  ModelsOf(list, n)
<1>1. PICK origin : ModelsFrom(list, origin, n - 1)
  BY DEF ModelsOf
<1>2. \A p : p \in 1 .. n <=> p \in 1 .. n - 1 \/ p = n
  OBVIOUS
<1>3. origin \in [DOMAIN list -> 1 .. n]
  BY <1>1, <1>2 DEF ModelsFrom
<1>4. ModelsFrom(list, origin, n)
  BY <1>1, <1>2, <1>3 DEF ModelsFrom
<1> QED
  BY <1>4 DEF ModelsOf

\* One more declaration with fields, and its model.
LEMMA ModelsGrow ==
    ASSUME NEW list \in Seq(TypeModels), NEW n \in Nat \ {0}, ModelsOf(list, n - 1),
           NEW model \in TypeModels, model = Model(merged.declarations[n]),
           merged.declarations[n].fields # <<>>
    PROVE  ModelsOf(Append(list, model), n)
<1>1. PICK origin : ModelsFrom(list, origin, n - 1)
  BY DEF ModelsOf
<1> DEFINE longer == Append(list, model)
           last == Len(list) + 1
           extended == [a \in 1 .. last |-> IF a = last THEN n ELSE origin[a]]
<1>2. /\ Len(list) \in Nat /\ DOMAIN list = 1 .. Len(list) /\ DOMAIN longer = 1 .. last
      /\ longer[last] = model /\ \A a \in DOMAIN list : longer[a] = list[a]
  BY AppendTypes
<1>3. \A a : a \in 1 .. last <=> a \in DOMAIN list \/ a = last
  BY <1>2
<1>4. last \notin DOMAIN list /\ n \notin 1 .. n - 1 /\ n \in 1 .. n
  BY <1>2
<1>5. \A p : p \in 1 .. n <=> p \in 1 .. n - 1 \/ p = n
  OBVIOUS
<1>6. /\ origin \in [DOMAIN list -> 1 .. n - 1]
      /\ \A a, b \in DOMAIN list : origin[a] = origin[b] => a = b
      /\ \A p \in 1 .. n - 1 : merged.declarations[p].fields # <<>> =>
            \E a \in DOMAIN list : origin[a] = p
      /\ \A a \in DOMAIN list :
            /\ merged.declarations[origin[a]].fields # <<>>
            /\ list[a] = Model(merged.declarations[origin[a]])
  BY <1>1 DEF ModelsFrom
<1> HIDE DEF longer, last
<1>7. /\ extended[last] = n /\ \A a \in DOMAIN list : extended[a] = origin[a]
      /\ last \in 1 .. last
  BY <1>3, <1>4
<1>8. extended \in [1 .. last -> 1 .. n]
  BY <1>3, <1>4, <1>5, <1>6
<1> HIDE DEF extended
<1>9. ASSUME NEW a \in 1 .. last, NEW b \in 1 .. last, extended[a] = extended[b] PROVE a = b
  <2>1. \A x \in DOMAIN list : extended[x] # n
    BY <1>4, <1>6, <1>7
  <2>2. CASE a \in DOMAIN list /\ b \in DOMAIN list
    BY <1>6, <1>7, <1>9, <2>2
  <2>3. CASE a = last \/ b = last
    BY <1>3, <1>7, <1>9, <2>1, <2>3
  <2> QED
    BY <1>3, <2>2, <2>3
<1>10. \A p \in 1 .. n : merged.declarations[p].fields # <<>> =>
          \E a \in 1 .. last : extended[a] = p
  BY <1>3, <1>5, <1>6, <1>7
<1>11. \A a \in 1 .. last :
          /\ merged.declarations[extended[a]].fields # <<>>
          /\ longer[a] = Model(merged.declarations[extended[a]])
  BY <1>2, <1>3, <1>6, <1>7
<1>12. ModelsFrom(longer, extended, n)
  BY <1>2, <1>8, <1>9, <1>10, <1>11 DEF ModelsFrom
<1> QED
  BY <1>12 DEF ModelsOf, longer

LEMMA EndDeclarationLoop == ASSUME IInv, EndDeclaration PROVE Loop'
<1> DEFINE own == Declaration.fields
<1>0. TypeOK
  BY DEF IInv
<1>1. /\ AtDeclaration /\ pc = "fields" /\ d' = d + 1 /\ f' = 1
      /\ UNCHANGED <<merged, success, pc>> /\ jsonNames' = {} /\ fields' = <<>>
      /\ types' = IF fields = <<>> THEN types
                  ELSE Append(types, TypeModel(Declaration.name, fields))
  BY DEF EndDeclaration, AtDeclaration
<1>2. /\ d \in 1 .. Len(merged.declarations) /\ d \in Nat \ {0}
      /\ own \in Seq(Fields) /\ f = Len(own) + 1 /\ Len(own) \in Nat /\ f - 1 = Len(own)
      /\ TypeModel(Declaration.name, fields) \in TypeModels
      /\ types \in Seq(TypeModels) /\ fields \in Seq(FieldModels)
  <2>1. d \in 1 .. Len(merged.declarations) /\ d \in Nat \ {0}
    BY <1>0, EndDeclarationTypes, MergedTypes DEF TypeOK
  <2>2. own \in Seq(Fields) /\ f = Len(own) + 1
    BY <1>0, EndDeclarationTypes
  <2>3. Len(own) \in Nat /\ f - 1 = Len(own)
    <3> HIDE DEF own
    <3> QED
      BY <2>2
  <2>4. TypeModel(Declaration.name, fields) \in TypeModels
    BY <1>0, EndDeclarationTypes
  <2>5. types \in Seq(TypeModels) /\ fields \in Seq(FieldModels)
    BY <1>0 DEF TypeOK
  <2> QED
    BY <2>1, <2>2, <2>3, <2>4, <2>5
<1>3. /\ success <=> DeclarationsUnderstood(d - 1) /\ FieldsUnderstood(own, Len(own))
      /\ success => ModelsOf(types, d - 1)
      /\ success => /\ Len(fields) = Len(own)
                    /\ \A x \in 1 .. Len(own) : fields[x] = FieldModel(own[x])
  BY <1>1, <1>2 DEF IInv, Loop
<1>4. DeclarationsUnderstood(d) <=>
         DeclarationsUnderstood(d - 1) /\ FieldsUnderstood(own, Len(own))
  <2>1. \A p : p \in 1 .. d <=> p \in 1 .. d - 1 \/ p = d
    BY <1>2
  <2> QED
    BY <2>1 DEF DeclarationsUnderstood, Declaration
<1>5. success => ModelsOf(types', d)
  <2> SUFFICES ASSUME success PROVE ModelsOf(types', d)
    OBVIOUS
  <2>1. Len(fields) = Len(own) /\ DOMAIN own = 1 .. Len(own) /\ DOMAIN fields = 1 .. Len(own)
    BY <1>2, <1>3, ElementTypes
  <2>2. fields = [x \in DOMAIN own |-> FieldModel(own[x])]
    BY <1>2, <1>3, <2>1
  <2>3. TypeModel(Declaration.name, fields) = Model(merged.declarations[d])
    BY <2>2 DEF Model, Declaration
  <2>4. fields = <<>> <=> own = <<>>
    BY <1>2, <2>1, ElementTypes
  <2>5. CASE fields = <<>>
    <3>1. types' = types /\ merged.declarations[d].fields = <<>>
      BY <1>1, <2>4, <2>5 DEF Declaration
    <3> QED
      BY <1>2, <1>3, <3>1, ModelsSkip
  <2>6. CASE fields # <<>>
    <3>1. types' = Append(types, TypeModel(Declaration.name, fields))
          /\ merged.declarations[d].fields # <<>>
      BY <1>1, <2>4, <2>6 DEF Declaration
    <3> QED
      BY <1>2, <1>3, <2>3, <3>1, ModelsGrow
  <2> QED
    BY <2>5, <2>6
<1>6. UNCHANGED <<GeneratedTypes, EnumNames>>
  BY <1>1 DEF GeneratedTypes, EnumNames
<1>7. d' - 1 = d /\ f' - 1 = 0
  BY <1>1, <1>2
<1>8. DeclarationsUnderstood(d - 1)' = DeclarationsUnderstood(d)
  BY <1>1, <1>6, <1>7 DEF DeclarationsUnderstood, FieldsUnderstood, Supported
<1>9. ModelsOf(types, d - 1)' = ModelsOf(types', d)
  <2>1. UNCHANGED <<merged, GeneratedTypes, EnumNames>>
    BY <1>1, <1>6
  <2>2. ASSUME NEW origin
        PROVE  ModelsFrom(types, origin, d - 1)' <=> ModelsFrom(types', origin, d)
    <3>1. \A p : Model(merged.declarations[p])' = Model(merged.declarations[p])
      BY <2>1 DEF Model, FieldModel, Uses
    <3> QED
      BY <1>7, <2>1, <3>1 DEF ModelsFrom
  <2> QED
    BY <2>2 DEF ModelsOf
<1>10. FieldsUnderstood(Declaration.fields, f - 1)'
  BY <1>7 DEF FieldsUnderstood
<1>11. NamesUsed(Declaration.fields, f - 1)' = {}
  BY <1>7 DEF NamesUsed
<1>12. Len(fields') = f' - 1 /\ \A x : x \notin 1 .. f' - 1
  BY <1>1, <1>7
<1>13. success' <=> DeclarationsUnderstood(d)
  BY <1>1, <1>3, <1>4
<1> QED
  BY <1>1, <1>5, <1>8, <1>9, <1>10, <1>11, <1>12, <1>13 DEF Loop

-----------------------------------------------------------------------------
(* Merging. *)

LEMMA ConcatTypes ==
    ASSUME NEW S, NEW s \in Seq(S), NEW t \in Seq(S)
    PROVE  /\ Len(s) \in Nat /\ Len(t) \in Nat
           /\ DOMAIN s = 1 .. Len(s) /\ DOMAIN t = 1 .. Len(t)
           /\ DOMAIN (s \o t) = 1 .. Len(s) + Len(t)
           /\ \A n \in 1 .. Len(s) : (s \o t)[n] = s[n]
           /\ \A n \in 1 .. Len(t) : (s \o t)[Len(s) + n] = t[n]
  OBVIOUS

\* What the files up to position n declare, with one file more.
LEMMA SourceGrows ==
    ASSUME NEW n \in Nat \ {0}, NEW nm
    PROVE  nm \in SourceBefore(n + 1) <=>
             nm \in SourceBefore(n) \/ \E x \in DOMAIN files[n].declarations : nm = <<n, x>>
<1>1. \A a : a \in 1 .. n + 1 - 1 <=> a \in 1 .. n - 1 \/ a = n
  OBVIOUS
<1> QED
  BY <1>1 DEF SourceBefore

LEMMA SourceIsPair ==
    ASSUME NEW n \in Nat, NEW nm \in SourceBefore(n)
    PROVE  \E a \in 1 .. n - 1 : \E x \in DOMAIN files[a].declarations : nm = <<a, x>>
  BY DEF SourceBefore

\* The map from merged declarations to their places, with one file more.
LEMMA MergeGrows ==
    ASSUME files \in Inputs, merged \in Files, k \in DOMAIN files,
           NEW source, MergedFrom(source),
           NEW longer, longer = merged.declarations \o files[k].declarations
    PROVE  \E more :
             /\ more \in [DOMAIN longer -> SourceBefore(k + 1)]
             /\ \A p, q \in DOMAIN more : more[p] = more[q] => p = q
             /\ \A nm \in SourceBefore(k + 1) : \E p \in DOMAIN more : more[p] = nm
             /\ \A p \in DOMAIN more : longer[p] = At(more[p])
<1> DEFINE old == merged.declarations
           new == files[k].declarations
           more == [p \in DOMAIN longer |->
                      IF p \in DOMAIN old THEN source[p] ELSE <<k, p - Len(old)>>]
<1>1. old \in Seq(Declarations) /\ new \in Seq(Declarations) /\ k \in Nat \ {0}
  BY MergedTypes, FileTypes
<1>2. /\ source \in [DOMAIN old -> SourceBefore(k)]
      /\ \A p, q \in DOMAIN source : source[p] = source[q] => p = q
      /\ \A nm \in SourceBefore(k) : \E p \in DOMAIN source : source[p] = nm
      /\ \A p \in DOMAIN source : old[p] = At(source[p])
  BY DEF MergedFrom
<1>3. \A x : At(<<k, x>>) = new[x]
  BY DEF At
<1>4. longer = old \o new
  OBVIOUS
<1>5. \A nm : nm \in SourceBefore(k + 1) <=>
                nm \in SourceBefore(k) \/ \E x \in DOMAIN new : nm = <<k, x>>
  BY <1>1, SourceGrows
<1> HIDE DEF old, new
<1>6. /\ Len(old) \in Nat /\ Len(new) \in Nat
      /\ DOMAIN old = 1 .. Len(old) /\ DOMAIN new = 1 .. Len(new)
      /\ DOMAIN longer = 1 .. Len(old) + Len(new)
      /\ \A p \in DOMAIN old : longer[p] = old[p]
      /\ \A x \in DOMAIN new : longer[Len(old) + x] = new[x]
  BY <1>1, <1>4, ConcatTypes
<1>7. ASSUME NEW p \in DOMAIN longer, p \notin DOMAIN old
      PROVE  /\ p - Len(old) \in DOMAIN new /\ p = Len(old) + (p - Len(old))
             /\ longer[p] = new[p - Len(old)]
  <2>1. p - Len(old) \in DOMAIN new /\ p = Len(old) + (p - Len(old))
    BY <1>6, <1>7
  <2>2. longer[Len(old) + (p - Len(old))] = new[p - Len(old)]
    BY <1>6, <2>1
  <2> QED
    BY <2>1, <2>2
<1>8. ASSUME NEW nm \in SourceBefore(k), NEW x PROVE nm # <<k, x>>
  <2>1. PICK a \in 1 .. k - 1 : \E y \in DOMAIN files[a].declarations : nm = <<a, y>>
    BY <1>1, SourceIsPair
  <2> QED
    BY <1>1, <2>1
<1>9. \A p \in DOMAIN old : p \in DOMAIN longer
  BY <1>6
<1>10. \A p \in DOMAIN longer : p \in Nat
  BY <1>6
<1>11. /\ DOMAIN more = DOMAIN longer
       /\ \A p \in DOMAIN old : more[p] = source[p]
       /\ \A p \in DOMAIN longer : p \notin DOMAIN old => more[p] = <<k, p - Len(old)>>
  BY <1>9
<1>12. ASSUME NEW p \in DOMAIN longer PROVE more[p] \in SourceBefore(k + 1)
  BY <1>2, <1>7, <1>5, <1>11, <1>12
<1>13. more \in [DOMAIN longer -> SourceBefore(k + 1)]
  BY <1>12
<1> HIDE DEF more
<1>14. ASSUME NEW p \in DOMAIN longer, NEW q \in DOMAIN longer, more[p] = more[q] PROVE p = q
  <2>1. CASE p \in DOMAIN old /\ q \in DOMAIN old
    BY <1>2, <1>11, <1>14, <2>1
  <2>2. CASE p \in DOMAIN old /\ q \notin DOMAIN old
    <3>1. more[p] \in SourceBefore(k) /\ more[q] = <<k, q - Len(old)>>
      BY <1>2, <1>11, <2>2
    <3> QED
      BY <1>8, <1>14, <3>1
  <2>3. CASE p \notin DOMAIN old /\ q \in DOMAIN old
    <3>1. more[q] \in SourceBefore(k) /\ more[p] = <<k, p - Len(old)>>
      BY <1>2, <1>11, <2>3
    <3> QED
      BY <1>8, <1>14, <3>1
  <2>4. CASE p \notin DOMAIN old /\ q \notin DOMAIN old
    <3>1. more[p] = <<k, p - Len(old)>> /\ more[q] = <<k, q - Len(old)>>
      BY <1>11, <2>4
    <3>2. \A x, y : <<k, x>> = <<k, y>> => x = y
      OBVIOUS
    <3>3. p - Len(old) = q - Len(old)
      BY <1>14, <3>1, <3>2, Zenon
    <3> QED
      BY <1>6, <1>10, <3>3
  <2> QED
    BY <2>1, <2>2, <2>3, <2>4
<1>15. ASSUME NEW nm \in SourceBefore(k + 1) PROVE \E p \in DOMAIN longer : more[p] = nm
  <2>1. CASE nm \in SourceBefore(k)
    BY <1>2, <1>9, <1>11, <2>1
  <2>2. CASE \E x \in DOMAIN new : nm = <<k, x>>
    <3>1. PICK x \in DOMAIN new : nm = <<k, x>>
      BY <2>2
    <3>2. PICK p \in DOMAIN longer : p = Len(old) + x /\ p \notin DOMAIN old /\ p - Len(old) = x
      BY <1>6, <3>1
    <3>3. more[p] = <<k, p - Len(old)>>
      BY <1>11, <3>2
    <3> QED
      BY <3>1, <3>2, <3>3
  <2> QED
    BY <1>5, <2>1, <2>2
<1>16. ASSUME NEW p \in DOMAIN longer PROVE longer[p] = At(more[p])
  <2>1. CASE p \in DOMAIN old
    BY <1>6, <1>2, <1>11, <2>1
  <2>2. CASE p \notin DOMAIN old
    BY <1>7, <1>3, <1>11, <2>2
  <2> QED
    BY <2>1, <2>2
<1>17. /\ \A p, q \in DOMAIN more : more[p] = more[q] => p = q
       /\ \A nm \in SourceBefore(k + 1) : \E p \in DOMAIN more : more[p] = nm
       /\ \A p \in DOMAIN more : longer[p] = At(more[p])
  <2>1. DOMAIN more = DOMAIN longer
    BY <1>11
  <2> QED
    BY <1>14, <1>15, <1>16, <2>1, Zenon
<1> QED
  BY <1>13, <1>17, Zenon

LEMMA EnumsGrow ==
    ASSUME files \in Inputs, merged \in Files, k \in DOMAIN files,
           NEW longer, longer = merged.enums \o files[k].enums
    PROVE  {longer[n] : n \in DOMAIN longer} =
             EnumNames \cup {files[k].enums[x] : x \in DOMAIN files[k].enums}
<1> DEFINE old == merged.enums
           new == files[k].enums
<1>1. old \in Seq(TypeNames) /\ new \in Seq(TypeNames)
  BY MergedTypes, FileTypes
<1>2. EnumNames = {old[n] : n \in DOMAIN old} /\ longer = old \o new
  BY DEF EnumNames
<1> HIDE DEF old, new
<1>3. /\ Len(old) \in Nat /\ Len(new) \in Nat
      /\ DOMAIN old = 1 .. Len(old) /\ DOMAIN new = 1 .. Len(new)
      /\ DOMAIN longer = 1 .. Len(old) + Len(new)
      /\ \A p \in DOMAIN old : longer[p] = old[p]
      /\ \A x \in DOMAIN new : longer[Len(old) + x] = new[x]
  BY <1>1, <1>2, ConcatTypes
<1>4. \A p \in DOMAIN longer : p \in DOMAIN old \/ \E x \in DOMAIN new : p = Len(old) + x
  <2>1. ASSUME NEW p \in DOMAIN longer, p \notin DOMAIN old
        PROVE  p - Len(old) \in DOMAIN new /\ p = Len(old) + (p - Len(old))
    BY <1>3, <2>1
  <2> QED
    BY <2>1
<1>5. /\ \A p \in DOMAIN old : p \in DOMAIN longer
      /\ \A x \in DOMAIN new : Len(old) + x \in DOMAIN longer
  BY <1>3
<1>6. ASSUME NEW e
      PROVE  (\E p \in DOMAIN longer : longer[p] = e) <=>
               (\E p \in DOMAIN old : old[p] = e) \/ (\E x \in DOMAIN new : new[x] = e)
  BY <1>3, <1>4, <1>5, ZenonT(40)
<1>7. {longer[n] : n \in DOMAIN longer} = {old[n] : n \in DOMAIN old} \cup {new[x] : x \in DOMAIN new}
  BY <1>6, ZenonT(40)
<1> QED
  BY <1>2, <1>7 DEF old, new

LEMMA MergeFileMerged == ASSUME IInv, MergeFile PROVE MergedSoFar'
<1>0. files \in Inputs /\ merged \in Files
  BY DEF IInv, TypeOK
<1>1. /\ k \in DOMAIN files /\ k' = k + 1 /\ files' = files /\ k \in Nat \ {0}
      /\ merged' = [declarations |-> merged.declarations \o files[k].declarations,
                    enums |-> merged.enums \o files[k].enums]
  BY MergeFileTypes, FileTypes DEF IInv, TypeOK, MergeFile
<1>2. PICK source : MergedFrom(source)
  BY DEF IInv, MergedSoFar
<1>3. \E more :
         /\ more \in [DOMAIN merged'.declarations -> SourceBefore(k + 1)]
         /\ \A p, q \in DOMAIN more : more[p] = more[q] => p = q
         /\ \A nm \in SourceBefore(k + 1) : \E p \in DOMAIN more : more[p] = nm
         /\ \A p \in DOMAIN more : merged'.declarations[p] = At(more[p])
  BY <1>0, <1>1, <1>2, MergeGrows
<1>4. (\E more : MergedFrom(more))'
  <2>1. PICK more :
           /\ more \in [DOMAIN merged'.declarations -> SourceBefore(k + 1)]
           /\ \A p, q \in DOMAIN more : more[p] = more[q] => p = q
           /\ \A nm \in SourceBefore(k + 1) : \E p \in DOMAIN more : more[p] = nm
           /\ \A p \in DOMAIN more : merged'.declarations[p] = At(more[p])
    BY <1>3
  <2>2. SourceBefore(k)' = SourceBefore(k + 1)
    BY <1>1 DEF SourceBefore
  <2>3. \A p : At(more[p])' = At(more[p])
    BY <1>1 DEF At
  <2>4. MergedFrom(more)'
    BY <2>1, <2>2, <2>3 DEF MergedFrom
  <2> QED
    BY <2>4
<1>5. EnumNames' = EnumNames \cup {files[k].enums[x] : x \in DOMAIN files[k].enums}
  <2>1. EnumNames' = {merged'.enums[n] : n \in DOMAIN merged'.enums}
    BY DEF EnumNames
  <2>2. merged'.enums = merged.enums \o files[k].enums
    BY <1>1
  <2> QED
    BY <1>0, <1>1, <2>1, <2>2, EnumsGrow
<1>6. \A a : a \in 1 .. k' - 1 <=> a \in 1 .. k - 1 \/ a = k
  BY <1>1
<1>7. EnumNames = UNION {{files[a].enums[x] : x \in DOMAIN files[a].enums} : a \in 1 .. k - 1}
  BY DEF IInv, MergedSoFar
<1>8. EnumNames' = UNION {{files[a].enums[x] : x \in DOMAIN files[a].enums} : a \in 1 .. k' - 1}
  BY <1>5, <1>6, <1>7
<1> QED
  BY <1>1, <1>4, <1>8 DEF MergedSoFar

-----------------------------------------------------------------------------
(* What the source says, in terms of what was merged and built of it. *)

LEMMA SourceIsMerged ==
    ASSUME files \in Inputs, merged \in Files, MergedSoFar, k = Len(files) + 1
    PROVE  /\ \E source :
                 /\ source \in [DOMAIN merged.declarations -> SourceDeclarations]
                 /\ \A p, q \in DOMAIN source : source[p] = source[q] => p = q
                 /\ \A nm \in SourceDeclarations : \E p \in DOMAIN source : source[p] = nm
                 /\ \A p \in DOMAIN source : merged.declarations[p] = At(source[p])
           /\ GeneratedTypes = DeclaredStructs
           /\ EnumNames = DeclaredEnums
<1>1. 1 .. k - 1 = DOMAIN files
  BY FileTypes
<1>2. SourceBefore(k) = SourceDeclarations
  BY <1>1 DEF SourceBefore, SourceDeclarations
<1>3. PICK source : MergedFrom(source)
  BY DEF MergedSoFar
<1>4. /\ source \in [DOMAIN merged.declarations -> SourceDeclarations]
      /\ \A p, q \in DOMAIN source : source[p] = source[q] => p = q
      /\ \A nm \in SourceDeclarations : \E p \in DOMAIN source : source[p] = nm
      /\ \A p \in DOMAIN source : merged.declarations[p] = At(source[p])
  BY <1>2, <1>3 DEF MergedFrom
<1>5. GeneratedTypes = DeclaredStructs
  BY <1>4 DEF GeneratedTypes, DeclaredStructs
<1>6. EnumNames = DeclaredEnums
  BY <1>1 DEF MergedSoFar, DeclaredEnums
<1> QED
  BY <1>4, <1>5, <1>6

LEMMA UnderstoodIsChecked ==
    ASSUME NEW declaration, declaration.fields \in Seq(Fields),
           GeneratedTypes = DeclaredStructs, EnumNames = DeclaredEnums
    PROVE  Understood(declaration) <=>
             FieldsUnderstood(declaration.fields, Len(declaration.fields))
<1> DEFINE own == declaration.fields
<1>1. DOMAIN own = 1 .. Len(own)
  BY ElementTypes
<1>2. \A n \in DOMAIN own :
         Supported(own[n].type) <=>
            \/ own[n].type.kind = "scalar"
            \/ own[n].type.kind = "named" /\ own[n].type.name \in DeclaredStructs \cup DeclaredEnums
  BY DEF Supported
<1> HIDE DEF own
<1>3. FieldsUnderstood(own, Len(own)) <=>
        /\ \A n \in DOMAIN own : Tag(own[n]).valid
        /\ \A n, m \in {x \in DOMAIN own : ~Tag(own[x]).ignored} :
              JsonName(own[n]) = JsonName(own[m]) => n = m
        /\ \A n \in {x \in DOMAIN own : ~Tag(own[x]).ignored} : Supported(own[n].type)
  BY <1>1 DEF FieldsUnderstood
<1>4. (\A n \in {x \in DOMAIN own : ~Tag(own[x]).ignored} : Supported(own[n].type)) <=>
        \A n \in {x \in DOMAIN own : ~Tag(own[x]).ignored} :
            \/ own[n].type.kind = "scalar"
            \/ own[n].type.kind = "named" /\ own[n].type.name \in DeclaredStructs \cup DeclaredEnums
  BY <1>2
<1> QED
  BY <1>3, <1>4, Zenon DEF Understood, own

LEMMA AllIsUnderstood ==
    ASSUME TypeOK, MergedSoFar, k = Len(files) + 1
    PROVE  (\A nm \in SourceDeclarations : Understood(At(nm))) <=>
             DeclarationsUnderstood(Len(merged.declarations))
<1>0. files \in Inputs /\ merged \in Files
  BY DEF TypeOK
<1>1. GeneratedTypes = DeclaredStructs /\ EnumNames = DeclaredEnums
  BY <1>0, SourceIsMerged
<1>2. PICK source :
         /\ source \in [DOMAIN merged.declarations -> SourceDeclarations]
         /\ \A nm \in SourceDeclarations : \E p \in DOMAIN source : source[p] = nm
         /\ \A p \in DOMAIN source : merged.declarations[p] = At(source[p])
  BY <1>0, SourceIsMerged
<1>3. \A p \in DOMAIN merged.declarations :
         Understood(merged.declarations[p]) <=>
            FieldsUnderstood(merged.declarations[p].fields, Len(merged.declarations[p].fields))
  BY <1>0, <1>1, MergedTypes, UnderstoodIsChecked
<1>4. DOMAIN merged.declarations = 1 .. Len(merged.declarations)
  BY <1>0, MergedTypes
<1>5. DeclarationsUnderstood(Len(merged.declarations)) <=>
         \A p \in DOMAIN merged.declarations : Understood(merged.declarations[p])
  BY <1>3, <1>4 DEF DeclarationsUnderstood
<1>6. (\A nm \in SourceDeclarations : Understood(At(nm))) <=>
         \A p \in DOMAIN merged.declarations : Understood(merged.declarations[p])
  BY <1>2
<1> QED
  BY <1>5, <1>6

\* Where each type of a list comes from.
PlacedBy(list, place) ==
    /\ place \in [DOMAIN list -> WithFields]
    /\ \A a, b \in DOMAIN list : place[a] = place[b] => a = b
    /\ \A nm \in WithFields : \E a \in DOMAIN list : place[a] = nm
    /\ \A a \in DOMAIN list : list[a] = Model(At(place[a]))

LEMMA ModelsHavePlaces ==
    ASSUME TypeOK, MergedSoFar, k = Len(files) + 1,
           NEW list, ModelsOf(list, Len(merged.declarations))
    PROVE  \E place : PlacedBy(list, place)
<1>0. files \in Inputs /\ merged \in Files
  BY DEF TypeOK
<1>1. PICK source :
         /\ source \in [DOMAIN merged.declarations -> SourceDeclarations]
         /\ \A p, q \in DOMAIN source : source[p] = source[q] => p = q
         /\ \A nm \in SourceDeclarations : \E p \in DOMAIN source : source[p] = nm
         /\ \A p \in DOMAIN source : merged.declarations[p] = At(source[p])
  BY <1>0, SourceIsMerged
<1>2. PICK origin : ModelsFrom(list, origin, Len(merged.declarations))
  BY DEF ModelsOf
<1>3. DOMAIN merged.declarations = 1 .. Len(merged.declarations)
  BY <1>0, MergedTypes
<1>4. /\ origin \in [DOMAIN list -> DOMAIN merged.declarations]
      /\ \A a, b \in DOMAIN list : origin[a] = origin[b] => a = b
      /\ \A p \in DOMAIN merged.declarations : merged.declarations[p].fields # <<>> =>
            \E a \in DOMAIN list : origin[a] = p
      /\ \A a \in DOMAIN list :
            /\ merged.declarations[origin[a]].fields # <<>>
            /\ list[a] = Model(merged.declarations[origin[a]])
  BY <1>2, <1>3 DEF ModelsFrom
<1> DEFINE place == [a \in DOMAIN list |-> source[origin[a]]]
<1>5. \A a \in DOMAIN list :
         /\ origin[a] \in DOMAIN source /\ source[origin[a]] \in SourceDeclarations
         /\ merged.declarations[origin[a]] = At(source[origin[a]])
  BY <1>1, <1>4
<1>6. place \in [DOMAIN list -> WithFields]
  BY <1>4, <1>5 DEF WithFields
<1>7. ASSUME NEW a \in DOMAIN list, NEW b \in DOMAIN list, place[a] = place[b] PROVE a = b
  BY <1>1, <1>4, <1>5, <1>7
<1>8. ASSUME NEW nm \in WithFields PROVE \E a \in DOMAIN list : place[a] = nm
  <2>1. nm \in SourceDeclarations /\ At(nm).fields # <<>>
    BY DEF WithFields
  <2>2. PICK p \in DOMAIN source : source[p] = nm
    BY <1>1, <2>1
  <2>3. p \in DOMAIN merged.declarations /\ merged.declarations[p].fields # <<>>
    BY <1>1, <2>1, <2>2
  <2>4. PICK a \in DOMAIN list : origin[a] = p
    BY <1>4, <2>3
  <2> QED
    BY <2>2, <2>4
<1>9. \A a \in DOMAIN list : list[a] = Model(At(place[a]))
  BY <1>4, <1>5
<1> QED
  BY <1>6, <1>7, <1>8, <1>9 DEF PlacedBy

LEMMA ModelOfDeclaration ==
    ASSUME NEW declaration, declaration.fields \in Seq(Fields),
           GeneratedTypes = DeclaredStructs, EnumNames = DeclaredEnums
    PROVE  /\ Model(declaration).name = declaration.name
           /\ Len(Model(declaration).fields) = Len(declaration.fields)
           /\ DOMAIN Model(declaration).fields = DOMAIN declaration.fields
           /\ \A n \in DOMAIN declaration.fields :
                 Model(declaration).fields[n].name = declaration.fields[n].name
           /\ Model(declaration).uses = Mentions(declaration)
<1> DEFINE own == declaration.fields
           members == [n \in DOMAIN own |-> FieldModel(own[n])]
<1>1. /\ Model(declaration).name = declaration.name
      /\ Model(declaration).fields = members
      /\ Model(declaration).uses = UNION {members[n].uses : n \in DOMAIN members}
  BY DEF Model, TypeModel
<1>2. DOMAIN own = 1 .. Len(own) /\ Len(own) \in Nat
  BY ElementTypes
<1>3. Len(members) = Len(own) /\ DOMAIN members = DOMAIN own
  BY <1>2
<1>4. \A n \in DOMAIN own : members[n].name = own[n].name /\ members[n].uses = Uses(own[n].type)
  BY DEF FieldModel
<1>5. \A n \in DOMAIN own :
         Uses(own[n].type) =
            (IF own[n].type.kind # "scalar" /\ own[n].type.name \in DeclaredStructs \ DeclaredEnums
             THEN {own[n].type.name} ELSE {})
  BY DEF Uses
<1> HIDE DEF members, own
<1>6. UNION {members[n].uses : n \in DOMAIN members} =
        {own[n].type.name : n \in {m \in DOMAIN own : own[m].type.kind # "scalar"}}
          \cap (DeclaredStructs \ DeclaredEnums)
  <2>1. \A e : e \in UNION {members[n].uses : n \in DOMAIN members} <=>
                 \E n \in DOMAIN own : e \in Uses(own[n].type)
    BY <1>3, <1>4
  <2>2. \A e : (\E n \in DOMAIN own : e \in Uses(own[n].type)) <=>
                 \E n \in DOMAIN own : /\ own[n].type.kind # "scalar" /\ e = own[n].type.name
                                       /\ e \in DeclaredStructs \ DeclaredEnums
    BY <1>5
  <2> DEFINE Named == {own[n].type.name : n \in {m \in DOMAIN own : own[m].type.kind # "scalar"}}
  <2>3. \A e : e \in Named <=>
                 \E n \in DOMAIN own : own[n].type.kind # "scalar" /\ e = own[n].type.name
    OBVIOUS
  <2>4. \A e : e \in UNION {members[n].uses : n \in DOMAIN members} <=>
                 e \in Named /\ e \in DeclaredStructs \ DeclaredEnums
    BY <2>1, <2>2, <2>3
  <2> HIDE DEF Named
  <2>5. UNION {members[n].uses : n \in DOMAIN members} = Named \cap (DeclaredStructs \ DeclaredEnums)
    BY <2>4
  <2> QED
    BY <2>5 DEF Named
<1>7. Model(declaration).uses = Mentions(declaration)
  BY <1>1, <1>6 DEF Mentions, own
<1> QED
  BY <1>1, <1>3, <1>4, <1>7 DEF own

LEMMA SourceFields ==
    ASSUME files \in Inputs, NEW nm \in SourceDeclarations
    PROVE  At(nm).fields \in Seq(Fields)
<1>1. PICK a \in DOMAIN files : \E x \in DOMAIN files[a].declarations : nm = <<a, x>>
  BY DEF SourceDeclarations
<1>2. PICK x \in DOMAIN files[a].declarations : nm = <<a, x>>
  BY <1>1
<1>3. files[a].declarations \in Seq(Declarations) /\ At(nm) = files[a].declarations[x]
  BY <1>2, FileTypes DEF At
<1>4. At(nm) \in Declarations
  BY <1>2, <1>3, ElementTypes
<1> QED
  BY <1>4 DEF Declarations

\* What the places of the models tell of names and uses.
LEMMA PlacedModels ==
    ASSUME TypeOK, MergedSoFar, k = Len(files) + 1, NEW list, NEW place, PlacedBy(list, place)
    PROVE  /\ \A a \in DOMAIN list :
                 /\ place[a] \in WithFields
                 /\ list[a].name = At(place[a]).name
                 /\ list[a].uses = Mentions(At(place[a]))
                 /\ Len(list[a].fields) = Len(At(place[a]).fields)
                 /\ \A n \in DOMAIN list[a].fields :
                       list[a].fields[n].name = At(place[a]).fields[n].name
           /\ \A a, b \in DOMAIN list : place[a] = place[b] => a = b
           /\ \A nm \in WithFields : \E a \in DOMAIN list : place[a] = nm
           /\ {list[a].name : a \in DOMAIN list} = {At(nm).name : nm \in WithFields}
<1>0. files \in Inputs /\ merged \in Files
  BY DEF TypeOK
<1>1. GeneratedTypes = DeclaredStructs /\ EnumNames = DeclaredEnums
  BY <1>0, SourceIsMerged
<1>2. /\ \A a \in DOMAIN list : place[a] \in WithFields /\ list[a] = Model(At(place[a]))
      /\ \A a, b \in DOMAIN list : place[a] = place[b] => a = b
      /\ \A nm \in WithFields : \E a \in DOMAIN list : place[a] = nm
  BY DEF PlacedBy
<1>3. ASSUME NEW a \in DOMAIN list
      PROVE  /\ list[a].name = At(place[a]).name
             /\ list[a].uses = Mentions(At(place[a]))
             /\ Len(list[a].fields) = Len(At(place[a]).fields)
             /\ \A n \in DOMAIN list[a].fields :
                   list[a].fields[n].name = At(place[a]).fields[n].name
  <2>1. place[a] \in SourceDeclarations
    BY <1>2 DEF WithFields
  <2>2. At(place[a]).fields \in Seq(Fields)
    BY <1>0, <2>1, SourceFields
  <2>3. list[a] = Model(At(place[a]))
    BY <1>2
  <2> QED
    BY <1>1, <2>2, <2>3, ModelOfDeclaration
<1>4. {list[a].name : a \in DOMAIN list} = {At(nm).name : nm \in WithFields}
  BY <1>2, <1>3
<1> QED
  BY <1>2, <1>3, <1>4

LEMMA RepetitionsAgree ==
    ASSUME TypeOK, MergedSoFar, k = Len(files) + 1, ModelsOf(types, Len(merged.declarations))
    PROVE  Ordering!Duplicated <=> RepeatedName
<1>1. PICK place : PlacedBy(types, place)
  BY ModelsHavePlaces
<1>2. /\ \A a \in DOMAIN types : place[a] \in WithFields /\ types[a].name = At(place[a]).name
      /\ \A a, b \in DOMAIN types : place[a] = place[b] => a = b
      /\ \A nm \in WithFields : \E a \in DOMAIN types : place[a] = nm
  BY <1>1, PlacedModels
<1>3. ASSUME Ordering!Duplicated PROVE RepeatedName
  <2>1. PICK a \in DOMAIN types : \E b \in DOMAIN types : a # b /\ types[a].name = types[b].name
    BY <1>3 DEF Ordering!Duplicated
  <2>2. PICK b \in DOMAIN types : a # b /\ types[a].name = types[b].name
    BY <2>1
  <2>3. place[a] # place[b] /\ At(place[a]).name = At(place[b]).name
    BY <1>2, <2>2
  <2> QED
    BY <1>2, <2>3 DEF RepeatedName
<1>4. ASSUME RepeatedName PROVE Ordering!Duplicated
  <2>1. PICK nm \in WithFields : \E qm \in WithFields : nm # qm /\ At(nm).name = At(qm).name
    BY <1>4 DEF RepeatedName
  <2>2. PICK qm \in WithFields : nm # qm /\ At(nm).name = At(qm).name
    BY <2>1
  <2>3. PICK a \in DOMAIN types : place[a] = nm
    BY <1>2
  <2>4. PICK b \in DOMAIN types : place[b] = qm
    BY <1>2
  <2>5. a # b /\ types[a].name = types[b].name
    BY <1>2, <2>2, <2>3, <2>4
  <2> QED
    BY <2>5 DEF Ordering!Duplicated
<1> QED
  BY <1>3, <1>4

LEMMA CyclesAgree ==
    ASSUME TypeOK, MergedSoFar, k = Len(files) + 1, ModelsOf(types, Len(merged.declarations))
    PROVE  Ordering!Cyclic <=> CircularUse
<1> DEFINE All == {At(nm).name : nm \in WithFields}
<1>1. PICK place : PlacedBy(types, place)
  BY ModelsHavePlaces
<1>2. /\ \A a \in DOMAIN types :
            /\ place[a] \in WithFields /\ types[a].name = At(place[a]).name
            /\ types[a].uses = Mentions(At(place[a]))
      /\ \A nm \in WithFields : \E a \in DOMAIN types : place[a] = nm
      /\ Ordering!NamesIn(types) = All
  BY <1>1, PlacedModels DEF Ordering!NamesIn
<1>3. ASSUME NEW S \in SUBSET All
      PROVE  Ordering!Circular(S) <=>
               \A name \in S : \E nm \in WithFields :
                  At(nm).name = name /\ (Mentions(At(nm)) \cap S) \ {name} # {}
  <2>1. ASSUME NEW a \in DOMAIN types
        PROVE  Ordering!Dependencies(types[a]) \cap S =
                 (Mentions(At(place[a])) \cap S) \ {At(place[a]).name}
    BY <1>2, <2>1 DEF Ordering!Dependencies
  <2>2. ASSUME NEW name \in S
        PROVE  (\E a \in DOMAIN types :
                   types[a].name = name /\ Ordering!Dependencies(types[a]) \cap S # {}) <=>
               \E nm \in WithFields :
                   At(nm).name = name /\ (Mentions(At(nm)) \cap S) \ {name} # {}
    <3>1. ASSUME NEW a \in DOMAIN types,
                 types[a].name = name, Ordering!Dependencies(types[a]) \cap S # {}
          PROVE  /\ place[a] \in WithFields /\ At(place[a]).name = name
                 /\ (Mentions(At(place[a])) \cap S) \ {name} # {}
      <4>1. At(place[a]).name = name
        BY <1>2, <3>1
      <4> QED
        BY <1>2, <2>1, <3>1, <4>1
    <3>2. ASSUME NEW nm \in WithFields,
                 At(nm).name = name, (Mentions(At(nm)) \cap S) \ {name} # {}
          PROVE  \E a \in DOMAIN types :
                    types[a].name = name /\ Ordering!Dependencies(types[a]) \cap S # {}
      <4>1. PICK a \in DOMAIN types : place[a] = nm
        BY <1>2
      <4>2. types[a].name = name
        BY <1>2, <3>2, <4>1
      <4>3. Ordering!Dependencies(types[a]) \cap S = (Mentions(At(nm)) \cap S) \ {name}
        BY <2>1, <3>2, <4>1
      <4> QED
        BY <3>2, <4>2, <4>3
    <3> QED
      BY <3>1, <3>2
  <2> QED
    BY <2>2 DEF Ordering!Circular
<1>4. ASSUME Ordering!Cyclic PROVE CircularUse
  <2>1. PICK S \in SUBSET All : S # {} /\ Ordering!Circular(S)
    BY <1>2, <1>4 DEF Ordering!Cyclic
  <2> QED
    BY <1>3, <2>1 DEF CircularUse
<1>5. ASSUME CircularUse PROVE Ordering!Cyclic
  <2>1. PICK S \in SUBSET All :
           /\ S # {}
           /\ \A name \in S : \E nm \in WithFields :
                 At(nm).name = name /\ (Mentions(At(nm)) \cap S) \ {name} # {}
    BY <1>5 DEF CircularUse
  <2> QED
    BY <1>2, <1>3, <2>1 DEF Ordering!Cyclic
<1> QED
  BY <1>4, <1>5

\* The verdict the source asks for.
Acceptable ==
    /\ \A nm \in SourceDeclarations : Understood(At(nm))
    /\ ~RepeatedName
    /\ ~CircularUse

LEMMA AcceptableStays == UNCHANGED files => Acceptable' = Acceptable
  BY DEF Acceptable, SourceDeclarations, At, Understood, RepeatedName, CircularUse, WithFields,
         Mentions, DeclaredStructs, DeclaredEnums

\* A rearrangement of the models of the source, each behind what it uses.
LEMMA SortedModels ==
    ASSUME TypeOK, MergedSoFar, k = Len(files) + 1, ModelsOf(types, Len(merged.declarations)),
           Ordering!IInv, sweep = "done"
    PROVE  /\ \A nm \in WithFields : \E n \in DOMAIN ordered :
                 /\ ordered[n].name = At(nm).name
                 /\ Len(ordered[n].fields) = Len(At(nm).fields)
                 /\ \A x \in DOMAIN ordered[n].fields :
                       ordered[n].fields[x].name = At(nm).fields[x].name
           /\ \A n \in DOMAIN ordered : \A x \in n + 1 .. Len(ordered) :
                 ordered[x].name \notin ordered[n].uses
<1>1. PICK place : PlacedBy(types, place)
  BY ModelsHavePlaces
<1>2. /\ ordered \in Seq(TypeModels)
      /\ \A n \in DOMAIN types : \E j \in DOMAIN ordered : ordered[j] = types[n]
      /\ \A j \in DOMAIN ordered : \E n \in DOMAIN types : ordered[j] = types[n]
      /\ \A a, b \in DOMAIN ordered : ordered[a].name = ordered[b].name => a = b
      /\ Ordering!DependenciesPrecedeUsers
  BY OrderingDone
<1>3. ASSUME NEW nm \in WithFields
      PROVE  \E n \in DOMAIN ordered :
                 /\ ordered[n].name = At(nm).name
                 /\ Len(ordered[n].fields) = Len(At(nm).fields)
                 /\ \A x \in DOMAIN ordered[n].fields :
                       ordered[n].fields[x].name = At(nm).fields[x].name
  <2>1. PICK a \in DOMAIN types : place[a] = nm
    BY <1>1, PlacedModels
  <2>2. PICK n \in DOMAIN ordered : ordered[n] = types[a]
    BY <1>2
  <2> QED
    BY <1>1, <2>1, <2>2, PlacedModels
<1>4. ASSUME NEW n \in DOMAIN ordered, NEW x \in n + 1 .. Len(ordered),
             ordered[x].name \in ordered[n].uses
      PROVE  FALSE
  <2>1. n \in 1 .. Len(ordered) /\ Len(ordered) \in Nat /\ DOMAIN ordered = 1 .. Len(ordered)
    BY <1>2, ElementTypes
  <2>2. x \in DOMAIN ordered /\ x > n
    BY <2>1
  <2>3. ordered[x].name # ordered[n].name
    BY <1>2, <2>1, <2>2, SMTT(30)
  <2>4. ordered[x].name \in Ordering!NamesIn(types)
    BY <1>2, <2>2 DEF Ordering!NamesIn
  <2>5. ordered[x].name \in Ordering!Dependencies(ordered[n])
    BY <1>4, <2>3, <2>4 DEF Ordering!Dependencies
  <2>6. PICK y \in 1 .. n - 1 : ordered[y].name = ordered[x].name
    BY <1>2, <2>5 DEF Ordering!DependenciesPrecedeUsers
  <2>7. y \in DOMAIN ordered /\ y # x
    BY <2>1, <2>2, <2>6
  <2> QED
    BY <1>2, <2>2, <2>6, <2>7
<1> QED
  BY <1>3, <1>4

-----------------------------------------------------------------------------
(* The answer. *)

\* A verdict that fits the source, with nothing exposed on failure and all of
\* it, sorted, on success, is a right answer.
LEMMA AnswerIsRight ==
    ASSUME files' = files, success' \in BOOLEAN, success' <=> Acceptable,
           ~success' => types' = <<>> /\ enums' = <<>> /\ diags' # <<>>,
           success' => \A nm \in WithFields : \E n \in DOMAIN types' :
                          /\ types'[n].name = At(nm).name
                          /\ Len(types'[n].fields) = Len(At(nm).fields)
                          /\ \A x \in DOMAIN types'[n].fields :
                                types'[n].fields[x].name = At(nm).fields[x].name,
           \A n \in DOMAIN types' : \A x \in n + 1 .. Len(types') :
              types'[x].name \notin types'[n].uses
    PROVE  Answer'
<1>1. Acceptable' = Acceptable
  BY AcceptableStays
<1>2. VerdictMatchesSource'
  BY <1>1 DEF VerdictMatchesSource, Acceptable
<1>3. FailureExposesNothing'
  BY DEF FailureExposesNothing
<1>4. (\A nm \in WithFields : \E n \in DOMAIN types :
          /\ types[n].name = At(nm).name
          /\ Len(types[n].fields) = Len(At(nm).fields)
          /\ \A x \in DOMAIN types[n].fields : types[n].fields[x].name = At(nm).fields[x].name)'
        = \A nm \in WithFields : \E n \in DOMAIN types' :
             /\ types'[n].name = At(nm).name
             /\ Len(types'[n].fields) = Len(At(nm).fields)
             /\ \A x \in DOMAIN types'[n].fields :
                   types'[n].fields[x].name = At(nm).fields[x].name
  BY DEF WithFields, SourceDeclarations, At
<1>5. NothingIsDropped'
  BY <1>4 DEF NothingIsDropped
<1>6. ProjectIsOrdered'
  BY DEF ProjectIsOrdered
<1> QED
  BY <1>2, <1>3, <1>5, <1>6 DEF Answer

LEMMA NotYetAnswered == pc' # "done" => Answer'
  BY DEF Answer, VerdictMatchesSource, FailureExposesNothing, NothingIsDropped, ProjectIsOrdered

LEMMA NoFilesAnswer == ASSUME IInv, NoFiles PROVE Answer'
<1>1. /\ files = <<>> /\ success /\ types = <<>>
      /\ UNCHANGED <<files, types, success>>
  BY DEF NoFiles, IInv, Start
<1>2. SourceDeclarations = {}
  BY <1>1 DEF SourceDeclarations
<1>3. WithFields = {}
  BY <1>2 DEF WithFields
<1>4. Acceptable
  BY <1>2, <1>3 DEF Acceptable, RepeatedName, CircularUse
<1>5. success' \in BOOLEAN
  BY <1>1, Zenon DEF IInv, TypeOK
<1> QED
  BY <1>1, <1>3, <1>4, <1>5, AnswerIsRight

LEMMA FailAnalysisAnswer == ASSUME IInv, FailAnalysis PROVE Answer'
<1>1. /\ pc = "fields" /\ d > Len(merged.declarations) /\ ~success
      /\ types' = <<>> /\ enums' = <<>> /\ UNCHANGED <<files, diags, success>>
  BY DEF FailAnalysis, AllAnalysed, ExposeNothing
<1>2. TypeOK /\ MergedSoFar /\ k = Len(files) + 1 /\ diags # <<>>
  BY <1>1 DEF IInv, Start, Explained
<1>3. d - 1 = Len(merged.declarations) /\ ~AtDeclaration
  BY <1>1, <1>2, MergedTypes DEF TypeOK, AtDeclaration
<1>4. ~DeclarationsUnderstood(Len(merged.declarations))
  BY <1>1, <1>3 DEF IInv, Loop
<1>5. ~Acceptable
  BY <1>2, <1>4, AllIsUnderstood DEF Acceptable
<1>6. success' \in BOOLEAN
  BY <1>1, <1>2, Zenon DEF TypeOK
<1> QED
  BY <1>1, <1>2, <1>5, <1>6, AnswerIsRight

LEMMA OrderFacts ==
    ASSUME IInv, pc = "order"
    PROVE  /\ TypeOK /\ MergedSoFar /\ k = Len(files) + 1 /\ success /\ Ordering!IInv
           /\ ModelsOf(types, Len(merged.declarations))
           /\ \A nm \in SourceDeclarations : Understood(At(nm))
<1>1. /\ TypeOK /\ MergedSoFar /\ k = Len(files) + 1 /\ success /\ Ordering!IInv
      /\ ModelsOf(types, Len(merged.declarations))
      /\ DeclarationsUnderstood(Len(merged.declarations))
  BY DEF IInv, Start, Sorting
<1> QED
  BY <1>1, AllIsUnderstood

LEMMA AcceptOrderAnswer == ASSUME IInv, AcceptOrder PROVE Answer'
<1>1. /\ pc = "order" /\ sweep = "done" /\ types' = ordered
      /\ UNCHANGED <<files, success>>
  BY DEF AcceptOrder
<1>2. ~Ordering!Cyclic /\ ~Ordering!Duplicated
  BY <1>1, OrderFacts, OrderingDone
<1>3. Acceptable
  BY <1>1, <1>2, OrderFacts, RepetitionsAgree, CyclesAgree DEF Acceptable
<1>4. success /\ success' \in BOOLEAN
  BY <1>1, OrderFacts, Zenon DEF TypeOK
<1> QED
  BY <1>1, <1>3, <1>4, OrderFacts, SortedModels, AnswerIsRight

LEMMA FailOrderAnswer == ASSUME IInv, FailOrder PROVE Answer'
<1>1. /\ pc = "order" /\ sweep = "failed" /\ types' = <<>> /\ enums' = <<>>
      /\ success' = FALSE /\ diags' = Append(diags, "cyclic_dependency")
      /\ files' = files
  BY DEF FailOrder, ExposeNothing
<1>2. Ordering!Cyclic \/ Ordering!Duplicated
  BY <1>1, OrderFacts, OrderingFailed
<1>3. ~Acceptable
  BY <1>1, <1>2, OrderFacts, RepetitionsAgree, CyclesAgree DEF Acceptable
<1>4. diags' # <<>>
  <2>1. diags \in Seq(Diagnostics) /\ "cyclic_dependency" \in Diagnostics
    BY DEF IInv, TypeOK, Diagnostics
  <2> QED
    BY <1>1, <2>1, AppendTypes
<1>5. success' \in BOOLEAN /\ ~success'
  BY <1>1, Zenon
<1>6. DOMAIN types' = {}
  BY <1>1
<1> QED
  BY <1>1, <1>3, <1>4, <1>5, <1>6, AnswerIsRight

-----------------------------------------------------------------------------

LEMMA InitIInv == Init => IInv
<1> SUFFICES ASSUME Init PROVE IInv
  OBVIOUS
<1>1. TypeOK
  BY InitTypeOK
<1>2. pc = "merge" /\ k = 1 /\ merged.declarations = <<>> /\ merged.enums = <<>>
  BY DEF Init
<1>3. \A a : a \notin 1 .. k - 1
  BY <1>2
<1>4. SourceBefore(k) = {}
  BY <1>3 DEF SourceBefore
<1>5. MergedFrom(<<>>)
  BY <1>2, <1>4 DEF MergedFrom
<1>6. EnumNames = {}
  BY <1>2 DEF EnumNames
<1>7. MergedSoFar
  BY <1>3, <1>5, <1>6 DEF MergedSoFar
<1>8. Start
  BY DEF Init, Start, Unswept
<1>9. Loop /\ Sorting
  BY <1>2 DEF Loop, Sorting
<1>10. Explained /\ Answer
  BY DEF Init, Explained, Answer, VerdictMatchesSource, FailureExposesNothing,
         NothingIsDropped, ProjectIsOrdered
<1> QED
  BY <1>1, <1>7, <1>8, <1>9, <1>10 DEF IInv

LEMMA MergedStays == MergedSoFar /\ UNCHANGED <<files, k, merged>> => MergedSoFar'
<1> SUFFICES ASSUME MergedSoFar, UNCHANGED <<files, k, merged>> PROVE MergedSoFar'
  OBVIOUS
<1>1. PICK source : MergedFrom(source)
  BY DEF MergedSoFar
<1>2. SourceBefore(k)' = SourceBefore(k)
  BY DEF SourceBefore
<1>3. \A p : At(source[p])' = At(source[p])
  BY DEF At
<1>4. MergedFrom(source)'
  BY <1>1, <1>2, <1>3 DEF MergedFrom
<1>5. (\E origin : MergedFrom(origin))'
  BY <1>4
<1>6. EnumNames' = EnumNames
  BY DEF EnumNames
<1>7. EnumNames' = UNION {{files'[a].enums[x] : x \in DOMAIN files'[a].enums} : a \in 1 .. k' - 1}
  BY <1>6 DEF MergedSoFar
<1> QED
  BY <1>5, <1>7 DEF MergedSoFar

\* Merging and the loops, up to the ordering.
LEMMA EarlyIInv ==
    ASSUME IInv, MergeFile \/ BeginAnalysis \/ FieldStep \/ EndDeclaration
    PROVE  IInv'
<1>0. TypeOK'
  BY NextTypeOK DEF Next, FieldStep
<1>1. CASE MergeFile
  <2>1. /\ pc = "merge" /\ MergedSoFar'
        /\ UNCHANGED <<d, f, jsonNames, fields, types, diags, success, pc, sweepVars>>
    BY <1>1, MergeFileMerged DEF MergeFile
  <2>2. Start' /\ Loop' /\ Sorting' /\ Explained'
    BY <2>1 DEF IInv, Start, Loop, Sorting, Explained, Unswept, sweepVars
  <2> QED
    BY <1>0, <2>1, <2>2, NotYetAnswered DEF IInv
<1>2. CASE BeginAnalysis
  <2>1. /\ pc = "merge" /\ pc' = "fields" /\ k > Len(files)
        /\ UNCHANGED <<files, k, merged, diags, success, sweepVars>>
    BY <1>2 DEF BeginAnalysis
  <2>2. k = Len(files) + 1
    BY <2>1, FileTypes DEF IInv, TypeOK
  <2>3. Start' /\ Sorting' /\ Explained'
    BY <2>1, <2>2 DEF IInv, Start, Sorting, Explained, Unswept, sweepVars
  <2> QED
    BY <1>0, <1>2, <2>1, <2>3, BeginLoop, MergedStays, NotYetAnswered DEF IInv
<1>3. CASE FieldStep
  <2>1. /\ pc = "fields" /\ pc' = "fields"
        /\ UNCHANGED <<files, k, merged, sweepVars>>
        /\ diags' = diags \/ \E kind \in Diagnostics : diags' = Append(diags, kind)
        /\ success' # success => \E kind \in Diagnostics : diags' = Append(diags, kind)
    BY <1>3, FieldStepFacts
  <2>2. Start' /\ Sorting'
    BY <2>1 DEF IInv, Start, Sorting, Unswept, sweepVars
  <2>3. \A kind \in Diagnostics : Append(diags, kind) # <<>>
    BY AppendTypes DEF IInv, TypeOK
  <2>4. Explained'
    BY <2>1, <2>3 DEF IInv, Explained
  <2> QED
    BY <1>0, <1>3, <2>1, <2>2, <2>4, FieldStepLoop, MergedStays, NotYetAnswered DEF IInv
<1>4. CASE EndDeclaration
  <2>1. /\ pc = "fields" /\ pc' = "fields"
        /\ UNCHANGED <<files, k, merged, diags, success, sweepVars>>
    BY <1>4 DEF EndDeclaration, AtDeclaration
  <2>2. Start' /\ Sorting' /\ Explained'
    BY <2>1 DEF IInv, Start, Sorting, Explained, Unswept, sweepVars
  <2> QED
    BY <1>0, <1>4, <2>1, <2>2, EndDeclarationLoop, MergedStays, NotYetAnswered DEF IInv
<1> QED
  BY <1>1, <1>2, <1>3, <1>4

LEMMA SortingIInv == ASSUME IInv, BeginOrder \/ OrderStep PROVE IInv'
<1>0. TypeOK'
  BY NextTypeOK DEF Next
<1>1. /\ UNCHANGED <<files, k, merged, d, types, success, diags>> /\ pc' = "order"
      /\ pc \in {"fields", "order"}
  BY DEF BeginOrder, AllAnalysed, OrderStep, Order!Next, Order!StartSweep, Order!Finish,
         Order!SkipOrdered, Order!SkipBlocked, Order!Emit, Order!EndSweep, Order!GiveUp,
         Order!Returned, Order!vars
<1>2. Start' /\ Loop' /\ Explained'
  BY <1>1 DEF IInv, Start, Loop, Explained
<1>3. /\ success
      /\ DeclarationsUnderstood(Len(merged.declarations))
      /\ ModelsOf(types, Len(merged.declarations))
      /\ Ordering!IInv'
  <2>1. CASE BeginOrder
    <3>1. /\ pc = "fields" /\ d > Len(merged.declarations) /\ success
          /\ UNCHANGED <<types, sweepVars>>
      BY <2>1 DEF BeginOrder, AllAnalysed
    <3>2. d - 1 = Len(merged.declarations) /\ ~AtDeclaration
      BY <3>1, MergedTypes DEF IInv, TypeOK, AtDeclaration
    <3>3. Unswept /\ types \in Seq(TypeModels)
      BY <3>1 DEF IInv, Start, TypeOK
    <3>4. Ordering!IInv'
      BY <3>1, <3>3, OrderingBegins, OrderingStays
    <3> QED
      BY <3>1, <3>2, <3>4 DEF IInv, Loop
  <2>2. CASE OrderStep
    BY <2>2, OrderingSteps DEF IInv, Sorting, OrderStep
  <2> QED
    BY <2>1, <2>2
<1>4. DeclarationsUnderstood(Len(merged.declarations))' /\ ModelsOf(types, Len(merged.declarations))'
  BY <1>1, <1>3, VerdictStays
<1>5. Sorting'
  BY <1>1, <1>3, <1>4 DEF Sorting
<1> QED
  BY <1>0, <1>1, <1>2, <1>5, MergedStays, NotYetAnswered DEF IInv

LEMMA FinalIInv ==
    ASSUME IInv, NoFiles \/ FailAnalysis \/ AcceptOrder \/ FailOrder
    PROVE  IInv'
<1>0. TypeOK'
  BY NextTypeOK DEF Next
<1>1. pc' = "done" /\ UNCHANGED <<files, k, merged>>
  BY DEF NoFiles, FailAnalysis, AcceptOrder, FailOrder, ExposeNothing
<1>2. Start' /\ Loop' /\ Sorting'
  BY <1>1 DEF Start, Loop, Sorting
<1>3. Answer'
  BY NoFilesAnswer, FailAnalysisAnswer, AcceptOrderAnswer, FailOrderAnswer
<1>4. Explained'
  BY <1>1, <1>3 DEF Answer, FailureExposesNothing, Explained
<1> QED
  BY <1>0, <1>1, <1>2, <1>3, <1>4, MergedStays DEF IInv

LEMMA NextIInv == IInv /\ [Next]_vars => IInv'
<1> SUFFICES ASSUME IInv, [Next]_vars PROVE IInv'
  OBVIOUS
<1>1. CASE Returned \/ UNCHANGED vars
  <2>0. TypeOK'
    BY NextTypeOK
  <2>1. UNCHANGED vars
    BY <1>1 DEF Returned
  <2>2. /\ MergedSoFar'
        /\ UNCHANGED <<files, k, merged, d, f, jsonNames, fields, types, enums, diags, success,
                       pc, sweepVars, GeneratedTypes, EnumNames, AtDeclaration, Declaration>>
    BY <2>1, MergedStays
    DEF IInv, vars, sweepVars, GeneratedTypes, EnumNames, AtDeclaration, Declaration
  <2>3. Start' /\ Explained'
    BY <2>2 DEF IInv, Start, Explained, Unswept, sweepVars
  <2>4. Loop'
    <3>1. /\ FieldsUnderstood(Declaration.fields, f - 1)' = FieldsUnderstood(Declaration.fields, f - 1)
          /\ NamesUsed(Declaration.fields, f - 1)' = NamesUsed(Declaration.fields, f - 1)
      BY <2>2 DEF FieldsUnderstood, Supported, NamesUsed
    <3>2. \A x : FieldModel(Declaration.fields[x])' = FieldModel(Declaration.fields[x])
      BY <2>2 DEF FieldModel, Uses
    <3>3. /\ ModelsOf(types, d - 1)' = ModelsOf(types, d - 1)
          /\ DeclarationsUnderstood(d - 1)' = DeclarationsUnderstood(d - 1)
      BY <2>2, VerdictStays
    <3>4. Loop
      BY DEF IInv
    <3> QED
      BY <2>2, <3>1, <3>2, <3>3, <3>4 DEF Loop
  <2>5. Sorting'
    <3>1. Sorting
      BY DEF IInv
    <3> QED
      BY <2>2, <3>1, OrderingStays, VerdictStays DEF Sorting
  <2>6. Answer'
    <3>1. CASE pc # "done"
      BY <2>2, <3>1, NotYetAnswered
    <3>2. CASE pc = "done"
      <4>1. /\ success <=> Acceptable
            /\ ~success => types = <<>> /\ enums = <<>> /\ diags # <<>>
            /\ success => \A nm \in WithFields : \E n \in DOMAIN types :
                  /\ types[n].name = At(nm).name
                  /\ Len(types[n].fields) = Len(At(nm).fields)
                  /\ \A x \in DOMAIN types[n].fields :
                        types[n].fields[x].name = At(nm).fields[x].name
            /\ \A n \in DOMAIN types : \A x \in n + 1 .. Len(types) :
                  types[x].name \notin types[n].uses
        BY <3>2
        DEF IInv, Answer, VerdictMatchesSource, FailureExposesNothing, NothingIsDropped,
            ProjectIsOrdered, Acceptable
      <4>2. success' \in BOOLEAN
        BY <2>0, Zenon DEF TypeOK
      <4> QED
        BY <2>2, <4>1, <4>2, AnswerIsRight
    <3> QED
      BY <3>1, <3>2
  <2> QED
    BY <2>0, <2>2, <2>3, <2>4, <2>5, <2>6 DEF IInv
<1> QED
  BY <1>1, EarlyIInv, SortingIInv, FinalIInv DEF Next, FieldStep

LEMMA Invariance == Spec => []IInv
<1> QED
  BY InitIInv, NextIInv, PTL DEF Spec

\* The locals of the loops keep their types, for any files.
THEOREM TypeCorrect == Spec => []TypeOK
<1>1. IInv => TypeOK
  BY DEF IInv
<1> QED
  BY <1>1, Invariance, PTL

\* Any set of headers is accepted exactly when all of it is understood, no name
\* is declared twice, and no use is circular.
THEOREM VerdictHolds == Spec => []VerdictMatchesSource
<1>1. IInv => VerdictMatchesSource
  BY DEF IInv, Answer
<1> QED
  BY <1>1, Invariance, PTL

\* A failure, wherever it happens, leaves no types and no enums and has a
\* diagnostic.
THEOREM FailureHolds == Spec => []FailureExposesNothing
<1>1. IInv => FailureExposesNothing
  BY DEF IInv, Answer
<1> QED
  BY <1>1, Invariance, PTL

\* An accepted project has a type for each struct with fields, with all of them.
THEOREM CompletenessHolds == Spec => []NothingIsDropped
<1>1. IInv => NothingIsDropped
  BY DEF IInv, Answer
<1> QED
  BY <1>1, Invariance, PTL

\* No type of the project exposed uses a later one.
THEOREM OrderHolds == Spec => []ProjectIsOrdered
<1>1. IInv => ProjectIsOrdered
  BY DEF IInv, Answer
<1> QED
  BY <1>1, Invariance, PTL
=============================================================================
