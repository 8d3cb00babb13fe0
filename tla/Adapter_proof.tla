--------------------------- MODULE Adapter_proof ---------------------------
(***************************************************************************)
(* Theorems about Adapter, for every set of names and every set of headers *)
(* that are well-formed trees (HeadersAssumption).  A first inductive      *)
(* invariant adds to the types what extract_fields knows of the struct it  *)
(* is walking: its fields come from the members already passed, in their   *)
(* order, each with no comment or with the one right behind it.  A second  *)
(* one places the whole traversal in the tree: at every moment there is a  *)
(* node q such that exactly what is before q was found, and what is from   *)
(* q on is waiting in a running call or is below such a node.              *)
(***************************************************************************)
EXTENDS Adapter, SequenceTheorems, WellFoundedInduction, TLAPS

Frames == [node : DOMAIN header.nodes, next : Nat \ {0}, path : Seq(Names)]

\* Every running call is at a child of its node, or has seen them all.
StackOK(calls) ==
    /\ calls \in Seq(Frames)
    /\ \A s \in DOMAIN calls : calls[s].next <= Len(header.nodes[calls[s].node].children) + 1

InOrder(own) == \A x, y \in DOMAIN own : x < y => own[x].at < own[y].at

\* A comment of a field follows it on its line.
Bound(members, field) ==
    \A c \in DOMAIN field.comments :
        /\ field.comments[c] = field.at + 1
        /\ members[field.at + 1].kind = "comment"
        /\ members[field.at + 1].place # "below"

TagsInPlace(members, own) ==
    InOrder(own) /\ \A x \in DOMAIN own : Bound(members, own[x])

\* What is known of the struct being walked.
FieldsSoFar ==
    pc = "fields" =>
        /\ \A x \in DOMAIN fields : fields[x].at < m
        /\ TagsInPlace(Node.members, fields)

\* What is known of the structs that were walked.
FilePlaced ==
    \A k \in DOMAIN file.declarations :
        TagsInPlace(header.nodes[file.declarations[k].at].members, file.declarations[k].fields)

IInv == TypeOK /\ FieldsSoFar /\ FilePlaced

-----------------------------------------------------------------------------

LEMMA HeaderTypes ==
    ASSUME header \in Headers
    PROVE  /\ header.nodes \in Seq(Nodes)
           /\ 1 \in DOMAIN header.nodes
           /\ \A n \in DOMAIN header.nodes :
                 /\ header.nodes[n] \in Nodes
                 /\ header.nodes[n].children \in Seq(DOMAIN header.nodes)
<1>1. header \in AllHeaders /\ TreeIsWellFormed(header.nodes)
  BY HeadersAssumption
<1>2. header.nodes \in Seq(Nodes)
  BY <1>1 DEF AllHeaders
<1>3. 1 \in DOMAIN header.nodes
  BY <1>1, <1>2, SMT DEF TreeIsWellFormed
<1>4. ASSUME NEW n \in DOMAIN header.nodes
      PROVE  /\ header.nodes[n] \in Nodes
             /\ header.nodes[n].children \in Seq(DOMAIN header.nodes)
  <2>1. header.nodes[n] \in Nodes
    BY <1>2, <1>4
  <2>2. header.nodes[n].children \in Seq(Nat)
    BY <2>1 DEF Nodes
  <2>3. \A c \in DOMAIN header.nodes[n].children :
           header.nodes[n].children[c] \in n + 1 .. Len(header.nodes)
    BY <1>1, <1>4 DEF TreeIsWellFormed
  <2>4. /\ DOMAIN header.nodes = 1 .. Len(header.nodes) /\ Len(header.nodes) \in Nat
        /\ n \in 1 .. Len(header.nodes)
    BY <1>2, <1>4
  <2>5. \A c \in 1 .. Len(header.nodes[n].children) :
           header.nodes[n].children[c] \in DOMAIN header.nodes
    BY <2>2, <2>3, <2>4
  <2> QED
    BY <2>1, <2>2, <2>5
<1> QED
  BY <1>2, <1>3, <1>4

\* The call on top of a stack that has a child left.
LEMMA TopTypes ==
    ASSUME header \in Headers, StackOK(stack), stack # <<>>, Call.next <= Len(Children)
    PROVE  /\ Depth \in DOMAIN stack /\ Call \in Frames
           /\ Children \in Seq(DOMAIN header.nodes)
           /\ Call.next \in DOMAIN Children
           /\ Child \in DOMAIN header.nodes /\ Child \in Nat
           /\ Node \in Nodes
<1>1. Depth \in DOMAIN stack /\ Call \in Frames
  BY DEF StackOK, Call, Depth
<1>2. Call.node \in DOMAIN header.nodes /\ Call.next \in Nat \ {0}
  BY <1>1 DEF Frames
<1>3. Children \in Seq(DOMAIN header.nodes)
  BY <1>2, HeaderTypes DEF Children
<1>4. Call.next \in DOMAIN Children
  BY <1>2, <1>3
<1>5. Child \in DOMAIN header.nodes
  BY <1>3, <1>4 DEF Child
<1>6. Child \in Nat
  BY <1>5, HeaderTypes
<1>7. Node \in Nodes
  BY <1>5, HeaderTypes DEF Node
<1> QED
  BY <1>1, <1>3, <1>4, <1>5, <1>6, <1>7

\* The running call moves on to the next child.
LEMMA Advance ==
    ASSUME header \in Headers, StackOK(stack), stack # <<>>, Call.next <= Len(Children),
           NEW calls, calls = [stack EXCEPT ![Depth].next = @ + 1]
    PROVE  StackOK(calls)
<1>1. /\ Depth \in DOMAIN stack /\ Call \in Frames
      /\ Children \in Seq(DOMAIN header.nodes)
      /\ Call.next \in DOMAIN Children
  BY TopTypes
<1>2. [Call EXCEPT !.next = @ + 1] \in Frames
  BY <1>1, SMTT(30) DEF Frames
<1>3. calls = [stack EXCEPT ![Depth] = [Call EXCEPT !.next = @ + 1]]
  BY <1>1 DEF Call
<1>4. stack \in Seq(Frames)
  BY DEF StackOK
<1>5. calls \in Seq(Frames)
  <2>1. ASSUME NEW S, NEW e \in S, stack \in Seq(S) PROVE [stack EXCEPT ![Depth] = e] \in Seq(S)
    <3>1. DOMAIN stack = 1 .. Len(stack)
      BY <2>1
    <3> QED
      BY <1>1, <2>1, <3>1, ExceptSeq
  <2> QED
    BY <1>2, <1>3, <1>4, <2>1, ZenonT(40)
<1>6. ASSUME NEW s \in DOMAIN calls
      PROVE  calls[s].next <= Len(header.nodes[calls[s].node].children) + 1
  <2>1. DOMAIN calls = DOMAIN stack
    BY <1>3
  <2>2. CASE s = Depth
    <3>1. calls[s] = [Call EXCEPT !.next = @ + 1]
      BY <1>1, <1>3, <2>2
    <3>2. calls[s].next = Call.next + 1 /\ calls[s].node = Call.node
      BY <3>1, <1>1 DEF Frames
    <3> QED
      BY <3>2, <1>1 DEF Children
  <2>3. CASE s # Depth
    BY <2>1, <2>3, <1>3, <1>6 DEF StackOK
  <2> QED
    BY <2>2, <2>3
<1> QED
  BY <1>5, <1>6 DEF StackOK

\* A call is made for a child.
LEMMA Push ==
    ASSUME header \in Headers, NEW before, StackOK(before),
           NEW frame \in Frames, frame.next = 1, NEW calls, calls = Append(before, frame)
    PROVE  StackOK(calls)
<1>1. before \in Seq(Frames)
  BY DEF StackOK
<1>2. calls \in Seq(Frames)
  BY <1>1
<1>3. /\ Len(calls) = Len(before) + 1 /\ DOMAIN calls = 1 .. Len(before) + 1
      /\ DOMAIN before = 1 .. Len(before) /\ Len(before) \in Nat
      /\ calls[Len(before) + 1] = frame
      /\ \A s \in 1 .. Len(before) : calls[s] = before[s]
  BY <1>1
<1>4. header.nodes[frame.node].children \in Seq(DOMAIN header.nodes)
  BY HeaderTypes DEF Frames
<1>5. Len(header.nodes[frame.node].children) \in Nat
  BY <1>4
<1>6. ASSUME NEW s \in DOMAIN calls
      PROVE  calls[s].next <= Len(header.nodes[calls[s].node].children) + 1
  <2>1. CASE s = Len(before) + 1
    BY <2>1, <1>3, <1>5
  <2>2. CASE s \in 1 .. Len(before)
    BY <2>2, <1>3 DEF StackOK
  <2> QED
    BY <2>1, <2>2, <1>3
<1> QED
  BY <1>2, <1>6 DEF StackOK

LEMMA Pop ==
    ASSUME StackOK(stack), stack # <<>>, NEW calls, calls = SubSeq(stack, 1, Depth - 1)
    PROVE  StackOK(calls)
<1>1. stack \in Seq(Frames)
  BY DEF StackOK
<1>2. Len(stack) \in Nat /\ Len(stack) > 0
  BY <1>1
<1>3. /\ calls \in Seq(Frames) /\ DOMAIN calls = 1 .. Len(stack) - 1
      /\ \A s \in 1 .. Len(stack) - 1 : calls[s] = stack[s]
  BY <1>1, <1>2 DEF Depth
<1>4. \A s \in DOMAIN calls : s \in DOMAIN stack
  BY <1>1, <1>2, <1>3
<1>5. \A s \in DOMAIN calls : calls[s].next <= Len(header.nodes[calls[s].node].children) + 1
  BY <1>3, <1>4 DEF StackOK
<1> QED
  BY <1>3, <1>5 DEF StackOK

-----------------------------------------------------------------------------
(* What a step leaves alone. *)

LEMMA StackPart == TypeOK => header \in Headers /\ StackOK(stack)
  BY DEF TypeOK, StackOK, Frames

LEMMA StackUntouched == TypeOK /\ UNCHANGED <<header, stack>> => StackOK(stack)'
<1> SUFFICES ASSUME TypeOK, UNCHANGED <<header, stack>> PROVE StackOK(stack)'
  OBVIOUS
<1>1. StackOK(stack)
  BY StackPart
<1> QED
  BY <1>1 DEF StackOK, Frames

LEMMA StackReplaced ==
    ASSUME header' = header, StackOK(stack')
    PROVE  StackOK(stack)'
  BY DEF StackOK, Frames

LEMMA FileUntouched == FilePlaced /\ UNCHANGED <<header, file>> => FilePlaced'
  BY DEF FilePlaced

\* Outside of a struct nothing is known of fields.
LEMMA Outside ==
    ASSUME IInv, header' = header, StackOK(stack)', file' = file, UNCHANGED <<m, fields>>,
           pc' \in {"open", "visit", "done"}
    PROVE  IInv'
<1>1. FilePlaced'
  BY FileUntouched DEF IInv
<1>2. FieldsSoFar'
  BY DEF FieldsSoFar
<1>3. TypeOK'
  BY DEF IInv, TypeOK, StackOK, Frames
<1> QED
  BY <1>1, <1>2, <1>3 DEF IInv

-----------------------------------------------------------------------------

LEMMA InitIInv == Init => IInv
<1> SUFFICES ASSUME Init PROVE IInv
  OBVIOUS
<1>1. TypeOK
  <2>1. <<>> \in Seq(Declarations) /\ <<>> \in Seq(Entries) /\ <<>> \in Seq(Fields) /\ <<>> \in Seq(Frames)
    OBVIOUS
  <2>2. file \in [declarations : Seq(Declarations), enums : Seq(Entries), aliases : Seq(Entries)]
    BY <2>1 DEF Init, NoFile
  <2> QED
    BY <2>1, <2>2 DEF Init, TypeOK, Frames
<1>2. FieldsSoFar
  BY DEF Init, FieldsSoFar
<1>3. FilePlaced
  BY DEF Init, NoFile, FilePlaced
<1> QED
  BY <1>1, <1>2, <1>3 DEF IInv

LEMMA OpenIInv ==
    ASSUME IInv, FailToOpen \/ FailToParse \/ RejectSyntax \/ Finish
    PROVE  IInv'
<1>1. UNCHANGED <<header, stack, m, fields, file>> /\ pc' = "done"
  BY DEF FailToOpen, FailToParse, RejectSyntax, Finish, Fail
<1>2. StackOK(stack)'
  BY <1>1, StackUntouched DEF IInv
<1> QED
  BY <1>1, <1>2, Outside

LEMMA BeginIInv == ASSUME IInv, BeginExtraction PROVE IInv'
<1>1. /\ stack' = Append(<<>>, [node |-> 1, next |-> 1, path |-> <<>>])
      /\ UNCHANGED <<header, m, fields, file>> /\ pc' = "visit"
  BY DEF BeginExtraction
<1>2. header \in Headers /\ 1 \in DOMAIN header.nodes
  BY StackPart, HeaderTypes DEF IInv
<1>3. [node |-> 1, next |-> 1, path |-> <<>>] \in Frames
  BY <1>2 DEF Frames
<1>4. StackOK(<<>>)
  BY DEF StackOK
<1>5. StackOK(stack')
  BY <1>1, <1>2, <1>3, <1>4, Push
<1> QED
  BY <1>1, <1>5, StackReplaced, Outside

LEMMA ChildFacts ==
    ASSUME IInv, AtChild
    PROVE  /\ header \in Headers /\ StackOK(stack) /\ stack # <<>> /\ Call.next <= Len(Children)
           /\ Call \in Frames /\ Child \in DOMAIN header.nodes /\ Child \in Nat
           /\ Node \in Nodes
<1>1. header \in Headers /\ StackOK(stack) /\ stack # <<>> /\ Call.next <= Len(Children)
  BY StackPart DEF IInv, AtChild
<1> QED
  BY <1>1, TopTypes

LEMMA DescendIInv == ASSUME IInv, Descend PROVE IInv'
<1> DEFINE before == [stack EXCEPT ![Depth].next = @ + 1]
           frame == [node |-> Child, next |-> 1, path |-> Call.path \o Node.parts]
<1>1. /\ AtChild /\ stack' = Append(before, frame)
      /\ UNCHANGED <<header, m, fields, file, pc>> /\ pc = "visit"
  BY DEF Descend, AtChild
<1>2. StackOK(before)
  BY <1>1, ChildFacts, Advance
<1>3. Call.path \in Seq(Names) /\ Node.parts \in Seq(Names)
  BY <1>1, ChildFacts DEF Frames, Nodes
<1>4. Call.path \o Node.parts \in Seq(Names)
  BY <1>3
<1>5. frame \in Frames /\ frame.next = 1
  BY <1>1, <1>4, ChildFacts DEF Frames
<1> HIDE DEF before, frame
<1>6. StackOK(stack')
  BY <1>1, <1>2, <1>5, ChildFacts, Push
<1> QED
  BY <1>1, <1>6, StackReplaced, Outside

LEMMA SkipIInv == ASSUME IInv, SkipNameless PROVE IInv'
<1>1. /\ AtChild /\ stack' = [stack EXCEPT ![Depth].next = @ + 1]
      /\ UNCHANGED <<header, m, fields, file, pc>> /\ pc = "visit"
  BY DEF SkipNameless, NextChild, AtChild
<1>2. StackOK(stack')
  BY <1>1, ChildFacts, Advance
<1> QED
  BY <1>1, <1>2, StackReplaced, Outside

LEMMA LeaveIInv == ASSUME IInv, LeaveNode PROVE IInv'
<1>1. /\ stack # <<>> /\ stack' = SubSeq(stack, 1, Depth - 1)
      /\ UNCHANGED <<header, m, fields, file, pc>> /\ pc = "visit"
  BY DEF LeaveNode
<1>2. StackOK(stack')
  BY <1>1, StackPart, Pop DEF IInv
<1> QED
  BY <1>1, <1>2, StackReplaced, Outside

LEMMA EntryTypes ==
    ASSUME IInv, AtChild, Node.name # NoName
    PROVE  Entry \in Entries /\ Node.name \in Names /\ Call.path \in Seq(Names)
<1>1. Node.name \in Names
  BY ChildFacts DEF Nodes
<1>2. Call.path \in Seq(Names) /\ Child \in Nat
  BY ChildFacts DEF Frames
<1> QED
  BY <1>1, <1>2 DEF Entry, Entries

\* An enum or an alias is added to the file.
LEMMA EntryIInv == ASSUME IInv, ExtractEnum \/ ExtractAlias PROVE IInv'
<1> DEFINE Files == [declarations : Seq(Declarations), enums : Seq(Entries),
                     aliases : Seq(Entries)]
<1>1. /\ AtChild /\ Node.name # NoName /\ stack' = [stack EXCEPT ![Depth].next = @ + 1]
      /\ UNCHANGED <<header, m, fields, pc>> /\ pc = "visit"
      /\ \/ file' = [file EXCEPT !.enums = Append(@, Entry)]
         \/ file' = [file EXCEPT !.aliases = Append(@, Entry)]
  BY DEF ExtractEnum, ExtractAlias, NextChild, AtChild
<1>2. StackOK(stack)'
  BY <1>1, ChildFacts, Advance, StackReplaced
<1>3. Entry \in Entries
  BY <1>1, EntryTypes
<1>4. file \in Files
  BY DEF IInv, TypeOK
<1>5. Append(file.enums, Entry) \in Seq(Entries) /\ Append(file.aliases, Entry) \in Seq(Entries)
  BY <1>3, <1>4
<1>6. file' \in Files /\ file'.declarations = file.declarations
  BY <1>1, <1>4, <1>5
<1>7. FilePlaced'
  BY <1>1, <1>6 DEF IInv, FilePlaced
<1>8. FieldsSoFar'
  BY <1>1 DEF FieldsSoFar
<1>9. TypeOK'
  BY <1>1, <1>2, <1>6 DEF IInv, TypeOK, StackOK, Frames
<1> QED
  BY <1>7, <1>8, <1>9 DEF IInv

-----------------------------------------------------------------------------
(* The members of a struct. *)

LEMMA FieldTypes ==
    ASSUME NEW own \in Seq(Fields) PROVE \A x \in DOMAIN own : own[x].at \in Nat
<1>1. \A x \in DOMAIN own : own[x] \in Fields
  OBVIOUS
<1> QED
  BY <1>1 DEF Fields

LEMMA OpenStructIInv == ASSUME IInv, OpenStruct PROVE IInv'
<1>1. /\ AtChild /\ UNCHANGED <<header, stack, file>> /\ Node.name # NoName
      /\ m' = 1 /\ fields' = <<>> /\ pc' = "fields"
  BY DEF OpenStruct
<1>2. StackOK(stack)'
  BY <1>1, StackUntouched DEF IInv
<1>3. /\ stack # <<>> /\ Call.next <= Len(Children) /\ Node \in Nodes
      /\ UNCHANGED <<Call, Children, Node>>
  BY <1>1, ChildFacts DEF Call, Children, Node, Child, Depth
<1>4. Len(Node.members) \in Nat
  BY <1>3 DEF Nodes
<1>5. TypeOK'
  BY <1>1, <1>2, <1>3, <1>4 DEF IInv, TypeOK, StackOK, Frames
<1>6. FieldsSoFar'
  BY <1>1 DEF FieldsSoFar, TagsInPlace, InOrder
<1>7. FilePlaced'
  BY <1>1, FileUntouched DEF IInv
<1> QED
  BY <1>5, <1>6, <1>7 DEF IInv

LEMMA MemberFacts ==
    ASSUME IInv, pc = "fields"
    PROVE  /\ header \in Headers /\ StackOK(stack) /\ stack # <<>> /\ Call.next <= Len(Children)
           /\ Call \in Frames /\ Child \in DOMAIN header.nodes /\ Child \in Nat
           /\ Node.name \in Names /\ Node \in Nodes /\ Node.members \in Seq(Members)
           /\ m \in Nat \ {0} /\ m <= Len(Node.members) + 1
<1>1. header \in Headers /\ StackOK(stack) /\ stack # <<>> /\ Call.next <= Len(Children)
  BY StackPart DEF IInv, TypeOK
<1>2. /\ Call \in Frames /\ Child \in DOMAIN header.nodes /\ Child \in Nat
      /\ Node \in Nodes
  BY <1>1, TopTypes
<1>3. Node.members \in Seq(Members)
  BY <1>2 DEF Nodes
<1>4. Node.name \in Names
  BY <1>2 DEF IInv, TypeOK, Nodes
<1> QED
  BY <1>1, <1>2, <1>3, <1>4 DEF IInv, TypeOK

\* A member is passed, with or without becoming a field.
LEMMA PassedMember ==
    ASSUME IInv, AtMember, NextMember, fields' \in Seq(Fields),
           \A x \in DOMAIN fields' : fields'[x].at < m + 1,
           TagsInPlace(Node.members, fields')
    PROVE  IInv'
<1>1. /\ pc = "fields" /\ m <= Len(Node.members) /\ m' = m + 1
      /\ UNCHANGED <<header, stack, file, pc>>
  BY DEF AtMember, NextMember
<1>2. StackOK(stack)'
  BY <1>1, StackUntouched DEF IInv
<1>3. UNCHANGED <<Call, Children, Node>>
  BY <1>1 DEF Call, Children, Node, Child, Depth
<1>4. m' \in Nat \ {0} /\ m' <= Len(Node.members) + 1
  BY <1>1, MemberFacts
<1>5. TypeOK'
  BY <1>1, <1>2, <1>3, <1>4, MemberFacts DEF IInv, TypeOK, StackOK, Frames
<1>6. FieldsSoFar'
  BY <1>1, <1>3 DEF FieldsSoFar
<1>7. FilePlaced'
  BY <1>1, FileUntouched DEF IInv
<1> QED
  BY <1>5, <1>6, <1>7 DEF IInv

LEMMA SkippedIInv ==
    ASSUME IInv,
           RejectDeclaration \/ RejectPreprocessor \/ SkipMember \/ RefuseField \/ SkipUnnamed
    PROVE  IInv'
<1>1. AtMember /\ NextMember /\ fields' = fields
  BY DEF RejectDeclaration, RejectPreprocessor, SkipMember, RefuseField, SkipUnnamed, Report
<1>2. fields \in Seq(Fields) /\ m \in Nat /\ pc = "fields"
  BY <1>1 DEF IInv, TypeOK, AtMember
<1>3. \A x \in DOMAIN fields : fields[x].at \in Nat
  BY <1>2, FieldTypes
<1>4. \A x \in DOMAIN fields : fields[x].at < m + 1
  BY <1>2, <1>3 DEF IInv, FieldsSoFar
<1>5. TagsInPlace(Node.members, fields)
  BY <1>2 DEF IInv, FieldsSoFar
<1> QED
  BY <1>1, <1>2, <1>4, <1>5, PassedMember

\* A field behind all the others, with a comment that follows it.
LEMMA AppendedField ==
    ASSUME NEW members, NEW own \in Seq(Fields), NEW field \in Fields,
           TagsInPlace(members, own), Bound(members, field),
           \A x \in DOMAIN own : own[x].at < field.at
    PROVE  TagsInPlace(members, Append(own, field))
<1> DEFINE all == Append(own, field)
<1>1. /\ Len(own) \in Nat /\ DOMAIN own = 1 .. Len(own) /\ DOMAIN all = 1 .. Len(own) + 1
      /\ all[Len(own) + 1] = field /\ \A x \in 1 .. Len(own) : all[x] = own[x]
  OBVIOUS
<1> HIDE DEF all
<1>2. ASSUME NEW x \in DOMAIN all, NEW y \in DOMAIN all, x < y PROVE all[x].at < all[y].at
  <2>1. x \in 1 .. Len(own) /\ all[x] = own[x]
    BY <1>1, <1>2
  <2>2. CASE y \in 1 .. Len(own)
    BY <1>1, <1>2, <2>1, <2>2 DEF TagsInPlace, InOrder
  <2>3. CASE y = Len(own) + 1
    BY <1>1, <2>1, <2>3
  <2> QED
    BY <1>1, <2>2, <2>3
<1>3. \A x \in DOMAIN all : Bound(members, all[x])
  BY <1>1 DEF TagsInPlace
<1> QED
  BY <1>2, <1>3 DEF TagsInPlace, InOrder, all

LEMMA ExtractFieldIInv == ASSUME IInv, ExtractField PROVE IInv'
<1>1. AtMember /\ NextMember /\ pc = "fields" /\ m <= Len(Node.members)
  BY DEF ExtractField, AtMember
<1>2. /\ m \in Nat \ {0} /\ Node.members \in Seq(Members)
      /\ m \in DOMAIN Node.members /\ fields \in Seq(Fields)
  BY <1>1, MemberFacts DEF IInv, TypeOK
<1>3. PICK d \in DirectNames(Member) :
         fields' = Append(fields, [name |-> Member.declared[d].name, at |-> m,
                                   clean |-> d = 1,
                                   comments |-> BoundComment(Node.members, m)])
  BY DEF ExtractField
<1> DEFINE field == [name |-> Member.declared[d].name, at |-> m, clean |-> d = 1,
                     comments |-> BoundComment(Node.members, m)]
<1>4. Member \in Members
  BY <1>2 DEF Member
<1>5. Member.declared \in Seq([name : Names, direct : BOOLEAN]) /\ d \in DOMAIN Member.declared
  BY <1>4 DEF Members, DirectNames
<1>6. Member.declared[d].name \in Names
  <2>1. ASSUME NEW S, NEW s \in Seq(S), d \in DOMAIN s PROVE s[d] \in S
    BY <2>1
  <2>2. Member.declared[d] \in [name : Names, direct : BOOLEAN]
    BY <1>5, <2>1
  <2> QED
    BY <2>2
<1>7. /\ BoundComment(Node.members, m) \in Seq(Nat)
      /\ \A c \in DOMAIN BoundComment(Node.members, m) :
            /\ BoundComment(Node.members, m)[c] = m + 1
            /\ Node.members[m + 1].kind = "comment"
            /\ Node.members[m + 1].place # "below"
  <2>1. CASE BoundComment(Node.members, m) = <<>>
    BY <2>1
  <2>2. CASE BoundComment(Node.members, m) # <<>>
    <3>1. /\ BoundComment(Node.members, m) = <<m + 1>>
          /\ Node.members[m + 1].kind = "comment"
          /\ Node.members[m + 1].place = "spaced"
      BY <2>2 DEF BoundComment
    <3>2. <<m + 1>> \in Seq(Nat) /\ \A c \in DOMAIN <<m + 1>> : <<m + 1>>[c] = m + 1
      BY <1>2
    <3> QED
      BY <3>1, <3>2
  <2> QED
    BY <2>1, <2>2
<1>8. field \in Fields /\ field.at = m /\ Bound(Node.members, field)
  <2>1. (d = 1) \in BOOLEAN
    OBVIOUS
  <2> QED
    BY <1>2, <1>6, <1>7, <2>1 DEF Fields, Bound
<1>9. fields' = Append(fields, field)
  BY <1>3
<1> HIDE DEF field
<1>10. TagsInPlace(Node.members, fields) /\ \A x \in DOMAIN fields : fields[x].at < m
  BY <1>1 DEF IInv, FieldsSoFar
<1>11. TagsInPlace(Node.members, fields')
  BY <1>2, <1>8, <1>9, <1>10, AppendedField
<1>12. fields' \in Seq(Fields)
  BY <1>2, <1>8, <1>9
<1>13. \A x \in DOMAIN fields' : fields'[x].at < m + 1
  <2>1. /\ DOMAIN fields' = 1 .. Len(fields) + 1 /\ Len(fields) \in Nat
        /\ DOMAIN fields = 1 .. Len(fields)
        /\ fields'[Len(fields) + 1] = field /\ \A x \in 1 .. Len(fields) : fields'[x] = fields[x]
    BY <1>2, <1>8, <1>9
  <2>2. \A x \in DOMAIN fields : fields[x].at \in Nat
    BY <1>2, FieldTypes
  <2> QED
    <3>1. ASSUME NEW x \in DOMAIN fields' PROVE fields'[x].at < m + 1
      <4>1. CASE x = Len(fields) + 1
        BY <4>1, <1>2, <1>8, <2>1
      <4>2. CASE x \in DOMAIN fields
        BY <4>2, <1>2, <1>10, <2>1, <2>2
      <4> QED
        BY <3>1, <2>1, <4>1, <4>2
    <3> QED
      BY <3>1
<1> QED
  BY <1>1, <1>11, <1>12, <1>13, PassedMember

LEMMA CloseStructIInv == ASSUME IInv, CloseStruct PROVE IInv'
<1> DEFINE Files == [declarations : Seq(Declarations), enums : Seq(Entries),
                     aliases : Seq(Entries)]
           declaration == [name |-> Node.name, path |-> Call.path, at |-> Child,
                           fields |-> fields]
<1>1. /\ pc = "fields" /\ stack' = [stack EXCEPT ![Depth].next = @ + 1]
      /\ UNCHANGED <<header, m, fields>> /\ pc' = "visit"
      /\ file' = [file EXCEPT !.declarations = Append(@, declaration)]
  BY DEF CloseStruct, NextChild
<1>2. /\ header \in Headers /\ StackOK(stack) /\ stack # <<>> /\ Call.next <= Len(Children)
      /\ Call \in Frames /\ Child \in Nat /\ Node.name \in Names
  BY <1>1, MemberFacts
<1>3. StackOK(stack)'
  BY <1>1, <1>2, Advance, StackReplaced
<1>4. file \in Files /\ fields \in Seq(Fields)
  BY DEF IInv, TypeOK
<1>5. declaration \in Declarations
  BY <1>2, <1>4 DEF Declarations, Frames
<1>6. TagsInPlace(header.nodes[declaration.at].members, declaration.fields)
  BY <1>1 DEF IInv, FieldsSoFar, Node
<1>7. /\ file.declarations \in Seq(Declarations)
      /\ file'.declarations = Append(file.declarations, declaration)
      /\ file'.enums = file.enums /\ file'.aliases = file.aliases
  BY <1>1, <1>4
<1>8. file' \in Files
  <2>1. Append(file.declarations, declaration) \in Seq(Declarations)
    BY <1>5, <1>7
  <2> QED
    BY <1>1, <1>4, <2>1
<1> HIDE DEF declaration
<1>9. FilePlaced'
  <2>1. ASSUME NEW k \in DOMAIN file'.declarations
        PROVE  TagsInPlace(header.nodes[file'.declarations[k].at].members,
                           file'.declarations[k].fields)
    <3>1. CASE k \in DOMAIN file.declarations
      <4>1. file'.declarations[k] = file.declarations[k]
        BY <1>5, <1>7, <3>1
      <4> QED
        BY <3>1, <4>1 DEF IInv, FilePlaced
    <3>2. CASE k \notin DOMAIN file.declarations
      <4>1. file'.declarations[k] = declaration
        BY <1>5, <1>7, <2>1, <3>2
      <4> QED
        BY <4>1, <1>6
    <3> QED
      BY <3>1, <3>2
  <2> QED
    BY <2>1, <1>1 DEF FilePlaced
<1>10. FieldsSoFar'
  BY <1>1 DEF FieldsSoFar
<1>11. TypeOK'
  BY <1>1, <1>3, <1>8 DEF IInv, TypeOK, StackOK, Frames
<1> QED
  BY <1>9, <1>10, <1>11 DEF IInv

-----------------------------------------------------------------------------

LEMMA NextIInv == IInv /\ [Next]_vars => IInv'
<1> SUFFICES ASSUME IInv, [Next]_vars PROVE IInv'
  OBVIOUS
<1>1. CASE Returned \/ UNCHANGED vars
  <2>1. UNCHANGED <<header, stack, m, fields, file, pc>>
    BY <1>1 DEF Returned, vars
  <2>2. StackOK(stack)' /\ FilePlaced'
    BY <2>1, StackUntouched, FileUntouched DEF IInv
  <2>3. UNCHANGED <<Call, Children, Node>>
    BY <2>1 DEF Call, Children, Node, Child, Depth
  <2>4. FieldsSoFar'
    BY <2>1, <2>3 DEF IInv, FieldsSoFar
  <2>5. TypeOK'
    BY <2>1, <2>2, <2>3 DEF IInv, TypeOK, StackOK, Frames
  <2> QED
    BY <2>2, <2>4, <2>5 DEF IInv
<1> QED
  BY <1>1, OpenIInv, BeginIInv, DescendIInv, SkipIInv, EntryIInv, OpenStructIInv, SkippedIInv,
     ExtractFieldIInv, CloseStructIInv, LeaveIInv DEF Next

LEMMA Invariance == Spec => []IInv
<1> QED
  BY InitIInv, NextIInv, PTL DEF Spec

\* The running calls stay in the tree, for headers of any depth, and the file
\* holds entries under names and paths of the header.
THEOREM TypeCorrect == Spec => []TypeOK
<1>1. IInv => TypeOK
  BY DEF IInv
<1> QED
  BY <1>1, Invariance, PTL

\* Whatever members a struct mixes, a comment is bound to the field right in
\* front of it, on its line, and the fields keep their order.
THEOREM TagsHold == Spec => []TagsStayWithTheirField
<1>1. IInv => TagsStayWithTheirField
  BY DEF IInv, FilePlaced, TagsInPlace, InOrder, Bound, TagsStayWithTheirField
<1> QED
  BY <1>1, Invariance, PTL

-----------------------------------------------------------------------------
(* The tree, computed from the root. *)

LEMMA NatLeast == ASSUME NEW S \in SUBSET Nat, NEW n \in S
                  PROVE \E k \in S : \A j \in S : k <= j
<1>1. IsWellFoundedOn(OpToRel(<, Nat), Nat)
  BY NatLessThanWellFounded
<1>2. PICK k \in S : \A j \in S : ~(<<j, k>> \in OpToRel(<, Nat))
  BY <1>1, WFMin
<1>3. ASSUME NEW j \in S PROVE k <= j
  <2>1. j \in Nat /\ k \in Nat
    OBVIOUS
  <2>2. ~(j < k)
    BY <1>2, <1>3, <2>1 DEF OpToRel
  <2> QED
    BY <2>1, <2>2
<1> QED
  BY <1>2, <1>3

\* The value of each node but the root comes from the value of its parent.
Inherited(N, T, root, parent, step) ==
    /\ N \in Nat /\ root \in T
    /\ parent \in [2 .. N -> Nat] /\ \A n \in 2 .. N : parent[n] \in 1 .. n - 1
    /\ step \in [2 .. N -> [T -> T]]

Follows(g, N, T, root, parent, step) ==
    /\ g \in [1 .. N -> T]
    /\ \A n \in 1 .. N : g[n] = IF n = 1 THEN root ELSE step[n][g[parent[n]]]

\* Such values can be computed from the root on.
LEMMA FromTheRoot ==
    ASSUME NEW N, NEW T, NEW root, NEW parent, NEW step, Inherited(N, T, root, parent, step)
    PROVE  \E g : Follows(g, N, T, root, parent, step)
<1>0. /\ N \in Nat /\ root \in T
      /\ parent \in [2 .. N -> Nat] /\ \A n \in 2 .. N : parent[n] \in 1 .. n - 1
      /\ step \in [2 .. N -> [T -> T]]
  BY DEF Inherited
<1> USE <1>0
<1> DEFINE Good(g, k) ==
              /\ g \in [1 .. k -> T]
              /\ \A n \in 1 .. k : g[n] = IF n = 1 THEN root ELSE step[n][g[parent[n]]]
           Bad == {k \in 0 .. N : \A g : ~Good(g, k)}
<1>1. SUFFICES ASSUME N \in Bad PROVE FALSE
  BY DEF Follows
<1>2. PICK k \in Bad : \A j \in Bad : k <= j
  <2>1. Bad \in SUBSET Nat
    OBVIOUS
  <2> QED
    BY <1>1, <2>1, NatLeast
<1>3. k # 0
  <2>1. Good([n \in 1 .. 0 |-> root], 0)
    OBVIOUS
  <2> QED
    BY <1>2, <2>1
<1>4. k - 1 \in 0 .. N /\ k - 1 \notin Bad /\ k \in 1 .. N
  <2>1. k \in 1 .. N
    BY <1>2, <1>3
  <2> HIDE DEF Bad
  <2>2. k - 1 \notin Bad
    BY <1>2, <2>1
  <2> QED
    BY <2>1, <2>2
<1>5. PICK g : Good(g, k - 1)
  BY <1>4
<1> DEFINE value == IF k = 1 THEN root ELSE step[k][g[parent[k]]]
           h == [n \in 1 .. k |-> IF n = k THEN value ELSE g[n]]
<1>6. value \in T
  <2>1. CASE k = 1
    BY <2>1
  <2>2. CASE k # 1
    <3>1. k \in 2 .. N /\ parent[k] \in 1 .. k - 1
      BY <1>4, <2>2
    <3>2. g[parent[k]] \in T
      BY <1>5, <3>1
    <3>3. step[k] \in [T -> T]
      BY <3>1
    <3> QED
      BY <2>2, <3>2, <3>3
  <2> QED
    BY <2>1, <2>2
<1>7. Good(h, k)
  <2>1. h \in [1 .. k -> T]
    <3>1. ASSUME NEW n \in 1 .. k, n # k PROVE g[n] \in T
      BY <1>4, <1>5, <3>1
    <3> HIDE DEF value, Good
    <3> QED
      BY <1>6, <3>1
  <2>2. ASSUME NEW n \in 1 .. k
        PROVE  h[n] = IF n = 1 THEN root ELSE step[n][h[parent[n]]]
    <3>1. n = 1 \/ (n \in 2 .. N /\ parent[n] \in 1 .. k - 1 /\ parent[n] \in 1 .. k /\ parent[n] # k)
      BY <1>4
    <3>2. n = 1 \/ h[parent[n]] = g[parent[n]]
      BY <3>1
    <3>3. CASE n = k
      BY <3>1, <3>2, <3>3
    <3>4. CASE n # k
      <4>1. n \in 1 .. k - 1
        BY <1>4, <3>4
      <4>2. h[n] = g[n]
        BY <3>4
      <4> QED
        BY <1>5, <3>2, <4>1, <4>2
    <3> QED
      BY <3>3, <3>4
  <2> QED
    BY <2>1, <2>2
<1> QED
  BY <1>2, <1>7 DEF Follows

LEMMA Hierarchy ==
    ASSUME header \in Headers, NEW n \in DOMAIN header.nodes, n # 1
    PROVE  \E p \in 1 .. n - 1 : p \in DOMAIN header.nodes /\ Parents(n) = {p}
<1>1. TreeIsWellFormed(header.nodes) /\ header.nodes \in Seq(Nodes)
  BY HeadersAssumption DEF AllHeaders
<1>2. n \in 2 .. Len(header.nodes)
  BY <1>1
<1>3. PICK p \in 1 .. n - 1 :
         /\ \E c \in DOMAIN header.nodes[p].children : header.nodes[p].children[c] = n
         /\ \A q \in DOMAIN header.nodes : \A b \in DOMAIN header.nodes[q].children :
               header.nodes[q].children[b] = n => q = p
  BY <1>1, <1>2, SMTT(30) DEF TreeIsWellFormed
<1>4. p \in DOMAIN header.nodes
  BY <1>1, <1>2
<1> QED
  BY <1>3, <1>4 DEF Parents

LEMMA ParentFunction ==
    ASSUME header \in Headers
    PROVE  \E N \in Nat : \E parent \in [2 .. N -> Nat] :
              /\ DOMAIN header.nodes = 1 .. N
              /\ \A n \in 2 .. N : parent[n] \in 1 .. n - 1 /\ Parents(n) = {parent[n]}
<1>1. header.nodes \in Seq(Nodes)
  BY HeadersAssumption DEF AllHeaders
<1> DEFINE N == Len(header.nodes)
           parent == [n \in 2 .. N |-> CHOOSE p \in Nat : Parents(n) = {p}]
<1>2. N \in Nat /\ DOMAIN header.nodes = 1 .. N
  BY <1>1
<1>3. ASSUME NEW n \in 2 .. N
      PROVE  parent[n] \in 1 .. n - 1 /\ Parents(n) = {parent[n]} /\ parent[n] \in Nat
  <2>1. PICK p \in 1 .. n - 1 : Parents(n) = {p}
    BY <1>2, Hierarchy
  <2>2. p \in Nat /\ n \in Nat
    BY <2>1
  <2>3. Parents(n) = {parent[n]}
    BY <2>1, <2>2
  <2> HIDE DEF parent
  <2>4. parent[n] = p
    BY <2>1, <2>3
  <2> QED
    BY <2>1, <2>2, <2>3, <2>4
<1>4. parent \in [2 .. N -> Nat]
  BY <1>3
<1> HIDE DEF N, parent
<1> QED
  BY <1>2, <1>3, <1>4

LEMMA PathUnfolds ==
    ASSUME header \in Headers
    PROVE  /\ PathOf[1] = <<>>
           /\ \A n, p \in DOMAIN header.nodes :
                 p \in Parents(n) /\ n # 1 => PathOf[n] = PathOf[p] \o header.nodes[p].parts
<1> DEFINE Value(g, n) == IF n = 1 THEN <<>>
                          ELSE LET p == CHOOSE q \in Parents(n) : TRUE
                               IN  g[p] \o header.nodes[p].parts
<1>0. PICK N \in Nat : \E parent \in [2 .. N -> Nat] :
         /\ DOMAIN header.nodes = 1 .. N
         /\ \A n \in 2 .. N : parent[n] \in 1 .. n - 1 /\ Parents(n) = {parent[n]}
  BY ParentFunction
<1>1. PICK parent \in [2 .. N -> Nat] :
         /\ DOMAIN header.nodes = 1 .. N
         /\ \A n \in 2 .. N : parent[n] \in 1 .. n - 1 /\ Parents(n) = {parent[n]}
  BY <1>0
<1>2. \A n \in 2 .. N : (CHOOSE q \in Parents(n) : TRUE) = parent[n]
  BY <1>1
<1>3. \A n \in 1 .. N : header.nodes[n].parts \in Seq(Names)
  BY <1>1, HeaderTypes DEF Nodes
<1> DEFINE step == [n \in 2 .. N |->
                       [path \in Seq(Names) |-> path \o header.nodes[parent[n]].parts]]
<1>4. step \in [2 .. N -> [Seq(Names) -> Seq(Names)]]
  <2>1. ASSUME NEW n \in 2 .. N, NEW path \in Seq(Names)
        PROVE  path \o header.nodes[parent[n]].parts \in Seq(Names)
    <3>1. header.nodes[parent[n]].parts \in Seq(Names)
      BY <1>1, <1>3
    <3> QED
      BY <3>1
  <2> QED
    BY <2>1
<1>5. <<>> \in Seq(Names)
  OBVIOUS
<1> HIDE DEF step
<1>6. PICK g : Follows(g, N, Seq(Names), <<>>, parent, step)
  <2>1. Inherited(N, Seq(Names), <<>>, parent, step)
    BY <1>1, <1>4, <1>5 DEF Inherited
  <2> QED
    BY <2>1, FromTheRoot
<1>7. ASSUME NEW n \in 1 .. N PROVE g[n] = Value(g, n)
  <2>1. CASE n = 1
    BY <1>6, <2>1 DEF Follows
  <2>2. CASE n # 1
    <3>1. n \in 2 .. N /\ parent[n] \in 1 .. N
      BY <1>1, <2>2
    <3>2. g[n] = g[parent[n]] \o header.nodes[parent[n]].parts
      BY <1>6, <2>2, <3>1 DEF step, Follows
    <3> QED
      BY <1>2, <2>2, <3>1, <3>2
  <2> QED
    BY <2>1, <2>2
<1>8. g = [n \in DOMAIN header.nodes |-> Value(g, n)]
  BY <1>1, <1>6, <1>7 DEF Follows
<1>9. PathOf = CHOOSE f : f = [n \in DOMAIN header.nodes |-> Value(f, n)]
  BY DEF PathOf
<1>10. PathOf = [n \in DOMAIN header.nodes |-> Value(PathOf, n)]
  BY <1>8, <1>9
<1>11. \A n \in 1 .. N : PathOf[n] = Value(PathOf, n)
  BY <1>1, <1>10
<1>12. ASSUME NEW n \in DOMAIN header.nodes, NEW p \in Parents(n), n # 1
       PROVE  PathOf[n] = PathOf[p] \o header.nodes[p].parts
  <2>1. (CHOOSE q \in Parents(n) : TRUE) = p
    BY <1>1, <1>2, <1>12
  <2> QED
    BY <1>1, <1>11, <1>12, <2>1
<1>13. PathOf[1] = <<>>
  <2>1. 1 \in 1 .. N
    BY <1>1, HeaderTypes
  <2> QED
    BY <1>11, <2>1
<1> HIDE DEF Value
<1> QED
  BY <1>12, <1>13

LEMMA VisibleUnfolds ==
    ASSUME header \in Headers
    PROVE  \A n \in DOMAIN header.nodes :
              Visible[n] <=>
                  (n = 1 \/ \E p \in Parents(n) :
                               Visible[p] /\ header.nodes[p].kind \in {"namespace", "other"})
<1> DEFINE Value(g, n) ==
              n = 1 \/ \E p \in Parents(n) :
                           g[p] /\ header.nodes[p].kind \in {"namespace", "other"}
<1>0. PICK N \in Nat : \E parent \in [2 .. N -> Nat] :
         /\ DOMAIN header.nodes = 1 .. N
         /\ \A n \in 2 .. N : parent[n] \in 1 .. n - 1 /\ Parents(n) = {parent[n]}
  BY ParentFunction
<1>1. PICK parent \in [2 .. N -> Nat] :
         /\ DOMAIN header.nodes = 1 .. N
         /\ \A n \in 2 .. N : parent[n] \in 1 .. n - 1 /\ Parents(n) = {parent[n]}
  BY <1>0
<1> DEFINE step == [n \in 2 .. N |-> [seen \in BOOLEAN |->
                       seen /\ header.nodes[parent[n]].kind \in {"namespace", "other"}]]
<1>2. step \in [2 .. N -> [BOOLEAN -> BOOLEAN]]
  BY Zenon
<1> HIDE DEF step
<1>3. PICK g : Follows(g, N, BOOLEAN, TRUE, parent, step)
  <2>1. Inherited(N, BOOLEAN, TRUE, parent, step)
    BY <1>1, <1>2 DEF Inherited
  <2> QED
    BY <2>1, FromTheRoot
<1>4. ASSUME NEW n \in 1 .. N PROVE g[n] = Value(g, n)
  <2>1. CASE n = 1
    BY <1>3, <2>1 DEF Follows
  <2>2. CASE n # 1
    <3>1. n \in 2 .. N /\ parent[n] \in 1 .. N
      BY <1>1, <2>2
    <3>2. g[parent[n]] \in BOOLEAN /\ g[n] \in BOOLEAN
      BY <1>3, <3>1 DEF Follows
    <3>3. g[n] = step[n][g[parent[n]]]
      BY <1>3, <2>2, <3>1 DEF Follows
    <3>4. step[n][g[parent[n]]] =
            (g[parent[n]] /\ header.nodes[parent[n]].kind \in {"namespace", "other"})
      BY <3>1, <3>2, Zenon DEF step
    <3>5. Parents(n) = {parent[n]}
      BY <1>1, <3>1
    <3> QED
      BY <2>2, <3>3, <3>4, <3>5, Zenon
  <2> QED
    BY <2>1, <2>2
<1>5. g = [n \in DOMAIN header.nodes |-> Value(g, n)]
  BY <1>1, <1>3, <1>4 DEF Follows
<1>6. Visible = CHOOSE f : f = [n \in DOMAIN header.nodes |-> Value(f, n)]
  BY DEF Visible
<1>7. Visible = [n \in DOMAIN header.nodes |-> Value(Visible, n)]
  BY <1>5, <1>6
<1>8. ASSUME NEW n \in DOMAIN header.nodes PROVE Visible[n] = Value(Visible, n)
  BY <1>7, <1>8, Zenon
<1> QED
  BY <1>8, Zenon

-----------------------------------------------------------------------------
(* The traversal and the tree: how far a running traversal has come. *)

\* Node n is a child some running call has still to look at.
Waiting(calls, n) ==
    \E s \in DOMAIN calls : \E k \in DOMAIN header.nodes[calls[s].node].children :
        calls[s].next <= k /\ header.nodes[calls[s].node].children[k] = n

\* The running calls lead down from the root, each under the path of its node.
LeadsDown(calls) ==
    /\ \A s, t \in DOMAIN calls : s < t => calls[s].node < calls[t].node
    /\ \A s \in DOMAIN calls :
          /\ Visible[calls[s].node]
          /\ header.nodes[calls[s].node].kind \in {"namespace", "other"}
          /\ calls[s].path = PathOf[calls[s].node] \o header.nodes[calls[s].node].parts

\* Every node before q was looked at, and every node from q on is waiting or
\* below one that is.
Cursor(q, calls) ==
    /\ q \in Nat /\ 1 < q
    /\ \A s \in DOMAIN calls : calls[s].node < q
    /\ \A n \in DOMAIN header.nodes : Waiting(calls, n) => q <= n
    /\ \A n \in DOMAIN header.nodes :
          Visible[n] /\ q <= n => Waiting(calls, n) \/ \E p \in Parents(n) : q <= p

\* The entries are those of the nodes before q.
EntriesUpTo(q, entries, kind) ==
    EntriesMatch(entries) /\ Positions(entries) = {n \in Extractable(kind) : n < q}

FileUpTo(q) ==
    /\ EntriesUpTo(q, file.declarations, "struct")
    /\ EntriesUpTo(q, file.enums, "enum")
    /\ EntriesUpTo(q, file.aliases, "alias")

Precedes(d, e) == d.node < e.node \/ (d.node = e.node /\ d.member < e.member)

\* A list of diagnostics is exactly that of a set of offences, in their order.
Reports(list, offences) ==
    /\ \A i, j \in DOMAIN list : i < j => Precedes(list[i], list[j])
    /\ {<<list[i].node, list[i].member>> : i \in DOMAIN list} = offences

Before(o, n, k) == o[1] < n \/ (o[1] = n /\ o[2] < k)

\* The offences before node n, and before member k of it.
OffencesBefore(n, k) == {o \in Offences : Before(o, n, k)}

\* The diagnostics are those of the offences passed, in document order.
DiagsUpTo(q) ==
    Reports(diags, IF pc = "fields" THEN OffencesBefore(Child, m) ELSE OffencesBefore(q, 0))

Reached(q) ==
    /\ LeadsDown(stack) /\ Cursor(q, stack)
    /\ pc = "fields" => Node.kind = "struct"
    /\ FileUpTo(q) /\ DiagsUpTo(q)

DiagnosticKinds ==
    {"not_opened", "no_parser", "no_language", "no_tree", "syntax_errors",
     "declaration", "preprocessor", "static", "function", "multiple"}

Diagnostics == [kind : DiagnosticKinds, node : Nat, member : Nat]

Traversal ==
    /\ diags \in Seq(Diagnostics)
    /\ pc = "open" => file = NoFile /\ diags = <<>>
    /\ pc \in {"visit", "fields"} => \E q \in Nat : Reached(q)
    /\ pc = "done" => EntriesMatchTree /\ VerdictMatchesTree

-----------------------------------------------------------------------------
(* What is ahead of the cursor. *)

LEMMA NodeNumbers == ASSUME header \in Headers PROVE \A n \in DOMAIN header.nodes : n \in Nat
  BY HeaderTypes

LEMMA FrameNodes ==
    ASSUME NEW calls, StackOK(calls)
    PROVE  \A s \in DOMAIN calls : calls[s] \in Frames /\ calls[s].node \in DOMAIN header.nodes
<1>1. ASSUME NEW s \in DOMAIN calls PROVE calls[s] \in Frames
  BY <1>1 DEF StackOK
<1> QED
  BY <1>1 DEF Frames

LEMMA TreeOrder ==
    ASSUME header \in Headers
    PROVE  /\ \A n \in DOMAIN header.nodes : \A c, b \in DOMAIN header.nodes[n].children :
                 b < c => header.nodes[n].children[b] < header.nodes[n].children[c]
           /\ \A n, p \in DOMAIN header.nodes :
                 \A c \in DOMAIN header.nodes[n].children :
                    \A b \in DOMAIN header.nodes[p].children :
                       n < header.nodes[p].children[b]
                       /\ header.nodes[p].children[b] < header.nodes[n].children[c] => n <= p
<1>1. TreeIsWellFormed(header.nodes)
  BY HeadersAssumption
<1>2. ASSUME NEW n \in DOMAIN header.nodes, NEW c \in DOMAIN header.nodes[n].children,
             NEW b \in DOMAIN header.nodes[n].children, b < c
      PROVE  header.nodes[n].children[b] < header.nodes[n].children[c]
  <2>1. b \in 1 .. c - 1
    <3>1. header.nodes[n].children \in Seq(DOMAIN header.nodes)
      BY HeaderTypes
    <3> QED
      BY <1>2, <3>1
  <2> QED
    BY <1>1, <2>1 DEF TreeIsWellFormed
<1> QED
  BY <1>1, <1>2 DEF TreeIsWellFormed

LEMMA ParentsBefore ==
    ASSUME header \in Headers, NEW n \in DOMAIN header.nodes, NEW p \in Parents(n)
    PROVE  /\ p \in DOMAIN header.nodes /\ p < n /\ n # 1
           /\ p \in Nat /\ n \in Nat /\ Parents(n) = {p}
<1>1. TreeIsWellFormed(header.nodes) /\ header.nodes \in Seq(Nodes)
  BY HeadersAssumption DEF AllHeaders
<1>2. p \in DOMAIN header.nodes /\ p < n /\ p \in Nat \ {0} /\ n \in Nat
  BY <1>1 DEF Parents, TreeIsWellFormed
<1>3. n # 1
  BY <1>2
<1> QED
  BY <1>2, <1>3, Hierarchy

\* Nothing visible is between the cursor and the first node waiting.
LEMMA NothingBetween ==
    ASSUME header \in Headers, NEW calls, NEW q, Cursor(q, calls), NEW bound \in Nat,
           \A n \in DOMAIN header.nodes : Waiting(calls, n) => bound <= n
    PROVE  \A n \in DOMAIN header.nodes : Visible[n] /\ q <= n => bound <= n
<1>0. q \in Nat /\ 1 < q /\ \A n \in DOMAIN header.nodes : n \in Nat
  BY HeaderTypes DEF Cursor
<1> DEFINE S == {n \in DOMAIN header.nodes : Visible[n] /\ q <= n /\ ~(bound <= n)}
<1>1. SUFFICES ASSUME NEW n \in S PROVE FALSE
  OBVIOUS
<1>2. S \in SUBSET Nat
  BY <1>0
<1>3. PICK k \in S : \A j \in S : k <= j
  BY <1>2, NatLeast
<1>4. ~Waiting(calls, k)
  OBVIOUS
<1>5. PICK p \in Parents(k) : q <= p
  BY <1>3, <1>4 DEF Cursor
<1>6. p \in DOMAIN header.nodes /\ p < k /\ Parents(k) = {p} /\ k # 1 /\ p \in Nat /\ k \in Nat
  BY ParentsBefore, <1>3, <1>5
<1>7. Visible[p]
  BY <1>3, <1>6, VisibleUnfolds
<1>8. p \in S
  BY <1>0, <1>3, <1>5, <1>6, <1>7
<1> QED
  BY <1>3, <1>6, <1>8

\* At a child, with the cursor at q.
AtNode(q) ==
    /\ header \in Headers /\ StackOK(stack) /\ stack # <<>> /\ Call.next <= Len(Children)
    /\ LeadsDown(stack) /\ Cursor(q, stack)

LEMMA ChildIsFirst ==
    ASSUME NEW q, AtNode(q)
    PROVE  /\ Waiting(stack, Child) /\ q <= Child /\ Call.node \in Parents(Child)
           /\ \A n \in DOMAIN header.nodes : Waiting(stack, n) => Child <= n
           /\ \A n \in DOMAIN header.nodes : Visible[n] /\ q <= n => Child <= n
           /\ Visible[Child] /\ PathOf[Child] = Call.path
<1>1. /\ Depth \in DOMAIN stack /\ Call \in Frames
      /\ Children \in Seq(DOMAIN header.nodes)
      /\ Call.next \in DOMAIN Children
      /\ Child \in DOMAIN header.nodes /\ Child \in Nat
      /\ header \in Headers
      /\ Call.node \in DOMAIN header.nodes /\ Call.next \in Nat
  BY TopTypes DEF AtNode, Frames
<1>2. Waiting(stack, Child)
  BY <1>1 DEF Waiting, Child, Children, Call
<1>3. q <= Child
  BY <1>1, <1>2 DEF AtNode, Cursor
<1>4. Call.node \in Parents(Child)
  BY <1>1 DEF Parents, Child, Children
<1>5. ASSUME NEW n \in DOMAIN header.nodes, Waiting(stack, n) PROVE Child <= n
  <2>1. PICK s \in DOMAIN stack : \E k \in DOMAIN header.nodes[stack[s].node].children :
           stack[s].next <= k /\ header.nodes[stack[s].node].children[k] = n
    BY <1>5 DEF Waiting
  <2>2. PICK k \in DOMAIN header.nodes[stack[s].node].children :
           stack[s].next <= k /\ header.nodes[stack[s].node].children[k] = n
    BY <2>1
  <2>3. n \in Nat /\ q \in Nat /\ q <= n
    BY <1>1, <1>5, NodeNumbers DEF AtNode, Cursor
  <2>4. CASE s = Depth
    <3>1. k \in DOMAIN Children /\ Call.next <= k /\ Children[k] = n
      BY <2>2, <2>4 DEF Children, Call
    <3>2. CASE k = Call.next
      BY <1>1, <3>1, <3>2 DEF Child
    <3>3. CASE Call.next < k
      <4>1. Children[Call.next] < Children[k]
        BY <1>1, <3>1, <3>3, TreeOrder DEF Children
      <4> QED
        BY <1>1, <2>3, <3>1, <4>1 DEF Child
    <3> QED
      BY <1>1, <3>1, <3>2, <3>3
  <2>5. CASE s # Depth
    <3>1. s < Depth
      BY <1>1, <2>1, <2>5 DEF Depth, AtNode, StackOK
    <3>2. stack[s].node < Call.node
      BY <1>1, <2>1, <3>1 DEF AtNode, LeadsDown, Call
    <3>3. stack[s].node \in DOMAIN header.nodes
      BY <2>1, FrameNodes DEF AtNode
    <3>4. Call.node < q /\ Call.node \in Nat /\ stack[s].node \in Nat
      BY <1>1, <3>3, NodeNumbers DEF AtNode, Cursor, Call
    <3>5. Call.node < n
      BY <2>3, <3>4
    <3>6. ~(n < Child)
      <4>1. ~(Call.node <= stack[s].node)
        BY <3>2, <3>4
      <4> QED
        BY <1>1, <2>2, <3>3, <3>5, <4>1, TreeOrder DEF Child, Children
    <3> QED
      BY <1>1, <2>3, <3>6
  <2> QED
    BY <2>4, <2>5
<1>6. \A n \in DOMAIN header.nodes : Visible[n] /\ q <= n => Child <= n
  BY <1>1, <1>5, NothingBetween DEF AtNode
<1>7. Visible[Call.node] /\ header.nodes[Call.node].kind \in {"namespace", "other"}
      /\ Call.path = PathOf[Call.node] \o header.nodes[Call.node].parts
  BY <1>1 DEF AtNode, LeadsDown, Call
<1>8. Child # 1
  BY <1>1, <1>4, ParentsBefore
<1>9. Visible[Child]
  BY <1>1, <1>4, <1>7, VisibleUnfolds
<1>10. PathOf[Child] = Call.path
  BY <1>1, <1>4, <1>7, <1>8, PathUnfolds
<1> QED
  BY <1>2, <1>3, <1>4, <1>5, <1>6, <1>9, <1>10

\* The cursor moves behind the child.
LEMMA CursorMoves ==
    ASSUME NEW q, AtNode(q), NEW calls,
           \A s \in DOMAIN calls : calls[s].node < Child + 1,
           \A n \in DOMAIN header.nodes :
              Waiting(calls, n) <=>
                  \/ Waiting(stack, n) /\ n # Child
                  \/ Child \in Parents(n) /\ Node.kind \in {"namespace", "other"}
    PROVE  Cursor(Child + 1, calls)
<1>1. /\ header \in Headers /\ Child \in DOMAIN header.nodes /\ Child \in Nat
      /\ Waiting(stack, Child) /\ q <= Child /\ q \in Nat /\ 1 < q
      /\ \A n \in DOMAIN header.nodes : Waiting(stack, n) => Child <= n
      /\ \A n \in DOMAIN header.nodes : Visible[n] /\ q <= n => Child <= n
      /\ \A n \in DOMAIN header.nodes : n \in Nat
  BY TopTypes, ChildIsFirst, NodeNumbers DEF AtNode, Cursor
<1>2. ASSUME NEW n \in DOMAIN header.nodes, Waiting(calls, n) PROVE Child + 1 <= n
  <2>1. CASE Waiting(stack, n) /\ n # Child
    BY <1>1, <2>1
  <2>2. CASE Child \in Parents(n)
    BY <1>1, <2>2, ParentsBefore
  <2> QED
    BY <1>2, <2>1, <2>2
<1>3. ASSUME NEW n \in DOMAIN header.nodes, Visible[n], Child + 1 <= n
      PROVE  Waiting(calls, n) \/ \E p \in Parents(n) : Child + 1 <= p
  <2>1. q <= n /\ n # Child /\ n # 1
    BY <1>1, <1>3
  <2>2. CASE Waiting(stack, n)
    BY <2>1, <2>2
  <2>3. CASE ~Waiting(stack, n)
    <3>1. PICK p \in Parents(n) : q <= p
      BY <1>3, <2>1, <2>3 DEF AtNode, Cursor
    <3>2. p \in DOMAIN header.nodes /\ Parents(n) = {p} /\ p \in Nat
      BY <1>1, <3>1, ParentsBefore
    <3>3. Visible[p] /\ header.nodes[p].kind \in {"namespace", "other"}
      BY <1>1, <1>3, <2>1, <3>2, VisibleUnfolds
    <3>4. Child <= p
      BY <1>1, <3>1, <3>2, <3>3
    <3>5. CASE p = Child
      BY <3>1, <3>3, <3>5 DEF Node
    <3>6. CASE p # Child
      BY <1>1, <3>1, <3>2, <3>4, <3>6
    <3> QED
      BY <3>5, <3>6
  <2> QED
    BY <2>2, <2>3
<1> QED
  BY <1>1, <1>2, <1>3 DEF Cursor

\* The running call has moved on to the next child.
LEMMA WaitingAfterChild ==
    ASSUME NEW q, AtNode(q), NEW calls, calls = [stack EXCEPT ![Depth].next = @ + 1]
    PROVE  /\ DOMAIN calls = DOMAIN stack
           /\ \A s \in DOMAIN calls : calls[s].node = stack[s].node /\ calls[s].path = stack[s].path
           /\ \A n \in DOMAIN header.nodes :
                 Waiting(calls, n) <=> Waiting(stack, n) /\ n # Child
<1>1. /\ Depth \in DOMAIN stack /\ Call \in Frames
      /\ Children \in Seq(DOMAIN header.nodes)
      /\ Call.next \in DOMAIN Children
      /\ Child \in DOMAIN header.nodes /\ Child \in Nat
      /\ header \in Headers /\ stack \in Seq(Frames)
  BY TopTypes DEF AtNode, StackOK
<1>2. calls = [stack EXCEPT ![Depth] = [Call EXCEPT !.next = @ + 1]]
  BY <1>1 DEF Call
<1>3. /\ DOMAIN calls = DOMAIN stack
      /\ \A s \in DOMAIN stack : s # Depth => calls[s] = stack[s]
      /\ calls[Depth].next = Call.next + 1
      /\ calls[Depth].node = Call.node /\ calls[Depth].path = Call.path
  BY <1>1, <1>2 DEF Frames
<1>4. \A s \in DOMAIN calls : calls[s].node = stack[s].node /\ calls[s].path = stack[s].path
  BY <1>3 DEF Call
<1>5. ASSUME NEW n \in DOMAIN header.nodes, Waiting(calls, n)
      PROVE  Waiting(stack, n) /\ n # Child
  <2>1. PICK s \in DOMAIN stack : \E k \in DOMAIN header.nodes[stack[s].node].children :
           calls[s].next <= k /\ header.nodes[stack[s].node].children[k] = n
    BY <1>3, <1>4, <1>5 DEF Waiting
  <2>2. PICK k \in DOMAIN header.nodes[stack[s].node].children :
           calls[s].next <= k /\ header.nodes[stack[s].node].children[k] = n
    BY <2>1
  <2>3. stack[s].node \in DOMAIN header.nodes
    BY <2>1, FrameNodes DEF AtNode
  <2>4. CASE s = Depth
    <3>1. k \in DOMAIN Children /\ Call.next + 1 <= k /\ Children[k] = n
      BY <1>3, <2>2, <2>4 DEF Children, Call
    <3>2. Call.next < k /\ Call.next <= k
      BY <1>1, <3>1
    <3>3. Children[Call.next] < Children[k]
      BY <1>1, <2>3, <2>4, <3>1, <3>2, TreeOrder DEF Children, Call
    <3>4. n # Child
      BY <1>1, <3>1, <3>3 DEF Child
    <3> QED
      BY <1>1, <3>1, <3>2, <3>4 DEF Waiting, Children, Call
  <2>5. CASE s # Depth
    <3>1. Waiting(stack, n)
      BY <1>3, <2>1, <2>2, <2>5 DEF Waiting
    <3>2. stack[s].node # Call.node
      <4>1. s < Depth
        BY <1>1, <2>1, <2>5 DEF Depth
      <4>2. stack[s].node < Call.node
        BY <1>1, <2>1, <4>1 DEF AtNode, LeadsDown, Call
      <4>3. stack[s].node \in Nat
        BY <1>1, <2>3, NodeNumbers
      <4> QED
        BY <4>2, <4>3
    <3>3. stack[s].node \in Parents(n)
      BY <2>2, <2>3 DEF Parents
    <3>4. n # Child
      BY <1>1, <3>2, <3>3, ChildIsFirst, ParentsBefore
    <3> QED
      BY <3>1, <3>4
  <2> QED
    BY <2>4, <2>5
<1>6. ASSUME NEW n \in DOMAIN header.nodes, Waiting(stack, n), n # Child
      PROVE  Waiting(calls, n)
  <2>1. PICK s \in DOMAIN stack : \E k \in DOMAIN header.nodes[stack[s].node].children :
           stack[s].next <= k /\ header.nodes[stack[s].node].children[k] = n
    BY <1>6 DEF Waiting
  <2>2. PICK k \in DOMAIN header.nodes[stack[s].node].children :
           stack[s].next <= k /\ header.nodes[stack[s].node].children[k] = n
    BY <2>1
  <2>3. calls[s].next <= k
    <3>1. CASE s = Depth
      <4>1. k \in DOMAIN Children /\ Call.next <= k /\ Children[k] = n
        BY <2>2, <3>1 DEF Children, Call
      <4>2. k # Call.next
        BY <1>6, <4>1 DEF Child
      <4>3. Call.next + 1 <= k
        BY <1>1, <4>1, <4>2
      <4> QED
        BY <1>3, <3>1, <4>3
    <3>2. CASE s # Depth
      BY <1>3, <2>2, <3>2
    <3> QED
      BY <3>1, <3>2
  <2> QED
    BY <1>3, <1>4, <2>1, <2>2, <2>3 DEF Waiting
<1> QED
  BY <1>3, <1>4, <1>5, <1>6

-----------------------------------------------------------------------------
(* What was found up to the cursor. *)

\* The nodes of a kind the cursor passes when it moves behind the child.
LEMMA PassedNodes ==
    ASSUME NEW q, AtNode(q), NEW kind
    PROVE  {n \in Extractable(kind) : n < Child + 1} =
               {n \in Extractable(kind) : n < q}
               \cup {n \in {Child} : Node.kind = kind /\ Node.name # NoName}
<1>1. /\ Child \in DOMAIN header.nodes /\ Child \in Nat /\ q <= Child /\ q \in Nat
      /\ Visible[Child]
      /\ \A n \in DOMAIN header.nodes : Visible[n] /\ q <= n => Child <= n
      /\ \A n \in DOMAIN header.nodes : n \in Nat
  BY TopTypes, ChildIsFirst, NodeNumbers DEF AtNode, Cursor
<1>2. ASSUME NEW n \in Extractable(kind) PROVE n < Child + 1 <=> n < q \/ n = Child
  <2>1. n \in DOMAIN header.nodes /\ Visible[n] /\ n \in Nat
    BY <1>1 DEF Extractable
  <2> QED
    BY <1>1, <2>1
<1>3. Child \in Extractable(kind) <=> Node.kind = kind /\ Node.name # NoName
  BY <1>1 DEF Extractable, Node
<1> QED
  BY <1>2, <1>3

LEMMA NoEntry ==
    ASSUME NEW q, AtNode(q), NEW kind, NEW entries, EntriesUpTo(q, entries, kind),
           Node.kind # kind \/ Node.name = NoName
    PROVE  EntriesUpTo(Child + 1, entries, kind)
  BY PassedNodes DEF EntriesUpTo

LEMMA OneEntry ==
    ASSUME NEW q, AtNode(q), NEW kind, NEW S, NEW entries \in Seq(S),
           EntriesUpTo(q, entries, kind),
           Node.kind = kind, Node.name # NoName,
           NEW entry \in S, entry.at = Child, entry.path = Call.path
    PROVE  EntriesUpTo(Child + 1, Append(entries, entry), kind)
<1> DEFINE all == Append(entries, entry)
<1>1. /\ Len(entries) \in Nat /\ DOMAIN entries = 1 .. Len(entries)
      /\ DOMAIN all = 1 .. Len(entries) + 1
      /\ all[Len(entries) + 1] = entry /\ \A x \in 1 .. Len(entries) : all[x] = entries[x]
  OBVIOUS
<1> HIDE DEF all
<1>2. /\ Child \in Nat /\ q <= Child /\ q \in Nat /\ PathOf[Child] = Call.path
  BY TopTypes, ChildIsFirst DEF AtNode, Cursor
<1>3. ASSUME NEW k \in DOMAIN entries
      PROVE  entries[k].at < q /\ entries[k].at \in Nat
  <2>1. entries[k].at \in Positions(entries)
    BY <1>3 DEF Positions
  <2>2. entries[k].at \in Extractable(kind) /\ entries[k].at < q
    BY <2>1 DEF EntriesUpTo
  <2> QED
    BY <2>2, NodeNumbers DEF Extractable, AtNode
<1>4. Positions(all) = Positions(entries) \cup {Child}
  BY <1>1 DEF Positions
<1>5. EntriesMatch(all)
  <2>1. ASSUME NEW k \in DOMAIN all PROVE all[k].path = PathOf[all[k].at]
    <3>1. CASE k \in DOMAIN entries
      BY <1>1, <3>1 DEF EntriesUpTo, EntriesMatch
    <3>2. CASE k = Len(entries) + 1
      BY <1>1, <1>2, <3>2
    <3> QED
      BY <1>1, <3>1, <3>2
  <2>2. ASSUME NEW k \in DOMAIN all, NEW l \in DOMAIN all, k < l PROVE all[k].at < all[l].at
    <3>1. k \in DOMAIN entries /\ all[k] = entries[k]
      BY <1>1, <2>2
    <3>2. CASE l \in DOMAIN entries
      BY <1>1, <2>2, <3>1, <3>2 DEF EntriesUpTo, EntriesMatch
    <3>3. CASE l = Len(entries) + 1
      BY <1>1, <1>2, <1>3, <3>1, <3>3
    <3> QED
      BY <1>1, <3>2, <3>3
  <2> QED
    BY <2>1, <2>2 DEF EntriesMatch
<1>6. Positions(all) = {n \in Extractable(kind) : n < Child + 1}
  BY <1>4, PassedNodes DEF EntriesUpTo
<1> QED
  BY <1>5, <1>6 DEF EntriesUpTo, all

LEMMA OneReport ==
    ASSUME NEW list \in Seq(Diagnostics), NEW passed, Reports(list, passed),
           NEW d \in Diagnostics, \A o \in passed : Before(o, d.node, d.member)
    PROVE  Reports(Append(list, d), passed \cup {<<d.node, d.member>>})
<1> DEFINE all == Append(list, d)
           Where(e) == <<e.node, e.member>>
<1>1. /\ Len(list) \in Nat /\ DOMAIN list = 1 .. Len(list)
      /\ DOMAIN all = 1 .. Len(list) + 1
      /\ all[Len(list) + 1] = d /\ \A x \in 1 .. Len(list) : all[x] = list[x]
  OBVIOUS
<1> HIDE DEF all
<1>2. ASSUME NEW i \in DOMAIN all, NEW j \in DOMAIN all, i < j PROVE Precedes(all[i], all[j])
  <2>1. i \in DOMAIN list /\ all[i] = list[i]
    BY <1>1, <1>2
  <2>2. CASE j \in DOMAIN list
    BY <1>1, <1>2, <2>1, <2>2 DEF Reports
  <2>3. CASE j = Len(list) + 1
    <3>1. Where(list[i]) \in passed
      BY <2>1 DEF Reports
    <3>2. Before(Where(list[i]), d.node, d.member)
      BY <3>1
    <3> QED
      BY <1>1, <2>1, <2>3, <3>2 DEF Before, Precedes
  <2> QED
    BY <1>1, <2>2, <2>3
<1>3. {Where(all[i]) : i \in DOMAIN all} = passed \cup {Where(d)}
  <2>1. {Where(list[i]) : i \in DOMAIN list} = passed
    BY DEF Reports
  <2> HIDE DEF Where
  <2> QED
    BY <1>1, <2>1
<1> QED
  BY <1>2, <1>3 DEF Reports, all

LEMMA OffenceFacts ==
    ASSUME header \in Headers, NEW o \in Offences
    PROVE  /\ o[1] \in Extractable("struct") /\ o[1] \in Nat /\ o[2] \in Nat \ {0}
           /\ o[2] \in DOMAIN header.nodes[o[1]].members
           /\ MustRefuse(header.nodes[o[1]].members, o[2])
           /\ o = <<o[1], o[2]>>
<1>1. PICK n \in Extractable("struct") :
         o \in {<<n, k>> : k \in {x \in DOMAIN header.nodes[n].members :
                                     MustRefuse(header.nodes[n].members, x)}}
  BY DEF Offences
<1>2. PICK k \in DOMAIN header.nodes[n].members :
         o = <<n, k>> /\ MustRefuse(header.nodes[n].members, k)
  BY <1>1
<1>3. n \in DOMAIN header.nodes /\ n \in Nat
  BY NodeNumbers DEF Extractable
<1>4. header.nodes[n].members \in Seq(Members)
  BY <1>3, HeaderTypes DEF Nodes
<1>5. k \in Nat \ {0}
  BY <1>2, <1>4
<1> QED
  BY <1>2, <1>3, <1>5

LEMMA OffenceIs ==
    ASSUME NEW n \in Extractable("struct"), NEW k \in DOMAIN header.nodes[n].members,
           MustRefuse(header.nodes[n].members, k)
    PROVE  <<n, k>> \in Offences
  BY DEF Offences

\* A child that is no struct to be walked has no offences.
LEMMA NoOffences ==
    ASSUME NEW q, AtNode(q), Node.kind # "struct" \/ Node.name = NoName
    PROVE  OffencesBefore(Child + 1, 0) = OffencesBefore(q, 0)
<1>1. q \in Nat /\ Child \in Nat /\ header \in Headers /\ q <= Child
  BY TopTypes, ChildIsFirst DEF AtNode, Cursor
<1>2. {n \in Extractable("struct") : n < Child + 1} = {n \in Extractable("struct") : n < q}
  BY PassedNodes
<1>3. ASSUME NEW o \in Offences PROVE Before(o, Child + 1, 0) <=> Before(o, q, 0)
  <2>1. o[1] \in Extractable("struct") /\ o[1] \in Nat /\ o[2] \in Nat
    BY <1>1, OffenceFacts
  <2> QED
    BY <1>1, <1>2, <2>1 DEF Before
<1> QED
  BY <1>3 DEF OffencesBefore

\* Up to the first member of the struct nothing more is passed ...
LEMMA FirstMember ==
    ASSUME NEW q, AtNode(q)
    PROVE  OffencesBefore(Child, 1) = OffencesBefore(q, 0)
<1>1. /\ q \in Nat /\ Child \in Nat /\ header \in Headers /\ q <= Child
      /\ \A n \in DOMAIN header.nodes : Visible[n] /\ q <= n => Child <= n
  BY TopTypes, ChildIsFirst DEF AtNode, Cursor
<1>2. ASSUME NEW o \in Offences PROVE Before(o, Child, 1) <=> Before(o, q, 0)
  <2>1. o[1] \in Extractable("struct") /\ o[1] \in Nat /\ o[2] \in Nat \ {0}
    BY <1>1, OffenceFacts
  <2>2. o[1] \in DOMAIN header.nodes /\ Visible[o[1]]
    BY <2>1 DEF Extractable
  <2> QED
    BY <1>1, <2>1, <2>2 DEF Before
<1> QED
  BY <1>2 DEF OffencesBefore

\* ... and behind the last one all of the struct is.
LEMMA LastMember ==
    ASSUME NEW q, AtNode(q), NEW k \in Nat, k > Len(Node.members)
    PROVE  OffencesBefore(Child + 1, 0) = OffencesBefore(Child, k)
<1>1. /\ q \in Nat /\ Child \in Nat /\ header \in Headers /\ Node \in Nodes
  BY TopTypes DEF AtNode, Cursor
<1>2. Node.members \in Seq(Members)
  BY <1>1 DEF Nodes
<1>3. ASSUME NEW o \in Offences PROVE Before(o, Child + 1, 0) <=> Before(o, Child, k)
  <2>1. /\ o[1] \in Nat /\ o[2] \in Nat \ {0}
        /\ o[2] \in DOMAIN header.nodes[o[1]].members
    BY <1>1, OffenceFacts
  <2>2. o[1] = Child => o[2] <= Len(Node.members)
    BY <1>2, <2>1 DEF Node
  <2>3. Len(Node.members) \in Nat
    BY <1>2
  <2> QED
    BY <1>1, <2>1, <2>2, <2>3 DEF Before
<1> QED
  BY <1>3 DEF OffencesBefore

LEMMA OneMember ==
    ASSUME NEW q, AtNode(q), Node.kind = "struct", Node.name # NoName,
           NEW k \in DOMAIN Node.members
    PROVE  OffencesBefore(Child, k + 1) =
               OffencesBefore(Child, k)
               \cup {o \in {<<Child, k>>} : MustRefuse(Node.members, k)}
<1>1. /\ Child \in Nat /\ Child \in DOMAIN header.nodes /\ header \in Headers /\ Node \in Nodes
      /\ Visible[Child]
  BY TopTypes, ChildIsFirst DEF AtNode, Cursor
<1>2. k \in Nat
  BY <1>1 DEF Nodes
<1>3. Child \in Extractable("struct")
  BY <1>1 DEF Extractable, Node
<1>4. MustRefuse(Node.members, k) => <<Child, k>> \in Offences
  BY <1>3, OffenceIs DEF Node
<1>5. ASSUME NEW o \in Offences
      PROVE  Before(o, Child, k + 1) <=>
                 Before(o, Child, k) \/ (o = <<Child, k>> /\ MustRefuse(Node.members, k))
  <2>1. /\ o[1] \in Nat /\ o[2] \in Nat \ {0} /\ o = <<o[1], o[2]>>
        /\ MustRefuse(header.nodes[o[1]].members, o[2])
    BY <1>1, OffenceFacts
  <2>2. o = <<Child, k>> => o[1] = Child /\ o[2] = k
    OBVIOUS
  <2>3. o[1] = Child /\ o[2] = k => o = <<Child, k>> /\ MustRefuse(Node.members, k)
    BY <2>1 DEF Node
  <2> QED
    BY <1>1, <1>2, <2>1, <2>2, <2>3 DEF Before
<1> QED
  BY <1>4, <1>5 DEF OffencesBefore

-----------------------------------------------------------------------------
(* The steps of the traversal. *)

LEMMA AtTheChild ==
    ASSUME IInv, AtChild \/ pc = "fields", NEW q, Reached(q)
    PROVE  AtNode(q)
  BY ChildFacts, MemberFacts DEF Reached, AtNode

\* The header stays, and so does everything said of its tree.
LEMMA SameTree ==
    ASSUME header' = header
    PROVE  /\ Visible' = Visible /\ PathOf' = PathOf /\ Offences' = Offences
           /\ \A kind : Extractable(kind)' = Extractable(kind)
           /\ \A n : Parents(n)' = Parents(n)
<1>1. Visible' = Visible
  BY DEF Visible, Parents
<1>2. PathOf' = PathOf
  BY DEF PathOf, Parents
<1>3. Offences' = Offences
  BY <1>1 DEF Offences, Extractable
<1>4. \A kind : Extractable(kind)' = Extractable(kind)
  BY <1>1 DEF Extractable
<1> QED
  BY <1>1, <1>2, <1>3, <1>4 DEF Parents

\* The traversal is between two children, with the cursor at r.
LEMMA Arrived ==
    ASSUME header' = header, pc' = "visit", NEW r \in Nat,
           diags' \in Seq(Diagnostics), LeadsDown(stack'), Cursor(r, stack'),
           EntriesUpTo(r, file'.declarations, "struct"),
           EntriesUpTo(r, file'.enums, "enum"),
           EntriesUpTo(r, file'.aliases, "alias"),
           Reports(diags', OffencesBefore(r, 0))
    PROVE  Traversal'
<1>1. LeadsDown(stack)'
  BY SameTree DEF LeadsDown
<1>2. Cursor(r, stack)'
  BY SameTree DEF Cursor, Waiting
<1>3. FileUpTo(r)'
  BY SameTree DEF FileUpTo, EntriesUpTo, EntriesMatch, Positions
<1>4. OffencesBefore(r, 0)' = OffencesBefore(r, 0)
  BY SameTree DEF OffencesBefore
<1>5. DiagsUpTo(r)'
  BY <1>4 DEF DiagsUpTo, Reports, Precedes
<1>6. Reached(r)'
  BY <1>1, <1>2, <1>3, <1>5 DEF Reached
<1> QED
  BY <1>6 DEF Traversal

LEMMA SameCalls ==
    ASSUME NEW q, AtNode(q), NEW calls, DOMAIN calls = DOMAIN stack,
           \A s \in DOMAIN calls : calls[s].node = stack[s].node /\ calls[s].path = stack[s].path
    PROVE  LeadsDown(calls)
  BY DEF AtNode, LeadsDown

\* A child that is not searched is done with.
LEMMA PassedChild ==
    ASSUME NEW q, AtNode(q), Node.kind \notin {"namespace", "other"},
           NEW calls, calls = [stack EXCEPT ![Depth].next = @ + 1]
    PROVE  LeadsDown(calls) /\ Cursor(Child + 1, calls)
<1>1. /\ DOMAIN calls = DOMAIN stack
      /\ \A s \in DOMAIN calls : calls[s].node = stack[s].node /\ calls[s].path = stack[s].path
      /\ \A n \in DOMAIN header.nodes : Waiting(calls, n) <=> Waiting(stack, n) /\ n # Child
  BY WaitingAfterChild
<1>2. \A s \in DOMAIN calls : calls[s].node < Child + 1
  <2>1. /\ Child \in Nat /\ q \in Nat /\ q <= Child /\ header \in Headers
        /\ \A s \in DOMAIN stack : stack[s].node < q /\ stack[s].node \in DOMAIN header.nodes
    BY TopTypes, ChildIsFirst, FrameNodes DEF AtNode, Cursor
  <2>2. \A s \in DOMAIN stack : stack[s].node \in Nat
    BY <2>1, NodeNumbers
  <2> QED
    BY <1>1, <2>1, <2>2
<1>3. LeadsDown(calls)
  BY <1>1, SameCalls
<1> QED
  BY <1>1, <1>2, <1>3, CursorMoves

\* A child that is searched is where the next call begins.
LEMMA SearchedChild ==
    ASSUME NEW q, AtNode(q), Node.kind \in {"namespace", "other"},
           NEW before, before = [stack EXCEPT ![Depth].next = @ + 1],
           NEW frame \in Frames, frame.node = Child, frame.next = 1,
           frame.path = Call.path \o Node.parts,
           NEW calls, calls = Append(before, frame)
    PROVE  LeadsDown(calls) /\ Cursor(Child + 1, calls)
<1>1. /\ DOMAIN before = DOMAIN stack
      /\ \A s \in DOMAIN before : before[s].node = stack[s].node /\ before[s].path = stack[s].path
      /\ \A n \in DOMAIN header.nodes : Waiting(before, n) <=> Waiting(stack, n) /\ n # Child
  BY WaitingAfterChild
<1>2. /\ Child \in DOMAIN header.nodes /\ Child \in Nat /\ q \in Nat /\ q <= Child
      /\ header \in Headers /\ Visible[Child] /\ PathOf[Child] = Call.path
      /\ \A s \in DOMAIN stack : stack[s].node < q /\ stack[s].node \in DOMAIN header.nodes
      /\ StackOK(before)
  BY TopTypes, ChildIsFirst, FrameNodes, Advance DEF AtNode, Cursor
<1>3. \A s \in DOMAIN stack : stack[s].node \in Nat
  BY <1>2, NodeNumbers
<1>4. before \in Seq(Frames)
  BY <1>2 DEF StackOK
<1>5. LeadsDown(before)
  BY <1>1, SameCalls
<1>8. /\ Len(before) \in Nat /\ DOMAIN before = 1 .. Len(before)
      /\ DOMAIN calls = 1 .. Len(before) + 1
      /\ calls[Len(before) + 1] = frame /\ \A s \in 1 .. Len(before) : calls[s] = before[s]
  BY <1>4
<1>9. \A s \in DOMAIN calls : calls[s].node < Child + 1
  BY <1>1, <1>2, <1>3, <1>8
<1>10. LeadsDown(calls)
  <2>1. ASSUME NEW s \in DOMAIN calls, NEW t \in DOMAIN calls, s < t
        PROVE  calls[s].node < calls[t].node
    <3>1. s \in DOMAIN before /\ calls[s] = before[s]
      BY <1>8, <2>1
    <3>2. CASE t \in DOMAIN before
      BY <1>5, <1>8, <2>1, <3>1, <3>2 DEF LeadsDown
    <3>3. CASE t = Len(before) + 1
      BY <1>1, <1>2, <1>3, <1>8, <3>1, <3>3
    <3> QED
      BY <1>8, <3>2, <3>3
  <2>2. ASSUME NEW s \in DOMAIN calls
        PROVE  /\ Visible[calls[s].node]
               /\ header.nodes[calls[s].node].kind \in {"namespace", "other"}
               /\ calls[s].path = PathOf[calls[s].node] \o header.nodes[calls[s].node].parts
    <3>1. CASE s \in DOMAIN before
      BY <1>5, <1>8, <3>1, ZenonT(40) DEF LeadsDown
    <3>2. CASE s = Len(before) + 1
      <4>1. calls[s] = frame
        BY <1>8, <3>2
      <4>2. frame.path = PathOf[Child] \o header.nodes[Child].parts
        BY <1>2 DEF Node
      <4>3. header.nodes[Child].kind \in {"namespace", "other"}
        BY DEF Node
      <4> QED
        BY <1>2, <4>1, <4>2, <4>3
    <3>3. s \in DOMAIN before \/ s = Len(before) + 1
      BY <1>8, <2>2
    <3> QED
      BY <3>1, <3>2, <3>3
  <2> QED
    BY <2>1, <2>2 DEF LeadsDown
<1>11. ASSUME NEW n \in DOMAIN header.nodes
       PROVE  Waiting(calls, n) <=>
                  \/ Waiting(stack, n) /\ n # Child
                  \/ Child \in Parents(n)
  <2> DEFINE Offers(call) == \E k \in DOMAIN header.nodes[call.node].children :
                                call.next <= k /\ header.nodes[call.node].children[k] = n
  <2>1. Waiting(calls, n) <=> \E s \in DOMAIN calls : Offers(calls[s])
    BY DEF Waiting
  <2>2. Waiting(before, n) <=> \E s \in DOMAIN before : Offers(before[s])
    BY DEF Waiting
  <2>3. Offers(frame) <=> Child \in Parents(n)
    <3>1. header.nodes[Child].children \in Seq(DOMAIN header.nodes)
      BY <1>2, HeaderTypes
    <3>2. \A k \in DOMAIN header.nodes[Child].children : 1 <= k
      BY <3>1
    <3> QED
      BY <1>2, <3>2 DEF Parents
  <2> HIDE DEF Offers
  <2>4. Waiting(calls, n) <=> Waiting(before, n) \/ Offers(frame)
    BY <1>8, <2>1, <2>2, SMTT(30)
  <2> QED
    BY <1>1, <2>3, <2>4
<1> QED
  BY <1>9, <1>10, <1>11, CursorMoves

LEMMA InitTraversal == Init => Traversal
  BY DEF Init, Traversal

LEMMA FailTraversal ==
    ASSUME IInv, Traversal, FailToOpen \/ FailToParse \/ RejectSyntax
    PROVE  Traversal'
<1>1. PICK kind \in DiagnosticKinds :
         /\ diags' = <<Diagnostic(kind, 1, 0)>> /\ result' = Converted(diags')
         /\ pc' = "done" /\ UNCHANGED <<header, file>> /\ pc = "open"
         /\ ~(header.readable /\ header.engine = "ready" /\ ~header.malformed)
  <2>1. header \in AllHeaders
    BY HeadersAssumption, StackPart DEF IInv
  <2>2. header.engine \in {"ready", "no_parser", "no_language", "no_tree"}
        /\ header.readable \in BOOLEAN
        /\ header.malformed \in BOOLEAN
    BY <2>1 DEF AllHeaders
  <2>3. PICK kind \in DiagnosticKinds : Fail(Diagnostic(kind, 1, 0))
    BY <2>2 DEF FailToOpen, FailToParse, RejectSyntax, DiagnosticKinds
  <2>4. pc = "open" /\ ~(header.readable /\ header.engine = "ready" /\ ~header.malformed)
    BY <2>2 DEF FailToOpen, FailToParse, RejectSyntax
  <2> QED
    BY <2>3, <2>4 DEF Fail
<1>2. diags' \in Seq(Diagnostics) /\ diags' # <<>>
  BY <1>1 DEF Diagnostic, Diagnostics
<1>3. ~result'.success
  BY <1>1, <1>2 DEF Converted
<1>4. file' = NoFile
  BY <1>1 DEF Traversal
<1>5. EntriesMatchTree'
  BY <1>3, <1>4 DEF EntriesMatchTree, EntriesMatch, NoFile
<1>6. VerdictMatchesTree'
  BY <1>1 DEF VerdictMatchesTree
<1> QED
  BY <1>1, <1>2, <1>5, <1>6 DEF Traversal

LEMMA BeginTraversal == ASSUME IInv, Traversal, BeginExtraction PROVE Traversal'
<1> DEFINE root == [node |-> 1, next |-> 1, path |-> <<>>]
<1>1. /\ stack' = <<root>> /\ pc' = "visit" /\ UNCHANGED <<header, file, diags>>
      /\ file = NoFile /\ diags = <<>>
  BY DEF BeginExtraction, Traversal
<1>2. /\ header \in Headers /\ 1 \in DOMAIN header.nodes
      /\ header.nodes[1].kind = "other" /\ header.nodes[1].parts = <<>>
      /\ \A n \in DOMAIN header.nodes : n \in Nat \ {0}
  <2>1. header \in Headers
    BY StackPart DEF IInv
  <2>2. TreeIsWellFormed(header.nodes)
    BY <2>1, HeadersAssumption
  <2> QED
    BY <2>1, <2>2, HeaderTypes DEF TreeIsWellFormed
<1>3. /\ DOMAIN stack' = {1} /\ stack'[1] = root
      /\ root.node = 1 /\ root.next = 1 /\ root.path = <<>>
  BY <1>1
<1> HIDE DEF root
<1>4. LeadsDown(stack')
  <2>1. Visible[1] /\ PathOf[1] = <<>>
    BY <1>2, VisibleUnfolds, PathUnfolds
  <2>2. PathOf[1] \o header.nodes[1].parts = <<>>
    BY <1>2, <2>1
  <2> QED
    BY <1>2, <1>3, <2>1, <2>2 DEF LeadsDown
<1>5. ASSUME NEW n \in DOMAIN header.nodes PROVE Waiting(stack', n) <=> 1 \in Parents(n)
  <2>1. \A k \in DOMAIN header.nodes[1].children : 1 <= k
    BY <1>2, HeaderTypes
  <2> QED
    BY <1>2, <1>3, <2>1 DEF Waiting, Parents
<1>6. Cursor(2, stack')
  <2>1. ASSUME NEW n \in DOMAIN header.nodes, 1 \in Parents(n) PROVE 2 <= n
    BY <1>2, <2>1, ParentsBefore
  <2>2. ASSUME NEW n \in DOMAIN header.nodes, Visible[n], 2 <= n
        PROVE  Waiting(stack', n) \/ \E p \in Parents(n) : 2 <= p
    <3>1. PICK p \in Parents(n) : Visible[p]
      BY <1>2, <2>2, VisibleUnfolds
    <3>2. p \in DOMAIN header.nodes /\ p \in Nat \ {0}
      BY <1>2, <3>1, ParentsBefore
    <3> QED
      BY <1>5, <3>1, <3>2
  <2> QED
    BY <1>3, <1>5, <2>1, <2>2 DEF Cursor
<1>7. ASSUME NEW kind \in {"struct", "enum", "alias"} PROVE EntriesUpTo(2, <<>>, kind)
  <2>1. \A n \in Extractable(kind) : ~(n < 2)
    BY <1>2 DEF Extractable
  <2> QED
    BY <2>1 DEF EntriesUpTo, EntriesMatch, Positions
<1>8. Reports(<<>>, OffencesBefore(2, 0))
  <2>1. ASSUME NEW o \in Offences PROVE ~Before(o, 2, 0)
    <3>1. o[1] \in Extractable("struct") /\ o[2] \in Nat
      BY <1>2, OffenceFacts
    <3>2. o[1] \in DOMAIN header.nodes /\ o[1] # 1
      BY <1>2, <3>1 DEF Extractable
    <3> QED
      BY <1>2, <3>1, <3>2 DEF Before
  <2> QED
    BY <2>1 DEF Reports, OffencesBefore
<1>9. /\ file'.declarations = <<>> /\ file'.enums = <<>> /\ file'.aliases = <<>>
      /\ diags' = <<>> /\ diags' \in Seq(Diagnostics)
  BY <1>1 DEF NoFile
<1> QED
  BY <1>1, <1>4, <1>6, <1>7, <1>8, <1>9, Arrived

LEMMA Frame ==
    ASSUME IInv, AtChild
    PROVE  [node |-> Child, next |-> 1, path |-> Call.path \o Node.parts] \in Frames
<1>1. Call.path \in Seq(Names) /\ Node.parts \in Seq(Names)
  BY ChildFacts DEF Frames, Nodes
<1>2. Call.path \o Node.parts \in Seq(Names)
  BY <1>1
<1> QED
  BY <1>2, ChildFacts DEF Frames

\* The cursor behind the child, as a number that does not move with the state.
LEMMA BehindChild ==
    ASSUME NEW q, AtNode(q) PROVE \E r \in Nat : r = Child + 1
  BY TopTypes DEF AtNode

LEMMA DescendTraversal == ASSUME IInv, Traversal, Descend PROVE Traversal'
<1>1. /\ AtChild /\ pc = "visit" /\ Node.kind \in {"namespace", "other"}
      /\ stack' = Append([stack EXCEPT ![Depth].next = @ + 1],
                         [node |-> Child, next |-> 1, path |-> Call.path \o Node.parts])
      /\ UNCHANGED <<header, file, diags, pc>>
  BY DEF Descend, AtChild
<1>2. PICK q \in Nat : Reached(q)
  BY <1>1 DEF Traversal
<1>3. AtNode(q)
  BY <1>1, <1>2, AtTheChild
<1>4. PICK r \in Nat : r = Child + 1
  BY <1>3, BehindChild
<1>5. LeadsDown(stack') /\ Cursor(r, stack')
  BY <1>1, <1>3, <1>4, Frame, SearchedChild
<1>6. FileUpTo(q) /\ Reports(diags, OffencesBefore(q, 0))
  BY <1>1, <1>2 DEF Reached, DiagsUpTo
<1>7. /\ EntriesUpTo(r, file.declarations, "struct")
      /\ EntriesUpTo(r, file.enums, "enum")
      /\ EntriesUpTo(r, file.aliases, "alias")
  BY <1>1, <1>3, <1>4, <1>6, NoEntry DEF FileUpTo
<1>8. Reports(diags, OffencesBefore(r, 0))
  BY <1>1, <1>3, <1>4, <1>6, NoOffences
<1> QED
  BY <1>1, <1>5, <1>7, <1>8, Arrived DEF Traversal

LEMMA SkipTraversal == ASSUME IInv, Traversal, SkipNameless PROVE Traversal'
<1>1. /\ AtChild /\ pc = "visit" /\ Node.kind \in {"enum", "alias", "struct"}
      /\ Node.name = NoName /\ stack' = [stack EXCEPT ![Depth].next = @ + 1]
      /\ UNCHANGED <<header, file, diags, pc>>
  BY DEF SkipNameless, NextChild, AtChild
<1>2. PICK q \in Nat : Reached(q)
  BY <1>1 DEF Traversal
<1>3. AtNode(q)
  BY <1>1, <1>2, AtTheChild
<1>4. PICK r \in Nat : r = Child + 1
  BY <1>3, BehindChild
<1>5. LeadsDown(stack') /\ Cursor(r, stack')
  BY <1>1, <1>3, <1>4, PassedChild
<1>6. FileUpTo(q) /\ Reports(diags, OffencesBefore(q, 0))
  BY <1>1, <1>2 DEF Reached, DiagsUpTo
<1>7. /\ EntriesUpTo(r, file.declarations, "struct")
      /\ EntriesUpTo(r, file.enums, "enum")
      /\ EntriesUpTo(r, file.aliases, "alias")
  BY <1>1, <1>3, <1>4, <1>6, NoEntry DEF FileUpTo
<1>8. Reports(diags, OffencesBefore(r, 0))
  BY <1>1, <1>3, <1>4, <1>6, NoOffences
<1> QED
  BY <1>1, <1>5, <1>7, <1>8, Arrived DEF Traversal

LEMMA EntryTraversal == ASSUME IInv, Traversal, ExtractEnum \/ ExtractAlias PROVE Traversal'
<1>1. /\ AtChild /\ pc = "visit" /\ Node.name # NoName
      /\ stack' = [stack EXCEPT ![Depth].next = @ + 1]
      /\ UNCHANGED <<header, diags, pc>>
      /\ \/ Node.kind = "enum" /\ file' = [file EXCEPT !.enums = Append(@, Entry)]
         \/ Node.kind = "alias" /\ file' = [file EXCEPT !.aliases = Append(@, Entry)]
  BY DEF ExtractEnum, ExtractAlias, NextChild, AtChild
<1>2. PICK q \in Nat : Reached(q)
  BY <1>1 DEF Traversal
<1>3. AtNode(q)
  BY <1>1, <1>2, AtTheChild
<1>4. PICK r \in Nat : r = Child + 1
  BY <1>3, BehindChild
<1>5. LeadsDown(stack') /\ Cursor(r, stack')
  BY <1>1, <1>3, <1>4, PassedChild
<1>6. FileUpTo(q) /\ Reports(diags, OffencesBefore(q, 0))
  BY <1>1, <1>2 DEF Reached, DiagsUpTo
<1>7. /\ file.enums \in Seq(Entries) /\ file.aliases \in Seq(Entries)
      /\ file \in [declarations : Seq(Declarations), enums : Seq(Entries), aliases : Seq(Entries)]
      /\ Entry \in Entries /\ Entry.at = Child /\ Entry.path = Call.path
  BY <1>1, EntryTypes DEF IInv, TypeOK, Entry
<1>8. EntriesUpTo(r, file'.declarations, "struct")
  <2>1. file'.declarations = file.declarations
    BY <1>1, <1>7
  <2> QED
    BY <1>1, <1>3, <1>4, <1>6, <2>1, NoEntry DEF FileUpTo
<1>9. EntriesUpTo(r, file'.enums, "enum") /\ EntriesUpTo(r, file'.aliases, "alias")
  <2>1. CASE Node.kind = "enum" /\ file' = [file EXCEPT !.enums = Append(@, Entry)]
    <3>1. file'.enums = Append(file.enums, Entry) /\ file'.aliases = file.aliases
      BY <1>7, <2>1
    <3>2. EntriesUpTo(r, file.aliases, "alias")
      BY <1>3, <1>4, <1>6, <2>1, NoEntry DEF FileUpTo
    <3>3. EntriesUpTo(q, file.enums, "enum")
      BY <1>6 DEF FileUpTo
    <3>4. EntriesUpTo(r, Append(file.enums, Entry), "enum")
      BY <1>1, <1>3, <1>4, <1>7, <2>1, <3>3, OneEntry
    <3> QED
      BY <3>1, <3>2, <3>4
  <2>2. CASE Node.kind = "alias" /\ file' = [file EXCEPT !.aliases = Append(@, Entry)]
    <3>1. file'.aliases = Append(file.aliases, Entry) /\ file'.enums = file.enums
      BY <1>7, <2>2
    <3>2. EntriesUpTo(r, file.enums, "enum")
      BY <1>3, <1>4, <1>6, <2>2, NoEntry DEF FileUpTo
    <3>3. EntriesUpTo(q, file.aliases, "alias")
      BY <1>6 DEF FileUpTo
    <3>4. EntriesUpTo(r, Append(file.aliases, Entry), "alias")
      BY <1>1, <1>3, <1>4, <1>7, <2>2, <3>3, OneEntry
    <3> QED
      BY <3>1, <3>2, <3>4
  <2> QED
    BY <1>1, <2>1, <2>2
<1>10. Reports(diags, OffencesBefore(r, 0))
  BY <1>1, <1>3, <1>4, <1>6, NoOffences
<1> QED
  BY <1>1, <1>5, <1>8, <1>9, <1>10, Arrived DEF Traversal

\* A struct is being walked, and only its members move on.
LEMMA Walking ==
    ASSUME UNCHANGED <<header, stack, file>>, pc' = "fields",
           NEW q \in Nat, Reached(q), Node.kind = "struct",
           diags' \in Seq(Diagnostics), Reports(diags', OffencesBefore(Child, m'))
    PROVE  Traversal'
<1>1. Child' = Child /\ Node' = Node
  BY DEF Child, Node, Children, Call, Depth
<1>2. LeadsDown(stack)'
  BY SameTree DEF Reached, LeadsDown
<1>3. Cursor(q, stack)'
  BY SameTree DEF Reached, Cursor, Waiting
<1>4. FileUpTo(q)'
  BY SameTree DEF Reached, FileUpTo, EntriesUpTo, EntriesMatch, Positions
<1>5. OffencesBefore(Child, m)' = OffencesBefore(Child, m')
  BY <1>1, SameTree DEF OffencesBefore, Before
<1>6. DiagsUpTo(q)'
  BY <1>5 DEF DiagsUpTo, Reports, Precedes
<1>7. Reached(q)'
  BY <1>1, <1>2, <1>3, <1>4, <1>6 DEF Reached
<1> QED
  BY <1>7 DEF Traversal

LEMMA OpenStructTraversal == ASSUME IInv, Traversal, OpenStruct PROVE Traversal'
<1>1. /\ AtChild /\ pc = "visit" /\ Node.kind = "struct" /\ m' = 1 /\ pc' = "fields"
      /\ UNCHANGED <<header, stack, file, diags>>
  BY DEF OpenStruct, AtChild
<1>2. PICK q \in Nat : Reached(q)
  BY <1>1 DEF Traversal
<1>3. AtNode(q)
  BY <1>1, <1>2, AtTheChild
<1>4. Reports(diags, OffencesBefore(Child, 1))
  BY <1>1, <1>2, <1>3, FirstMember DEF Reached, DiagsUpTo
<1> QED
  BY <1>1, <1>2, <1>4, Walking DEF Traversal

\* A member that need not be refused is passed.
LEMMA MemberPassed ==
    ASSUME IInv, Traversal, AtMember, NextMember, UNCHANGED diags,
           ~MustRefuse(Node.members, m)
    PROVE  Traversal'
<1>1. /\ pc = "fields" /\ m <= Len(Node.members) /\ m' = m + 1
      /\ UNCHANGED <<header, stack, file, pc, diags>>
  BY DEF AtMember, NextMember
<1>2. PICK q \in Nat : Reached(q)
  BY <1>1 DEF Traversal
<1>3. AtNode(q) /\ Node.kind = "struct" /\ Node.name # NoName
  BY <1>1, <1>2, AtTheChild DEF Reached, IInv, TypeOK
<1>4. m \in DOMAIN Node.members
  BY <1>1, MemberFacts
<1>5. OffencesBefore(Child, m + 1) = OffencesBefore(Child, m)
  BY <1>3, <1>4, OneMember
<1>6. Reports(diags, OffencesBefore(Child, m))
  BY <1>1, <1>2 DEF Reached, DiagsUpTo
<1> QED
  BY <1>1, <1>2, <1>3, <1>5, <1>6, Walking DEF Traversal

\* A member that has to be refused is reported.
LEMMA MemberRefused ==
    ASSUME IInv, Traversal, AtMember, NextMember, MustRefuse(Node.members, m),
           NEW kind \in DiagnosticKinds, diags' = Append(diags, Diagnostic(kind, Child, m))
    PROVE  Traversal'
<1>1. /\ pc = "fields" /\ m <= Len(Node.members) /\ m' = m + 1
      /\ UNCHANGED <<header, stack, file, pc>>
  BY DEF AtMember, NextMember
<1>2. PICK q \in Nat : Reached(q)
  BY <1>1 DEF Traversal
<1>3. AtNode(q) /\ Node.kind = "struct" /\ Node.name # NoName
  BY <1>1, <1>2, AtTheChild DEF Reached, IInv, TypeOK
<1>4. m \in DOMAIN Node.members /\ m \in Nat /\ Child \in Nat
  BY <1>1, MemberFacts
<1>5. OffencesBefore(Child, m + 1) = OffencesBefore(Child, m) \cup {<<Child, m>>}
  BY <1>3, <1>4, OneMember
<1>6. Reports(diags, OffencesBefore(Child, m)) /\ diags \in Seq(Diagnostics)
  BY <1>1, <1>2 DEF Reached, DiagsUpTo, Traversal
<1> DEFINE d == Diagnostic(kind, Child, m)
<1>7. d \in Diagnostics /\ d.node = Child /\ d.member = m
  BY <1>4 DEF Diagnostic, Diagnostics
<1> HIDE DEF d
<1>8. \A o \in OffencesBefore(Child, m) : Before(o, d.node, d.member)
  BY <1>7 DEF OffencesBefore
<1>9. Reports(Append(diags, d), OffencesBefore(Child, m) \cup {<<d.node, d.member>>})
  BY <1>6, <1>7, <1>8, OneReport
<1>10. diags' = Append(diags, d) /\ diags' \in Seq(Diagnostics)
  BY <1>6, <1>7 DEF d
<1>11. Reports(diags', OffencesBefore(Child, m + 1))
  BY <1>5, <1>7, <1>9, <1>10
<1> QED
  BY <1>1, <1>2, <1>3, <1>10, <1>11, Walking

LEMMA MemberTraversal ==
    ASSUME IInv, Traversal,
           \/ RejectDeclaration \/ RejectPreprocessor \/ SkipMember
           \/ RefuseField \/ SkipUnnamed \/ ExtractField
    PROVE  Traversal'
<1>1. AtMember /\ NextMember
  BY DEF RejectDeclaration, RejectPreprocessor, SkipMember, RefuseField, SkipUnnamed, ExtractField
<1>2. Unsupported(Member) \in {"static", "function", "multiple", "none"}
  BY DEF Unsupported
<1>3. CASE RejectDeclaration
  <2>1. MustRefuse(Node.members, m)
    BY <1>3 DEF RejectDeclaration, MustRefuse, Member
  <2> QED
    BY <1>1, <1>3, <2>1, MemberRefused DEF RejectDeclaration, Report, DiagnosticKinds
<1>4. CASE RejectPreprocessor
  <2>1. MustRefuse(Node.members, m)
    BY <1>4 DEF RejectPreprocessor, MustRefuse, Member
  <2> QED
    BY <1>1, <1>4, <2>1, MemberRefused DEF RejectPreprocessor, Report, DiagnosticKinds
<1>5. CASE SkipMember
  <2>1. ~MustRefuse(Node.members, m)
    BY <1>5 DEF SkipMember, MustRefuse, Member
  <2> QED
    BY <1>1, <1>5, <2>1, MemberPassed DEF SkipMember
<1>6. CASE RefuseField
  <2>1. CASE Managed(Node.members, m)
    <3>1. MustRefuse(Node.members, m)
      BY <1>6, <2>1 DEF RefuseField, MustRefuse, Member
    <3>2. Unsupported(Member) \in DiagnosticKinds
      BY <1>2, <1>6 DEF RefuseField, DiagnosticKinds
    <3> QED
      BY <1>1, <1>6, <2>1, <3>1, <3>2, MemberRefused DEF RefuseField, Report
  <2>2. CASE ~Managed(Node.members, m)
    <3>1. ~MustRefuse(Node.members, m)
      BY <1>6, <2>2 DEF RefuseField, MustRefuse, Member
    <3> QED
      BY <1>1, <1>6, <2>2, <3>1, MemberPassed DEF RefuseField
  <2> QED
    BY <2>1, <2>2
<1>7. CASE SkipUnnamed \/ ExtractField
  <2>1. ~MustRefuse(Node.members, m)
    BY <1>7 DEF SkipUnnamed, ExtractField, MustRefuse, Member
  <2> QED
    BY <1>1, <1>7, <2>1, MemberPassed DEF SkipUnnamed, ExtractField
<1> QED
  BY <1>3, <1>4, <1>5, <1>6, <1>7

LEMMA CloseStructTraversal == ASSUME IInv, Traversal, CloseStruct PROVE Traversal'
<1> DEFINE declaration == [name |-> Node.name, path |-> Call.path, at |-> Child,
                           fields |-> fields]
<1>1. /\ pc = "fields" /\ m > Len(Node.members) /\ pc' = "visit"
      /\ stack' = [stack EXCEPT ![Depth].next = @ + 1]
      /\ UNCHANGED <<header, diags>>
      /\ file' = [file EXCEPT !.declarations = Append(@, declaration)]
  BY DEF CloseStruct, NextChild
<1>2. PICK q \in Nat : Reached(q)
  BY <1>1 DEF Traversal
<1>3. AtNode(q) /\ Node.kind = "struct" /\ Node.name # NoName
  BY <1>1, <1>2, AtTheChild DEF Reached, IInv, TypeOK
<1>4. PICK r \in Nat : r = Child + 1
  BY <1>3, BehindChild
<1>5. LeadsDown(stack') /\ Cursor(r, stack')
  BY <1>1, <1>3, <1>4, PassedChild
<1>6. FileUpTo(q) /\ Reports(diags, OffencesBefore(Child, m))
  BY <1>1, <1>2 DEF Reached, DiagsUpTo
<1>7. /\ Call \in Frames /\ Child \in Nat /\ Node.name \in Names /\ m \in Nat
      /\ file \in [declarations : Seq(Declarations), enums : Seq(Entries), aliases : Seq(Entries)]
      /\ fields \in Seq(Fields)
  BY <1>1, MemberFacts DEF IInv, TypeOK
<1>8. declaration \in Declarations /\ declaration.at = Child /\ declaration.path = Call.path
  BY <1>7 DEF Declarations, Frames
<1>9. /\ file.declarations \in Seq(Declarations)
      /\ file'.declarations = Append(file.declarations, declaration)
      /\ file'.enums = file.enums /\ file'.aliases = file.aliases
  BY <1>1, <1>7
<1> HIDE DEF declaration
<1>10. EntriesUpTo(r, file'.declarations, "struct")
  <2>1. EntriesUpTo(q, file.declarations, "struct")
    BY <1>6 DEF FileUpTo
  <2> QED
    BY <1>3, <1>4, <1>8, <1>9, <2>1, OneEntry
<1>11. EntriesUpTo(r, file'.enums, "enum") /\ EntriesUpTo(r, file'.aliases, "alias")
  BY <1>3, <1>4, <1>6, <1>9, NoEntry DEF FileUpTo
<1>12. Reports(diags, OffencesBefore(r, 0))
  BY <1>1, <1>3, <1>4, <1>6, <1>7, LastMember
<1> QED
  BY <1>1, <1>5, <1>10, <1>11, <1>12, Arrived DEF Traversal

\* A call that has seen all its children returns: nothing waits for it.
LEMMA LeaveTraversal == ASSUME IInv, Traversal, LeaveNode PROVE Traversal'
<1>1. /\ pc = "visit" /\ stack # <<>> /\ Call.next > Len(Children)
      /\ stack' = SubSeq(stack, 1, Depth - 1) /\ UNCHANGED <<header, file, diags, pc>>
  BY DEF LeaveNode
<1>2. PICK q \in Nat : Reached(q)
  BY <1>1 DEF Traversal
<1>3. header \in Headers /\ StackOK(stack)
  BY StackPart DEF IInv
<1>4. stack \in Seq(Frames) /\ Len(stack) \in Nat /\ Len(stack) > 0
  BY <1>1, <1>3 DEF StackOK
<1>5. /\ DOMAIN stack = 1 .. Len(stack) /\ DOMAIN stack' = 1 .. Len(stack) - 1
      /\ \A s \in 1 .. Len(stack) - 1 : stack'[s] = stack[s] /\ s \in DOMAIN stack
  BY <1>1, <1>4 DEF Depth
<1>6. ASSUME NEW n \in DOMAIN header.nodes PROVE Waiting(stack', n) <=> Waiting(stack, n)
  <2> DEFINE Offers(call) == \E k \in DOMAIN header.nodes[call.node].children :
                                call.next <= k /\ header.nodes[call.node].children[k] = n
  <2>1. /\ Waiting(stack', n) <=> \E s \in DOMAIN stack' : Offers(stack'[s])
        /\ Waiting(stack, n) <=> \E s \in DOMAIN stack : Offers(stack[s])
    BY DEF Waiting
  <2>2. ~Offers(stack[Len(stack)])
    <3>1. Call.node \in DOMAIN header.nodes /\ Call.next \in Nat
      <4>1. Depth \in DOMAIN stack
        BY <1>4, <1>5 DEF Depth
      <4>2. Call \in Frames
        BY <1>3, <4>1, FrameNodes DEF Call
      <4> QED
        BY <4>2 DEF Frames
    <3>2. Children \in Seq(DOMAIN header.nodes)
      BY <1>3, <3>1, HeaderTypes DEF Children
    <3>3. \A k \in DOMAIN Children : ~(Call.next <= k)
      BY <1>1, <3>1, <3>2
    <3> QED
      BY <3>3 DEF Children, Call, Depth
  <2> HIDE DEF Offers
  <2> QED
    BY <1>4, <1>5, <2>1, <2>2
<1>7. LeadsDown(stack')
  BY <1>2, <1>5 DEF Reached, LeadsDown
<1>8. Cursor(q, stack')
  BY <1>2, <1>5, <1>6 DEF Reached, Cursor
<1> QED
  BY <1>1, <1>2, <1>7, <1>8, Arrived DEF Reached, FileUpTo, DiagsUpTo, Traversal

\* Nothing is left when the last call returned: everything visible was passed.
LEMMA FinishTraversal == ASSUME IInv, Traversal, Finish PROVE Traversal'
<1>1. /\ pc = "visit" /\ stack = <<>> /\ result' = Converted(diags) /\ pc' = "done"
      /\ UNCHANGED <<header, file, diags>>
  BY DEF Finish
<1>2. PICK q \in Nat : Reached(q)
  BY <1>1 DEF Traversal
<1>3. header \in Headers /\ header.nodes \in Seq(Nodes) /\ Len(header.nodes) \in Nat
  BY StackPart, HeaderTypes DEF IInv
<1>4. Cursor(q, stack) /\ FileUpTo(q) /\ Reports(diags, OffencesBefore(q, 0))
  BY <1>1, <1>2 DEF Reached, DiagsUpTo
<1>5. ASSUME NEW n \in DOMAIN header.nodes, Visible[n] PROVE n < q
  <2>1. \A j \in DOMAIN header.nodes : Waiting(stack, j) => Len(header.nodes) + 1 <= j
    BY <1>1 DEF Waiting
  <2>2. q <= n => Len(header.nodes) + 1 <= n
    <3>1. Len(header.nodes) + 1 \in Nat
      BY <1>3
    <3> QED
      BY <1>3, <1>4, <1>5, <2>1, <3>1, NothingBetween
  <2> QED
    BY <1>3, <2>2
<1>6. \A kind : {n \in Extractable(kind) : n < q} = Extractable(kind)
  BY <1>5 DEF Extractable
<1>7. OffencesBefore(q, 0) = Offences
  <2>1. ASSUME NEW o \in Offences PROVE o[1] < q
    <3>1. o[1] \in Extractable("struct")
      BY <1>3, OffenceFacts
    <3> QED
      BY <1>5, <3>1 DEF Extractable
  <2> QED
    BY <2>1 DEF OffencesBefore, Before
<1>8. EntriesMatchTree'
  <2>1. /\ EntriesMatch(file.declarations) /\ Positions(file.declarations) = Extractable("struct")
        /\ EntriesMatch(file.enums) /\ Positions(file.enums) = Extractable("enum")
        /\ EntriesMatch(file.aliases) /\ Positions(file.aliases) = Extractable("alias")
    BY <1>4, <1>6 DEF FileUpTo, EntriesUpTo
  <2> QED
    BY <1>1, <2>1, SameTree DEF EntriesMatchTree, EntriesMatch, Positions
<1>9. diags \in Seq(Diagnostics) /\ Reports(diags, Offences)
  BY <1>4, <1>7 DEF Traversal
<1>10. result'.success <=> Offences = {}
  <2>1. CASE diags = <<>>
    <3>1. Offences = {}
      BY <1>9, <2>1 DEF Reports
    <3> QED
      BY <1>1, <2>1, <3>1 DEF Converted
  <2>2. CASE diags # <<>>
    <3>1. 1 \in DOMAIN diags
      BY <1>9, <2>2
    <3>2. Offences # {}
      BY <1>9, <3>1 DEF Reports
    <3> QED
      BY <1>1, <2>2, <3>2 DEF Converted
  <2> QED
    BY <2>1, <2>2
<1>11. ASSUME NEW e \in result'.error
       PROVE  /\ <<e.node, e.member>> \in Offences
              /\ \A o \in Offences : e.node < o[1] \/ (e.node = o[1] /\ e.member <= o[2])
  <2>1. diags # <<>> /\ e = diags[1]
    BY <1>1, <1>11 DEF Converted
  <2>2. DOMAIN diags = 1 .. Len(diags) /\ Len(diags) \in Nat /\ 1 \in DOMAIN diags
    BY <1>9, <2>1
  <2>3. ASSUME NEW o \in Offences
        PROVE  e.node < o[1] \/ (e.node = o[1] /\ e.member <= o[2])
    <3>1. PICK i \in DOMAIN diags : o = <<diags[i].node, diags[i].member>>
      BY <1>9 DEF Reports
    <3>2. o[1] = diags[i].node /\ o[2] = diags[i].member
      BY <3>1
    <3>3. diags[i] \in Diagnostics
      BY <1>9, <3>1
    <3>4. CASE i = 1
      BY <2>1, <3>2, <3>3, <3>4 DEF Diagnostics
    <3>5. CASE i # 1
      <4>1. 1 < i
        BY <2>2, <3>1, <3>5
      <4>2. Precedes(diags[1], diags[i])
        BY <1>9, <2>2, <3>1, <4>1 DEF Reports
      <4>3. diags[1] \in Diagnostics
        BY <1>9, <2>2
      <4> QED
        BY <2>1, <3>2, <3>3, <4>2, <4>3 DEF Precedes, Diagnostics
    <3> QED
      BY <3>4, <3>5
  <2> QED
    BY <1>9, <2>1, <2>2, <2>3 DEF Reports
<1>12. VerdictMatchesTree'
  BY <1>1, <1>10, <1>11, SameTree DEF VerdictMatchesTree
<1> QED
  BY <1>1, <1>8, <1>9, <1>12 DEF Traversal

LEMMA StutterTraversal == ASSUME Traversal, UNCHANGED vars PROVE Traversal'
<1>1. UNCHANGED <<header, stack, m, fields, file, diags, result, pc>>
  BY DEF vars
<1>2. /\ Child' = Child /\ Node' = Node
  BY <1>1 DEF Child, Node, Children, Call, Depth
<1>3. /\ EntriesMatchTree' <=> EntriesMatchTree
      /\ VerdictMatchesTree' <=> VerdictMatchesTree
  BY <1>1, SameTree DEF EntriesMatchTree, VerdictMatchesTree, EntriesMatch, Positions
<1>4. OffencesBefore(Child, m)' = OffencesBefore(Child, m)
  BY <1>1, <1>2, SameTree DEF OffencesBefore, Before
<1>5. ASSUME NEW q \in Nat, Reached(q) PROVE Reached(q)'
  <2>1. LeadsDown(stack)'
    BY <1>1, <1>5, SameTree DEF Reached, LeadsDown
  <2>2. Cursor(q, stack)'
    BY <1>1, <1>5, SameTree DEF Reached, Cursor, Waiting
  <2>3. FileUpTo(q)'
    BY <1>1, <1>5, SameTree DEF Reached, FileUpTo, EntriesUpTo, EntriesMatch, Positions
  <2>4. OffencesBefore(q, 0)' = OffencesBefore(q, 0)
    BY <1>1, SameTree DEF OffencesBefore
  <2>5. DiagsUpTo(q)'
    BY <1>1, <1>4, <1>5, <2>4 DEF Reached, DiagsUpTo, Reports, Precedes
  <2> QED
    BY <1>1, <1>2, <1>5, <2>1, <2>2, <2>3, <2>5 DEF Reached
<1> QED
  BY <1>1, <1>3, <1>5 DEF Traversal

LEMMA NextTraversal == IInv /\ Traversal /\ [Next]_vars => Traversal'
<1> SUFFICES ASSUME IInv, Traversal, [Next]_vars PROVE Traversal'
  OBVIOUS
<1>1. CASE Returned \/ UNCHANGED vars
  BY <1>1, StutterTraversal DEF Returned
<1> QED
  BY <1>1, FailTraversal, BeginTraversal, DescendTraversal, SkipTraversal, EntryTraversal,
     OpenStructTraversal, MemberTraversal, CloseStructTraversal, LeaveTraversal,
     FinishTraversal DEF Next

LEMMA TraversalHolds == Spec => []Traversal
<1> QED
  BY InitTraversal, NextTraversal, Invariance, PTL DEF Spec

\* At every moment the file holds the structs, enums and aliases met so far,
\* each with the namespaces that really enclose it, in document order; when a
\* header is accepted none is left out and none is there twice.
THEOREM EntriesAreTheTree == Spec => []EntriesMatchTree
<1>1. ASSUME IInv, Traversal PROVE EntriesMatchTree
  <2>1. CASE pc = "open"
    BY <1>1, <2>1 DEF Traversal, EntriesMatchTree, EntriesMatch, NoFile
  <2>2. CASE pc \in {"visit", "fields"}
    <3>1. PICK q \in Nat : FileUpTo(q)
      BY <1>1, <2>2 DEF Traversal, Reached
    <3> QED
      BY <2>2, <3>1 DEF FileUpTo, EntriesUpTo, EntriesMatchTree
  <2>3. CASE pc = "done"
    BY <1>1, <2>3 DEF Traversal
  <2> QED
    BY <1>1, <2>1, <2>2, <2>3 DEF IInv, TypeOK
<1> QED
  BY <1>1, Invariance, TraversalHolds, PTL

\* A header that was parsed is refused exactly when a managed member of a form
\* that is not supported is anywhere in it, and the error is the first one.
THEOREM VerdictIsExact == Spec => []VerdictMatchesTree
<1>1. Traversal => VerdictMatchesTree
  BY DEF Traversal, VerdictMatchesTree
<1> QED
  BY <1>1, TraversalHolds, PTL
=============================================================================
