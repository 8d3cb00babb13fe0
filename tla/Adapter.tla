------------------------------ MODULE Adapter ------------------------------
(***************************************************************************)
(* The frontend: parse_source_file of parser/parser.cpp and the traversal  *)
(* of tree_sitter/adapter.cpp that turns a Tree-sitter tree into the       *)
(* syntax structures of a header, or into diagnostics.                     *)
(*                                                                         *)
(* A tree is a flat array of nodes in document order, node 1 the root.     *)
(* The recursion of extract_declarations is a stack of the nodes whose     *)
(* children are being visited, each with the namespace path it was called  *)
(* with; a struct is then walked member by member.  A location is the      *)
(* node, and the member of it, that a line and column would point at.      *)
(***************************************************************************)
EXTENDS Integers, Sequences

CONSTANTS
    Names,      \* identifiers
    Headers     \* the headers parse_source_file may be called with

NodeKinds == {"namespace", "enum", "alias", "struct", "other"}
MemberKinds == {"field", "declaration", "preproc", "comment", "other"}

\* A named child of a struct body.  declared: the names of a field, direct
\* when the name is a child of the field itself and not below a pointer, array
\* or reference declarator.  json: a comment with "json:" in it, or any node
\* with such a comment below it.  place: where a comment starts, seen from the
\* end of the member before it.
Members ==
    [kind : MemberKinds, declared : Seq([name : Names, direct : BOOLEAN]),
     static : BOOLEAN, function : BOOLEAN, json : BOOLEAN,
     place : {"spaced", "adjoining", "below"}]

\* What a node without a name has instead of one.
NoName == ""

\* parts: the names a namespace adds to the path.
Nodes ==
    [kind : NodeKinds, name : Names \cup {NoName}, parts : Seq(Names),
     children : Seq(Nat), members : Seq(Members)]

\* engine: what stops Tree-sitter before it has a tree, or "ready".
AllHeaders ==
    [readable : BOOLEAN, engine : {"ready", "no_parser", "no_language", "no_tree"},
     malformed : BOOLEAN, nodes : Seq(Nodes)]

\* Every node but the root is the child of one earlier node, children come in
\* document order, and a node between a node and its child is below that node.
\* Only a namespace has names to add to the path.
TreeIsWellFormed(nodes) ==
    /\ nodes # <<>> /\ nodes[1].kind = "other"
    /\ \A n \in DOMAIN nodes : nodes[n].kind # "namespace" => nodes[n].parts = <<>>
    /\ \A n \in DOMAIN nodes : \A c \in DOMAIN nodes[n].children :
          /\ nodes[n].children[c] \in n + 1 .. Len(nodes)
          /\ \A b \in 1 .. c - 1 : nodes[n].children[b] < nodes[n].children[c]
    /\ \A m \in 2 .. Len(nodes) :
          \E n \in 1 .. m - 1 : \E c \in DOMAIN nodes[n].children :
              /\ nodes[n].children[c] = m
              /\ \A q \in DOMAIN nodes : \A b \in DOMAIN nodes[q].children :
                    nodes[q].children[b] = m => q = n
    /\ \A n, p \in DOMAIN nodes :
          \A c \in DOMAIN nodes[n].children : \A b \in DOMAIN nodes[p].children :
              n < nodes[p].children[b] /\ nodes[p].children[b] < nodes[n].children[c] => n <= p

ASSUME HeadersAssumption ==
    \A header \in Headers : header \in AllHeaders /\ TreeIsWellFormed(header.nodes)

VARIABLES
    header,  \* the file at the given path
    stack,   \* the running extract_declarations calls: [node, next, path]
    m,       \* the member looked at, while a struct is walked
    fields,  \* declaration.fields of that struct
    file,    \* result.file
    diags,   \* the diagnostics
    result,  \* what parse_source_file returned: success, and its one error
    pc       \* "open", "visit", "fields" or "done"

vars == <<header, stack, m, fields, file, diags, result, pc>>

NoFile == [declarations |-> <<>>, enums |-> <<>>, aliases |-> <<>>]

Diagnostic(kind, n, k) == [kind |-> kind, node |-> n, member |-> k]

\* convert_tree_sitter_result keeps the first diagnostic.
NoResult == [success |-> FALSE, error |-> {}]
\* Mutation of Converted: the last diagnostic is kept.
ConvertedLast(list) ==
    [success |-> list = <<>>, error |-> IF list = <<>> THEN {} ELSE {list[Len(list)]}]

Converted(list) ==
    [success |-> list = <<>>, error |-> IF list = <<>> THEN {} ELSE {list[1]}]

-----------------------------------------------------------------------------

Init ==
    /\ header \in Headers
    /\ stack = <<>> /\ m = 1 /\ fields = <<>>
    /\ file = NoFile
    /\ diags = <<>>
    /\ result = NoResult
    /\ pc = "open"

Fail(diagnostic) ==
    /\ diags' = <<diagnostic>>
    /\ result' = Converted(diags')
    /\ pc' = "done"
    /\ UNCHANGED <<header, stack, m, fields, file>>

FailToOpen ==
    /\ pc = "open"
    /\ ~header.readable
    /\ Fail(Diagnostic("not_opened", 1, 0))

FailToParse ==
    /\ pc = "open"
    /\ header.readable /\ header.engine # "ready"
    /\ Fail(Diagnostic(header.engine, 1, 0))

\* Fail closed if the root tree contains syntax errors.
RejectSyntax ==
    /\ pc = "open"
    /\ header.readable /\ header.engine = "ready" /\ header.malformed
    /\ Fail(Diagnostic("syntax_errors", 1, 0))

BeginExtraction ==
    /\ pc = "open"
    /\ header.readable /\ header.engine = "ready" /\ ~header.malformed
    /\ stack' = <<[node |-> 1, next |-> 1, path |-> <<>>]>>
    /\ pc' = "visit"
    /\ UNCHANGED <<header, m, fields, file, diags, result>>

(* extract_declarations, one call for each child of the node on top. *)

Depth == Len(stack)
Call == stack[Depth]
Children == header.nodes[Call.node].children
AtChild == pc = "visit" /\ stack # <<>> /\ Call.next <= Len(Children)
Child == Children[Call.next]
Node == header.nodes[Child]

NextChild == stack' = [stack EXCEPT ![Depth].next = @ + 1]

\* Mutation of Descend: a nested namespace replaces the path around it.
DescendIntoOneNamespace ==
    /\ AtChild
    /\ Node.kind \in {"namespace", "other"}
    /\ stack' = Append([stack EXCEPT ![Depth].next = @ + 1],
                       [node |-> Child, next |-> 1,
                        path |-> IF Node.parts = <<>> THEN Call.path ELSE Node.parts])
    /\ UNCHANGED <<header, m, fields, file, diags, result, pc>>

\* A namespace extends the path for what is in its body; any other node that
\* is not extracted is searched under the path as it is.
Descend ==
    /\ AtChild
    /\ Node.kind \in {"namespace", "other"}
    /\ stack' = Append([stack EXCEPT ![Depth].next = @ + 1],
                       [node |-> Child, next |-> 1, path |-> Call.path \o Node.parts])
    /\ UNCHANGED <<header, m, fields, file, diags, result, pc>>

SkipNameless ==
    /\ AtChild
    /\ Node.kind \in {"enum", "alias", "struct"} /\ Node.name = NoName
    /\ NextChild
    /\ UNCHANGED <<header, m, fields, file, diags, result, pc>>

Entry == [name |-> Node.name, path |-> Call.path, at |-> Child]

ExtractEnum ==
    /\ AtChild
    /\ Node.kind = "enum" /\ Node.name # NoName
    /\ file' = [file EXCEPT !.enums = Append(@, Entry)]
    /\ NextChild
    /\ UNCHANGED <<header, m, fields, diags, result, pc>>

ExtractAlias ==
    /\ AtChild
    /\ Node.kind = "alias" /\ Node.name # NoName
    /\ file' = [file EXCEPT !.aliases = Append(@, Entry)]
    /\ NextChild
    /\ UNCHANGED <<header, m, fields, diags, result, pc>>

OpenStruct ==
    /\ AtChild
    /\ Node.kind = "struct" /\ Node.name # NoName
    /\ m' = 1 /\ fields' = <<>>
    /\ pc' = "fields"
    /\ UNCHANGED <<header, stack, file, diags, result>>

(* extract_fields. *)

AtMember == pc = "fields" /\ m <= Len(Node.members)
Member == Node.members[m]

\* has_same_line_json_comment
Managed(members, k) ==
    /\ k < Len(members)
    /\ members[k + 1].kind = "comment"
    /\ members[k + 1].place # "below"
    /\ members[k + 1].json

DirectNames(member) == {d \in DOMAIN member.declared : member.declared[d].direct}

\* The forms extract_field refuses, in its order; "none" for any other.
Unsupported(member) ==
    IF member.static THEN "static"
    ELSE IF member.function THEN "function"
    ELSE IF \E d, e \in DirectNames(member) : d # e THEN "multiple"
    ELSE "none"

NextMember ==
    /\ m' = m + 1
    /\ UNCHANGED <<header, stack, file, result, pc>>

Report(kind) ==
    /\ diags' = Append(diags, Diagnostic(kind, Child, m))
    /\ UNCHANGED fields

RejectDeclaration ==
    /\ AtMember
    /\ Member.kind = "declaration" /\ Managed(Node.members, m)
    /\ Report("declaration")
    /\ NextMember

RejectPreprocessor ==
    /\ AtMember
    /\ Member.kind = "preproc" /\ Member.json
    /\ Report("preprocessor")
    /\ NextMember

\* Mutation of SkipMember: the loop does not move on.
SkipMemberInPlace ==
    /\ AtMember
    /\ Member.kind # "field"
    /\ Member.kind = "declaration" => ~Managed(Node.members, m)
    /\ Member.kind = "preproc" => ~Member.json
    /\ UNCHANGED vars

SkipMember ==
    /\ AtMember
    /\ Member.kind # "field"
    /\ Member.kind = "declaration" => ~Managed(Node.members, m)
    /\ Member.kind = "preproc" => ~Member.json
    /\ NextMember
    /\ UNCHANGED <<fields, diags>>

\* A refused form has a diagnostic when it is managed and is left out
\* without a word when it is not.
RefuseField ==
    /\ AtMember
    /\ Member.kind = "field" /\ Unsupported(Member) # "none"
    /\ IF Managed(Node.members, m) THEN Report(Unsupported(Member))
       ELSE UNCHANGED <<fields, diags>>
    /\ NextMember

\* if (ts_node_is_null(name_node)) return false;
SkipUnnamed ==
    /\ AtMember
    /\ Member.kind = "field" /\ Unsupported(Member) = "none"
    /\ DirectNames(Member) = {}
    /\ NextMember
    /\ UNCHANGED <<fields, diags>>

\* Mutation of BoundComment: tree proximity alone binds a comment.
NearestComment(members, k) ==
    IF k < Len(members) /\ members[k + 1].kind = "comment" THEN <<k + 1>> ELSE <<>>

\* bind_trailing_comment_if_present: the comment starts on the line of the
\* field and to the right of its last column.
BoundComment(members, k) ==
    IF /\ k < Len(members)
       /\ members[k + 1].kind = "comment"
       /\ members[k + 1].place = "spaced"
    THEN <<k + 1>> ELSE <<>>

\* The type is spelled from the start of the field to its direct name: any
\* declarator before that name becomes part of the spelling.
ExtractField ==
    /\ AtMember
    /\ Member.kind = "field" /\ Unsupported(Member) = "none"
    /\ \E d \in DirectNames(Member) :
          fields' = Append(fields, [name |-> Member.declared[d].name, at |-> m,
                                    clean |-> d = 1,
                                    comments |-> BoundComment(Node.members, m)])
    /\ NextMember
    /\ UNCHANGED diags

CloseStruct ==
    /\ pc = "fields" /\ m > Len(Node.members)
    /\ file' = [file EXCEPT !.declarations =
                   Append(@, [name |-> Node.name, path |-> Call.path, at |-> Child,
                              fields |-> fields])]
    /\ NextChild
    /\ pc' = "visit"
    /\ UNCHANGED <<header, m, fields, diags, result>>

LeaveNode ==
    /\ pc = "visit" /\ stack # <<>> /\ Call.next > Len(Children)
    /\ stack' = SubSeq(stack, 1, Depth - 1)
    /\ UNCHANGED <<header, m, fields, file, diags, result, pc>>

Finish ==
    /\ pc = "visit" /\ stack = <<>>
    /\ result' = Converted(diags)
    /\ pc' = "done"
    /\ UNCHANGED <<header, stack, m, fields, file, diags>>

Returned == pc = "done" /\ UNCHANGED vars

Next ==
    \/ FailToOpen \/ FailToParse \/ RejectSyntax \/ BeginExtraction
    \/ Descend \/ SkipNameless \/ ExtractEnum \/ ExtractAlias \/ OpenStruct
    \/ RejectDeclaration \/ RejectPreprocessor \/ SkipMember
    \/ RefuseField \/ SkipUnnamed \/ ExtractField
    \/ CloseStruct \/ LeaveNode \/ Finish
    \/ Returned

\* One thread runs the traversal and never waits.
Spec == Init /\ [][Next]_vars /\ WF_vars(Next)

-----------------------------------------------------------------------------

\* declaration.fields: the member each field was, and the comments bound to it.
Fields == [name : Names, at : Nat, clean : BOOLEAN, comments : Seq(Nat)]
Entries == [name : Names, path : Seq(Names), at : Nat]
Declarations == [name : Names, path : Seq(Names), at : Nat, fields : Seq(Fields)]

\* The state has its types: every running call is at a child of its node, the
\* member looked at is one of the struct being walked, and the file holds
\* entries under names and paths of the header.
TypeOK ==
    /\ header \in Headers
    /\ stack \in Seq([node : DOMAIN header.nodes, next : Nat \ {0}, path : Seq(Names)])
    /\ \A s \in DOMAIN stack : stack[s].next <= Len(header.nodes[stack[s].node].children) + 1
    /\ m \in Nat \ {0}
    /\ fields \in Seq(Fields)
    /\ file \in [declarations : Seq(Declarations), enums : Seq(Entries), aliases : Seq(Entries)]
    /\ pc = "fields" =>
          /\ stack # <<>> /\ Call.next <= Len(Children)
          /\ Node.name # NoName /\ m <= Len(Node.members) + 1
    /\ pc \in {"open", "visit", "fields", "done"}

-----------------------------------------------------------------------------
(* The tree seen as a whole. *)

Parents(n) ==
    {p \in DOMAIN header.nodes :
        \E c \in DOMAIN header.nodes[p].children : header.nodes[p].children[c] = n}

\* The namespace path of each node: the names of the namespaces around it.
PathOf[n \in DOMAIN header.nodes] ==
    IF n = 1 THEN <<>>
    ELSE LET p == CHOOSE q \in Parents(n) : TRUE
         IN  PathOf[p] \o header.nodes[p].parts

\* The nodes not inside a struct, an enum or an alias.
Visible[n \in DOMAIN header.nodes] ==
    n = 1 \/ \E p \in Parents(n) :
                 Visible[p] /\ header.nodes[p].kind \in {"namespace", "other"}

Extractable(kind) ==
    {n \in DOMAIN header.nodes :
        Visible[n] /\ header.nodes[n].kind = kind /\ header.nodes[n].name # NoName}

Positions(entries) == {entries[k].at : k \in DOMAIN entries}

EntriesMatch(entries) ==
    /\ \A k \in DOMAIN entries : entries[k].path = PathOf[entries[k].at]
    /\ \A k, l \in DOMAIN entries : k < l => entries[k].at < entries[l].at

\* "accepted syntax is converted exactly" (tree-sitter-frontend-spike.md): at
\* every moment each entry carries the namespaces that really enclose it, in
\* document order; in the end no struct, enum or alias is left out or doubled.
EntriesMatchTree ==
    /\ EntriesMatch(file.declarations)
    /\ EntriesMatch(file.enums)
    /\ EntriesMatch(file.aliases)
    /\ pc = "done" /\ result.success =>
          /\ Positions(file.declarations) = Extractable("struct")
          /\ Positions(file.enums) = Extractable("enum")
          /\ Positions(file.aliases) = Extractable("alias")

\* The member k of members is one the traversal has to refuse.
MustRefuse(members, k) ==
    \/ members[k].kind = "declaration" /\ Managed(members, k)
    \/ members[k].kind = "preproc" /\ members[k].json
    \/ members[k].kind = "field" /\ Unsupported(members[k]) # "none" /\ Managed(members, k)

Offences ==
    UNION {{<<n, k>> : k \in {x \in DOMAIN header.nodes[n].members :
                                 MustRefuse(header.nodes[n].members, x)}} :
              n \in Extractable("struct")}

\* The verdict is exact, however deep the struct: one managed member of a
\* refused form fails the whole header, a form nobody manages never does, and
\* the error shown is the first in the document.
VerdictMatchesTree ==
    pc = "done" /\ header.readable /\ header.engine = "ready" /\ ~header.malformed =>
        /\ result.success <=> Offences = {}
        /\ \A e \in result.error :
              /\ <<e.node, e.member>> \in Offences
              /\ \A o \in Offences : e.node < o[1] \/ (e.node = o[1] /\ e.member <= o[2])

\* Every comment bound to a field is the one that follows this field on its
\* line; the fields of a struct keep their order.  A tag never moves over to
\* another field, whatever was skipped between them.
TagsStayWithTheirField ==
    \A k \in DOMAIN file.declarations :
        LET members == header.nodes[file.declarations[k].at].members
            own == file.declarations[k].fields
        IN  /\ \A x, y \in DOMAIN own : x < y => own[x].at < own[y].at
            /\ \A x \in DOMAIN own : \A c \in DOMAIN own[x].comments :
                  /\ own[x].comments[c] = own[x].at + 1
                  /\ members[own[x].at + 1].kind = "comment"
                  /\ members[own[x].at + 1].place # "below"

\* The traversal of any tree ends.
Termination == <>(pc = "done")

IsKept(n, k) ==
    \E d \in DOMAIN file.declarations :
        /\ file.declarations[d].at = n
        /\ \E x \in DOMAIN file.declarations[d].fields : file.declarations[d].fields[x].at = k

\* "unsupported managed syntax produces diagnostics": a header is accepted only
\* when each of its managed fields with a name is a field of the result.
ManagedFieldsAreKept ==
    pc = "done" /\ result.success =>
        \A n \in Extractable("struct") : \A k \in DOMAIN header.nodes[n].members :
            LET members == header.nodes[n].members
            IN  /\ members[k].kind = "field" /\ members[k].declared # <<>>
                /\ Managed(members, k)
                => IsKept(n, k)
=============================================================================
