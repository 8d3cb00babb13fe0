------------------------- MODULE ContractGenerator -------------------------
(***************************************************************************)
(* generate_header of the contract backend: the declarations that describe *)
(* each struct of a project, in the order they are emitted.                *)
(*                                                                         *)
(* generate_contract_type_descriptor calls itself for the arguments of a   *)
(* type; stack holds its running calls.  A declaration is its namespace,   *)
(* its name, and the declarations its initialiser names.                   *)
(***************************************************************************)
EXTENDS ContractNames, FiniteSets

CONSTANTS
    Parts,      \* what identifiers of the user are made of
    Types,      \* [arguments, values]: the arguments of a type, and whether it is an
                \* enum of the project with enumerators
    Projects    \* the projects: sequences of structs

\* Identifiers are sequences, as in ContractNames.
Fields == [name : Seq(Parts), type : Types, ignored : BOOLEAN]
Structs == [path : Seq(Seq(Parts)), name : Seq(Parts), fields : Seq(Fields)]

\* C++ has no two fields of one name in a struct.
ASSUME ProjectsAssumption ==
    /\ "cjm::model_traits" \notin Parts
    /\ Types \subseteq [arguments : Seq(Types), values : BOOLEAN]
    /\ \A type \in Types : Len(type.arguments) <= 2
    /\ Projects \subseteq Seq(Structs)
    /\ \A p \in Projects : \A n \in DOMAIN p : \A g, h \in DOMAIN p[n].fields :
          p[n].fields[g].name = p[n].fields[h].name => g = h

VARIABLES
    project,
    m,       \* the struct the loop in generate_header has reached
    f,       \* the field the loop in generate_contract_model_namespace has reached
    stack,   \* calls of generate_contract_type_descriptor, the running one last
    out      \* the declarations emitted

vars == <<project, m, f, stack, out>>

\* contract_generated_namespace_name
Namespace(type) ==
    LET joined[n \in 0 .. Len(type.path)] ==
            IF n = 0 THEN <<"generated_">> ELSE joined[n - 1] \o type.path[n] \o <<"_">>
    IN  joined[Len(type.path)] \o type.name

Declaration(what, space, name, uses) ==
    [what |-> what, space |-> space, name |-> name, uses |-> uses]

Model == project[m]
Top == stack[Len(stack)]
Call(name, type) == [name |-> name, type |-> type, argument |-> 1]

Init ==
    /\ project \in Projects
    /\ m = 1 /\ f = 1
    /\ stack = <<>>
    /\ out = <<>>

\* The descriptor of the next field.
BeginField ==
    /\ m <= Len(project) /\ f <= Len(Model.fields) /\ stack = <<>>
    /\ stack' = <<Call(FieldTypeName(Model.fields[f].name), Model.fields[f].type)>>
    /\ UNCHANGED <<project, m, f, out>>

\* generate_contract_type_arguments: the descriptor of the next argument.
BeginArgument ==
    /\ stack # <<>> /\ Top.argument <= Len(Top.type.arguments)
    /\ stack' = Append([stack EXCEPT ![Len(stack)].argument = @ + 1],
                       Call(ArgumentName(Top.name, Top.argument),
                            Top.type.arguments[Top.argument]))
    /\ UNCHANGED <<project, m, f, out>>

ArgumentArray(call, space) ==
    Declaration("arguments", space, ArgumentsName(call.name),
                [n \in DOMAIN call.type.arguments |-> ArgumentName(call.name, n)])
EnumValues(call, space) ==
    Declaration("values", space, EnumValuesName(call.name), <<>>)
Descriptor(call, space) ==
    Declaration("descriptor", space, call.name,
        (IF call.type.arguments = <<>> THEN <<>> ELSE <<ArgumentsName(call.name)>>)
            \o (IF call.type.values THEN <<EnumValuesName(call.name)>> ELSE <<>>))

\* Mutation of EmittedFor: the arrays follow the descriptor.
EmittedDescriptorFirst(call, space) ==
    <<Descriptor(call, space)>>
        \o (IF call.type.arguments = <<>> THEN <<>> ELSE <<ArgumentArray(call, space)>>)
        \o (IF call.type.values THEN <<EnumValues(call, space)>> ELSE <<>>)

\* The rest of generate_contract_type_descriptor, behind its recursive calls.
EmittedFor(call, space) ==
    (IF call.type.arguments = <<>> THEN <<>> ELSE <<ArgumentArray(call, space)>>)
        \o (IF call.type.values THEN <<EnumValues(call, space)>> ELSE <<>>)
        \o <<Descriptor(call, space)>>

EndDescriptor ==
    /\ stack # <<>> /\ Top.argument > Len(Top.type.arguments)
    /\ out' = out \o EmittedFor(Top, Namespace(Model))
    /\ stack' = SubSeq(stack, 1, Len(stack) - 1)
    /\ f' = IF Len(stack) = 1 THEN f + 1 ELSE f
    /\ UNCHANGED <<project, m>>

\* Mutation of FieldsDescribed: ignored fields are left out.
FieldsDescribedIfManaged(type) == SelectSeq(type.fields, LAMBDA field : ~field.ignored)

\* The fields with an entry in the array: all of them.
FieldsDescribed(type) == type.fields

\* generate_contract_field_descriptors and generate_contract_model_traits, which
\* names the array from outside of the namespace.
EndModel ==
    /\ m <= Len(project) /\ f > Len(Model.fields) /\ stack = <<>>
    /\ LET described == FieldsDescribed(Model)
       IN  out' = out \o
             << Declaration("fields", Namespace(Model), <<"fields">>,
                    [n \in DOMAIN described |-> FieldTypeName(described[n].name)]),
                Declaration("traits", Namespace(Model),
                    <<"cjm::model_traits", Model.path, Model.name>>, <<<<"fields">>>>) >>
    /\ m' = m + 1
    /\ f' = 1
    /\ UNCHANGED <<project, stack>>

Returned == m > Len(project) /\ UNCHANGED vars

Next == BeginField \/ BeginArgument \/ EndDescriptor \/ EndModel \/ Returned

Spec == Init /\ [][Next]_vars /\ WF_vars(Next)

-----------------------------------------------------------------------------
(* Correctness.                                                            *)

\* C++ reads a header from top to bottom: whatever an initialiser names has been
\* declared before, in the namespace of the struct.
DeclaredBeforeUse ==
    \A n \in DOMAIN out : \A u \in DOMAIN out[n].uses :
        \E d \in 1 .. n - 1 :
            out[d].space = out[n].space /\ out[d].name = out[n].uses[u]

\* Two structs whose descriptors share a namespace, a::b::C and a_b::C: the one
\* case in which the header cannot be compiled.
NamespacesCollide ==
    \E n, o \in DOMAIN project : n # o /\ Namespace(project[n]) = Namespace(project[o])

\* Nothing is declared twice, whatever the fields are named and however their
\* types are nested.
DeclaredOnce ==
    ~NamespacesCollide =>
        \A n, o \in DOMAIN out :
            out[n].space = out[o].space /\ out[n].name = out[o].name => n = o

\* The declaration that a name stands for.
Find(space, name) ==
    CHOOSE n \in DOMAIN out : out[n].space = space /\ out[n].name = name

Pointed(n) == {Find(out[n].space, out[n].uses[u]) : u \in DOMAIN out[n].uses}

\* The type that descriptor n describes, given what the ones before it describe.
Read(meaning, n) ==
    LET arrays == {d \in Pointed(n) : out[d].what = "arguments"}
    IN  [arguments |->
            IF arrays = {} THEN <<>>
            ELSE LET array == CHOOSE d \in arrays : TRUE
                 IN  [a \in DOMAIN out[array].uses |->
                         meaning[Find(out[array].space, out[array].uses[a])]],
         values |-> \E d \in Pointed(n) : out[d].what = "values"]

\* The types that the descriptors describe, read through their pointers.
Meaning ==
    LET meaning[n \in DOMAIN out] == Read(meaning, n)
    IN  meaning

\* A reader who starts at the model_traits of a struct finds its fields, each
\* once and in order, with their types: model_contract.hpp read backwards is the
\* struct that was described, as soon as the struct has been emitted.
TraitsDescribeTheirModel ==
    ~NamespacesCollide =>
        \A n \in 1 .. m - 1 :
            LET traits == CHOOSE t \in DOMAIN out :
                            /\ out[t].what = "traits"
                            /\ out[t].name = <<"cjm::model_traits", project[n].path, project[n].name>>
                fields == Find(out[traits].space, out[traits].uses[1])
            IN  /\ Len(out[fields].uses) = Len(project[n].fields)
                /\ \A i \in DOMAIN project[n].fields :
                    /\ out[fields].uses[i] = FieldTypeName(project[n].fields[i].name)
                    /\ Meaning[Find(out[fields].space, out[fields].uses[i])]
                          = project[n].fields[i].type
=============================================================================
