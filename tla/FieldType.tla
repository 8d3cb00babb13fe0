----------------------------- MODULE FieldType -----------------------------
(***************************************************************************)
(* analyze_field_type of semantic/analysis.cpp: from the spelled type of a *)
(* field to its Metadata IR type, through aliases and containers.          *)
(*                                                                         *)
(* The recursion is an explicit stack of frames, one per running call.  A  *)
(* frame first runs the loop of resolve_alias, then classifies what it     *)
(* found; a container then calls itself on each argument.  All calls share *)
(* one diagnostics list and one success flag, passed by reference, which a *)
(* later call sees as an earlier one left it.                              *)
(*                                                                         *)
(* A name is the sequence of its components.  A leading "::" is kept in    *)
(* the syntax (global) although the code strips it before any lookup.      *)
(***************************************************************************)
EXTENDS Integers, Sequences, FiniteSets

CONSTANTS
    Spellings,  \* the spelled types: of fields and aliases, and their arguments
    Inputs,     \* the calls: [ns, aliases, enums, types, spelling]
    MaxDepth    \* bound on the depth of the recursion

Scalars == {"bool", "signed", "unsigned", "floating", "string"}
Containers == {"vector", "optional", "array", "map"}

\* Spelled types.  path and global matter for a "name" only, extentOk (the
\* array extent is a plain decimal that fits) for an "array" only; commas says
\* whether the spelling contains a comma.
Spelling(form, path, global, args, extentOk, commas) ==
    [form |-> form, path |-> path, global |-> global, args |-> args,
     extentOk |-> extentOk, commas |-> commas]

Arity(form) == IF form = "map" THEN 2 ELSE 1

\* Names have components; a symbol table is finite.
Names == Seq(STRING) \ {<<>>}

ASSUME SpellingsAssumption ==
    /\ \A s \in Spellings :
          /\ s.args \in Seq(Spellings)
          /\ s.form \in Containers => Len(s.args) = Arity(s.form)
          /\ s.form = "name" => s.path \in Names
    /\ \A c \in Inputs :
          /\ c.ns \in Seq(STRING) /\ c.enums \subseteq Names /\ c.types \subseteq Names
          /\ DOMAIN c.aliases \subseteq Names /\ IsFiniteSet(DOMAIN c.aliases)
          /\ c.spelling \in Spellings /\ \A name \in DOMAIN c.aliases : c.aliases[name] \in Spellings
    /\ MaxDepth \in Nat \ {0}

VARIABLES
    input,    \* symbols, namespace_path and field.type_spelling
    frames,   \* the running calls: [spelling, current, seen, open, done]
    success,  \* the success flag
    diags,    \* the diagnostics, by kind
    ret,      \* what the last finished call returned
    pc        \* "run" or "done"

vars == <<input, frames, success, diags, ret, pc>>

Diagnostics == {"alias_cycle", "unsupported_type", "unsupported_extent", "unsupported_key"}

\* metadata::FieldType: name is qualified_name, for enums and generated types.
Type(kind, name, args) == [kind |-> kind, name |-> name, args |-> args]

\* What the code returns after a failure: UserDefined without a qualified name.
Unresolved == Type("user", <<>>, <<>>)

-----------------------------------------------------------------------------

\* lookup_alias_once: the name in the field's namespace, then as it is.  The
\* result is the set of the target found.
LookupAliasOnce(path) ==
    LET scoped == input.ns \o path
    IN  IF scoped \in DOMAIN input.aliases THEN {input.aliases[scoped]}
        ELSE IF path \in DOMAIN input.aliases THEN {input.aliases[path]}
        ELSE {}

\* Mutation of ResolveNamedType: the outermost scope wins.
ResolveOutermost(names, path) ==
    LET found == {k \in 0 .. Len(input.ns) : SubSeq(input.ns, 1, k) \o path \in names}
    IN  {SubSeq(input.ns, 1, k) \o path : k \in {j \in found : \A l \in found : l >= j}}

\* resolve_named_type: the enclosing namespaces from the inside out, then the
\* name as it is.  The result is the set of the name found.
ResolveNamedType(names, path) ==
    LET found == {k \in 0 .. Len(input.ns) : SubSeq(input.ns, 1, k) \o path \in names}
    IN  {SubSeq(input.ns, 1, k) \o path : k \in {j \in found : \A l \in found : l <= j}}

NewFrame(spelling) ==
    [spelling |-> spelling, current |-> spelling, seen |-> {}, open |-> FALSE, done |-> <<>>]

Depth == Len(frames)
Frame == frames[Depth]
Current == Frame.current

\* A call of analyze_field_type returns type to the call below it.
Return(type) ==
    /\ ret' = type
    /\ IF Depth = 1
       THEN frames' = <<>> /\ pc' = "done"
       ELSE /\ frames' = [SubSeq(frames, 1, Depth - 1) EXCEPT
                             ![Depth - 1].done = Append(@, type)]
            /\ pc' = pc

\* Mutation of Report: a diagnostic is added and the flag is left alone.
ReportOnly(kinds) ==
    /\ diags' = diags \o kinds
    /\ UNCHANGED success

Report(kinds) ==
    /\ success' = FALSE
    /\ diags' = diags \o kinds

-----------------------------------------------------------------------------

Init ==
    /\ input \in Inputs
    /\ frames = <<NewFrame(input.spelling)>>
    /\ success = TRUE
    /\ diags = <<>>
    /\ ret = Unresolved
    /\ pc = "run"

(* The loop of resolve_alias. *)

Resolving == pc = "run" /\ ~Frame.open

\* if (seen.count(current) != 0)
DetectCycle ==
    /\ Resolving
    /\ Current.form = "name" /\ Current.path \in Frame.seen
    /\ Report(<<"alias_cycle">>)
    /\ Return(Unresolved)
    /\ UNCHANGED input

\* Mutation of FollowAlias: the names already followed are not recorded.
FollowAliasForgetting ==
    /\ Resolving
    /\ Current.form = "name" /\ Current.path \notin Frame.seen
    /\ \E target \in LookupAliasOnce(Current.path) :
          frames' = [frames EXCEPT ![Depth].current = target]
    /\ UNCHANGED <<input, success, diags, ret, pc>>

\* seen.insert(current); current = the target of the alias
FollowAlias ==
    /\ Resolving
    /\ Current.form = "name" /\ Current.path \notin Frame.seen
    /\ \E target \in LookupAliasOnce(Current.path) :
          frames' = [frames EXCEPT ![Depth].current = target,
                                   ![Depth].seen = @ \cup {Current.path}]
    /\ UNCHANGED <<input, success, diags, ret, pc>>

(* The classification of what the loop ended with. *)

Resolved ==
    /\ Resolving
    /\ Current.form = "name" =>
          Current.path \notin Frame.seen /\ LookupAliasOnce(Current.path) = {}

\* if (!success) return: the flag may have been cleared before this call.
StopAfterFailure ==
    /\ Resolved
    /\ ~success
    /\ Return(Unresolved)
    /\ UNCHANGED <<input, success, diags>>

\* Mutation of Classifying: the flag is not looked at.
ClassifyingAnyway == Resolved

Classifying == Resolved /\ success

ClassifyScalar ==
    /\ Classifying
    /\ Current.form \in Scalars
    /\ Return(Type(Current.form, <<>>, <<>>))
    /\ UNCHANGED <<input, success, diags>>

ClassifyEnum ==
    /\ Classifying
    /\ Current.form = "name"
    /\ \E name \in ResolveNamedType(input.enums, Current.path) :
          Return(Type("enum", name, <<>>))
    /\ UNCHANGED <<input, success, diags>>

ClassifyUserDefined ==
    /\ Classifying
    /\ Current.form = "name"
    /\ ResolveNamedType(input.enums, Current.path) = {}
    /\ \E name \in ResolveNamedType(input.types, Current.path) :
          Return(Type("user", name, <<>>))
    /\ UNCHANGED <<input, success, diags>>

RejectName ==
    /\ Classifying
    /\ Current.form = "name"
    /\ ResolveNamedType(input.enums \cup input.types, Current.path) = {}
    /\ Report(<<"unsupported_type">>)
    /\ Return(Unresolved)
    /\ UNCHANGED input

\* parse_two_template_arguments splits at the first comma, wherever it is.
SplitsInside(spelling) ==
    spelling.form \in {"array", "map"} /\ spelling.args[1].commas

\* parse_array_extent fails, on a bad extent or on one that the split has cut
\* out of the element type.
RejectExtent ==
    /\ Classifying
    /\ Current.form = "array"
    /\ SplitsInside(Current) \/ ~Current.extentOk
    /\ Report(<<"unsupported_extent">>)
    /\ Return(Type("array", <<>>, <<>>))
    /\ UNCHANGED input

\* A map whose key spelling was cut: the key is no type, the value is not
\* looked at any more, and an unresolved key is not a string.
RejectCutMap ==
    /\ Classifying
    /\ Current.form = "map"
    /\ SplitsInside(Current)
    /\ Report(<<"unsupported_type", "unsupported_key">>)
    /\ Return(Type("map", <<>>, <<Unresolved, Unresolved>>))
    /\ UNCHANGED input

OpenContainer ==
    /\ Classifying
    /\ Current.form \in Containers
    /\ ~SplitsInside(Current)
    /\ Current.form = "array" => Current.extentOk
    /\ frames' = [frames EXCEPT ![Depth].open = TRUE]
    /\ UNCHANGED <<input, success, diags, ret, pc>>

(* The recursive calls of a container, in argument order. *)

EnterArgument ==
    /\ pc = "run" /\ Frame.open
    /\ Depth < MaxDepth
    /\ Len(Frame.done) < Arity(Current.form)
    /\ frames' = Append(frames, NewFrame(Current.args[Len(Frame.done) + 1]))
    /\ UNCHANGED <<input, success, diags, ret, pc>>

BadKey == Current.form = "map" /\ Frame.done[1].kind # "string"

\* analyze_map_field_type checks the key after both calls.
Compose ==
    /\ pc = "run" /\ Frame.open
    /\ Len(Frame.done) = Arity(Current.form)
    /\ IF BadKey THEN Report(<<"unsupported_key">>) ELSE UNCHANGED <<success, diags>>
    /\ Return(Type(Current.form, <<>>, Frame.done))
    /\ UNCHANGED input

Returned == pc = "done" /\ UNCHANGED vars

Next ==
    \/ DetectCycle \/ FollowAlias \/ StopAfterFailure
    \/ ClassifyScalar \/ ClassifyEnum \/ ClassifyUserDefined
    \/ RejectName \/ RejectExtent \/ RejectCutMap
    \/ OpenContainer \/ EnterArgument \/ Compose
    \/ Returned

\* One thread runs the recursion and never waits.
Spec == Init /\ [][Next]_vars /\ WF_vars(Next)

-----------------------------------------------------------------------------

\* A frame has collected at most the arguments of its container, and its
\* resolve_alias loop has seen alias names only.
FrameOK(f) ==
    /\ f.spelling \in Spellings /\ f.current \in Spellings
    /\ \A path \in f.seen : LookupAliasOnce(path) # {}
    /\ f.open \in BOOLEAN
    /\ f.open => f.current.form \in Containers /\ Len(f.done) \in 0 .. Arity(f.current.form)
    /\ ~f.open => f.done = <<>>

\* The call that runs above f is for the argument f has reached.
WaitsFor(f, above) ==
    /\ f.open /\ Len(f.done) < Arity(f.current.form)
    /\ above.spelling = f.current.args[Len(f.done) + 1]

\* The state has its types, and the stack its shape.
TypeOK ==
    /\ input \in Inputs
    /\ Depth \in 0 .. MaxDepth
    /\ \A d \in 1 .. Depth : FrameOK(frames[d])
    /\ \A d \in 1 .. Depth - 1 : WaitsFor(frames[d], frames[d + 1])
    /\ success \in BOOLEAN
    /\ diags \in Seq(Diagnostics)
    /\ pc \in {"run", "done"}
    /\ (pc = "done") <=> (frames = <<>>)

\* The flag and the list agree whenever the analysis of a field ends: no field
\* is refused without a diagnostic, and none is accepted with one.
VerdictMatchesDiagnostics ==
    pc = "done" => (success <=> diags = <<>>)

(* What C++ means by a spelled type: a name is looked up from the scope it *)
(* is written in outwards, "::" means the global scope, and the target of  *)
(* an alias is written in the scope of the alias, before the alias itself  *)
(* is visible.  The site of a spelling is the alias it is written in, or   *)
(* <<>> for the field.                                                     *)

Declared(c) == DOMAIN c.aliases \cup c.enums \cup c.types
Sites(c) == {<<>>} \cup DOMAIN c.aliases
Scope(c, site) == IF site = <<>> THEN c.ns ELSE SubSeq(site, 1, Len(site) - 1)

DeclaredAs(c, name) ==
    IF name \in DOMAIN c.aliases THEN "alias" ELSE IF name \in c.enums THEN "enum" ELSE "user"

\* The declaration a name refers to, if any.
CppLookup(c, spelling, site) ==
    LET scope == Scope(c, site)
        found == {k \in 0 .. (IF spelling.global THEN 0 ELSE Len(scope)) :
                     SubSeq(scope, 1, k) \o spelling.path \in Declared(c) \ {site}}
    IN  {SubSeq(scope, 1, k) \o spelling.path : k \in {j \in found : \A l \in found : l <= j}}

Meaningless == Type("none", <<>>, <<>>)

\* The type of a spelling, from those of its arguments or of the alias it names.
MeaningFrom(c, meaning, spelling, site) ==
    CASE spelling.form \in Scalars -> Type(spelling.form, <<>>, <<>>)
      [] spelling.form \in Containers ->
            IF \A k \in DOMAIN spelling.args : meaning[site][spelling.args[k]] # Meaningless
            THEN Type(spelling.form, <<>>,
                      [k \in DOMAIN spelling.args |-> meaning[site][spelling.args[k]]])
            ELSE Meaningless
      [] spelling.form = "name" ->
            LET found == CppLookup(c, spelling, site)
                name == CHOOSE n \in found : TRUE
            IN  IF found = {} THEN Meaningless
                ELSE IF name \in DOMAIN c.aliases THEN meaning[name][c.aliases[name]]
                ELSE Type(DeclaredAs(c, name), name, <<>>)
      [] OTHER -> Meaningless

\* More steps than the calls the bound allows can cross: each opens a spelling
\* and follows each alias at most once.
Steps(c) == MaxDepth * (Cardinality(DOMAIN c.aliases) + 2)

\* The types of the spellings at each site, followed for n steps.
Meanings(c) ==
    LET types[n \in 0 .. Steps(c)] ==
            [site \in Sites(c) |-> [spelling \in Spellings |->
                IF n = 0 THEN Meaningless ELSE MeaningFrom(c, types[n - 1], spelling, site)]]
    IN  types

CppMeaning(c, spelling, site) == Meanings(c)[Steps(c)][site][spelling]

Arguments(spellings) == UNION {{s.args[k] : k \in DOMAIN s.args} : s \in spellings}

\* The spellings that the calls for some spellings can be for, by depth.
Nested(spellings) ==
    LET level[n \in 0 .. MaxDepth] == IF n = 0 THEN spellings ELSE Arguments(level[n - 1])
    IN  level

Within(spellings) == UNION {Nested(spellings)[n] : n \in 0 .. MaxDepth}

Targets(c) == {c.aliases[name] : name \in DOMAIN c.aliases}

\* Names that the code does not look up where they are written: those in the
\* targets of aliases, and those with a "::".
Displaced(c) ==
    {s.path : s \in {t \in Within(Targets(c)) : t.form = "name"}
                    \cup {t \in Within({c.spelling}) : t.form = "name" /\ t.global}}

Unqualified(name) == name[Len(name)]

\* No name means two things, and two declarations share an unqualified name
\* only if both are structs, or both enums, and it is not displaced.
Unshadowed(c) ==
    /\ DOMAIN c.aliases \cap (c.enums \cup c.types) = {}
    /\ \A p, q \in Declared(c) :
          p # q /\ Unqualified(p) = Unqualified(q) =>
             /\ DeclaredAs(c, p) = DeclaredAs(c, q) /\ DeclaredAs(c, p) # "alias"
             /\ \A path \in Displaced(c) : Unqualified(path) # Unqualified(p)

\* The code looks up every name in the namespace of the field and drops "::".
\* Where that leads to no second declaration, an accepted field whose spelling
\* means something in C++ gets the type it has there.
UnshadowedMeansCpp ==
    LET type == CppMeaning(input, input.spelling, <<>>)
    IN  pc = "done" /\ success /\ Unshadowed(input) /\ type # Meaningless => ret = type

\* After the first failure of a field the flag, not the type, decides: no name
\* met later is reported as unsupported, whatever it is.
NoCascade ==
    [][~success =>
          \A k \in Len(diags) + 1 .. Len(diags') :
              diags'[k] \in {"alias_cycle", "unsupported_key"}]_vars

\* "Resolves alias chains and detects alias cycles" (release notes v0.2.0):
\* no type is classified inside the classification of itself.
NoSelfNesting ==
    \A d, e \in DOMAIN frames : frames[d].spelling = frames[e].spelling => d = e

\* The analysis of a field ends.
Termination == <>(pc = "done")
=============================================================================
