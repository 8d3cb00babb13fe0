----------------------------- MODULE TypeOrder -----------------------------
(***************************************************************************)
(* order_types_by_dependency of semantic/analysis.cpp: the repeated sweep  *)
(* that puts the generated types of a file after the types they use.       *)
(*                                                                         *)
(* A type is its qualified name and the set of qualified names its fields  *)
(* mention, directly or inside containers.  The two nested loops become a  *)
(* state machine: "check" is the test of the outer while, "scan" the body  *)
(* of the inner for over the source order, "done" and "failed" the two     *)
(* returns.                                                                *)
(***************************************************************************)
EXTENDS Integers, Sequences, FiniteSets

CONSTANTS
    TypeNames,   \* the qualified names that types may have
    TypeModels,  \* the types: records with a name and the names they use
    Inputs       \* the sequences of types the function may be called with

ASSUME TypeModelsAssumption ==
    \A t \in TypeModels : t.name \in TypeNames /\ t.uses \subseteq TypeNames

ASSUME InputsAssumption == Inputs \subseteq Seq(TypeModels)

VARIABLES
    types,         \* the parameter: types in source order
    ordered,       \* result.types
    orderedNames,  \* ordered_names
    i,             \* the position of the inner for
    progress,      \* progress
    pc             \* "check", "scan", "done" (success) or "failed"

vars == <<types, ordered, orderedNames, i, progress, pc>>

-----------------------------------------------------------------------------

\* type_depends_on and field_type_depends_on over resolved names.
DependsOn(t, d) == d.name \in t.uses

\* Mutation of Blocked: only the types declared before the current one count.
BlockedByEarlier(t) ==
    \E k \in 1 .. i - 1 :
        /\ types[k].name # t.name
        /\ DependsOn(t, types[k])
        /\ types[k].name \notin orderedNames

\* Mutation of Blocked: a type that uses its own name waits for itself.
BlockedByItself(t) ==
    \E k \in DOMAIN types :
        /\ DependsOn(t, types[k])
        /\ types[k].name \notin orderedNames

\* The loop over possible_dependency: some other type of the file is used by
\* t and not ordered yet.  A type's use of its own name never blocks it.
Blocked(t) ==
    \E k \in DOMAIN types :
        /\ types[k].name # t.name
        /\ DependsOn(t, types[k])
        /\ types[k].name \notin orderedNames

Init ==
    /\ types \in Inputs
    /\ ordered = <<>>
    /\ orderedNames = {}
    /\ i = 1
    /\ progress = FALSE
    /\ pc = "check"

\* Mutation of StartSweep: the scan starts one position early.
StartSweepAtZero ==
    /\ pc = "check"
    /\ Len(ordered) < Len(types)
    /\ i' = 0
    /\ progress' = FALSE
    /\ pc' = "scan"
    /\ UNCHANGED <<types, ordered, orderedNames>>

\* Mutation of StartSweep: progress is not reset.
StartSweepOnOldProgress ==
    /\ pc = "check"
    /\ Len(ordered) < Len(types)
    /\ i' = 1
    /\ pc' = "scan"
    /\ UNCHANGED <<types, ordered, orderedNames, progress>>

\* while (result.types.size() < types.size()) { bool progress = false; ...
StartSweep ==
    /\ pc = "check"
    /\ Len(ordered) < Len(types)
    /\ i' = 1
    /\ progress' = FALSE
    /\ pc' = "scan"
    /\ UNCHANGED <<types, ordered, orderedNames>>

Finish ==
    /\ pc = "check"
    /\ ~(Len(ordered) < Len(types))
    /\ pc' = "done"
    /\ UNCHANGED <<types, ordered, orderedNames, i, progress>>

Scanning == pc = "scan" /\ i <= Len(types)

SkipOrdered ==
    /\ Scanning
    /\ types[i].name \in orderedNames
    /\ i' = i + 1
    /\ UNCHANGED <<types, ordered, orderedNames, progress, pc>>

SkipBlocked ==
    /\ Scanning
    /\ types[i].name \notin orderedNames
    /\ Blocked(types[i])
    /\ i' = i + 1
    /\ UNCHANGED <<types, ordered, orderedNames, progress, pc>>

\* Mutation of Emit: a type ordered by an earlier sweep is emitted again.
EmitAgain ==
    /\ Scanning
    /\ ~Blocked(types[i])
    /\ ordered' = Append(ordered, types[i])
    /\ orderedNames' = orderedNames \cup {types[i].name}
    /\ progress' = TRUE
    /\ i' = i + 1
    /\ UNCHANGED <<types, pc>>

\* Mutation of Emit: the type is put before those already ordered.
EmitInFront ==
    /\ Scanning
    /\ types[i].name \notin orderedNames
    /\ ~Blocked(types[i])
    /\ ordered' = <<types[i]>> \o ordered
    /\ orderedNames' = orderedNames \cup {types[i].name}
    /\ progress' = TRUE
    /\ i' = i + 1
    /\ UNCHANGED <<types, pc>>

\* Mutation of Emit: the sweep forgets that it made progress.
EmitQuietly ==
    /\ Scanning
    /\ types[i].name \notin orderedNames
    /\ ~Blocked(types[i])
    /\ ordered' = Append(ordered, types[i])
    /\ orderedNames' = orderedNames \cup {types[i].name}
    /\ i' = i + 1
    /\ UNCHANGED <<types, progress, pc>>

Emit ==
    /\ Scanning
    /\ types[i].name \notin orderedNames
    /\ ~Blocked(types[i])
    /\ ordered' = Append(ordered, types[i])
    /\ orderedNames' = orderedNames \cup {types[i].name}
    /\ progress' = TRUE
    /\ i' = i + 1
    /\ UNCHANGED <<types, pc>>

EndSweep ==
    /\ pc = "scan"
    /\ i > Len(types)
    /\ progress
    /\ pc' = "check"
    /\ UNCHANGED <<types, ordered, orderedNames, i, progress>>

\* if (!progress) { result.success = false; return result; }
GiveUp ==
    /\ pc = "scan"
    /\ i > Len(types)
    /\ ~progress
    /\ pc' = "failed"
    /\ UNCHANGED <<types, ordered, orderedNames, i, progress>>

Returned == pc \in {"done", "failed"} /\ UNCHANGED vars

Next ==
    \/ StartSweep \/ Finish
    \/ SkipOrdered \/ SkipBlocked \/ Emit
    \/ EndSweep \/ GiveUp
    \/ Returned

\* The function runs on one thread and never waits: it always takes its next
\* step.
Spec == Init /\ [][Next]_vars /\ WF_vars(Next)

-----------------------------------------------------------------------------

NamesIn(s) == {s[k].name : k \in DOMAIN s}

\* The other types of the file that t's fields mention.
Dependencies(t) == (t.uses \cap NamesIn(types)) \ {t.name}

\* Two types of the input have one qualified name.
Duplicated ==
    \E k, m \in DOMAIN types : k # m /\ types[k].name = types[m].name

\* S is a set of names each of which has a type that needs another member of
\* S: whatever type of S came first would come before one it depends on.
Circular(S) ==
    \A n \in S : \E k \in DOMAIN types :
        types[k].name = n /\ Dependencies(types[k]) \cap S # {}

Cyclic == \E S \in SUBSET NamesIn(types) : S # {} /\ Circular(S)

-----------------------------------------------------------------------------

\* The state has its types: every local of the function keeps the shape the
\* code gives it, and the result only ever holds types of the input.
TypeOK ==
    /\ types \in Inputs
    /\ ordered \in Seq(TypeModels)
    /\ orderedNames \subseteq TypeNames
    /\ i \in 1 .. Len(types) + 1
    /\ progress \in BOOLEAN
    /\ pc \in {"check", "scan", "done", "failed"}

\* At every moment the output is closed under dependencies: a type stands
\* after every other type of the file that its fields mention.  The comment
\* above the call promises it ("so dependencies appear before users"), and the
\* generators rely on it: a C++ helper must see its nested helpers declared.
DependenciesPrecedeUsers ==
    \A j \in DOMAIN ordered :
        \A n \in Dependencies(ordered[j]) :
            \E m \in 1 .. j - 1 : ordered[m].name = n

\* Success loses and repeats nothing: the returned order is a rearrangement of
\* all the input types, although the loop only compares two sizes.
SuccessIsComplete ==
    pc = "done" =>
        /\ Len(ordered) = Len(types)
        /\ \A k \in DOMAIN types :
              Cardinality({j \in DOMAIN ordered : ordered[j] = types[k]}) = 1

\* The verdict is exact: success is returned only for files without a
\* dependency cycle, and failure only for one that has a cycle or declares a
\* name twice (no file is rejected because of the order of its declarations).
VerdictIsExact ==
    /\ pc = "done" => ~Cyclic /\ ~Duplicated
    /\ pc = "failed" => Cyclic \/ Duplicated

\* A file that is already in dependency order keeps its order: the generated
\* output changes only where a dependency forces it to.
OrderedInputIsKept ==
    LET inOrder == \A k \in DOMAIN types :
                      \A n \in Dependencies(types[k]) :
                          \E m \in 1 .. k - 1 : types[m].name = n
    IN  pc = "done" /\ inOrder => ordered = types

\* The loop ends: each sweep that is not the last orders one more type.
Termination == <>(pc \in {"done", "failed"})

-----------------------------------------------------------------------------

Verdict == IF pc \in {"done", "failed"} THEN pc ELSE "running"

\* The sweep implements the abstract topological order: emitting a type takes
\* a ready type, and giving up happens only when no type is ready.
Abstract == INSTANCE TopologicalOrder WITH
                placed <- ordered, verdict <- Verdict

ImplementsTopologicalOrder == Abstract!Spec
=============================================================================
