------------------------- MODULE TopologicalOrder -------------------------
(***************************************************************************)
(* What ordering generated types promises, whatever the scan that computes *)
(* it: the output is built by taking one type at a time, never before the  *)
(* other types of the file that it uses, until every type is taken; it is  *)
(* abandoned only when types are left and none of them can be taken.       *)
(***************************************************************************)
EXTENDS Integers, Sequences

CONSTANTS
    Inputs    \* the sequences of types an execution may be asked to order

VARIABLES
    types,    \* the types of the file, in source order; never changes
    placed,   \* the types already taken, in output order
    verdict   \* "running", "done" or "failed"

vars == <<types, placed, verdict>>

NamesIn(s) == {s[k].name : k \in DOMAIN s}

\* The other types of the file that t's fields mention.
Dependencies(t) == (t.uses \cap NamesIn(types)) \ {t.name}

Ready(t) ==
    /\ t.name \notin NamesIn(placed)
    /\ Dependencies(t) \subseteq NamesIn(placed)

Init ==
    /\ types \in Inputs
    /\ placed = <<>>
    /\ verdict = "running"

Take ==
    /\ verdict = "running"
    /\ \E k \in DOMAIN types :
          /\ Ready(types[k])
          /\ placed' = Append(placed, types[k])
    /\ UNCHANGED <<types, verdict>>

Accept ==
    /\ verdict = "running"
    /\ Len(placed) = Len(types)
    /\ verdict' = "done"
    /\ UNCHANGED <<types, placed>>

Abandon ==
    /\ verdict = "running"
    /\ Len(placed) # Len(types)
    /\ \A k \in DOMAIN types : ~Ready(types[k])
    /\ verdict' = "failed"
    /\ UNCHANGED <<types, placed>>

Next == Take \/ Accept \/ Abandon

Spec == Init /\ [][Next]_vars
=============================================================================
