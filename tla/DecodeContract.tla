--------------------------- MODULE DecodeContract ---------------------------
(***************************************************************************)
(* What a generated from_json<T> promises its caller, whatever the way it  *)
(* traverses the text: it answers once, with one complete new model and a  *)
(* clear error, or with no model and an error that names a defect the text *)
(* really has, at the path where it has it.                                *)
(***************************************************************************)
EXTENDS DecodeModel

VARIABLES
    text,     \* the text decoded; never changes
    answer    \* "pending", or what from_json returned and left in error

vars == <<text, answer>>

Pending == [kind |-> "pending"]
Failure(code, path) == [kind |-> "failure", error |-> Defect(code, path)]

IsModel(a) == a.kind = "model" /\ IsDecoding(text, a.value)

Init ==
    /\ text \in Texts
    /\ answer = Pending

Succeed ==
    /\ answer = Pending
    /\ Defects(text) = {}
    /\ IsModel(answer')
    /\ UNCHANGED text

Refuse ==
    /\ answer = Pending
    /\ \E defect \in Defects(text) :
          answer' = Failure(defect.code, defect.path)
    /\ UNCHANGED text

Next == Succeed \/ Refuse

Spec == Init /\ [][Next]_vars
=============================================================================
