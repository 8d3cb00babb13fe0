---------------------------- MODULE MCTypeOrder ----------------------------
(***************************************************************************)
(* The small files TypeOrder is checked on: every file of at most three    *)
(* types over three names, where names may be declared twice and types may *)
(* use themselves, and every file of four distinct types.                  *)
(***************************************************************************)
EXTENDS TypeOrder

CONSTANTS A, B, C, D

Three == {A, B, C}
Four == <<A, B, C, D>>

MCTypeNames == {A, B, C, D}
MCTypeModels == [name : MCTypeNames, uses : SUBSET MCTypeNames]

SmallModels == [name : Three, uses : SUBSET Three]

\* Four types with distinct names, none of which uses itself.
DistinctFiles ==
    {[k \in 1 .. 4 |-> [name |-> Four[k], uses |-> u[k]]] :
        u \in {v \in [1 .. 4 -> SUBSET MCTypeNames] :
                  \A k \in 1 .. 4 : Four[k] \notin v[k]}}

MCInputs ==
    UNION {[1 .. n -> SmallModels] : n \in 0 .. 2}
        \cup {s \in [1 .. 3 -> SmallModels] : s[1].name = A}
        \cup DistinctFiles

=============================================================================
