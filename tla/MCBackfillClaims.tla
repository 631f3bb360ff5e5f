-------------------------- MODULE MCBackfillClaims --------------------------
(* Instances of BackfillClaims: two decisions on one pod, the others alone. *)
EXTENDS BackfillClaims

CONSTANTS d1, d2, d3

OnePair == [d \in Decision |-> IF d = d3 THEN 2 ELSE 1]
=============================================================================
