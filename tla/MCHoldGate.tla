----------------------------- MODULE MCHoldGate -----------------------------
(* An instance of HoldGate: two calls about one account. *)
EXTENDS HoldGate

CONSTANTS t1, t2
=============================================================================
