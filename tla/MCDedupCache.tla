---------------------------- MODULE MCDedupCache ----------------------------
(* Small instances of DedupCache for TLC. *)
EXTENDS DedupCache, TLC

CONSTANTS w1, w2

MCWorker == {w1, w2}
MCSymmetry == Permutations(MCWorker)
MCIncoming == {1, 3, 4}
=============================================================================
