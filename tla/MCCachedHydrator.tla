--------------------------- MODULE MCCachedHydrator ---------------------------
(* Small instances of CachedHydrator for TLC. *)
EXTENDS CachedHydrator, TLC

\* Nothing depends on which request or which key it is.
Symmetry == Permutations(Request) \cup Permutations(Key)
=============================================================================
