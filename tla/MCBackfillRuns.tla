--------------------------- MODULE MCBackfillRuns ---------------------------
(* Instances of BackfillRuns for TLC. *)
EXTENDS BackfillRuns, TLC

CONSTANTS c1, c2, c3, whole

\* Every run on one classifier; or run 2 on the whole head, so that it overlaps
\* runs 1 and 3, which do not overlap each other
OneModel == [r \in Run |-> 1]
SplitRuns == [r \in Run |-> IF r = 2 THEN whole ELSE r]

Only(n) == [k \in Kinds |-> IF k \in DOMAIN n THEN n[k] ELSE 0]

\* Starts of different runs, or of one run again and again
StartBudget == Only([start |-> 3])

\* Two runs, changes, and a decision whose hold pauses a run
MixedBudget == Only([start |-> 2, resume |-> 1, done |-> 1, stop |-> 1, hold |-> 1])

\* Two resumes of one run around its end
StaleBudget == Only([start |-> 2, pause |-> 1, resume |-> 2, done |-> 1])

\* One run, and decisions that put holds
HoldBudget == Only([start |-> 2, pause |-> 1, resume |-> 2, done |-> 1, stop |-> 1, hold |-> 2])

Symmetry == Permutations(Caller)
=============================================================================
