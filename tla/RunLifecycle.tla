---------------------------- MODULE RunLifecycle ----------------------------
(***************************************************************************)
(* What the rest of the service may rely on in the state of a backfill run  *)
(* as `Backfill::run` reports it (stored record, stop marker and off-switch *)
(* hold combined, abuse-enforcement-service/service-lib/src/backfill.rs).   *)
(* A run starts paused, it is never forgotten, a stopped run stays stopped, *)
(* and the state of one run changes at a time.  Nothing else is promised:   *)
(* the writers of a run race, so a run may leave Done or be paused and      *)
(* running in any order.  BackfillRuns implements this; BackfillClaims      *)
(* relies on it.                                                            *)
(***************************************************************************)
CONSTANT Run

VARIABLE state      \* state[r]: the effective state of run r

Known == {"Running", "Paused", "Done"}

Init == state = [r \in Run |-> "Absent"]

Move(r) ==
    \/ state[r] = "Absent" /\ state' = [state EXCEPT ![r] = "Paused"]
    \/ /\ state[r] \in Known
       /\ \E s \in Known \cup {"Stopped"} : state' = [state EXCEPT ![r] = s]

Next == \E r \in Run : Move(r)

Spec == Init /\ [][Next]_state
=============================================================================
