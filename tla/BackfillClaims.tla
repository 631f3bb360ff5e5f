--------------------------- MODULE BackfillClaims ---------------------------
(***************************************************************************)
(* The claims that keep the decisions of a backfill run from acting twice   *)
(* on an item (abuse-enforcement-service/service-lib/src/                   *)
(* backfill_claims.rs, and its callers in lib.rs).  The items of a run are  *)
(* rows of a Postgres table; a decision takes a row in one transaction, for *)
(* a ticket of the day's budget, acts, and marks the row finished.  A claim *)
(* older than STALE_AFTER may be taken over.  Decisions of any pod run side *)
(* by side, a message may be delivered any number of times, store and       *)
(* action calls fail, and a failed decision is retried with its nonce.      *)
(*                                                                         *)
(* A nonce is the decision that drew it; once the decision is over the      *)
(* nonce is Gone.  The run is RunLifecycle, which BackfillRuns implements.  *)
(* The action service, the facts of an account and the ticket counter are   *)
(* external.  The dedup slot, the rules and the other gates of a decision   *)
(* are choices here: they only say whether it goes on.                      *)
(***************************************************************************)
EXTENDS Integers, FiniteSets

CONSTANTS
    Item,           \* entities that messages of the run name
    Listed,         \* those with a row in backfill_items
    Decision,       \* decisions under way at a time, over all pods
    PodOf,          \* PodOf[d]: the pod that runs decision d
    TheRun,
    Gone,           \* the nonce of a decision that is over
    StaleAfter,     \* STALE_AFTER, in ticks
    DayBudget,      \* max_..._decisions_per_day
    MaxRetries      \* MAX_RETRIES

ASSUME ClaimsAssumption ==
    /\ Listed \subseteq Item /\ Gone \notin Decision /\ IsFiniteSet(Decision)
    /\ StaleAfter \in Nat \ {0} /\ DayBudget \in Nat /\ MaxRetries \in Nat

VARIABLES
    run,            \* effective state of the run
    row,            \* backfill_items
    dec,            \* the decisions
    tickets,        \* tickets of the day handed out
    acted,          \* acted[i]: nonces whose action reached item i
    unexplained     \* history: items acted on again without a reason

vars == <<run, row, dec, tickets, acted, unexplained>>

Lifecycle == INSTANCE RunLifecycle WITH Run <- {TheRun}, state <- run

Nonce == Decision \cup {Gone}

AgeCap == StaleAfter + 1    \* no comparison tells greater ages apart

Row == [state : {"free", "handed", "finished"}, nonce : Nonce, age : 0..AgeCap]

\* Under the key lock of the pod
Locked == {"facts", "gate", "check", "take", "act", "finish"}

\* `age` is the time since the decision last took its row.  `over` (it took the
\* row from a stale claim) and `late` (the claim was not yet stale when it
\* checked) are history.
DecisionState ==
    [pc : Locked \cup {"idle", "admit", "arrive", "lock"}, item : Item,
     tries : 0..MaxRetries, seen : BOOLEAN, took : BOOLEAN, age : 0..AgeCap,
     over : BOOLEAN, late : BOOLEAN]

Fresh(i) ==
    [pc |-> "admit", item |-> i, tries |-> 0, seen |-> FALSE, took |-> FALSE,
     age |-> 0, over |-> FALSE, late |-> FALSE]

\* Rows, decisions and counters are well formed.
TypeOK ==
    /\ row \in [Listed -> Row]
    /\ dec \in [Decision -> DecisionState]
    /\ tickets \in Nat
    /\ acted \in [Item -> SUBSET Nonce]
    /\ unexplained \subseteq Item

-----------------------------------------------------------------------------
At(d, pc) == dec[d].pc = pc

Goto(d, pc) == dec' = [dec EXCEPT ![d].pc = pc]

\* All that is left is the mark.
ToFinish(d) ==
    dec' = [dec EXCEPT ![d] = [Fresh(@.item) EXCEPT !.pc = "finish", !.took = dec[d].took]]

\* Decision d is over, and so is its nonce.
Forget(S, d) == IF d \in S THEN (S \ {d}) \cup {Gone} ELSE S

Over(d, rows) ==
    /\ dec' = [dec EXCEPT ![d] = [Fresh(dec[d].item) EXCEPT !.pc = "idle"]]
    /\ row' = [i \in Listed |->
                 IF rows[i].nonce = d THEN [rows[i] EXCEPT !.nonce = Gone] ELSE rows[i]]

EndQuietly(d) ==
    /\ Over(d, row)
    /\ acted' = [i \in Item |-> Forget(acted[i], d)]
    /\ UNCHANGED <<run, tickets, unexplained>>

\* Mutant: a run that ends keeps draining, stopped or not.
MayPassEnded == run[TheRun] \in {"Running", "Done", "Stopped"}

\* `gate`: a run that is Done still acts while it drains.
MayPass == run[TheRun] \in {"Running", "Done"}
MayRefuse == run[TheRun] # "Running"

-----------------------------------------------------------------------------
(* process: a message arrives, admit_run, dedup *)

Receive(d) ==
    /\ At(d, "idle")
    /\ \E i \in Item : dec' = [dec EXCEPT ![d] = Fresh(i)]
    /\ UNCHANGED <<run, row, tickets, acted, unexplained>>

AdmitRun(d) ==
    /\ At(d, "admit") /\ MayPass
    /\ Goto(d, "arrive")
    /\ UNCHANGED <<run, row, tickets, acted, unexplained>>

\* A run that may not act, or that three reads did not get; a message that is
\* not of the run; later, a duplicate for the dedup slot
Refuse(d) ==
    /\ \/ At(d, "admit")
       \/ At(d, "lock") /\ dec[d].tries = 0
    /\ EndQuietly(d)

Done(i) == i \in Listed /\ row[i].state = "finished"

\* The claim as admit_run sees it; one that cannot be read does not stop it.
AdmitClaim(d) ==
    LET i == dec[d].item IN
    /\ At(d, "arrive")
    /\ \/ i \in Listed /\ ~Done(i) /\ Goto(d, "lock")
             /\ UNCHANGED <<run, row, tickets, acted, unexplained>>
       \/ (i \notin Listed \/ Done(i)) /\ EndQuietly(d)

ArriveUnread(d) ==
    /\ At(d, "arrive")
    /\ Goto(d, "lock")
    /\ UNCHANGED <<run, row, tickets, acted, unexplained>>

-----------------------------------------------------------------------------
(* run_enforcement, up to the claim *)

\* KeyLocks::lock: one decision per pod and item
Lock(d) ==
    /\ At(d, "lock")
    /\ \A e \in Decision \ {d} :
          PodOf[e] = PodOf[d] /\ dec[e].item = dec[d].item => dec[e].pc \notin Locked
    /\ Goto(d, "facts")
    /\ UNCHANGED <<run, row, tickets, acted, unexplained>>

\* The facts of the account show the actions of the run, or not yet, or the
\* actions are ones that facts never show (already_applied).
ReadFacts(d) ==
    /\ At(d, "facts")
    /\ \E seen \in {FALSE, acted[dec[d].item] # {}} :
          dec' = [dec EXCEPT ![d].pc = "gate", ![d].seen = seen]
    /\ UNCHANGED <<run, row, tickets, acted, unexplained>>

\* A rule, a hold, an off switch ... skips the decision: with a status of
\* leaves_claim it ends here, with another the row is marked.
SkipLeaves(d) == At(d, "gate") /\ EndQuietly(d)

SkipFinishes(d) ==
    /\ At(d, "gate")
    /\ ToFinish(d)
    /\ UNCHANGED <<run, row, tickets, acted, unexplained>>

\* run_checks reads the run again.
GateRun(d) ==
    /\ At(d, "gate")
    /\ \/ /\ MayPass
          /\ Goto(d, "check")
          /\ UNCHANGED <<run, row, tickets, acted, unexplained>>
       \/ MayRefuse /\ EndQuietly(d)

HandedToOther(i, d) == row[i].state = "handed" /\ row[i].nonce # d
IsStale(i) == row[i].age >= StaleAfter

\* Mutant: a stale claim is taken over whatever the facts say.
CheckClaimBlindly(d) ==
    LET i == dec[d].item IN
    /\ At(d, "check")
    /\ \/ Done(i) /\ EndQuietly(d)
       \/ /\ ~Done(i)
          /\ dec' = [dec EXCEPT ![d].pc = "take",
                                ![d].late = ~(i \in Listed /\ HandedToOther(i, d) /\ IsStale(i))]
          /\ UNCHANGED <<run, row, tickets, acted, unexplained>>

\* run_checks reads the claim.
CheckClaim(d) ==
    LET i == dec[d].item
        stale == i \in Listed /\ HandedToOther(i, d) /\ IsStale(i) IN
    /\ At(d, "check")
    /\ \/ Done(i) /\ EndQuietly(d)
       \/ /\ ~Done(i)
          /\ IF stale /\ dec[d].seen THEN ToFinish(d)
             ELSE dec' = [dec EXCEPT ![d].pc = "take", ![d].late = ~stale]
          /\ UNCHANGED <<run, row, tickets, acted, unexplained>>

-----------------------------------------------------------------------------
(* PgClaimStore::take *)

\* The row is the decision's own, or is free to take for a ticket.
Own(i, d) == row[i].state = "handed" /\ row[i].nonce = d

Open(i, d) == row[i].state = "free" \/ (HandedToOther(i, d) /\ IsStale(i))

Handed(d) == [state |-> "handed", nonce |-> d, age |-> 0]

\* Mutant: a claim is taken over for free.
TicketsNew(i, d) == IF row[i].state = "free" THEN tickets + 1 ELSE tickets

Tickets(i, d) == IF Own(i, d) THEN tickets ELSE tickets + 1

\* The transaction, and what the decision then is: over a claim of its own, it is
\* what it was.
Takes(d, next) ==
    LET i == dec[d].item IN
    /\ i \in Listed
    /\ Own(i, d) \/ (Open(i, d) /\ tickets < DayBudget)
    /\ row' = [row EXCEPT ![i] = Handed(d)]
    /\ tickets' = Tickets(i, d)
    /\ dec' = [dec EXCEPT ![d] = [next EXCEPT !.took = TRUE, !.age = 0,
                                    !.over = HandedToOther(i, d) \/ (Own(i, d) /\ @)]]
    /\ UNCHANGED <<run, acted, unexplained>>

Take(d) == At(d, "take") /\ Takes(d, [dec[d] EXCEPT !.pc = "act"])

\* Held and BudgetReached leave the claim; NotInList is marked, which finds no row.
TakeRefused(d) ==
    LET i == dec[d].item IN
    /\ At(d, "take")
    /\ \/ /\ i \in Listed /\ ~Own(i, d)
          /\ ~Open(i, d) \/ tickets >= DayBudget
          /\ EndQuietly(d)
       \/ /\ i \notin Listed
          /\ ToFinish(d)
          /\ UNCHANGED <<run, row, tickets, acted, unexplained>>

-----------------------------------------------------------------------------
(* The action, the mark, and what goes wrong *)

\* d's action reaches item i.  Another decision's did before: that has a reason
\* when d took over a stale claim, without knowing of the action or before its
\* check could tell that the claim was stale, or d has been slow itself.
Reaches(d, i) ==
    LET again == acted[i] \ {d} # {}
        reason == \/ dec[d].age >= StaleAfter
                  \/ dec[d].over /\ (~dec[d].seen \/ dec[d].late) IN
    /\ acted' = [acted EXCEPT ![i] = @ \cup {d}]
    /\ unexplained' = IF again /\ ~reason THEN unexplained \cup {i} ELSE unexplained

Act(d) ==
    /\ At(d, "act")
    /\ Reaches(d, dec[d].item)
    /\ ToFinish(d)
    /\ UNCHANGED <<run, row, tickets>>

\* PermanentAisFailure, perhaps after some of the actions: the claim is finished
\* as ais_rejected.
Rejected(d) ==
    /\ At(d, "act")
    /\ \/ Reaches(d, dec[d].item)
       \/ UNCHANGED <<acted, unexplained>>
    /\ ToFinish(d)
    /\ UNCHANGED <<run, row, tickets>>

\* A failed decision goes to the retry queue, until it has been there often enough.
Again(d) ==
    [dec[d] EXCEPT !.pc = "lock", !.tries = @ + 1, !.seen = FALSE, !.late = FALSE, !.age = 0]

\* Mutant: the retries are not counted out.
CallFailsForever(d) ==
    /\ dec[d].pc \in {"facts", "gate", "check", "take"}
    /\ dec' = [dec EXCEPT ![d] = Again(d)]
    /\ UNCHANGED <<run, row, tickets, acted, unexplained>>

\* A store or facts call fails.
CallFails(d) ==
    /\ dec[d].pc \in {"facts", "gate", "check", "take"}
    /\ dec[d].tries < MaxRetries
    /\ dec' = [dec EXCEPT ![d] = Again(d)]
    /\ UNCHANGED <<run, row, tickets, acted, unexplained>>

\* The transaction of `take` commits and the answer is lost.
TakeLost(d) ==
    /\ At(d, "take") /\ dec[d].tries < MaxRetries
    /\ Takes(d, Again(d))

\* The action fails for now; it may have been done.
ActFails(d) ==
    /\ At(d, "act") /\ dec[d].tries < MaxRetries
    /\ \/ Reaches(d, dec[d].item)
       \/ UNCHANGED <<acted, unexplained>>
    /\ dec' = [dec EXCEPT ![d] = Again(d)]
    /\ UNCHANGED <<run, row, tickets>>

\* Mutant: the mark does not look at the holder.
MarksAny(i, d) == TRUE

\* The condition of the UPDATE of `finish`
Marks(i, d) ==
    \/ row[i].state = "free"
    \/ row[i].state = "handed" /\ (row[i].nonce = d \/ row[i].age > StaleAfter)

Finish(d) ==
    LET i == dec[d].item IN
    /\ At(d, "finish")
    /\ Over(d, IF i \in Listed /\ Marks(i, d) THEN [row EXCEPT ![i].state = "finished"] ELSE row)
    /\ acted' = [j \in Item |-> Forget(acted[j], d)]
    /\ UNCHANGED <<run, tickets, unexplained>>

\* The retries are used up, the mark fails (a warning), or the pod dies.
Lose(d) == dec[d].pc # "idle" /\ EndQuietly(d)

-----------------------------------------------------------------------------
RunChanges == Lifecycle!Next /\ UNCHANGED <<row, dec, tickets, acted, unexplained>>

Older(n) == IF n < AgeCap THEN n + 1 ELSE n

Tick ==
    /\ row' = [i \in Listed |-> IF row[i].state = "handed" THEN [row[i] EXCEPT !.age = Older(@)]
                               ELSE row[i]]
    /\ dec' = [d \in Decision |-> IF dec[d].pc = "act" THEN [dec[d] EXCEPT !.age = Older(@)]
                                 ELSE dec[d]]
    /\ UNCHANGED <<run, tickets, acted, unexplained>>

Init ==
    /\ Lifecycle!Init
    /\ row = [i \in Listed |-> [state |-> "free", nonce |-> Gone, age |-> 0]]
    /\ dec \in [Decision -> {[Fresh(i) EXCEPT !.pc = "idle"] : i \in Item}]
    /\ tickets = 0
    /\ acted = [i \in Item |-> {}]
    /\ unexplained = {}

Process(d) == Receive(d) \/ AdmitRun(d) \/ Refuse(d) \/ AdmitClaim(d) \/ ArriveUnread(d)

Enforce(d) ==
    \/ Lock(d) \/ ReadFacts(d) \/ SkipLeaves(d) \/ SkipFinishes(d) \/ GateRun(d)
    \/ CheckClaim(d) \/ Take(d) \/ TakeRefused(d) \/ Act(d) \/ Rejected(d) \/ Finish(d)

Faulty(d) == CallFails(d) \/ TakeLost(d) \/ ActFails(d) \/ Lose(d)

Next ==
    \/ \E d \in Decision : Process(d) \/ Enforce(d) \/ Faulty(d)
    \/ RunChanges
    \/ Tick

Spec == Init /\ [][Next]_vars

\* Pods poll their decisions to the end.
Fairness == \A d \in Decision : WF_vars(Process(d)) /\ WF_vars(Enforce(d))

FairSpec == Spec /\ Fairness

-----------------------------------------------------------------------------
\* A decision about to act whose claim is younger than STALE_AFTER holds
\* the row: nothing that other decisions take, mark or retry has moved it, so
\* no other decision with such a claim is about to act on the item.
ClaimHeld ==
    \A d \in Decision : At(d, "act") /\ dec[d].age < StaleAfter => Own(dec[d].item, d)

\* An item is acted on by a second decision only for a reason: one of the two
\* was slow past STALE_AFTER, and the one that took over could not know better.
RepeatsExplained == unexplained = {}

\* The budget is exact: no more tickets than the day has, and every decision that
\* took a row, by itself or in a retry, has used one up.
BudgetExact ==
    tickets <= DayBudget /\ Cardinality({d \in Decision : dec[d].took}) <= tickets

\* Decision d has looked at the run for the last time before it acts.
PastGate(d) == dec[d].pc \in {"check", "take", "act"}

IsStopped == run[TheRun] = "Stopped"

\* A decision that still has to look at a stopped run, one that will be retried
\* included, gets no further.
StopBars == [][\A d \in Decision : IsStopped /\ ~PastGate(d) => ~PastGate(d)']_vars

\* Stopping a run ends its actions: no decision gets past the gate any more, and so
\* none is about to act from some time after the stop on.
StopQuiets == StopBars /\ (IsStopped ~> (\A d \in Decision : ~PastGate(d)))
=============================================================================
