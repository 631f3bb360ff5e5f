------------------------------ MODULE HoldGate ------------------------------
(***************************************************************************)
(* The overturn-hold gate of the abuse enforcement service                 *)
(* (abuse-enforcement-service/service-lib/src/overturn_hold.rs).  Before a  *)
(* decision acts on an account, the gate asks a ledger whether a person has *)
(* put the account on hold.  Answers with holds are cached; a circuit       *)
(* breaker stops the questions when the ledger fails, lets one trial        *)
(* through when it has been open long enough, and a backoff stops them when *)
(* the ledger answers and cannot serve.                                     *)
(*                                                                         *)
(* A task is one call of `evaluate`, for one account.  The ledger is        *)
(* external.  An Instant is modelled by how far it lies from the clock: a   *)
(* deadline by the ticks left, a stamp by its age, capped where no          *)
(* comparison can tell more.  `generation` and `trial_seq` are only ever    *)
(* compared for equality: a task's generation is `fresh` while it is the    *)
(* breaker's, and the half-open slot names the task whose seq it holds.     *)
(***************************************************************************)
EXTENDS Integers, FiniteSets, FiniteSetsExt

CONSTANTS
    Task,           \* concurrent calls of evaluate
    NoTask,
    SuspendHold,    \* holds against suspending the account
    Exempt,         \* those a permanent suspend may ignore (perm_suspend_case_groups)
    Label,          \* a label, and the hold against setting it
    Faults,         \* classes of error the ledger gives (breaker_signal)
    Life,           \* ticks a hold lasts
    Ttl,            \* positive_cache_secs
    BreakerFailures, BreakerOpen,   \* BREAKER_FAILURES, DEFAULT_BREAKER_OPEN
    ReachableErrors, Backoff,       \* REACHABLE_ERRORS_BEFORE_BACKOFF, REACHABLE_ERROR_BACKOFF
    Stale,          \* half_open_stale_after
    AgeMax          \* cap of a probe's age

\* The slot of a trial goes stale before the breaker has been open for its time:
\* 200 ms + timeout_ms (at most 5 s) + 1 s against 10 s.
ASSUME HoldGateAssumption ==
    /\ NoTask \notin Task
    /\ Exempt \subseteq SuspendHold /\ SuspendHold \cap Label = {}
    /\ Faults \subseteq {"reachable", "neutral", "failure"}
    /\ Life \in Nat \ {0} /\ Ttl \in Nat
    /\ BreakerFailures \in Nat \ {0} /\ ReachableErrors \in Nat \ {0}
    /\ BreakerOpen \in Nat \ {0} /\ Backoff \in Nat \ {0}
    /\ Stale \in 1..BreakerOpen
    /\ AgeMax \in Nat /\ AgeMax >= Ttl /\ AgeMax >= Stale

VARIABLES
    ledger,     \* ticks each hold has left; 0: no such hold
    cache,      \* the account's entry in the positive cache
    breaker,
    task,
    overrode    \* history: holds a decision acted against with no excuse

vars == <<ledger, cache, breaker, task, overrode>>

Hold == SuspendHold \cup Label

\* An answer of the ledger: the holds found, with the ticks they have left.
Answers == UNION {[D -> 1..Life] : D \in SUBSET Hold}
NoHolds == [k \in {} |-> 0]

\* `newer` is history: the holds placed or renewed since the answer was read;
\* `read` is the age of the reading.
Entry == [holds : Answers, labels : SUBSET Label, left : 1..Ttl, age : 0..Ttl,
          read : 0..AgeMax, newer : SUBSET Hold]
NoEntry == [left |-> 0]

Signals == {"ok"} \cup Faults

TaskState ==
    [pc : {"idle", "gate", "probe", "report", "settle"}, labels : SUBSET Label,
     trial : BOOLEAN, fresh : BOOLEAN, age : 0..AgeMax, res : Signals,
     holds : Answers, read : 0..AgeMax, newer : SUBSET Hold]

IdleTask ==
    [pc |-> "idle", labels |-> {}, trial |-> FALSE, fresh |-> FALSE, age |-> 0,
     res |-> "ok", holds |-> NoHolds, read |-> 0, newer |-> {}]

BreakerState ==
    [failures : 0..BreakerFailures, open : BOOLEAN, openLeft : 0..BreakerOpen,
     slot : Task \cup {NoTask}, slotAge : 0..Stale,
     reachable : 0..ReachableErrors, backoffLeft : 0..Backoff]

\* The fields are well formed.  A cached entry has time left; the breaker is open
\* exactly when the failures reached their limit, has a half-open slot only while
\* it is open, and backs off only after enough errors.
TypeOK ==
    /\ ledger \in [Hold -> 0..Life]
    /\ cache \in Entry \cup {NoEntry}
    /\ breaker \in BreakerState
    /\ breaker.open <=> breaker.failures = BreakerFailures
    /\ breaker.slot # NoTask => breaker.open
    /\ breaker.backoffLeft > 0 => breaker.reachable = ReachableErrors
    /\ task \in [Task -> TaskState]
    /\ overrode \subseteq Hold

-----------------------------------------------------------------------------
(* evaluate: from an answer to what the decision does *)

\* The suspend holds that hold_applies keeps
Applying(perm) == IF perm THEN SuspendHold \ Exempt ELSE SuspendHold

\* The actions of a decision are what a hold could be against: the label holds
\* of the labels it sets, and the suspend holds that apply if it suspends.
Against(labels, suspend, perm) == labels \cup (IF suspend THEN Applying(perm) ELSE {})

\* What is left of the actions, in mode enforce, once an answer is applied:
\* nothing if a suspend hold applies, else all but the held labels
Kept(actions, found) ==
    IF actions \cap SuspendHold \cap found # {} THEN {} ELSE actions \ found

\* A decision about labels acts on an answer, with any config of mode enforce.
\* (In mode shadow every action is kept, by design.)
Acts(labels, answer, newer) ==
    overrode' = overrode \cup
        UNION {{k \in Kept(Against(labels, suspend, perm), DOMAIN answer) :
                    ledger[k] > 0 /\ k \notin newer} : suspend, perm \in BOOLEAN}

\* A decision that has no answer (yet): fail-closed it does nothing, and
\* fail-open it acts, as it was told to.
ActsWithout == UNCHANGED overrode

-----------------------------------------------------------------------------
(* check_timed, up to the probe *)

\* Mutant: an entry answers for labels it was not probed for.
CoversAny(labels) == cache # NoEntry

\* CachedHolds::covers
Covers(labels) == cache # NoEntry /\ labels \subseteq cache.labels

Hit(labels) == Covers(labels) /\ DOMAIN cache.holds # {}

\* `cached`: a hit answers at once; an entry none of whose holds is live is
\* dropped.
Begin(t) ==
    /\ task[t].pc = "idle"
    /\ \E labels \in SUBSET Label :
          /\ cache' = IF Covers(labels) /\ ~Hit(labels) THEN NoEntry ELSE cache
          /\ \/ Hit(labels) /\ Acts(labels, cache.holds, cache.newer) /\ UNCHANGED task
             \/ /\ ~Hit(labels)
                /\ task' = [task EXCEPT ![t].pc = "gate", ![t].labels = labels]
                /\ UNCHANGED overrode
    /\ UNCHANGED <<ledger, breaker>>

\* Mutant: every request tries.
MayTryAlways == TRUE

\* The breaker has been open for its time, and no trial is under way or its
\* slot is stale.
MayTry == breaker.slot = NoTask \/ breaker.slotAge >= Stale

\* Mutant: a trial carries the generation from before the breaker opened.
ProbesOldGeneration(t, trial) ==
    task' = [task EXCEPT ![t].pc = "probe", ![t].trial = trial, ![t].fresh = ~trial,
                         ![t].age = 0]

\* breaker_before_probe
Probes(t, trial) ==
    task' = [task EXCEPT ![t].pc = "probe", ![t].trial = trial, ![t].fresh = TRUE,
                         ![t].age = 0]

BeforeProbe(t) ==
    /\ task[t].pc = "gate"
    /\ \/ /\ ~breaker.open /\ breaker.backoffLeft = 0
          /\ Probes(t, FALSE)
          /\ UNCHANGED <<breaker, overrode>>
       \/ /\ breaker.open /\ breaker.openLeft = 0 /\ MayTry
          /\ Probes(t, TRUE)
          /\ breaker' = [breaker EXCEPT !.slot = t, !.slotAge = 0]
          /\ UNCHANGED overrode
       \/ /\ \/ ~breaker.open /\ breaker.backoffLeft > 0
             \/ breaker.open /\ (breaker.openLeft > 0 \/ ~MayTry)
          /\ task' = [task EXCEPT ![t] = IdleTask]
          /\ ActsWithout
          /\ UNCHANGED breaker
    /\ UNCHANGED <<ledger, cache>>

-----------------------------------------------------------------------------
(* The probe *)

\* The ledger reads its holds on the account.
Probe(t) ==
    LET found == {k \in SuspendHold \cup task[t].labels : ledger[k] > 0} IN
    /\ task[t].pc = "probe"
    /\ task' = [task EXCEPT ![t].pc = "report", ![t].res = "ok",
                            ![t].holds = [k \in found |-> ledger[k]]]
    /\ UNCHANGED <<ledger, cache, breaker, overrode>>

\* The probe fails, in one of the classes of breaker_signal.
ProbeFails(t) ==
    /\ task[t].pc = "probe"
    /\ \E e \in Faults : task' = [task EXCEPT ![t].pc = "report", ![t].res = e]
    /\ UNCHANGED <<ledger, cache, breaker, overrode>>

\* The slot of task t's trial is freed, if it is still its own.
Freed(t) ==
    IF task[t].trial /\ breaker.slot = t THEN [breaker EXCEPT !.slot = NoTask, !.slotAge = 0]
    ELSE breaker

\* The caller drops `evaluate` at its only await: HalfOpenTrial::drop
Drop(t) ==
    /\ task[t].pc \in {"probe", "report"}
    /\ breaker' = Freed(t)
    /\ task' = [task EXCEPT ![t] = IdleTask]
    /\ UNCHANGED <<ledger, cache, overrode>>

-----------------------------------------------------------------------------
(* breaker_after_probe *)

AtMost(n, limit) == IF n < limit THEN n ELSE limit

\* Mutant: the failures go on counting when the breaker closes.
ClosedCounting(b) == [b EXCEPT !.open = FALSE, !.openLeft = 0, !.slot = NoTask, !.slotAge = 0]

Closed(b) == [b EXCEPT !.failures = 0, !.open = FALSE, !.openLeft = 0,
                       !.slot = NoTask, !.slotAge = 0]

AfterReachable(b, isError) ==
    LET streak == AtMost(b.reachable + 1, ReachableErrors) IN
    IF ~isError THEN [Closed(b) EXCEPT !.reachable = 0, !.backoffLeft = 0]
    ELSE [Closed(b) EXCEPT !.reachable = streak,
                !.backoffLeft = IF streak >= ReachableErrors THEN Backoff ELSE @]

Opens(b) == b.open \/ b.failures + 1 >= BreakerFailures

AfterFailure(b) ==
    [b EXCEPT !.failures = AtMost(b.failures + 1, BreakerFailures),
              !.reachable = 0, !.backoffLeft = 0,
              !.open = Opens(b),
              !.openLeft = IF Opens(b) THEN BreakerOpen ELSE @]

\* An answer is still to be cached and used; a failure is all the call has.
AfterReport(t) ==
    IF task[t].res = "ok" THEN [task[t] EXCEPT !.pc = "settle", !.trial = FALSE, !.fresh = FALSE]
    ELSE IdleTask

\* Mutant: a probe from before the breaker opened still reports.
CountsAlways(t) == TRUE

\* The result is of the breaker's generation.
Counts(t) == task[t].fresh

\* What a result does to the breaker b
AfterProbe(b, res) ==
    CASE res = "ok" -> AfterReachable(b, FALSE)
      [] res = "reachable" -> AfterReachable(b, TRUE)
      [] res = "failure" -> AfterFailure(b)
      [] OTHER -> b

\* A failure that opens the breaker, or keeps it open, starts a generation: no
\* probe under way belongs to it.
Report(t) ==
    LET b == Freed(t)
        starts == Counts(t) /\ task[t].res = "failure" /\ Opens(b) IN
    /\ task[t].pc = "report"
    /\ breaker' = IF Counts(t) THEN AfterProbe(b, task[t].res) ELSE b
    /\ task' = [u \in Task |->
         IF u = t THEN AfterReport(t) ELSE [task[u] EXCEPT !.fresh = @ /\ ~starts]]
    /\ UNCHANGED <<ledger, cache>> /\ ActsWithout

-----------------------------------------------------------------------------
(* check_timed, after the probe *)

\* The ttl that `remember` gives an entry
TtlOf(holds) == Min({Ttl} \cup {holds[k] : k \in DOMAIN holds})

\* Mutant: the probe that ends last decides.
WrittenSinceNever(t) == FALSE

\* The cached entry was written after t's probe began: written_at > probe_started.
WrittenSince(t) == cache # NoEntry /\ cache.age < task[t].age

\* remember, or forget_if_older when there is no hold
Remembered(t) ==
    LET holds == task[t].holds IN
    IF WrittenSince(t) THEN cache
    ELSE IF holds = NoHolds THEN NoEntry
    ELSE IF TtlOf(holds) = 0 THEN cache
    ELSE [holds |-> holds, labels |-> task[t].labels, left |-> TtlOf(holds), age |-> 0,
          read |-> task[t].read, newer |-> task[t].newer]

\* drop_expired is the clock's doing here: an expired hold is not in `holds`.
Settle(t) ==
    /\ task[t].pc = "settle"
    /\ cache' = Remembered(t)
    /\ Acts(task[t].labels, task[t].holds, task[t].newer)
    /\ task' = [task EXCEPT ![t] = IdleTask]
    /\ UNCHANGED <<ledger, breaker>>

\* The cache is full (CACHE_MAX_WEIGHT) and drops the account's entry.
Evict ==
    /\ cache # NoEntry
    /\ cache' = NoEntry
    /\ UNCHANGED <<ledger, breaker, task, overrode>>

-----------------------------------------------------------------------------
(* The environment: people place and revoke holds, and time passes *)

\* Task t holds an answer it has not used yet.
Answered(t) == task[t].pc \in {"report", "settle"} /\ task[t].res = "ok"

\* The history of every answer under way or cached
Newer(placed, gone) ==
    /\ cache' = IF cache = NoEntry THEN cache
                ELSE [cache EXCEPT !.newer = (@ \cup placed) \ gone]
    /\ task' = [t \in Task |->
         IF Answered(t) THEN [task[t] EXCEPT !.newer = (@ \cup placed) \ gone] ELSE task[t]]

Place(k) ==
    /\ ledger[k] < Life
    /\ ledger' = [ledger EXCEPT ![k] = Life]
    /\ Newer({k}, {})
    /\ UNCHANGED <<breaker, overrode>>

Revoke(k) ==
    /\ ledger[k] > 0
    /\ ledger' = [ledger EXCEPT ![k] = 0]
    /\ Newer({}, {k})
    /\ UNCHANGED <<breaker, overrode>>

Less(n) == IF n > 0 THEN n - 1 ELSE 0

\* The holds of an answer that are live one tick later
Older(holds) == [k \in {k \in DOMAIN holds : holds[k] > 1} |-> holds[k] - 1]

Tick ==
    LET live == {k \in Hold : ledger[k] > 1} IN
    /\ ledger' = [k \in Hold |-> Less(ledger[k])]
    /\ cache' = IF cache = NoEntry \/ cache.left = 1 THEN NoEntry
                ELSE [cache EXCEPT !.holds = Older(@), !.left = @ - 1, !.age = @ + 1,
                                   !.read = AtMost(@ + 1, AgeMax), !.newer = @ \cap live]
    /\ breaker' = [breaker EXCEPT !.openLeft = Less(@), !.backoffLeft = Less(@),
                     !.slotAge = IF breaker.slot = NoTask THEN @ ELSE AtMost(@ + 1, Stale)]
    /\ task' = [t \in Task |->
         IF Answered(t)
         THEN [task[t] EXCEPT !.age = AtMost(@ + 1, AgeMax), !.read = AtMost(@ + 1, AgeMax),
                              !.holds = Older(@), !.newer = @ \cap live]
         ELSE IF task[t].pc \in {"probe", "report"}
              THEN [task[t] EXCEPT !.age = AtMost(@ + 1, AgeMax)] ELSE task[t]]
    /\ UNCHANGED overrode

-----------------------------------------------------------------------------
Init ==
    /\ ledger = [k \in Hold |-> 0]
    /\ cache = NoEntry
    /\ breaker = [failures |-> 0, open |-> FALSE, openLeft |-> 0, slot |-> NoTask,
                  slotAge |-> 0, reachable |-> 0, backoffLeft |-> 0]
    /\ task = [t \in Task |-> IdleTask]
    /\ overrode = {}

Evaluate(t) == BeforeProbe(t) \/ Probe(t) \/ ProbeFails(t) \/ Report(t) \/ Settle(t)

Next ==
    \/ \E t \in Task : Begin(t) \/ Evaluate(t) \/ Drop(t)
    \/ \E k \in Hold : Place(k) \/ Revoke(k)
    \/ Evict
    \/ Tick

Spec == Init /\ [][Next]_vars

\* Decisions keep coming, the runtime polls every call to its end, and time passes.
Fairness == WF_vars(Tick) /\ \A t \in Task : WF_vars(Begin(t)) /\ WF_vars(Evaluate(t))

FairSpec == Spec /\ Fairness

-----------------------------------------------------------------------------
\* In mode enforce no decision acts against a hold that was in the ledger
\* when the answer it used was read, and is still live: not through an entry
\* probed for other labels, not through one that lost a hold.
HoldsRespected == overrode = {}

\* Probes that overlap settle in any order, and the cache never goes back: an
\* entry is replaced or dropped before its time only for an answer that is
\* not older than its own.
CacheMovesForward ==
    [][\A t \in Task : Settle(t) /\ cache # NoEntry /\ cache' # cache =>
          task[t].read <= cache.read]_vars

Trials == {t \in Task : task[t].pc \in {"probe", "report"} /\ task[t].trial}

\* While the breaker is half open one request in all tries the ledger: of the
\* trials under way at most one is younger than half_open_stale_after.
OneTrial ==
    \A t, u \in Trials : task[t].age < Stale /\ task[u].age < Stale => t = u

\* An open breaker stays open for its time and then closes only on the report
\* of a trial: an answer to a question asked before it opened neither closes it
\* nor keeps it open longer.
OpenRunsItsTime ==
    [][breaker.open =>
          /\ breaker.openLeft > 0 =>
                breaker'.open /\ breaker'.openLeft \in {breaker.openLeft, breaker.openLeft - 1}
          /\ ~breaker'.open => \E t \in Trials : task[t].pc = "report"]_vars

Trouble == \E t \in Task : ProbeFails(t) \/ Drop(t)

\* Once the ledger answers again and no caller gives up, the breaker closes and
\* the backoff ends, for good, whatever trials were dropped, overtaken or late.
Recovers ==
    <>[][~Trouble]_vars => <>[](~breaker.open /\ breaker.backoffLeft = 0)
=============================================================================
