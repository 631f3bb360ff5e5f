--------------------------- MODULE HoldGateProofs ---------------------------
(***************************************************************************)
(* Proofs about HoldGate, for any number of calls and any constants.        *)
(***************************************************************************)
EXTENDS HoldGate, TLAPS, WellFoundedInduction

\* A non-empty set of naturals has a least element, and Min is it.
LEMMA MinOfNats ==
    ASSUME NEW S \in SUBSET Nat, S # {}
    PROVE  Min(S) \in S /\ \A y \in S : Min(S) =< y
<1> DEFINE R == {p \in Nat \X Nat : p[1] < p[2]}
<1>1. IsWellFoundedOn(R, Nat)
  BY Zenon, NatLessThanWellFounded DEF OpToRel
<1> HIDE DEF R
<1>2. PICK x \in S : \A y \in S : ~(<<y, x>> \in R)
  BY Zenon, <1>1, WFMin
<1>3. ASSUME NEW y \in S PROVE x =< y
  <2>1. x \in Nat /\ y \in Nat /\ <<y, x>> \notin R
    BY Zenon, <1>2
  <2>2. y < x => <<y, x>> \in R
    BY Zenon, <2>1 DEF R
  <2> QED
    BY <2>1, <2>2
<1> QED
  BY Zenon, <1>3 DEF Min

-----------------------------------------------------------------------------
(* Types.  An entry's time adds up to at most its ttl. *)

EntryFits(c) == c = NoEntry \/ (c \in Entry /\ c.age + c.left <= Ttl)

BreakerFits(b) ==
    /\ b \in BreakerState
    /\ b.open <=> b.failures = BreakerFailures
    /\ b.slot # NoTask => b.open
    /\ b.backoffLeft > 0 => b.reachable = ReachableErrors

Typed ==
    /\ ledger \in [Hold -> 0..Life]
    /\ EntryFits(cache)
    /\ BreakerFits(breaker)
    /\ task \in [Task -> TaskState]
    /\ overrode \subseteq Hold

LEMMA TypedIsTypeOK == Typed => TypeOK
  BY Zenon DEF Typed, TypeOK, EntryFits, BreakerFits

LEMMA EntryIsEntry == ASSUME NEW e \in Entry PROVE e # NoEntry
<1>1. e.left \in 1..Ttl
  BY Zenon DEF Entry
<1>2. NoEntry.left = 0
  BY Zenon DEF NoEntry
<1> QED
  BY <1>1, <1>2, HoldGateAssumption DEF HoldGateAssumption

LEMMA NoHoldsAnswer == NoHolds \in Answers
<1>1. NoHolds \in [{} -> 1..Life]
  BY Zenon DEF NoHolds
<1> QED
  BY Zenon, <1>1 DEF Answers

LEMMA IdleTyped == IdleTask \in TaskState
  BY NoHoldsAnswer, HoldGateAssumption DEF HoldGateAssumption, IdleTask, TaskState, Signals

\* A hold that stays in an answer loses a tick.
LEMMA OlderAnswer ==
    ASSUME NEW h \in Answers
    PROVE  /\ Older(h) \in Answers
           /\ DOMAIN Older(h) = {k \in DOMAIN h : h[k] > 1}
           /\ \A k \in DOMAIN Older(h) : Older(h)[k] = h[k] - 1
<1>1. PICK D \in SUBSET Hold : h \in [D -> 1..Life]
  BY Zenon DEF Answers
<1> DEFINE E == {k \in D : h[k] > 1}
<1>2. DOMAIN h = D
  BY Zenon, <1>1
<1>3. Older(h) = [k \in E |-> h[k] - 1]
  BY Zenon, <1>2 DEF Older
<1>4. Older(h) \in [E -> 1..Life]
  BY <1>1, <1>3, HoldGateAssumption DEF HoldGateAssumption
<1>5. E \in SUBSET Hold
  BY Zenon, <1>1
<1> QED
  BY Zenon, <1>2, <1>3, <1>4, <1>5 DEF Answers

LEMMA AtMostBound ==
    ASSUME NEW n \in Nat, NEW limit \in Nat
    PROVE  AtMost(n, limit) \in 0..limit
  BY DEF AtMost

LEMMA FreedFits ==
    ASSUME BreakerFits(breaker), NEW t \in Task
    PROVE  /\ BreakerFits(Freed(t))
           /\ Freed(t).open = breaker.open
           /\ Freed(t).openLeft = breaker.openLeft
           /\ Freed(t).slot \in {breaker.slot, NoTask}
           /\ Freed(t).slotAge = breaker.slotAge \/ Freed(t).slot = NoTask
<1> DEFINE b == [breaker EXCEPT !.slot = NoTask, !.slotAge = 0]
<1>1. breaker \in BreakerState
  BY Zenon DEF BreakerFits
<1>2. b \in BreakerState
  <2>1. NoTask \in Task \cup {NoTask} /\ 0 \in 0..Stale
    BY HoldGateAssumption DEF HoldGateAssumption
  <2> QED
    BY Zenon, <1>1, <2>1 DEF BreakerState
<1>3. /\ b.failures = breaker.failures /\ b.open = breaker.open /\ b.openLeft = breaker.openLeft
      /\ b.slot = NoTask /\ b.reachable = breaker.reachable /\ b.backoffLeft = breaker.backoffLeft
  BY Zenon, <1>1 DEF BreakerState
<1> HIDE DEF b
<1>4. BreakerFits(b)
  BY Zenon, <1>2, <1>3 DEF BreakerFits
<1> QED
  BY Zenon, <1>3, <1>4 DEF Freed, b

\* The parts of breaker_after_probe keep the breaker well formed.
LEMMA ClosedFits ==
    ASSUME NEW b, BreakerFits(b), NEW reachable \in 0..ReachableErrors, NEW left \in 0..Backoff,
           left > 0 => reachable = ReachableErrors
    PROVE  BreakerFits([Closed(b) EXCEPT !.reachable = reachable, !.backoffLeft = left])
<1> DEFINE c == [Closed(b) EXCEPT !.reachable = reachable, !.backoffLeft = left]
<1>1. b \in BreakerState
  BY Zenon DEF BreakerFits
<1>2. /\ NoTask \in Task \cup {NoTask} /\ 0 \in 0..Stale /\ 0 \in 0..BreakerOpen
      /\ 0 \in 0..BreakerFailures /\ 0 # BreakerFailures /\ FALSE \in BOOLEAN
  BY HoldGateAssumption DEF HoldGateAssumption
<1>3. c \in BreakerState
  BY Zenon, <1>1, <1>2 DEF BreakerState, Closed
<1>4. c.failures = 0 /\ c.open = FALSE /\ c.slot = NoTask /\ c.reachable = reachable /\ c.backoffLeft = left
  BY Zenon, <1>1 DEF BreakerState, Closed
<1> HIDE DEF c
<1>5. BreakerFits(c)
  BY Zenon, <1>2, <1>3, <1>4 DEF BreakerFits
<1> QED
  BY Zenon, <1>5 DEF c

LEMMA FailureFits ==
    ASSUME NEW b, BreakerFits(b) PROVE BreakerFits(AfterFailure(b))
<1> DEFINE n == AtMost(b.failures + 1, BreakerFailures)
           left == IF Opens(b) THEN BreakerOpen ELSE b.openLeft
           c == [b EXCEPT !.failures = n, !.reachable = 0, !.backoffLeft = 0,
                          !.open = Opens(b), !.openLeft = left]
<1>1. b \in BreakerState /\ b.failures \in 0..BreakerFailures /\ b.openLeft \in 0..BreakerOpen
  BY Zenon DEF BreakerFits, BreakerState
<1>2. /\ n \in 0..BreakerFailures /\ 0 \in 0..ReachableErrors /\ 0 \in 0..Backoff
      /\ left \in 0..BreakerOpen
  BY <1>1, HoldGateAssumption DEF HoldGateAssumption, AtMost
<1>3. Opens(b) \in BOOLEAN /\ (Opens(b) <=> n = BreakerFailures) /\ (b.open => Opens(b))
  <2>1. b.open \in BOOLEAN /\ (b.open <=> b.failures = BreakerFailures)
    BY Zenon, <1>1 DEF BreakerFits, BreakerState
  <2>2. n = BreakerFailures <=> b.failures = BreakerFailures \/ b.failures + 1 >= BreakerFailures
    BY <1>1, HoldGateAssumption DEF HoldGateAssumption, AtMost
  <2> QED
    BY Zenon, <2>1, <2>2 DEF Opens
<1>4. AfterFailure(b) = c
  BY Zenon, <1>1 DEF AfterFailure, BreakerState
<1> HIDE DEF n, left
<1>5. c \in BreakerState
  BY Zenon, <1>1, <1>2, <1>3 DEF BreakerState
<1>6. /\ c.failures = n /\ c.open = Opens(b) /\ c.slot = b.slot /\ c.backoffLeft = 0
  BY Zenon, <1>1 DEF BreakerState
<1> HIDE DEF c
<1>7. BreakerFits(c)
  BY <1>3, <1>5, <1>6 DEF BreakerFits
<1> QED
  BY Zenon, <1>4, <1>7

LEMMA AfterProbeFits ==
    ASSUME NEW b, BreakerFits(b), NEW res PROVE BreakerFits(AfterProbe(b, res))
<1>1. b.reachable \in 0..ReachableErrors /\ b.backoffLeft \in 0..Backoff
  BY Zenon DEF BreakerFits, BreakerState
<1>2. BreakerFits(AfterReachable(b, FALSE))
  <2>1. 0 \in 0..ReachableErrors /\ 0 \in 0..Backoff /\ ~(0 > 0)
    BY HoldGateAssumption DEF HoldGateAssumption
  <2> QED
    BY Zenon, <2>1, ClosedFits DEF AfterReachable
<1>3. BreakerFits(AfterReachable(b, TRUE))
  <2> DEFINE streak == AtMost(b.reachable + 1, ReachableErrors)
             left == IF streak >= ReachableErrors THEN Backoff ELSE b.backoffLeft
  <2>1. streak \in 0..ReachableErrors /\ left \in 0..Backoff
    BY <1>1, HoldGateAssumption DEF HoldGateAssumption, AtMost
  <2>2. left > 0 => streak = ReachableErrors
    BY <1>1, HoldGateAssumption DEF HoldGateAssumption, AtMost, BreakerFits
  <2>3. AfterReachable(b, TRUE) = [Closed(b) EXCEPT !.reachable = streak, !.backoffLeft = left]
    <3>1. b \in BreakerState
      BY Zenon DEF BreakerFits
    <3> QED
      BY Zenon, <3>1 DEF AfterReachable, Closed, BreakerState
  <2> HIDE DEF streak, left
  <2>4. BreakerFits([Closed(b) EXCEPT !.reachable = streak, !.backoffLeft = left])
    BY Zenon, <2>1, <2>2, ClosedFits
  <2> QED
    BY Zenon, <2>3, <2>4
<1>4. BreakerFits(AfterFailure(b))
  BY Zenon, FailureFits
<1> QED
  BY Zenon, <1>2, <1>3, <1>4 DEF AfterProbe

\* An action that is kept is one the decision had and the answer does not hold.
LEMMA KeptNotHeld ==
    ASSUME NEW labels, NEW suspend \in BOOLEAN, NEW perm \in BOOLEAN, NEW found
    PROVE  Kept(Against(labels, suspend, perm), found) \subseteq (SuspendHold \cup labels) \ found
<1>1. Against(labels, suspend, perm) \subseteq SuspendHold \cup labels
  BY Zenon DEF Against, Applying
<1>2. ASSUME NEW A PROVE Kept(A, found) \subseteq A \ found
  BY Zenon DEF Kept
<1> QED
  BY Zenon, <1>1, <1>2

\* What a decision acts against lies outside its answer.
LEMMA ActsOutside ==
    ASSUME NEW labels, NEW answer, NEW newer, Acts(labels, answer, newer),
           NEW k \in overrode', k \notin overrode
    PROVE  /\ k \in SuspendHold \cup labels
           /\ k \notin DOMAIN answer
           /\ ledger[k] > 0 /\ k \notin newer
<1>1. PICK suspend \in BOOLEAN, perm \in BOOLEAN :
        /\ k \in Kept(Against(labels, suspend, perm), DOMAIN answer)
        /\ ledger[k] > 0 /\ k \notin newer
  BY DEF Acts
<1>2. Kept(Against(labels, suspend, perm), DOMAIN answer) \subseteq
          (SuspendHold \cup labels) \ DOMAIN answer
  BY KeptNotHeld
<1> QED
  BY Zenon, <1>1, <1>2

LEMMA ActsTyped ==
    ASSUME overrode \subseteq Hold, NEW labels \in SUBSET Label, NEW answer, NEW newer,
           Acts(labels, answer, newer)
    PROVE  overrode' \subseteq Hold
<1> SUFFICES ASSUME NEW k \in overrode', k \notin overrode PROVE k \in Hold
  BY Zenon
<1>1. k \in SuspendHold \cup labels
  BY Zenon, ActsOutside
<1> QED
  BY Zenon, <1>1 DEF Hold

LEMMA TtlFits ==
    ASSUME NEW h \in Answers PROVE TtlOf(h) \in 0..Ttl
<1> DEFINE S == {Ttl} \cup {h[k] : k \in DOMAIN h}
<1>1. PICK D \in SUBSET Hold : h \in [D -> 1..Life]
  BY Zenon DEF Answers
<1>2. S \in SUBSET Nat /\ S # {} /\ Ttl \in S
  BY <1>1, HoldGateAssumption DEF HoldGateAssumption
<1>3. Min(S) \in S /\ Min(S) <= Ttl
  BY Zenon, <1>2, MinOfNats
<1> QED
  BY <1>2, <1>3, HoldGateAssumption DEF TtlOf, HoldGateAssumption

-----------------------------------------------------------------------------
(* Every step keeps the types. *)

LEMMA TypedBegin ==
    ASSUME Typed, NEW t \in Task, Begin(t) PROVE Typed'
<1>1. PICK labels \in SUBSET Label :
        /\ cache' \in {cache, NoEntry}
        /\ \/ Acts(labels, cache.holds, cache.newer) /\ UNCHANGED task
           \/ /\ task' = [task EXCEPT ![t].pc = "gate", ![t].labels = labels]
              /\ UNCHANGED overrode
  BY Zenon DEF Begin
<1>2. EntryFits(cache')
  BY Zenon, <1>1 DEF Typed, EntryFits
<1>3. overrode' \subseteq Hold
  BY Zenon, <1>1, ActsTyped DEF Typed
<1>4. task' \in [Task -> TaskState]
  <2>1. task[t] \in TaskState
    BY Zenon DEF Typed
  <2>2. [task[t] EXCEPT !.pc = "gate", !.labels = labels] \in TaskState
    BY Zenon, <2>1 DEF TaskState
  <2> QED
    BY Zenon, <1>1, <2>2 DEF Typed
<1> QED
  BY Zenon, <1>2, <1>3, <1>4 DEF Typed, Begin

LEMMA TypedBeforeProbe ==
    ASSUME Typed, NEW t \in Task, BeforeProbe(t) PROVE Typed'
<1>1. task' \in [Task -> TaskState]
  <2>1. task[t] \in TaskState
    BY Zenon DEF Typed
  <2>2. ASSUME NEW trial \in BOOLEAN
        PROVE  [task[t] EXCEPT !.pc = "probe", !.trial = trial, !.fresh = TRUE, !.age = 0] \in TaskState
    <3>1. 0 \in 0..AgeMax
      BY HoldGateAssumption DEF HoldGateAssumption
    <3> QED
      BY Zenon, <2>1, <3>1 DEF TaskState
  <2>3. \/ task' = [task EXCEPT ![t] = IdleTask]
        \/ \E trial \in BOOLEAN : Probes(t, trial)
    BY Zenon DEF BeforeProbe
  <2>4. CASE task' = [task EXCEPT ![t] = IdleTask]
    BY Zenon, <2>4, IdleTyped DEF Typed
  <2>5. CASE \E trial \in BOOLEAN : Probes(t, trial)
    <3>1. PICK trial \in BOOLEAN : Probes(t, trial)
      BY Zenon, <2>5
    <3> DEFINE p == [task[t] EXCEPT !.pc = "probe", !.trial = trial, !.fresh = TRUE, !.age = 0]
    <3>2. p \in TaskState
      BY Zenon, <2>2
    <3>3. task' = [task EXCEPT ![t] = p]
      BY Zenon, <3>1 DEF Probes, Typed
    <3> HIDE DEF p
    <3> QED
      BY Zenon, <3>2, <3>3 DEF Typed
  <2> QED
    BY Zenon, <2>3, <2>4, <2>5
<1>2. BreakerFits(breaker')
  <2>1. CASE UNCHANGED breaker
    BY Zenon, <2>1 DEF Typed
  <2>2. CASE breaker.open /\ breaker' = [breaker EXCEPT !.slot = t, !.slotAge = 0]
    <3>1. breaker \in BreakerState
      BY Zenon DEF Typed, BreakerFits
    <3>2. 0 \in 0..Stale /\ t \in Task \cup {NoTask}
      BY HoldGateAssumption DEF HoldGateAssumption
    <3>3. breaker' \in BreakerState
      BY Zenon, <2>2, <3>1, <3>2 DEF BreakerState
    <3>4. /\ breaker'.failures = breaker.failures /\ breaker'.open = breaker.open
          /\ breaker'.reachable = breaker.reachable /\ breaker'.backoffLeft = breaker.backoffLeft
      BY Zenon, <2>2, <3>1 DEF BreakerState
    <3> QED
      BY Zenon, <2>2, <3>3, <3>4 DEF Typed, BreakerFits
  <2> QED
    BY Zenon, <2>1, <2>2 DEF BeforeProbe
<1>3. UNCHANGED <<ledger, cache, overrode>>
  BY Zenon DEF BeforeProbe, ActsWithout
<1> QED
  BY Zenon, <1>1, <1>2, <1>3 DEF Typed

LEMMA FoundAnswer ==
    ASSUME Typed, NEW S \in SUBSET Hold
    PROVE  [k \in {k \in S : ledger[k] > 0} |-> ledger[k]] \in Answers
<1> DEFINE found == {k \in S : ledger[k] > 0}
<1>1. [k \in found |-> ledger[k]] \in [found -> 1..Life]
  BY HoldGateAssumption DEF Typed, HoldGateAssumption
<1>2. found \in SUBSET Hold
  BY Zenon
<1> QED
  BY Zenon, <1>1, <1>2 DEF Answers

LEMMA TypedProbe ==
    ASSUME Typed, NEW t \in Task, Probe(t) \/ ProbeFails(t) PROVE Typed'
<1>1. task[t] \in TaskState
  BY Zenon DEF Typed
<1>2. SuspendHold \cup task[t].labels \in SUBSET Hold
  BY Zenon, <1>1 DEF TaskState, Hold
<1>3. ASSUME Probe(t) PROVE task' \in [Task -> TaskState]
  <2> DEFINE holds == [k \in {k \in SuspendHold \cup task[t].labels : ledger[k] > 0} |-> ledger[k]]
  <2>1. holds \in Answers
    BY Zenon, <1>2, FoundAnswer
  <2>2. task' = [task EXCEPT ![t].pc = "report", ![t].res = "ok", ![t].holds = holds]
    BY Zenon, <1>3 DEF Probe
  <2> HIDE DEF holds
  <2>3. [task[t] EXCEPT !.pc = "report", !.res = "ok", !.holds = holds] \in TaskState
    BY Zenon, <1>1, <2>1 DEF TaskState, Signals
  <2> QED
    BY Zenon, <2>2, <2>3 DEF Typed
<1>4. ASSUME ProbeFails(t) PROVE task' \in [Task -> TaskState]
  <2>1. PICK e \in Faults : task' = [task EXCEPT ![t].pc = "report", ![t].res = e]
    BY Zenon, <1>4 DEF ProbeFails
  <2>2. [task[t] EXCEPT !.pc = "report", !.res = e] \in TaskState
    BY Zenon, <1>1 DEF TaskState, Signals
  <2> QED
    BY Zenon, <2>1, <2>2 DEF Typed
<1> QED
  BY Zenon, <1>3, <1>4 DEF Typed, Probe, ProbeFails

LEMMA TypedDrop ==
    ASSUME Typed, NEW t \in Task, Drop(t) PROVE Typed'
<1>1. task' \in [Task -> TaskState]
  BY Zenon, IdleTyped DEF Typed, Drop
<1>2. BreakerFits(breaker')
  BY Zenon, FreedFits DEF Typed, Drop
<1> QED
  BY Zenon, <1>1, <1>2 DEF Typed, Drop

LEMMA TypedReport ==
    ASSUME Typed, NEW t \in Task, Report(t) PROVE Typed'
<1>1. BreakerFits(breaker')
  <2>1. BreakerFits(Freed(t))
    BY Zenon, FreedFits DEF Typed
  <2>2. BreakerFits(AfterProbe(Freed(t), task[t].res))
    BY Zenon, <2>1, AfterProbeFits
  <2> QED
    BY Zenon, <2>1, <2>2 DEF Report
<1>2. task' \in [Task -> TaskState]
  <2>1. ASSUME NEW u \in Task PROVE task[u] \in TaskState
    BY Zenon DEF Typed
  <2>2. AfterReport(t) \in TaskState
    BY Zenon, <2>1, IdleTyped DEF AfterReport, TaskState
  <2>3. ASSUME NEW u \in Task, NEW fresh \in BOOLEAN
        PROVE  [task[u] EXCEPT !.fresh = fresh] \in TaskState
    BY Zenon, <2>1 DEF TaskState
  <2>4. PICK starts \in BOOLEAN : task' = [u \in Task |->
          IF u = t THEN AfterReport(t) ELSE [task[u] EXCEPT !.fresh = @ /\ ~starts]]
    BY Zenon DEF Report
  <2>5. ASSUME NEW u \in Task PROVE [task[u] EXCEPT !.fresh = @ /\ ~starts] \in TaskState
    BY Zenon, <2>3
  <2> QED
    BY Zenon, <2>2, <2>4, <2>5
<1>3. UNCHANGED <<ledger, cache, overrode>>
  BY Zenon DEF Report, ActsWithout
<1> QED
  BY Zenon, <1>1, <1>2, <1>3 DEF Typed

\* An entry that `remember` writes
LEMMA RememberedFits ==
    ASSUME Typed, NEW t \in Task
    PROVE  EntryFits(Remembered(t))
<1> DEFINE left == TtlOf(task[t].holds)
           e == [holds |-> task[t].holds, labels |-> task[t].labels, left |-> left, age |-> 0,
                 read |-> task[t].read, newer |-> task[t].newer]
<1>1. task[t] \in TaskState
  BY Zenon DEF Typed
<1>2. left \in 0..Ttl
  BY Zenon, <1>1, TtlFits DEF TaskState
<1> HIDE DEF left
<1>3. ASSUME left # 0 PROVE EntryFits(e)
  <2>1. left \in 1..Ttl /\ 0 \in 0..Ttl /\ 0 + left <= Ttl
    BY <1>2, <1>3, HoldGateAssumption DEF HoldGateAssumption
  <2>2. e \in Entry
    BY Zenon, <1>1, <2>1 DEF Entry, TaskState
  <2> QED
    BY Zenon, <2>1, <2>2 DEF EntryFits
<1>4. Remembered(t) \in {cache, NoEntry} \/ (left # 0 /\ Remembered(t) = e)
  BY Zenon DEF Remembered, left
<1>5. EntryFits(cache) /\ EntryFits(NoEntry)
  BY Zenon DEF EntryFits, Typed
<1> HIDE DEF e
<1> QED
  BY Zenon, <1>3, <1>4, <1>5

LEMMA TypedSettle ==
    ASSUME Typed, NEW t \in Task, Settle(t) PROVE Typed'
<1>1. task[t] \in TaskState
  BY Zenon DEF Typed
<1>2. overrode' \subseteq Hold
  BY Zenon, <1>1, ActsTyped DEF Settle, Typed, TaskState
<1>3. EntryFits(cache')
  BY Zenon, RememberedFits DEF Settle
<1>4. task' \in [Task -> TaskState]
  BY Zenon, IdleTyped DEF Typed, Settle
<1> QED
  BY Zenon, <1>2, <1>3, <1>4 DEF Typed, Settle

\* A hold placed or revoked
LEMMA TypedNewer ==
    ASSUME Typed, NEW placed \in SUBSET Hold, NEW gone, Newer(placed, gone)
    PROVE  EntryFits(cache') /\ task' \in [Task -> TaskState]
<1>1. EntryFits(cache')
  <2>1. CASE cache = NoEntry
    BY Zenon, <2>1 DEF Newer, EntryFits
  <2>2. CASE cache # NoEntry
    <3>1. cache \in Entry /\ cache.age + cache.left <= Ttl
      BY Zenon, <2>2 DEF Typed, EntryFits
    <3>2. cache' = [cache EXCEPT !.newer = (@ \cup placed) \ gone]
      BY Zenon, <2>2 DEF Newer
    <3>3. (cache.newer \cup placed) \ gone \in SUBSET Hold
      BY Zenon, <3>1 DEF Entry
    <3>4. cache' \in Entry /\ cache'.age = cache.age /\ cache'.left = cache.left
      BY Zenon, <3>1, <3>2, <3>3 DEF Entry
    <3> QED
      BY Zenon, <3>1, <3>4 DEF EntryFits
  <2> QED
    BY Zenon, <2>1, <2>2
<1>2. task' \in [Task -> TaskState]
  <2>1. ASSUME NEW t \in Task
        PROVE  [task[t] EXCEPT !.newer = (@ \cup placed) \ gone] \in TaskState
    <3>1. task[t] \in TaskState
      BY Zenon DEF Typed
    <3>2. (task[t].newer \cup placed) \ gone \in SUBSET Hold
      BY Zenon, <3>1 DEF TaskState
    <3> QED
      BY Zenon, <3>1, <3>2 DEF TaskState
  <2> QED
    BY Zenon, <2>1 DEF Newer, Typed
<1> QED
  BY Zenon, <1>1, <1>2

LEMMA TypedLedger ==
    ASSUME Typed, NEW h \in Hold, Place(h) \/ Revoke(h) PROVE Typed'
<1>1. PICK placed \in SUBSET Hold, gone \in SUBSET Hold : Newer(placed, gone)
  <2>1. {h} \in SUBSET Hold /\ {} \in SUBSET Hold
    BY Zenon
  <2> QED
    BY Zenon, <2>1 DEF Place, Revoke
<1>2. EntryFits(cache') /\ task' \in [Task -> TaskState]
  BY Zenon, <1>1, TypedNewer
<1>3. ledger' \in [Hold -> 0..Life]
  BY HoldGateAssumption DEF HoldGateAssumption, Typed, Place, Revoke
<1>4. UNCHANGED <<breaker, overrode>>
  BY Zenon DEF Place, Revoke
<1> QED
  BY Zenon, <1>2, <1>3, <1>4 DEF Typed

LEMMA TickBreaker ==
    ASSUME Typed, Tick
    PROVE  /\ BreakerFits(breaker')
           /\ breaker'.open = breaker.open /\ breaker'.slot = breaker.slot
           /\ breaker'.openLeft = Less(breaker.openLeft)
           /\ breaker.slot # NoTask => breaker'.slotAge = AtMost(breaker.slotAge + 1, Stale)
<1> DEFINE slotAge == IF breaker.slot = NoTask THEN breaker.slotAge
                      ELSE AtMost(breaker.slotAge + 1, Stale)
           openLeft == Less(breaker.openLeft)
           backoffLeft == Less(breaker.backoffLeft)
<1>1. breaker \in BreakerState
  BY Zenon DEF Typed, BreakerFits
<1>2. /\ breaker.openLeft \in 0..BreakerOpen /\ breaker.backoffLeft \in 0..Backoff
      /\ breaker.slotAge \in 0..Stale
  BY Zenon, <1>1 DEF BreakerState
<1>3. /\ openLeft \in 0..BreakerOpen /\ backoffLeft \in 0..Backoff /\ slotAge \in 0..Stale
      /\ backoffLeft > 0 => breaker.backoffLeft > 0
  BY <1>2, HoldGateAssumption DEF HoldGateAssumption, Less, AtMost
<1>4. breaker' = [breaker EXCEPT !.openLeft = openLeft, !.backoffLeft = backoffLeft,
                                 !.slotAge = slotAge]
  BY Zenon, <1>1 DEF Tick, BreakerState
<1>5. breaker.slot # NoTask => slotAge = AtMost(breaker.slotAge + 1, Stale)
  BY Zenon
<1> HIDE DEF slotAge, openLeft, backoffLeft
<1>6. breaker' \in BreakerState
  BY Zenon, <1>1, <1>3, <1>4 DEF BreakerState
<1>7. /\ breaker'.failures = breaker.failures /\ breaker'.open = breaker.open
      /\ breaker'.slot = breaker.slot /\ breaker'.reachable = breaker.reachable
      /\ breaker'.openLeft = openLeft /\ breaker'.backoffLeft = backoffLeft
      /\ breaker'.slotAge = slotAge
  BY Zenon, <1>1, <1>4 DEF BreakerState
<1>8. BreakerFits(breaker')
  BY Zenon, <1>3, <1>6, <1>7 DEF Typed, BreakerFits
<1> QED
  BY Zenon, <1>5, <1>7, <1>8 DEF openLeft

LEMMA TickCache ==
    ASSUME Typed, Tick, cache' # NoEntry
    PROVE  /\ cache \in Entry /\ cache' \in Entry /\ EntryFits(cache')
           /\ cache'.holds = Older(cache.holds) /\ cache'.labels = cache.labels
           /\ cache'.age = cache.age + 1
           /\ cache'.read = AtMost(cache.read + 1, AgeMax)
           /\ cache'.newer = cache.newer \cap {k \in Hold : ledger[k] > 1}
<1> DEFINE live == {k \in Hold : ledger[k] > 1}
           holds == Older(cache.holds)
           read == AtMost(cache.read + 1, AgeMax)
<1>1. /\ cache # NoEntry /\ cache.left # 1
      /\ cache' = [cache EXCEPT !.holds = Older(@), !.left = @ - 1, !.age = @ + 1,
                                !.read = AtMost(@ + 1, AgeMax), !.newer = @ \cap live]
  BY Zenon DEF Tick
<1>2. cache \in Entry /\ cache.age + cache.left <= Ttl
  BY Zenon, <1>1 DEF Typed, EntryFits
<1>3. /\ cache.holds \in Answers /\ cache.left \in 1..Ttl /\ cache.age \in 0..Ttl
      /\ cache.read \in 0..AgeMax /\ cache.newer \in SUBSET Hold
  BY Zenon, <1>2 DEF Entry
<1>4. holds \in Answers
  BY Zenon, <1>3, OlderAnswer
<1>5. /\ read \in 0..AgeMax /\ cache.left - 1 \in 1..Ttl /\ cache.age + 1 \in 0..Ttl
      /\ (cache.age + 1) + (cache.left - 1) <= Ttl
  BY <1>1, <1>2, <1>3, HoldGateAssumption DEF HoldGateAssumption, AtMost
<1>6. cache.newer \cap live \in SUBSET Hold
  BY Zenon, <1>3
<1>7. cache' = [cache EXCEPT !.holds = holds, !.left = cache.left - 1, !.age = cache.age + 1,
                             !.read = read, !.newer = cache.newer \cap live]
  BY Zenon, <1>1, <1>2 DEF Entry
<1> HIDE DEF live, holds, read
<1>8. cache' \in Entry
  BY Zenon, <1>2, <1>4, <1>5, <1>6, <1>7 DEF Entry
<1>9. /\ cache'.holds = holds /\ cache'.labels = cache.labels /\ cache'.age = cache.age + 1
      /\ cache'.left = cache.left - 1 /\ cache'.read = read
      /\ cache'.newer = cache.newer \cap live
  BY Zenon, <1>2, <1>7 DEF Entry
<1>10. EntryFits(cache')
  BY Zenon, <1>5, <1>8, <1>9 DEF EntryFits
<1> QED
  BY Zenon, <1>2, <1>8, <1>9, <1>10 DEF live, holds, read

\* The clock moves a task that has probed, and leaves the others alone.
LEMMA TickTask ==
    ASSUME Typed, Tick, NEW t \in Task
    PROVE  /\ task'[t] \in TaskState
           /\ task'[t].pc = task[t].pc /\ task'[t].labels = task[t].labels
           /\ task'[t].trial = task[t].trial /\ task'[t].fresh = task[t].fresh
           /\ task'[t].res = task[t].res
           /\ task[t].pc \in {"probe", "report"} => task'[t].age = AtMost(task[t].age + 1, AgeMax)
           /\ Answered(t) => /\ task'[t].age = AtMost(task[t].age + 1, AgeMax)
                             /\ task'[t].read = AtMost(task[t].read + 1, AgeMax)
                             /\ task'[t].holds = Older(task[t].holds)
                             /\ task'[t].newer = task[t].newer \cap {k \in Hold : ledger[k] > 1}
           /\ ~Answered(t) => task'[t].read = task[t].read
<1> DEFINE live == {k \in Hold : ledger[k] > 1}
           age == AtMost(task[t].age + 1, AgeMax)
           read == AtMost(task[t].read + 1, AgeMax)
           holds == Older(task[t].holds)
<1>1. task[t] \in TaskState
  BY Zenon DEF Typed
<1>2. /\ task[t].age \in 0..AgeMax /\ task[t].read \in 0..AgeMax /\ task[t].holds \in Answers
      /\ task[t].newer \in SUBSET Hold
  BY Zenon, <1>1 DEF TaskState
<1>3. age \in 0..AgeMax /\ read \in 0..AgeMax
  BY <1>2, HoldGateAssumption DEF HoldGateAssumption, AtMost
<1>4. holds \in Answers /\ task[t].newer \cap live \in SUBSET Hold
  BY Zenon, <1>2, OlderAnswer
<1>5. task'[t] = IF Answered(t)
                 THEN [task[t] EXCEPT !.age = age, !.read = read, !.holds = holds,
                                      !.newer = task[t].newer \cap live]
                 ELSE IF task[t].pc \in {"probe", "report"} THEN [task[t] EXCEPT !.age = age]
                 ELSE task[t]
  BY Zenon, <1>1 DEF Tick, TaskState
<1> HIDE DEF live, age, read, holds
<1>6. CASE Answered(t)
  <2>1. task'[t] = [task[t] EXCEPT !.age = age, !.read = read, !.holds = holds,
                                   !.newer = task[t].newer \cap live]
    BY Zenon, <1>5, <1>6
  <2>2. task'[t] \in TaskState
    BY Zenon, <1>1, <1>3, <1>4, <2>1 DEF TaskState
  <2>3. /\ task'[t].pc = task[t].pc /\ task'[t].labels = task[t].labels
        /\ task'[t].trial = task[t].trial /\ task'[t].fresh = task[t].fresh
        /\ task'[t].res = task[t].res /\ task'[t].age = age /\ task'[t].read = read
        /\ task'[t].holds = holds /\ task'[t].newer = task[t].newer \cap live
    BY Zenon, <1>1, <2>1 DEF TaskState
  <2> QED
    BY Zenon, <1>6, <2>2, <2>3 DEF live, age, read, holds
<1>7. CASE ~Answered(t) /\ task[t].pc \in {"probe", "report"}
  BY <1>1, <1>3, <1>5, <1>7 DEF TaskState, age
<1>8. CASE ~Answered(t) /\ task[t].pc \notin {"probe", "report"}
  BY Zenon, <1>1, <1>5, <1>8
<1> QED
  BY Zenon, <1>6, <1>7, <1>8

LEMMA TypedTick ==
    ASSUME Typed, Tick PROVE Typed'
<1>1. ledger' \in [Hold -> 0..Life]
  <2>1. ASSUME NEW k \in Hold PROVE Less(ledger[k]) \in 0..Life
    BY HoldGateAssumption DEF HoldGateAssumption, Typed, Less
  <2> QED
    BY Zenon, <2>1 DEF Tick
<1>2. EntryFits(cache')
  BY Zenon, TickCache DEF EntryFits
<1>3. task' \in [Task -> TaskState]
  <2>1. \A t \in Task : task'[t] \in TaskState
    BY Zenon, TickTask
  <2>2. task' = [t \in Task |-> task'[t]]
    BY Zenon DEF Tick
  <2> QED
    BY Zenon, <2>1, <2>2
<1>4. BreakerFits(breaker') /\ UNCHANGED overrode
  BY Zenon, TickBreaker DEF Tick
<1> QED
  BY Zenon, <1>1, <1>2, <1>3, <1>4 DEF Typed

LEMMA TypedInit == Init => Typed
<1> SUFFICES ASSUME Init PROVE Typed
  BY Zenon
<1>1. BreakerFits(breaker)
  <2>1. breaker \in BreakerState
    BY HoldGateAssumption DEF HoldGateAssumption, Init, BreakerState
  <2> QED
    BY <2>1, HoldGateAssumption DEF HoldGateAssumption, Init, BreakerFits
<1>2. EntryFits(cache) /\ overrode \subseteq Hold /\ task \in [Task -> TaskState]
  BY Zenon, IdleTyped DEF Init, EntryFits
<1>3. ledger \in [Hold -> 0..Life]
  BY HoldGateAssumption DEF HoldGateAssumption, Init
<1> QED
  BY Zenon, <1>1, <1>2, <1>3 DEF Typed

LEMMA TypedStep == Typed /\ [Next]_vars => Typed'
<1> SUFFICES ASSUME Typed, [Next]_vars PROVE Typed'
  BY Zenon
<1>1. ASSUME NEW t \in Task, Begin(t) \/ Evaluate(t) \/ Drop(t) PROVE Typed'
  BY Zenon, <1>1, TypedBegin, TypedBeforeProbe, TypedProbe, TypedReport, TypedSettle, TypedDrop
     DEF Evaluate
<1>2. ASSUME NEW h \in Hold, Place(h) \/ Revoke(h) PROVE Typed'
  BY Zenon, <1>2, TypedLedger
<1>3. CASE Evict
  BY Zenon, <1>3 DEF Evict, Typed, EntryFits
<1>4. CASE Tick
  BY Zenon, <1>4, TypedTick
<1>5. CASE UNCHANGED vars
  BY Zenon, <1>5 DEF vars, Typed
<1> QED
  BY Zenon, <1>1, <1>2, <1>3, <1>4, <1>5 DEF Next

LEMMA TypedAlways == Spec => []Typed
  BY TypedInit, TypedStep, PTL DEF Spec

\* The breaker and the cache of overturn_hold.rs stay well formed, for any number
\* of concurrent calls and any thresholds: the breaker is open exactly at its
\* limit of failures and never backs off without the errors that justify it.
THEOREM TypeCorrect == Spec => []TypeOK
  BY TypedAlways, TypedIsTypeOK, PTL

-----------------------------------------------------------------------------
(* What each step does to the tasks *)

LEMMA EffectBegin ==
    ASSUME Typed, NEW t \in Task, Begin(t)
    PROVE  /\ task[t].pc = "idle" /\ UNCHANGED <<ledger, breaker>>
           /\ \A u \in Task \ {t} : task'[u] = task[u]
           /\ \/ task'[t] = task[t]
              \/ /\ task'[t].pc = "gate" /\ task'[t].trial = task[t].trial
                 /\ task'[t].fresh = task[t].fresh /\ task'[t].age = task[t].age
                 /\ task'[t].read = task[t].read /\ task'[t].res = task[t].res
<1>1. task[t].pc = "idle" /\ UNCHANGED <<ledger, breaker>>
  BY Zenon DEF Begin
<1>2. CASE UNCHANGED task
  BY Zenon, <1>1, <1>2
<1>3. CASE \E labels \in SUBSET Label : task' = [task EXCEPT ![t].pc = "gate", ![t].labels = labels]
  <2>1. PICK labels \in SUBSET Label : task' = [task EXCEPT ![t].pc = "gate", ![t].labels = labels]
    BY Zenon, <1>3
  <2>2. task'[t] = [task[t] EXCEPT !.pc = "gate", !.labels = labels]
        /\ \A u \in Task \ {t} : task'[u] = task[u]
    BY Zenon, <2>1 DEF Typed
  <2>3. task[t] \in TaskState
    BY Zenon DEF Typed
  <2> QED
    BY Zenon, <1>1, <2>2, <2>3 DEF TaskState
<1> QED
  BY Zenon, <1>2, <1>3 DEF Begin

LEMMA EffectBeforeProbe ==
    ASSUME Typed, NEW t \in Task, BeforeProbe(t)
    PROVE  /\ task[t].pc = "gate" /\ UNCHANGED <<ledger, cache, overrode>>
           /\ \A u \in Task \ {t} : task'[u] = task[u]
           /\ \/ task'[t] = IdleTask /\ UNCHANGED breaker
              \/ /\ task'[t].pc = "probe" /\ task'[t].fresh /\ task'[t].age = 0
                 /\ task'[t].read = task[t].read
                 /\ \/ ~task'[t].trial /\ ~breaker.open /\ UNCHANGED breaker
                    \/ /\ task'[t].trial
                       /\ breaker.open /\ breaker.openLeft = 0 /\ MayTry
                       /\ breaker' = [breaker EXCEPT !.slot = t, !.slotAge = 0]
<1>1. task[t].pc = "gate" /\ UNCHANGED <<ledger, cache, overrode>>
  BY Zenon DEF BeforeProbe, ActsWithout
<1>2. task[t] \in TaskState
  BY Zenon DEF Typed
<1>3. ASSUME NEW trial \in BOOLEAN, Probes(t, trial)
      PROVE  /\ \A u \in Task \ {t} : task'[u] = task[u]
             /\ task'[t].pc = "probe" /\ task'[t].fresh /\ task'[t].age = 0
             /\ task'[t].read = task[t].read /\ task'[t].trial = trial
  <2>1. /\ task'[t] = [task[t] EXCEPT !.pc = "probe", !.trial = trial, !.fresh = TRUE, !.age = 0]
        /\ \A u \in Task \ {t} : task'[u] = task[u]
    BY Zenon, <1>3 DEF Probes, Typed
  <2> QED
    BY Zenon, <1>2, <2>1 DEF TaskState
<1>4. CASE task' = [task EXCEPT ![t] = IdleTask] /\ UNCHANGED breaker
  BY Zenon, <1>1, <1>4 DEF Typed
<1>5. CASE Probes(t, FALSE) /\ ~breaker.open /\ UNCHANGED breaker
  <2>1. FALSE \in BOOLEAN /\ Probes(t, FALSE)
    BY Zenon, <1>5
  <2> QED
    BY Zenon, <1>1, <1>3, <1>5, <2>1
<1>6. CASE /\ Probes(t, TRUE) /\ breaker.open /\ breaker.openLeft = 0 /\ MayTry
           /\ breaker' = [breaker EXCEPT !.slot = t, !.slotAge = 0]
  <2>1. TRUE \in BOOLEAN /\ Probes(t, TRUE)
    BY Zenon, <1>6
  <2> QED
    BY Zenon, <1>1, <1>3, <1>6, <2>1
<1> QED
  BY Zenon, <1>4, <1>5, <1>6 DEF BeforeProbe

LEMMA EffectProbe ==
    ASSUME Typed, NEW t \in Task, Probe(t) \/ ProbeFails(t)
    PROVE  /\ task[t].pc = "probe" /\ UNCHANGED <<ledger, cache, breaker, overrode>>
           /\ \A u \in Task \ {t} : task'[u] = task[u]
           /\ task'[t].pc = "report" /\ task'[t].trial = task[t].trial
           /\ task'[t].fresh = task[t].fresh /\ task'[t].age = task[t].age
           /\ task'[t].read = task[t].read
           /\ \/ task'[t].res # "ok"
              \/ /\ task'[t].labels = task[t].labels
                 /\ task'[t].holds =
                      [k \in {k \in SuspendHold \cup task[t].labels : ledger[k] > 0} |-> ledger[k]]
<1>1. task[t].pc = "probe" /\ UNCHANGED <<ledger, cache, breaker, overrode>>
  BY Zenon DEF Probe, ProbeFails
<1>2. task[t] \in TaskState
  BY Zenon DEF Typed
<1>3. CASE Probe(t)
  <2> DEFINE holds == [k \in {k \in SuspendHold \cup task[t].labels : ledger[k] > 0} |-> ledger[k]]
  <2>1. task' = [task EXCEPT ![t].pc = "report", ![t].res = "ok", ![t].holds = holds]
    BY Zenon, <1>3 DEF Probe
  <2> HIDE DEF holds
  <2>2. /\ task'[t] = [task[t] EXCEPT !.pc = "report", !.res = "ok", !.holds = holds]
        /\ \A u \in Task \ {t} : task'[u] = task[u]
    BY Zenon, <2>1 DEF Typed
  <2>3. /\ task'[t].pc = "report" /\ task'[t].trial = task[t].trial
        /\ task'[t].fresh = task[t].fresh /\ task'[t].age = task[t].age
        /\ task'[t].read = task[t].read /\ task'[t].labels = task[t].labels
        /\ task'[t].holds = holds
    BY Zenon, <1>2, <2>2 DEF TaskState
  <2> QED
    BY Zenon, <1>1, <2>2, <2>3 DEF holds
<1>4. CASE ProbeFails(t)
  <2>1. PICK e \in Faults : task' = [task EXCEPT ![t].pc = "report", ![t].res = e]
    BY Zenon, <1>4 DEF ProbeFails
  <2>2. /\ task'[t] = [task[t] EXCEPT !.pc = "report", !.res = e]
        /\ \A u \in Task \ {t} : task'[u] = task[u]
    BY Zenon, <2>1 DEF Typed
  <2>3. /\ task'[t].pc = "report" /\ task'[t].trial = task[t].trial
        /\ task'[t].fresh = task[t].fresh /\ task'[t].age = task[t].age
        /\ task'[t].read = task[t].read /\ task'[t].res = e
    BY Zenon, <1>2, <2>2 DEF TaskState
  <2>4. e # "ok"
    BY Zenon, HoldGateAssumption DEF HoldGateAssumption
  <2> QED
    BY Zenon, <1>1, <2>2, <2>3, <2>4
<1> QED
  BY Zenon, <1>3, <1>4

LEMMA EffectReport ==
    ASSUME Typed, NEW t \in Task, Report(t)
    PROVE  /\ task[t].pc = "report" /\ UNCHANGED <<ledger, cache, overrode>>
           /\ \A u \in Task \ {t} :
                 /\ task'[u].pc = task[u].pc /\ task'[u].res = task[u].res
                 /\ task'[u].labels = task[u].labels /\ task'[u].holds = task[u].holds
                 /\ task'[u].newer = task[u].newer /\ task'[u].read = task[u].read
                 /\ task'[u].age = task[u].age /\ task'[u].trial = task[u].trial
                 /\ task'[u].fresh => /\ task[u].fresh
                                      /\ ~(Counts(t) /\ task[t].res = "failure" /\ Opens(Freed(t)))
           /\ \/ task'[t] = IdleTask
              \/ /\ task'[t].pc = "settle" /\ task'[t].res = task[t].res /\ Answered(t)
                 /\ task'[t].labels = task[t].labels /\ task'[t].holds = task[t].holds
                 /\ task'[t].newer = task[t].newer /\ task'[t].read = task[t].read
                 /\ task'[t].age = task[t].age
<1> DEFINE starts == Counts(t) /\ task[t].res = "failure" /\ Opens(Freed(t))
<1>1. task[t].pc = "report" /\ UNCHANGED <<ledger, cache, overrode>>
  BY Zenon DEF Report, ActsWithout
<1>2. task' = [u \in Task |->
         IF u = t THEN AfterReport(t) ELSE [task[u] EXCEPT !.fresh = @ /\ ~starts]]
  BY Zenon DEF Report
<1> HIDE DEF starts
<1>3. ASSUME NEW u \in Task, u # t
      PROVE  /\ task'[u].pc = task[u].pc /\ task'[u].res = task[u].res
             /\ task'[u].labels = task[u].labels /\ task'[u].holds = task[u].holds
             /\ task'[u].newer = task[u].newer /\ task'[u].read = task[u].read
             /\ task'[u].age = task[u].age /\ task'[u].trial = task[u].trial
             /\ task'[u].fresh => task[u].fresh /\ ~starts
  <2>1. task'[u] = [task[u] EXCEPT !.fresh = @ /\ ~starts]
    BY Zenon, <1>2, <1>3
  <2>2. task[u] \in TaskState
    BY Zenon DEF Typed
  <2> QED
    BY Zenon, <2>1, <2>2 DEF TaskState
<1>4. \/ task'[t] = IdleTask
      \/ /\ task'[t].pc = "settle" /\ task'[t].res = task[t].res /\ Answered(t)
         /\ task'[t].labels = task[t].labels /\ task'[t].holds = task[t].holds
         /\ task'[t].newer = task[t].newer /\ task'[t].read = task[t].read
         /\ task'[t].age = task[t].age
  <2>1. task'[t] = AfterReport(t)
    BY Zenon, <1>2
  <2>2. task[t] \in TaskState
    BY Zenon DEF Typed
  <2> QED
    BY Zenon, <1>1, <2>1, <2>2 DEF AfterReport, TaskState, Answered
<1> QED
  BY Zenon, <1>1, <1>3, <1>4 DEF starts

LEMMA EffectIdle ==
    ASSUME Typed, NEW t \in Task, Settle(t) \/ Drop(t)
    PROVE  task'[t] = IdleTask /\ \A u \in Task \ {t} : task'[u] = task[u]
  BY Zenon DEF Typed, Settle, Drop

-----------------------------------------------------------------------------
(* The holds.  An answer that is under way or cached has every hold on the   *)
(* actions it was asked about that is live and not newer than the answer, for *)
(* at least as long as the ledger has it.                                    *)

Knows(known, holds, newer) ==
    \A k \in known : ledger[k] > 0 /\ k \notin newer => k \in DOMAIN holds /\ holds[k] >= ledger[k]

\* The same of the ledger after the step
WillKnow(known, holds, newer) ==
    \A k \in known : ledger'[k] > 0 /\ k \notin newer => k \in DOMAIN holds /\ holds[k] >= ledger'[k]

CacheKnows == cache # NoEntry => Knows(SuspendHold \cup cache.labels, cache.holds, cache.newer)

TaskKnows(t) ==
    Answered(t) => Knows(SuspendHold \cup task[t].labels, task[t].holds, task[t].newer)

HoldsKnown ==
    /\ CacheKnows
    /\ \A t \in Task : TaskKnows(t)
    /\ overrode = {}

\* A decision that uses an answer about at least its labels overrides nothing.
LEMMA ActsRespects ==
    ASSUME overrode = {}, NEW labels, NEW known, labels \subseteq known, NEW answer, NEW newer,
           Knows(SuspendHold \cup known, answer, newer), Acts(labels, answer, newer)
    PROVE  overrode' = {}
<1> SUFFICES ASSUME NEW k \in overrode' PROVE FALSE
  BY Zenon
<1>1. /\ k \in SuspendHold \cup labels /\ k \notin DOMAIN answer
      /\ ledger[k] > 0 /\ k \notin newer
  BY Zenon, ActsOutside
<1> QED
  BY Zenon, <1>1 DEF Knows

\* What a step leaves alone
LEMMA KnowsFrame ==
    ASSUME UNCHANGED ledger, NEW t \in Task, TaskKnows(t),
           Answered(t)' => Answered(t),
           Answered(t)' => /\ task'[t].labels = task[t].labels /\ task'[t].holds = task[t].holds
                           /\ task'[t].newer = task[t].newer
    PROVE  TaskKnows(t)'
  BY Zenon DEF TaskKnows, Knows

\* The clock: a hold that is still live had a tick more, in the answer too.
LEMMA KnowsTick ==
    ASSUME Typed, Tick, NEW known \in SUBSET Hold, NEW holds \in Answers, NEW newer,
           Knows(known, holds, newer)
    PROVE  WillKnow(known, Older(holds), newer \cap {j \in Hold : ledger[j] > 1})
<1> SUFFICES ASSUME NEW k \in known, ledger'[k] > 0,
                    k \notin newer \cap {j \in Hold : ledger[j] > 1}
             PROVE  k \in DOMAIN Older(holds) /\ Older(holds)[k] >= ledger'[k]
  BY Zenon DEF WillKnow
<1>1. ledger[k] \in Nat /\ ledger'[k] = Less(ledger[k])
  <2>1. k \in Hold /\ Life \in Nat
    BY Zenon, HoldGateAssumption DEF HoldGateAssumption
  <2>2. ledger[k] \in 0..Life
    BY Zenon, <2>1 DEF Typed
  <2>3. ledger' = [j \in Hold |-> Less(ledger[j])]
    BY Zenon DEF Tick
  <2> QED
    BY <2>1, <2>2, <2>3
<1>2. ledger[k] > 1 /\ ledger'[k] = ledger[k] - 1 /\ k \notin newer
  BY <1>1 DEF Less
<1>3. k \in DOMAIN holds /\ holds[k] >= ledger[k]
  BY <1>1, <1>2 DEF Knows
<1>4. holds[k] \in Nat
  <2>1. PICK D \in SUBSET Hold : holds \in [D -> 1..Life]
    BY Zenon DEF Answers
  <2> QED
    BY <1>3, <2>1, HoldGateAssumption DEF HoldGateAssumption
<1>5. k \in DOMAIN Older(holds) /\ Older(holds)[k] = holds[k] - 1
  <2>1. /\ DOMAIN Older(holds) = {j \in DOMAIN holds : holds[j] > 1}
        /\ \A j \in DOMAIN Older(holds) : Older(holds)[j] = holds[j] - 1
    BY Zenon, OlderAnswer
  <2>2. holds[k] > 1
    BY <1>1, <1>2, <1>3, <1>4
  <2> QED
    BY Zenon, <1>3, <2>1, <2>2
<1> QED
  BY <1>1, <1>2, <1>3, <1>4, <1>5

Changed(h, placed, gone) ==
    \/ Place(h) /\ placed = {h} /\ gone = {}
    \/ Revoke(h) /\ placed = {} /\ gone = {h}

\* A hold placed is newer than every answer; a revoked one no longer counts.
LEMMA KnowsLedger ==
    ASSUME Typed, NEW h \in Hold, NEW known \in SUBSET Hold, NEW holds, NEW newer,
           Knows(known, holds, newer),
           NEW placed, NEW gone, Changed(h, placed, gone)
    PROVE  WillKnow(known, holds, (newer \cup placed) \ gone)
<1> SUFFICES ASSUME NEW k \in known, ledger'[k] > 0, k \notin (newer \cup placed) \ gone
             PROVE  k \in DOMAIN holds /\ holds[k] >= ledger'[k]
  BY Zenon DEF WillKnow
<1>1. CASE k = h
  BY <1>1 DEF Typed, Changed, Place, Revoke
<1>2. CASE k # h
  <2>1. ledger'[k] = ledger[k] /\ k \notin newer
    BY Zenon, <1>2 DEF Typed, Changed, Place, Revoke
  <2> QED
    BY Zenon, <2>1 DEF Knows
<1> QED
  BY Zenon, <1>1, <1>2

LEMMA HoldsBegin ==
    ASSUME Typed, HoldsKnown, NEW t \in Task, Begin(t) PROVE HoldsKnown'
<1>1. PICK labels \in SUBSET Label :
        /\ cache' \in {cache, NoEntry}
        /\ \/ Hit(labels) /\ Acts(labels, cache.holds, cache.newer) /\ UNCHANGED task
           \/ /\ task' = [task EXCEPT ![t].pc = "gate", ![t].labels = labels]
              /\ UNCHANGED overrode
  BY Zenon DEF Begin
<1>2. UNCHANGED ledger
  BY Zenon DEF Begin
<1>3. CacheKnows'
  BY Zenon, <1>1, <1>2 DEF HoldsKnown, CacheKnows, Knows
<1>4. ASSUME NEW u \in Task PROVE TaskKnows(u)'
  <2>1. TaskKnows(u)
    BY Zenon DEF HoldsKnown
  <2>2. CASE UNCHANGED task
    BY Zenon, <1>2, <2>1, <2>2 DEF TaskKnows, Knows, Answered
  <2>3. CASE task' = [task EXCEPT ![t].pc = "gate", ![t].labels = labels]
    <3>1. CASE u = t
      <4>1. task'[t].pc = "gate"
        BY Zenon, <2>3 DEF Typed, TaskState
      <4> QED
        BY Zenon, <3>1, <4>1 DEF TaskKnows, Answered
    <3>2. CASE u # t
      <4>1. task'[u] = task[u]
        BY Zenon, <2>3, <3>2 DEF Typed
      <4> QED
        BY Zenon, <1>2, <2>1, <4>1 DEF TaskKnows, Knows, Answered
    <3> QED
      BY Zenon, <3>1, <3>2
  <2> QED
    BY Zenon, <1>1, <2>2, <2>3
<1>5. overrode' = {}
  <2>1. CASE Hit(labels) /\ Acts(labels, cache.holds, cache.newer)
    <3>1. /\ labels \subseteq cache.labels
          /\ Knows(SuspendHold \cup cache.labels, cache.holds, cache.newer) /\ overrode = {}
      BY Zenon, <2>1 DEF Hit, Covers, HoldsKnown, CacheKnows
    <3> QED
      BY Zenon, <2>1, <3>1, ActsRespects
  <2>2. CASE UNCHANGED overrode
    BY Zenon, <2>2 DEF HoldsKnown
  <2> QED
    BY Zenon, <1>1, <2>1, <2>2
<1> QED
  BY Zenon, <1>3, <1>4, <1>5 DEF HoldsKnown

\* A step of task t that leaves the ledger, the cache and the other answers
\* alone keeps what is known, if t has no answer afterwards or one it knows.
LEMMA HoldsTaskStep ==
    ASSUME Typed, HoldsKnown, UNCHANGED <<ledger, cache, overrode>>, NEW t \in Task,
           \A u \in Task \ {t} :
              /\ task'[u].pc = task[u].pc /\ task'[u].res = task[u].res
              /\ task'[u].labels = task[u].labels /\ task'[u].holds = task[u].holds
              /\ task'[u].newer = task[u].newer,
           TaskKnows(t)'
    PROVE  HoldsKnown'
<1>1. CacheKnows'
  BY Zenon DEF HoldsKnown, CacheKnows, Knows
<1>2. ASSUME NEW u \in Task, u # t PROVE TaskKnows(u)'
  <2>1. TaskKnows(u)
    BY Zenon DEF HoldsKnown
  <2> QED
    BY Zenon, <1>2, <2>1 DEF TaskKnows, Knows, Answered
<1> QED
  BY Zenon, <1>1, <1>2 DEF HoldsKnown

LEMMA HoldsIdle ==
    ASSUME NEW t \in Task, task'[t].pc \in {"idle", "probe"} PROVE TaskKnows(t)'
  BY Zenon DEF TaskKnows, Answered

LEMMA HoldsEvaluate ==
    ASSUME Typed, HoldsKnown, NEW t \in Task,
           BeforeProbe(t) \/ Probe(t) \/ ProbeFails(t) \/ Report(t) \/ Drop(t)
    PROVE  HoldsKnown'
<1>1. TaskKnows(t)
  BY Zenon DEF HoldsKnown
<1>2. IdleTask.pc = "idle"
  BY Zenon DEF IdleTask
<1>3. CASE BeforeProbe(t)
  <2>1. task'[t].pc \in {"idle", "probe"}
    BY Zenon, <1>2, <1>3, EffectBeforeProbe
  <2> QED
    BY Zenon, <1>3, <2>1, EffectBeforeProbe, HoldsIdle, HoldsTaskStep
<1>4. CASE Probe(t) \/ ProbeFails(t)
  <2>1. TaskKnows(t)'
    <3>1. CASE task'[t].res # "ok"
      BY Zenon, <3>1 DEF TaskKnows, Answered
    <3>2. CASE /\ task'[t].labels = task[t].labels
               /\ task'[t].holds =
                    [k \in {k \in SuspendHold \cup task[t].labels : ledger[k] > 0} |-> ledger[k]]
      <4>1. UNCHANGED ledger
        BY Zenon, <1>4, EffectProbe
      <4>2. ASSUME NEW k \in SuspendHold \cup task[t].labels PROVE ledger[k] >= ledger[k]
        <5>1. k \in Hold
          BY Zenon DEF Typed, TaskState, Hold
        <5>2. ledger[k] \in 0..Life
          BY Zenon, <5>1 DEF Typed
        <5> QED
          BY <5>2, HoldGateAssumption DEF HoldGateAssumption
      <4> QED
        BY Zenon, <3>2, <4>1, <4>2 DEF TaskKnows, Knows
    <3> QED
      BY Zenon, <1>4, <3>1, <3>2, EffectProbe
  <2> QED
    BY Zenon, <1>4, <2>1, EffectProbe, HoldsTaskStep
<1>5. CASE Report(t)
  <2>1. TaskKnows(t)'
    <3>1. CASE task'[t] = IdleTask
      BY Zenon, <1>2, <3>1, HoldsIdle
    <3>2. CASE /\ Answered(t)
               /\ task'[t].labels = task[t].labels /\ task'[t].holds = task[t].holds
               /\ task'[t].newer = task[t].newer
      <4>1. UNCHANGED ledger
        BY Zenon, <1>5, EffectReport
      <4> QED
        BY Zenon, <1>1, <3>2, <4>1, KnowsFrame
    <3> QED
      BY Zenon, <1>5, <3>1, <3>2, EffectReport
  <2>2. /\ UNCHANGED <<ledger, cache, overrode>>
        /\ \A u \in Task \ {t} :
              /\ task'[u].pc = task[u].pc /\ task'[u].res = task[u].res
              /\ task'[u].labels = task[u].labels /\ task'[u].holds = task[u].holds
              /\ task'[u].newer = task[u].newer
    BY Zenon, <1>5, EffectReport
  <2> QED
    BY Zenon, <2>1, <2>2, HoldsTaskStep
<1>6. CASE Drop(t)
  <2>1. TaskKnows(t)'
    BY Zenon, <1>2, <1>6, EffectIdle, HoldsIdle
  <2>2. UNCHANGED <<ledger, cache, overrode>>
    BY Zenon, <1>6 DEF Drop
  <2> QED
    BY Zenon, <1>6, <2>1, <2>2, EffectIdle, HoldsTaskStep
<1> QED
  BY Zenon, <1>3, <1>4, <1>5, <1>6

LEMMA HoldsSettle ==
    ASSUME Typed, HoldsKnown, NEW t \in Task, Settle(t),
           task[t].res = "ok"
    PROVE  HoldsKnown'
<1>1. Knows(SuspendHold \cup task[t].labels, task[t].holds, task[t].newer) /\ overrode = {}
  BY Zenon DEF HoldsKnown, TaskKnows, Answered, Settle
<1>2. overrode' = {}
  BY Zenon, <1>1, ActsRespects DEF Settle
<1>3. UNCHANGED ledger
  BY Zenon DEF Settle
<1>4. CacheKnows'
  <2> DEFINE e == [holds |-> task[t].holds, labels |-> task[t].labels,
                   left |-> TtlOf(task[t].holds), age |-> 0,
                   read |-> task[t].read, newer |-> task[t].newer]
  <2>1. cache' \in {cache, NoEntry} \/ cache' = e
    BY Zenon DEF Settle, Remembered
  <2>2. e.labels = task[t].labels /\ e.holds = task[t].holds /\ e.newer = task[t].newer
    BY Zenon
  <2> HIDE DEF e
  <2>3. CASE cache' \in {cache, NoEntry}
    BY Zenon, <1>3, <2>3 DEF HoldsKnown, CacheKnows, Knows
  <2>4. CASE cache' = e
    BY Zenon, <1>1, <1>3, <2>2, <2>4 DEF CacheKnows, Knows
  <2> QED
    BY Zenon, <2>1, <2>3, <2>4
<1>5. ASSUME NEW u \in Task PROVE TaskKnows(u)'
  <2>1. CASE u = t
    BY <2>1, EffectIdle, HoldsIdle DEF IdleTask
  <2>2. CASE u # t
    <3>1. task'[u] = task[u]
      BY Zenon, <2>2, EffectIdle
    <3> QED
      BY Zenon, <1>3, <3>1 DEF HoldsKnown, TaskKnows, Answered, Knows
  <2> QED
    BY Zenon, <2>1, <2>2
<1> QED
  BY Zenon, <1>2, <1>4, <1>5 DEF HoldsKnown

LEMMA HoldsTick ==
    ASSUME Typed, HoldsKnown, Tick PROVE HoldsKnown'
<1>1. CacheKnows'
  <2> SUFFICES ASSUME cache' # NoEntry
               PROVE  Knows(SuspendHold \cup cache.labels, cache.holds, cache.newer)'
    BY Zenon DEF CacheKnows
  <2>1. /\ cache # NoEntry /\ cache.holds \in Answers /\ SuspendHold \cup cache.labels \in SUBSET Hold
    BY Zenon, TickCache, EntryIsEntry DEF Entry, Hold
  <2>2. Knows(SuspendHold \cup cache.labels, cache.holds, cache.newer)
    BY Zenon, <2>1 DEF HoldsKnown, CacheKnows
  <2> QED
    BY Zenon, <2>1, <2>2, KnowsTick, TickCache DEF Knows, WillKnow
<1>2. ASSUME NEW t \in Task PROVE TaskKnows(t)'
  <2> SUFFICES ASSUME Answered(t)'
               PROVE  Knows(SuspendHold \cup task[t].labels, task[t].holds, task[t].newer)'
    BY Zenon DEF TaskKnows
  <2>1. Answered(t)
    BY Zenon, TickTask DEF Answered
  <2>2. task[t].holds \in Answers /\ SuspendHold \cup task[t].labels \in SUBSET Hold
    <3>1. task[t] \in TaskState
      BY Zenon DEF Typed
    <3> QED
      BY Zenon, <3>1 DEF TaskState, Hold
  <2>3. Knows(SuspendHold \cup task[t].labels, task[t].holds, task[t].newer)
    BY Zenon, <2>1 DEF HoldsKnown, TaskKnows
  <2>4. /\ task'[t].labels = task[t].labels /\ task'[t].holds = Older(task[t].holds)
        /\ task'[t].newer = task[t].newer \cap {k \in Hold : ledger[k] > 1}
    BY Zenon, <2>1, TickTask
  <2> QED
    BY Zenon, <2>2, <2>3, <2>4, KnowsTick DEF Knows, WillKnow
<1> QED
  BY Zenon, <1>1, <1>2 DEF HoldsKnown, Tick

LEMMA HoldsLedger ==
    ASSUME Typed, HoldsKnown, NEW h \in Hold, Place(h) \/ Revoke(h) PROVE HoldsKnown'
<1>1. PICK placed \in {{}, {h}}, gone \in {{}, {h}} :
        Newer(placed, gone) /\ Changed(h, placed, gone)
  BY Zenon DEF Changed, Place, Revoke
<1>2. CacheKnows'
  <2> SUFFICES ASSUME cache' # NoEntry
               PROVE  Knows(SuspendHold \cup cache.labels, cache.holds, cache.newer)'
    BY Zenon DEF CacheKnows
  <2>1. cache # NoEntry /\ cache' = [cache EXCEPT !.newer = (@ \cup placed) \ gone]
    BY Zenon, <1>1 DEF Newer
  <2>2. cache \in Entry
    BY Zenon, <2>1 DEF Typed, EntryFits
  <2>3. SuspendHold \cup cache.labels \in SUBSET Hold
    BY Zenon, <2>2 DEF Entry, Hold
  <2>4. /\ cache'.labels = cache.labels /\ cache'.holds = cache.holds
        /\ cache'.newer = (cache.newer \cup placed) \ gone
    BY Zenon, <2>1, <2>2 DEF Entry
  <2>5. Knows(SuspendHold \cup cache.labels, cache.holds, cache.newer)
    BY Zenon, <2>1 DEF HoldsKnown, CacheKnows
  <2>6. WillKnow(SuspendHold \cup cache.labels, cache.holds, (cache.newer \cup placed) \ gone)
    BY Zenon, <1>1, <2>3, <2>5, KnowsLedger
  <2> QED
    BY Zenon, <2>4, <2>6 DEF Knows, WillKnow
<1>3. ASSUME NEW t \in Task PROVE TaskKnows(t)'
  <2>1. task[t] \in TaskState
    BY Zenon DEF Typed
  <2>2. task'[t] = IF Answered(t) THEN [task[t] EXCEPT !.newer = (@ \cup placed) \ gone] ELSE task[t]
    BY Zenon, <1>1 DEF Newer
  <2>3. task'[t].pc = task[t].pc /\ task'[t].res = task[t].res
    BY Zenon, <2>1, <2>2 DEF TaskState
  <2> SUFFICES ASSUME Answered(t)
               PROVE  Knows(SuspendHold \cup task[t].labels, task[t].holds, task[t].newer)'
    BY Zenon, <2>3 DEF TaskKnows, Answered
  <2>4. /\ task'[t].labels = task[t].labels /\ task'[t].holds = task[t].holds
        /\ task'[t].newer = (task[t].newer \cup placed) \ gone
    BY Zenon, <2>1, <2>2 DEF TaskState
  <2>5. SuspendHold \cup task[t].labels \in SUBSET Hold
    BY Zenon, <2>1 DEF TaskState, Hold
  <2>6. Knows(SuspendHold \cup task[t].labels, task[t].holds, task[t].newer)
    BY Zenon DEF HoldsKnown, TaskKnows
  <2>7. WillKnow(SuspendHold \cup task[t].labels, task[t].holds, (task[t].newer \cup placed) \ gone)
    BY Zenon, <1>1, <2>5, <2>6, KnowsLedger
  <2> QED
    BY Zenon, <2>4, <2>7 DEF Knows, WillKnow
<1>4. UNCHANGED overrode
  BY Zenon DEF Place, Revoke
<1> QED
  BY Zenon, <1>2, <1>3, <1>4 DEF HoldsKnown

-----------------------------------------------------------------------------
(* The readings.  An answer was read after its probe began, and is cached     *)
(* after it was read.                                                        *)

TaskReads(t) ==
    /\ task[t].pc = "settle" => task[t].res = "ok"
    /\ Answered(t) => task[t].read <= task[t].age
    /\ ~Answered(t) => task[t].read = 0

Readings ==
    /\ \A t \in Task : TaskReads(t)
    /\ cache # NoEntry => cache.age <= cache.read

LEMMA ReadsTyped ==
    ASSUME Typed, NEW t \in Task
    PROVE  task[t].read \in Nat /\ task[t].age \in Nat
<1>1. task[t] \in TaskState
  BY Zenon DEF Typed
<1>2. task[t].read \in 0..AgeMax /\ task[t].age \in 0..AgeMax
  BY Zenon, <1>1 DEF TaskState
<1> QED
  BY <1>2, HoldGateAssumption DEF HoldGateAssumption

LEMMA ReadsKept ==
    ASSUME NEW t \in Task, TaskReads(t),
           task'[t].pc = task[t].pc, task'[t].res = task[t].res,
           task'[t].read = task[t].read, task'[t].age = task[t].age
    PROVE  TaskReads(t)'
  BY Zenon DEF TaskReads, Answered

LEMMA ReadsIdle ==
    ASSUME NEW t \in Task, task'[t].pc \in {"idle", "gate", "probe"}, task'[t].read = 0
    PROVE  TaskReads(t)'
  BY Zenon DEF TaskReads, Answered

LEMMA ReadsTask ==
    ASSUME Typed, Readings, NEW t \in Task, Begin(t) \/ Evaluate(t) \/ Drop(t), NEW u \in Task
    PROVE  TaskReads(u)'
<1>1. TaskReads(u) /\ TaskReads(t)
  BY Zenon DEF Readings
<1>2. IdleTask.pc = "idle" /\ IdleTask.read = 0
  BY Zenon DEF IdleTask
<1>3. CASE u # t
  <2>1. /\ task'[u].pc = task[u].pc /\ task'[u].res = task[u].res
        /\ task'[u].read = task[u].read /\ task'[u].age = task[u].age
    <3>1. CASE Begin(t)
      BY Zenon, <1>3, <3>1, EffectBegin
    <3>2. CASE BeforeProbe(t)
      BY Zenon, <1>3, <3>2, EffectBeforeProbe
    <3>3. CASE Probe(t) \/ ProbeFails(t)
      BY Zenon, <1>3, <3>3, EffectProbe
    <3>4. CASE Report(t)
      <4>1. \A v \in Task \ {t} :
               /\ task'[v].pc = task[v].pc /\ task'[v].res = task[v].res
               /\ task'[v].read = task[v].read /\ task'[v].age = task[v].age
        BY Zenon, <3>4, EffectReport
      <4> QED
        BY Zenon, <1>3, <4>1
    <3>5. CASE Settle(t) \/ Drop(t)
      BY Zenon, <1>3, <3>5, EffectIdle
    <3> QED
      BY Zenon, <3>1, <3>2, <3>3, <3>4, <3>5 DEF Evaluate
  <2> QED
    BY Zenon, <1>1, <2>1, ReadsKept
<1>4. CASE u = t
  <2>1. CASE Begin(t)
    <3>1. task[t].read = 0
      BY Zenon, <1>1, <2>1, EffectBegin DEF TaskReads, Answered
    <3> QED
      BY Zenon, <1>1, <1>4, <2>1, <3>1, EffectBegin, ReadsKept, ReadsIdle
  <2>2. CASE BeforeProbe(t)
    <3>1. task[t].read = 0
      BY Zenon, <1>1, <2>2, EffectBeforeProbe DEF TaskReads, Answered
    <3> QED
      BY Zenon, <1>2, <1>4, <2>2, <3>1, EffectBeforeProbe, ReadsIdle
  <2>3. CASE Probe(t) \/ ProbeFails(t)
    <3>1. task[t].pc = "probe" /\ task'[t].pc = "report"
          /\ task'[t].read = task[t].read /\ task'[t].age = task[t].age
      BY Zenon, <2>3, EffectProbe
    <3>2. task[t].read = 0 /\ task[t].age \in Nat
      BY Zenon, <1>1, <3>1, ReadsTyped DEF TaskReads, Answered
    <3> QED
      BY <1>4, <3>1, <3>2 DEF TaskReads
  <2>4. CASE Report(t)
    <3>1. CASE task'[t] = IdleTask
      BY Zenon, <1>2, <1>4, <3>1, ReadsIdle
    <3>2. CASE /\ task'[t].pc = "settle" /\ task'[t].res = task[t].res /\ Answered(t)
               /\ task'[t].read = task[t].read /\ task'[t].age = task[t].age
      BY Zenon, <1>1, <1>4, <3>2 DEF TaskReads, Answered
    <3> QED
      BY Zenon, <2>4, <3>1, <3>2, EffectReport
  <2>5. CASE Settle(t) \/ Drop(t)
    BY Zenon, <1>2, <1>4, <2>5, EffectIdle, ReadsIdle
  <2> QED
    BY Zenon, <2>1, <2>2, <2>3, <2>4, <2>5 DEF Evaluate
<1> QED
  BY Zenon, <1>3, <1>4

LEMMA ReadingsStep == Typed /\ Typed' /\ Readings /\ [Next]_vars => Readings'
<1> SUFFICES ASSUME Typed, Typed', Readings, [Next]_vars PROVE Readings'
  BY Zenon
<1>1. ASSUME NEW t \in Task, Begin(t) \/ Evaluate(t) \/ Drop(t) PROVE Readings'
  <2>1. \A u \in Task : TaskReads(u)'
    BY Zenon, <1>1, ReadsTask
  <2>2. CASE cache' \in {cache, NoEntry}
    BY Zenon, <2>1, <2>2 DEF Readings
  <2>3. CASE Settle(t) /\ cache' \notin {cache, NoEntry}
    <3>1. cache' = [holds |-> task[t].holds, labels |-> task[t].labels,
                    left |-> TtlOf(task[t].holds), age |-> 0,
                    read |-> task[t].read, newer |-> task[t].newer]
      BY Zenon, <2>3 DEF Settle, Remembered
    <3>2. cache'.age = 0 /\ cache'.read = task[t].read
      BY Zenon, <3>1
    <3>3. task[t].read \in Nat
      BY Zenon, ReadsTyped
    <3>4. cache'.age <= cache'.read
      BY <3>2, <3>3
    <3> QED
      BY Zenon, <2>1, <3>4 DEF Readings
  <2>4. ~Settle(t) => cache' \in {cache, NoEntry}
    BY Zenon, <1>1 DEF Begin, Evaluate, BeforeProbe, Probe, ProbeFails, Report, Drop
  <2> QED
    BY Zenon, <2>2, <2>3, <2>4
<1>2. ASSUME NEW h \in Hold, Place(h) \/ Revoke(h) PROVE Readings'
  <2>1. PICK placed \in {{}, {h}}, gone \in {{}, {h}} : Newer(placed, gone)
    BY Zenon, <1>2 DEF Place, Revoke
  <2>2. ASSUME NEW t \in Task PROVE TaskReads(t)'
    <3>1. task[t] \in TaskState /\ TaskReads(t)
      BY Zenon DEF Typed, Readings
    <3>2. task'[t] = IF Answered(t) THEN [task[t] EXCEPT !.newer = (@ \cup placed) \ gone]
                     ELSE task[t]
      BY Zenon, <2>1 DEF Newer
    <3>3. /\ task'[t].pc = task[t].pc /\ task'[t].res = task[t].res
          /\ task'[t].read = task[t].read /\ task'[t].age = task[t].age
      BY Zenon, <3>1, <3>2 DEF TaskState
    <3> QED
      BY Zenon, <3>1, <3>3, ReadsKept
  <2>3. ASSUME cache' # NoEntry PROVE cache'.age <= cache'.read
    <3>1. cache # NoEntry /\ cache' = [cache EXCEPT !.newer = (@ \cup placed) \ gone]
      BY Zenon, <2>1, <2>3 DEF Newer
    <3>2. cache \in Entry
      BY Zenon, <3>1 DEF Typed, EntryFits
    <3>3. cache'.age = cache.age /\ cache'.read = cache.read
      BY Zenon, <3>1, <3>2 DEF Entry
    <3> QED
      BY Zenon, <3>1, <3>3 DEF Readings
  <2> QED
    BY Zenon, <2>2, <2>3 DEF Readings
<1>3. CASE Evict
  BY Zenon, <1>3 DEF Evict, Readings, TaskReads, Answered
<1>4. CASE Tick
  <2>1. ASSUME NEW t \in Task PROVE TaskReads(t)'
    <3>1. TaskReads(t) /\ task'[t].pc = task[t].pc /\ task'[t].res = task[t].res
      BY Zenon, <1>4, TickTask DEF Readings
    <3>2. CASE ~Answered(t)
      <4>1. task'[t].read = task[t].read
        BY Zenon, <1>4, <3>2, TickTask
      <4> QED
        BY Zenon, <3>1, <3>2, <4>1 DEF TaskReads, Answered
    <3>3. CASE Answered(t)
      <4>1. /\ task'[t].age = AtMost(task[t].age + 1, AgeMax)
            /\ task'[t].read = AtMost(task[t].read + 1, AgeMax)
        BY Zenon, <1>4, <3>3, TickTask
      <4>2. task[t].read \in Nat /\ task[t].age \in Nat /\ task[t].read <= task[t].age
        BY Zenon, <3>1, <3>3, ReadsTyped DEF TaskReads
      <4>3. task'[t].read <= task'[t].age
        BY <4>1, <4>2, HoldGateAssumption DEF HoldGateAssumption, AtMost
      <4> QED
        BY Zenon, <3>1, <3>3, <4>3 DEF TaskReads, Answered
    <3> QED
      BY Zenon, <3>2, <3>3
  <2>2. ASSUME cache' # NoEntry PROVE cache'.age <= cache'.read
    <3>1. /\ cache \in Entry /\ cache' \in Entry /\ cache'.age = cache.age + 1
          /\ cache'.read = AtMost(cache.read + 1, AgeMax)
      BY Zenon, <1>4, <2>2, TickCache
    <3>2. cache.age \in Nat /\ cache.read \in Nat /\ cache'.age <= AgeMax
      BY <3>1, HoldGateAssumption DEF HoldGateAssumption, Entry
    <3>3. cache.age <= cache.read
      BY Zenon, <3>1, EntryIsEntry DEF Readings
    <3> QED
      BY <3>1, <3>2, <3>3, HoldGateAssumption DEF HoldGateAssumption, AtMost
  <2> QED
    BY Zenon, <2>1, <2>2 DEF Readings
<1>5. CASE UNCHANGED vars
  BY Zenon, <1>5 DEF vars, Readings, TaskReads, Answered
<1> QED
  BY Zenon, <1>1, <1>2, <1>3, <1>4, <1>5 DEF Next

LEMMA InitTasks ==
    ASSUME Init, NEW t \in Task
    PROVE  task[t].pc = "idle" /\ task[t].read = 0
  BY Zenon DEF Init, IdleTask

LEMMA ReadingsAlways == Spec => []Readings
<1>1. Init => Readings
  <2> SUFFICES ASSUME Init PROVE Readings
    BY Zenon
  <2>1. cache = NoEntry
    BY Zenon DEF Init
  <2>2. ASSUME NEW t \in Task PROVE TaskReads(t)
    BY Zenon, InitTasks DEF TaskReads, Answered
  <2> QED
    BY Zenon, <2>1, <2>2 DEF Readings
<1> QED
  BY <1>1, ReadingsStep, TypedAlways, PTL DEF Spec

LEMMA HoldsStep == Typed /\ Readings /\ HoldsKnown /\ [Next]_vars => HoldsKnown'
<1> SUFFICES ASSUME Typed, Readings, HoldsKnown, [Next]_vars PROVE HoldsKnown'
  BY Zenon
<1>1. ASSUME NEW t \in Task, Begin(t) \/ Evaluate(t) \/ Drop(t) PROVE HoldsKnown'
  <2>1. CASE Settle(t)
    <3>1. task[t].res = "ok"
      BY Zenon, <2>1 DEF Settle, Readings, TaskReads
    <3> QED
      BY Zenon, <2>1, <3>1, HoldsSettle
  <2> QED
    BY Zenon, <1>1, <2>1, HoldsBegin, HoldsEvaluate DEF Evaluate
<1>2. ASSUME NEW h \in Hold, Place(h) \/ Revoke(h) PROVE HoldsKnown'
  BY Zenon, <1>2, HoldsLedger
<1>3. CASE Evict
  BY Zenon, <1>3 DEF Evict, HoldsKnown, CacheKnows, TaskKnows, Answered, Knows
<1>4. CASE Tick
  BY Zenon, <1>4, HoldsTick
<1>5. CASE UNCHANGED vars
  BY Zenon, <1>5 DEF vars, HoldsKnown, CacheKnows, TaskKnows, Answered, Knows
<1> QED
  BY Zenon, <1>1, <1>2, <1>3, <1>4, <1>5 DEF Next

LEMMA HoldsKnownAlways == Spec => []HoldsKnown
<1>1. Init => HoldsKnown
  <2> SUFFICES ASSUME Init PROVE HoldsKnown
    BY Zenon
  <2>1. cache = NoEntry /\ overrode = {}
    BY Zenon DEF Init
  <2>2. ASSUME NEW t \in Task PROVE TaskKnows(t)
    BY Zenon, InitTasks DEF TaskKnows, Answered
  <2> QED
    BY Zenon, <2>1, <2>2 DEF HoldsKnown, CacheKnows
<1> QED
  BY <1>1, HoldsStep, TypedAlways, ReadingsAlways, PTL DEF Spec

\* In mode enforce no decision acts against a live hold that was in the ledger
\* when its answer was read, through the cache or not, for any accounts' holds,
\* labels, lifetimes and interleaving of the calls.
THEOREM Respected == Spec => []HoldsRespected
<1>1. HoldsKnown => HoldsRespected
  BY Zenon DEF HoldsKnown, HoldsRespected
<1> QED
  BY <1>1, HoldsKnownAlways, PTL

\* The cache never goes back to an older reading, in whatever order the probes
\* that overlap settle (remember and forget_if_older).
THEOREM MovesForward == Spec => CacheMovesForward
<1>1. ASSUME Typed, Readings, NEW t \in Task, Settle(t), cache # NoEntry, cache' # cache
      PROVE  task[t].read <= cache.read
  <2>1. ~WrittenSince(t)
    BY Zenon, <1>1 DEF Settle, Remembered
  <2>2. cache \in Entry /\ cache.age <= cache.read
    BY Zenon, <1>1 DEF Typed, EntryFits, Readings
  <2>3. cache.age \in Nat /\ cache.read \in Nat
    BY <2>2, HoldGateAssumption DEF HoldGateAssumption, Entry
  <2>4. task[t].read \in Nat /\ task[t].age \in Nat
    BY Zenon, <1>1, ReadsTyped
  <2>5. task[t].read <= task[t].age
    BY Zenon, <1>1 DEF Readings, TaskReads, Answered, Settle
  <2>6. task[t].age <= cache.age
    BY <1>1, <2>1, <2>3, <2>4 DEF WrittenSince
  <2> QED
    BY <2>2, <2>3, <2>4, <2>5, <2>6
<1>2. Typed /\ Readings =>
        [\A t \in Task : Settle(t) /\ cache # NoEntry /\ cache' # cache =>
            task[t].read <= cache.read]_vars
  BY Zenon, <1>1
<1> QED
  BY <1>2, TypedAlways, ReadingsAlways, PTL DEF CacheMovesForward

-----------------------------------------------------------------------------
(* The breaker *)

\* breaker_after_probe leaves the breaker to itself, closes it, or opens it (again)
\* for its whole time.
LEMMA ReportBreaker ==
    ASSUME Typed, NEW t \in Task, Report(t)
    PROVE  \/ breaker' = Freed(t)
           \/ Counts(t) /\ ~breaker'.open
           \/ /\ Counts(t) /\ task[t].res = "failure" /\ Opens(Freed(t))
              /\ breaker'.open /\ breaker'.openLeft = BreakerOpen
<1> DEFINE b == Freed(t)
<1>1. b \in BreakerState
  BY Zenon, FreedFits DEF Typed, BreakerFits
<1>2. breaker' = IF Counts(t) THEN AfterProbe(b, task[t].res) ELSE b
  BY Zenon DEF Report
<1> HIDE DEF b
<1>3. ASSUME NEW isError \in BOOLEAN PROVE AfterReachable(b, isError).open = FALSE
  BY Zenon, <1>1 DEF AfterReachable, Closed, BreakerState
<1>4. AfterFailure(b).open = Opens(b) /\ (Opens(b) => AfterFailure(b).openLeft = BreakerOpen)
  BY Zenon, <1>1 DEF AfterFailure, BreakerState
<1>5. CASE ~Counts(t)
  BY Zenon, <1>2, <1>5 DEF b
<1>6. CASE Counts(t)
  <2>1. breaker' = AfterProbe(b, task[t].res)
    BY Zenon, <1>2, <1>6
  <2>2. CASE task[t].res = "ok" \/ task[t].res = "reachable"
    <3>1. PICK isError \in BOOLEAN : breaker' = AfterReachable(b, isError)
      BY Zenon, <2>1, <2>2 DEF AfterProbe
    <3> QED
      BY Zenon, <1>3, <1>6, <3>1
  <2>3. CASE task[t].res = "failure"
    <3>1. breaker' = AfterFailure(b)
      BY Zenon, <2>1, <2>3 DEF AfterProbe
    <3> QED
      BY Zenon, <1>4, <1>6, <2>3, <3>1 DEF b
  <2>4. CASE task[t].res \notin {"ok", "reachable", "failure"}
    BY Zenon, <2>1, <2>4 DEF AfterProbe, b
  <2> QED
    BY Zenon, <2>2, <2>3, <2>4
<1> QED
  BY Zenon, <1>5, <1>6

\* While the breaker is open, a probe of its generation is a trial, and there is
\* one only when the breaker has been open for its time.
Probing(t) == task[t].pc \in {"probe", "report"}

FreshTrial(t) ==
    Probing(t) /\ task[t].fresh /\ breaker.open => task[t].trial /\ breaker.openLeft = 0

LEMMA FreshKept ==
    ASSUME NEW t \in Task, FreshTrial(t), Probing(t)' => Probing(t),
           task'[t].fresh => task[t].fresh, task'[t].trial = task[t].trial,
           breaker'.open = breaker.open, breaker'.openLeft = breaker.openLeft
    PROVE  FreshTrial(t)'
  BY Zenon DEF FreshTrial

LEMMA SlotStep ==
    ASSUME Typed, NEW t \in Task, breaker' = [breaker EXCEPT !.slot = t, !.slotAge = 0]
    PROVE  /\ breaker'.open = breaker.open /\ breaker'.openLeft = breaker.openLeft
           /\ breaker'.slot = t /\ breaker'.slotAge = 0
<1>1. breaker \in BreakerState
  BY Zenon DEF Typed, BreakerFits
<1> QED
  BY Zenon, <1>1 DEF BreakerState

LEMMA NewerTask ==
    ASSUME Typed, NEW h \in Hold, Place(h) \/ Revoke(h), NEW t \in Task
    PROVE  /\ task'[t].pc = task[t].pc /\ task'[t].trial = task[t].trial
           /\ task'[t].fresh = task[t].fresh /\ task'[t].age = task[t].age
<1>1. PICK placed \in {{}, {h}}, gone \in {{}, {h}} : Newer(placed, gone)
  BY Zenon DEF Place, Revoke
<1>2. task[t] \in TaskState
  BY Zenon DEF Typed
<1>3. task'[t] = IF Answered(t) THEN [task[t] EXCEPT !.newer = (@ \cup placed) \ gone] ELSE task[t]
  BY Zenon, <1>1 DEF Newer
<1> QED
  BY Zenon, <1>2, <1>3 DEF TaskState

\* A step of a task, seen from another one
LEMMA OtherTask ==
    ASSUME Typed, NEW t \in Task, Begin(t) \/ Evaluate(t) \/ Drop(t), NEW u \in Task, u # t
    PROVE  /\ task'[u].pc = task[u].pc /\ task'[u].trial = task[u].trial
           /\ task'[u].fresh => task[u].fresh
           /\ task'[u].age = task[u].age
<1>1. CASE Begin(t)
  BY Zenon, <1>1, EffectBegin
<1>2. CASE BeforeProbe(t)
  BY Zenon, <1>2, EffectBeforeProbe
<1>3. CASE Probe(t) \/ ProbeFails(t)
  BY Zenon, <1>3, EffectProbe
<1>4. CASE Report(t)
  <2>1. \A v \in Task \ {t} :
           /\ task'[v].pc = task[v].pc /\ task'[v].age = task[v].age
           /\ task'[v].trial = task[v].trial
           /\ task'[v].fresh => task[v].fresh
    BY Zenon, <1>4, EffectReport
  <2> QED
    BY Zenon, <2>1
<1>5. CASE Settle(t) \/ Drop(t)
  BY Zenon, <1>5, EffectIdle
<1> QED
  BY Zenon, <1>1, <1>2, <1>3, <1>4, <1>5 DEF Evaluate

LEMMA FreshTaskStep ==
    ASSUME Typed, NEW t \in Task, Begin(t) \/ Evaluate(t) \/ Drop(t),
           NEW u \in Task, FreshTrial(u)
    PROVE  FreshTrial(u)'
<1>0. IdleTask.pc = "idle"
  BY Zenon DEF IdleTask
<1>1. CASE Begin(t) \/ Probe(t) \/ ProbeFails(t) \/ Settle(t)
  <2>1. UNCHANGED breaker
    BY Zenon, <1>1 DEF Begin, Probe, ProbeFails, Settle
  <2>2. CASE u # t
    BY Zenon, <2>1, <2>2, OtherTask, FreshKept DEF Probing
  <2>3. CASE u = t
    <3>1. CASE Begin(t)
      <4>1. task'[t].pc \in {"idle", "gate"}
        BY Zenon, <3>1, EffectBegin
      <4> QED
        BY Zenon, <2>3, <4>1 DEF FreshTrial, Probing
    <3>2. CASE Probe(t) \/ ProbeFails(t)
      <4>1. /\ task[t].pc = "probe" /\ task'[t].fresh = task[t].fresh
            /\ task'[t].trial = task[t].trial
        BY Zenon, <3>2, EffectProbe
      <4> QED
        BY Zenon, <2>1, <2>3, <4>1, FreshKept DEF Probing
    <3>3. CASE Settle(t)
      BY Zenon, <1>0, <2>3, <3>3, EffectIdle DEF FreshTrial, Probing
    <3> QED
      BY Zenon, <1>1, <3>1, <3>2, <3>3
  <2> QED
    BY Zenon, <2>2, <2>3
<1>2. CASE BeforeProbe(t)
  <2>1. breaker'.open = breaker.open /\ breaker'.openLeft = breaker.openLeft
    BY Zenon, <1>2, EffectBeforeProbe, SlotStep
  <2>2. CASE u # t
    BY Zenon, <2>1, <2>2, OtherTask, FreshKept DEF Probing
  <2>3. CASE u = t
    <3>1. \/ task'[t] = IdleTask
          \/ ~breaker.open
          \/ task'[t].trial /\ breaker.openLeft = 0
      BY Zenon, <1>2, EffectBeforeProbe
    <3> QED
      BY Zenon, <1>0, <2>1, <2>3, <3>1 DEF FreshTrial, Probing
  <2> QED
    BY Zenon, <2>2, <2>3
<1>3. CASE Drop(t) \/ Report(t)
  <2>1. CASE u = t
    <3>1. task'[t].pc \in {"idle", "settle"}
      BY Zenon, <1>0, <1>3, EffectIdle, EffectReport
    <3> QED
      BY Zenon, <2>1, <3>1 DEF FreshTrial, Probing
  <2>2. CASE u # t
    <3>1. CASE breaker' = Freed(t)
      <4>1. breaker'.open = breaker.open /\ breaker'.openLeft = breaker.openLeft
        BY Zenon, <3>1, FreedFits DEF Typed
      <4> QED
        BY Zenon, <2>2, <4>1, OtherTask, FreshKept DEF Probing
    <3>2. CASE ~breaker'.open
      BY Zenon, <3>2 DEF FreshTrial
    <3>3. CASE Report(t) /\ Counts(t) /\ task[t].res = "failure" /\ Opens(Freed(t))
      <4>1. \A v \in Task \ {t} : task'[v].fresh =>
               ~(Counts(t) /\ task[t].res = "failure" /\ Opens(Freed(t)))
        BY Zenon, <3>3, EffectReport
      <4>2. ~task'[u].fresh
        BY Zenon, <2>2, <3>3, <4>1
      <4> QED
        BY Zenon, <4>2 DEF FreshTrial
    <3>4. Drop(t) => breaker' = Freed(t)
      BY Zenon DEF Drop
    <3> QED
      BY Zenon, <1>3, <3>1, <3>2, <3>3, <3>4, ReportBreaker
  <2> QED
    BY Zenon, <2>1, <2>2
<1> QED
  BY Zenon, <1>1, <1>2, <1>3 DEF Evaluate

LEMMA FreshStep ==
    ASSUME Typed, [Next]_vars, \A u \in Task : FreshTrial(u)
    PROVE  \A u \in Task : FreshTrial(u)'
<1> SUFFICES ASSUME NEW u \in Task, FreshTrial(u) PROVE FreshTrial(u)'
  BY Zenon
<1>1. ASSUME NEW t \in Task, Begin(t) \/ Evaluate(t) \/ Drop(t) PROVE FreshTrial(u)'
  BY Zenon, <1>1, FreshTaskStep
<1>2. ASSUME NEW h \in Hold, Place(h) \/ Revoke(h) PROVE FreshTrial(u)'
  <2>1. UNCHANGED breaker
    BY Zenon, <1>2 DEF Place, Revoke
  <2> QED
    BY Zenon, <1>2, <2>1, NewerTask, FreshKept DEF Probing
<1>3. CASE Evict
  BY Zenon, <1>3 DEF Evict, FreshTrial, Probing
<1>4. CASE Tick
  <2>1. /\ task'[u].pc = task[u].pc /\ task'[u].trial = task[u].trial
        /\ task'[u].fresh = task[u].fresh
    BY Zenon, <1>4, TickTask
  <2>2. breaker'.open = breaker.open /\ breaker'.openLeft = Less(breaker.openLeft)
    BY Zenon, <1>4, TickBreaker
  <2>3. Less(0) = 0
    BY DEF Less
  <2> QED
    BY Zenon, <2>1, <2>2, <2>3 DEF FreshTrial, Probing
<1>5. CASE UNCHANGED vars
  BY Zenon, <1>5 DEF vars, FreshTrial, Probing
<1> QED
  BY Zenon, <1>1, <1>2, <1>3, <1>4, <1>5 DEF Next

FreshTrials == \A t \in Task : FreshTrial(t)

LEMMA FreshAlways == Spec => []FreshTrials
<1>1. Init => FreshTrials
  BY Zenon, InitTasks DEF FreshTrials, FreshTrial, Probing
<1>2. Typed /\ FreshTrials /\ [Next]_vars => FreshTrials'
  BY Zenon, FreshStep DEF FreshTrials
<1> QED
  BY <1>1, <1>2, TypedAlways, PTL DEF Spec

OpenStep ==
    breaker.open =>
        /\ breaker.openLeft > 0 =>
              breaker'.open /\ breaker'.openLeft \in {breaker.openLeft, breaker.openLeft - 1}
        /\ ~breaker'.open => \E t \in Trials : task[t].pc = "report"

\* An open breaker stays open for its time and closes only on the report of a
\* trial, whatever probes of earlier generations are still to report.
THEOREM OpenForItsTime == Spec => OpenRunsItsTime
<1>1. ASSUME Typed, FreshTrials, [Next]_vars PROVE OpenStep
  <2> SUFFICES ASSUME breaker.open PROVE OpenStep
    BY Zenon DEF OpenStep
  <2>1. CASE breaker'.open = breaker.open /\ breaker'.openLeft = breaker.openLeft
    BY Zenon, <2>1 DEF OpenStep
  <2>2. CASE Tick
    <3>1. breaker.openLeft \in Nat
      BY <1>1, HoldGateAssumption DEF HoldGateAssumption, Typed, BreakerFits, BreakerState
    <3>2. breaker'.open = breaker.open /\ breaker'.openLeft = Less(breaker.openLeft)
      BY Zenon, <1>1, <2>2, TickBreaker
    <3> QED
      BY Zenon, <3>1, <3>2 DEF OpenStep, Less
  <2>3. ASSUME NEW t \in Task, Report(t) PROVE OpenStep
    <3>1. CASE breaker' = Freed(t)
      BY Zenon, <1>1, <2>1, <3>1, FreedFits DEF Typed
    <3>2. CASE Counts(t)
      <4>1. Probing(t) /\ task[t].fresh /\ task[t].pc = "report"
        BY Zenon, <2>3, <3>2 DEF Report, Probing, Counts
      <4>2. t \in Trials /\ breaker.openLeft = 0
        BY Zenon, <1>1, <4>1 DEF FreshTrials, FreshTrial, Trials, Probing
      <4> QED
        BY <4>1, <4>2 DEF OpenStep
    <3> QED
      BY Zenon, <1>1, <2>3, <3>1, <3>2, ReportBreaker
  <2>4. ASSUME NEW t \in Task, Begin(t) \/ BeforeProbe(t) \/ Probe(t) \/ ProbeFails(t)
                                        \/ Settle(t) \/ Drop(t)
        PROVE  OpenStep
    <3>1. CASE UNCHANGED breaker
      BY Zenon, <2>1, <3>1
    <3>2. CASE breaker' = Freed(t)
      BY Zenon, <1>1, <2>1, <3>2, FreedFits DEF Typed
    <3>3. CASE breaker' = [breaker EXCEPT !.slot = t, !.slotAge = 0]
      BY Zenon, <1>1, <2>1, <3>3, SlotStep
    <3> QED
      BY Zenon, <2>4, <3>1, <3>2, <3>3
         DEF Begin, BeforeProbe, Probe, ProbeFails, Settle, Drop
  <2>5. ASSUME NEW h \in Hold, Place(h) \/ Revoke(h) PROVE OpenStep
    BY Zenon, <2>1, <2>5 DEF Place, Revoke
  <2>6. CASE Evict \/ UNCHANGED vars
    BY Zenon, <2>1, <2>6 DEF Evict, vars
  <2> QED
    BY Zenon, <1>1, <2>2, <2>3, <2>4, <2>5, <2>6 DEF Next, Evaluate
<1>2. Typed /\ FreshTrials /\ [Next]_vars => [OpenStep]_vars
  BY Zenon, <1>1
<1>3. Spec => [][OpenStep]_vars
  BY <1>2, TypedAlways, FreshAlways, PTL DEF Spec
<1> QED
  BY Zenon, <1>3 DEF OpenRunsItsTime, OpenStep

-----------------------------------------------------------------------------
(* The trials.  A trial younger than half_open_stale_after has the slot, or   *)
(* the breaker will be open for longer than it stays young.                   *)

Young(t) == t \in Trials /\ task[t].age < Stale

Covered(t) ==
    \/ ~breaker.open
    \/ breaker.slot = t /\ breaker.slotAge = task[t].age
    \/ Stale - task[t].age <= breaker.openLeft

TrialsCovered ==
    /\ \A t \in Task : Young(t) => Covered(t)
    /\ \A t, u \in Task : Young(t) /\ Young(u) => t = u

LEMMA BreakerNumbers ==
    ASSUME Typed
    PROVE  /\ Stale \in Nat /\ BreakerOpen \in Nat /\ AgeMax \in Nat
           /\ 0 < Stale /\ Stale <= BreakerOpen /\ Stale <= AgeMax
           /\ breaker.openLeft \in Nat /\ breaker.slotAge \in Nat
<1>1. breaker \in BreakerState
  BY Zenon DEF Typed, BreakerFits
<1>2. breaker.openLeft \in 0..BreakerOpen /\ breaker.slotAge \in 0..Stale
  BY Zenon, <1>1 DEF BreakerState
<1> QED
  BY <1>2, HoldGateAssumption DEF HoldGateAssumption

\* When a call may try, every trial is old.
LEMMA TryingAlone ==
    ASSUME Typed, TrialsCovered, breaker.open, breaker.openLeft = 0, MayTry,
           NEW t \in Task
    PROVE  ~Young(t)
<1> SUFFICES ASSUME Young(t) PROVE FALSE
  BY Zenon
<1>1. task[t].age \in Nat /\ task[t].age < Stale
  BY Zenon, ReadsTyped DEF Young
<1>2. ~(Stale - task[t].age <= breaker.openLeft)
  BY <1>1, BreakerNumbers
<1>3. breaker.slot = t /\ breaker.slotAge = task[t].age
  BY Zenon, <1>2 DEF TrialsCovered, Covered
<1>4. breaker.slot # NoTask
  BY Zenon, <1>3, HoldGateAssumption DEF HoldGateAssumption
<1>5. ~(breaker.slotAge >= Stale)
  BY <1>1, <1>3, BreakerNumbers
<1> QED
  BY Zenon, <1>4, <1>5 DEF MayTry

\* A trial that was young before, and covered, stays covered.
LEMMA CoveredKept ==
    ASSUME NEW t \in Task, Covered(t), task'[t].age = task[t].age,
           breaker'.open = breaker.open, breaker'.openLeft = breaker.openLeft,
           breaker.slot = t => breaker'.slot = t /\ breaker'.slotAge = breaker.slotAge
    PROVE  Covered(t)'
  BY Zenon DEF Covered

LEMMA CoveredReport ==
    ASSUME Typed, NEW t \in Task, Report(t) \/ Drop(t), NEW u \in Task, u # t, Covered(u)
    PROVE  Covered(u)'
<1>1. task'[u].age = task[u].age
  BY Zenon, OtherTask DEF Evaluate
<1>2. CASE breaker' = Freed(t)
  <2>1. breaker'.open = breaker.open /\ breaker'.openLeft = breaker.openLeft
    BY Zenon, <1>2, FreedFits DEF Typed
  <2>2. breaker.slot = u => breaker' = breaker
    BY Zenon, <1>2 DEF Freed
  <2> QED
    BY Zenon, <1>1, <2>1, <2>2, CoveredKept
<1>3. CASE ~breaker'.open
  BY Zenon, <1>3 DEF Covered
<1>4. CASE breaker'.openLeft = BreakerOpen
  <2>1. task[u].age \in Nat
    BY Zenon, ReadsTyped
  <2>2. Stale - task[u].age <= BreakerOpen
    BY <2>1, BreakerNumbers
  <2> QED
    BY Zenon, <1>1, <1>4, <2>2 DEF Covered
<1>5. Drop(t) => breaker' = Freed(t)
  BY Zenon DEF Drop
<1> QED
  BY Zenon, <1>2, <1>3, <1>4, <1>5, ReportBreaker

\* Nothing but the start of a trial makes one.
LEMMA CoveredStep ==
    ASSUME Typed, TrialsCovered,
           \A t \in Task : Young(t)' => Young(t) /\ (Covered(t) => Covered(t)')
    PROVE  TrialsCovered'
  BY Zenon DEF TrialsCovered

LEMMA YoungOther ==
    ASSUME Typed, NEW t \in Task, Begin(t) \/ Evaluate(t) \/ Drop(t), NEW u \in Task, u # t, Young(u)'
    PROVE  Young(u)
  BY Zenon, OtherTask DEF Young, Trials

LEMMA CoveredTaskStep ==
    ASSUME Typed, TrialsCovered, NEW t \in Task, Begin(t) \/ Evaluate(t) \/ Drop(t)
    PROVE  TrialsCovered'
<1>0. IdleTask.pc = "idle" /\ ~IdleTask.trial
  BY Zenon DEF IdleTask
<1>1. CASE Begin(t) \/ Probe(t) \/ ProbeFails(t) \/ Settle(t)
  <2>1. UNCHANGED breaker
    BY Zenon, <1>1 DEF Begin, Probe, ProbeFails, Settle
  <2>2. ASSUME NEW u \in Task, Young(u)' PROVE Young(u) /\ task'[u].age = task[u].age
    <3>1. CASE u # t
      BY Zenon, <2>2, <3>1, YoungOther, OtherTask
    <3>2. CASE u = t
      <4>1. task'[t].pc \in {"probe", "report"} /\ task'[t].trial /\ task'[t].age < Stale
        BY Zenon, <2>2, <3>2 DEF Young, Trials
      <4>2. ~Begin(t)
        BY Zenon, <4>1, EffectBegin
      <4>3. ~Settle(t)
        BY Zenon, <1>0, <4>1, EffectIdle
      <4>4. /\ task[t].pc = "probe" /\ task'[t].trial = task[t].trial
            /\ task'[t].age = task[t].age
        BY Zenon, <1>1, <4>2, <4>3, EffectProbe
      <4> QED
        BY Zenon, <3>2, <4>1, <4>4 DEF Young, Trials
    <3> QED
      BY Zenon, <3>1, <3>2
  <2>3. ASSUME NEW u \in Task, Young(u)' PROVE Young(u) /\ (Covered(u) => Covered(u)')
    BY Zenon, <2>1, <2>2, <2>3, CoveredKept
  <2> QED
    BY Zenon, <2>3, CoveredStep
<1>2. CASE Report(t) \/ Drop(t)
  <2>1. ASSUME NEW u \in Task, Young(u)' PROVE Young(u) /\ (Covered(u) => Covered(u)')
    <3>1. CASE u # t
      BY Zenon, <1>2, <2>1, <3>1, YoungOther, CoveredReport
    <3>2. CASE u = t
      <4>1. task'[t].pc \in {"idle", "settle"}
        BY Zenon, <1>0, <1>2, EffectIdle, EffectReport
      <4> QED
        BY Zenon, <2>1, <3>2, <4>1 DEF Young, Trials
    <3> QED
      BY Zenon, <3>1, <3>2
  <2> QED
    BY Zenon, <2>1, CoveredStep
<1>3. CASE BeforeProbe(t)
  <2>1. CASE ~task'[t].trial \/ task'[t] = IdleTask
    <3>1. UNCHANGED breaker
      <4>1. ~task'[t].trial
        BY Zenon, <1>0, <2>1
      <4> QED
        BY Zenon, <1>3, <4>1, EffectBeforeProbe
    <3>2. ~Young(t)'
      BY Zenon, <1>0, <2>1 DEF Young, Trials
    <3>3. ASSUME NEW u \in Task, Young(u)' PROVE Young(u) /\ (Covered(u) => Covered(u)')
      <4>1. u # t
        BY Zenon, <3>2, <3>3
      <4> QED
        BY Zenon, <3>1, <3>3, <4>1, YoungOther, OtherTask, CoveredKept
    <3> QED
      BY Zenon, <3>3, CoveredStep
  <2>2. CASE /\ task'[t].age = 0 /\ breaker.open /\ breaker.openLeft = 0 /\ MayTry
             /\ breaker' = [breaker EXCEPT !.slot = t, !.slotAge = 0]
    <3>1. ASSUME NEW u \in Task, Young(u)' PROVE u = t
      <4>1. ~Young(u)
        BY Zenon, <2>2, TryingAlone
      <4> QED
        BY Zenon, <3>1, <4>1, YoungOther
    <3>2. Covered(t)'
      BY Zenon, <2>2, SlotStep DEF Covered
    <3> QED
      BY Zenon, <3>1, <3>2 DEF TrialsCovered
  <2> QED
    BY Zenon, <1>3, <2>1, <2>2, EffectBeforeProbe
<1> QED
  BY Zenon, <1>1, <1>2, <1>3 DEF Evaluate

\* The clock ages a trial, its slot and the open breaker alike.
LEMMA CoveredTick ==
    ASSUME Typed, TrialsCovered, Tick PROVE TrialsCovered'
<1>1. ASSUME NEW t \in Task, Young(t)' PROVE Young(t) /\ (Covered(t) => Covered(t)')
  <2>1. task'[t].pc = task[t].pc /\ task'[t].trial = task[t].trial
    BY Zenon, TickTask
  <2>2. t \in Trials /\ task[t].pc \in {"probe", "report"} /\ task'[t].age < Stale
    BY Zenon, <1>1, <2>1 DEF Young, Trials
  <2>3. task'[t].age = AtMost(task[t].age + 1, AgeMax)
    BY Zenon, <2>2, TickTask
  <2>4. task[t].age \in Nat
    BY Zenon, ReadsTyped
  <2>5. task'[t].age = task[t].age + 1 /\ task[t].age + 1 < Stale /\ task[t].age < Stale
    BY <2>2, <2>3, <2>4, BreakerNumbers DEF AtMost
  <2>6. Young(t)
    BY Zenon, <2>2, <2>5 DEF Young
  <2>7. ASSUME Covered(t) PROVE Covered(t)'
    <3>1. /\ breaker'.open = breaker.open /\ breaker'.slot = breaker.slot
          /\ breaker'.openLeft = Less(breaker.openLeft)
      BY Zenon, TickBreaker
    <3>2. CASE ~breaker.open
      BY Zenon, <3>1, <3>2 DEF Covered
    <3>3. CASE breaker.slot = t /\ breaker.slotAge = task[t].age
      <4>1. breaker.slot # NoTask
        BY Zenon, <3>3, HoldGateAssumption DEF HoldGateAssumption
      <4>2. breaker'.slotAge = AtMost(breaker.slotAge + 1, Stale)
        BY Zenon, <4>1, TickBreaker
      <4>3. breaker'.slotAge = task'[t].age
        BY Zenon, <2>4, <2>5, <3>3, <4>2, BreakerNumbers DEF AtMost
      <4> QED
        BY Zenon, <3>1, <3>3, <4>3 DEF Covered
    <3>4. CASE Stale - task[t].age <= breaker.openLeft
      <4>1. Stale - task'[t].age <= Less(breaker.openLeft)
        BY <2>4, <2>5, <3>4, BreakerNumbers DEF Less
      <4> QED
        BY Zenon, <3>1, <4>1 DEF Covered
    <3> QED
      BY Zenon, <2>7, <3>2, <3>3, <3>4 DEF Covered
  <2> QED
    BY Zenon, <2>6, <2>7
<1> QED
  BY Zenon, <1>1, CoveredStep

\* While the breaker is half open at most one trial younger than
\* half_open_stale_after is under way: no interleaving of drops, late reports and
\* takeovers of the slot lets a second one in.
THEOREM SingleTrial == Spec => []OneTrial
<1>1. Init => TrialsCovered
  <2> SUFFICES ASSUME Init PROVE TrialsCovered
    BY Zenon
  <2>1. ASSUME NEW t \in Task PROVE ~Young(t)
    BY Zenon, InitTasks DEF Young, Trials
  <2> QED
    BY Zenon, <2>1 DEF TrialsCovered
<1>2. Typed /\ TrialsCovered /\ [Next]_vars => TrialsCovered'
  <2> SUFFICES ASSUME Typed, TrialsCovered, [Next]_vars PROVE TrialsCovered'
    BY Zenon
  <2>1. ASSUME NEW t \in Task, Begin(t) \/ Evaluate(t) \/ Drop(t) PROVE TrialsCovered'
    BY Zenon, <2>1, CoveredTaskStep
  <2>2. ASSUME NEW h \in Hold, Place(h) \/ Revoke(h) PROVE TrialsCovered'
    <3>1. UNCHANGED breaker
      BY Zenon, <2>2 DEF Place, Revoke
    <3>2. ASSUME NEW u \in Task, Young(u)' PROVE Young(u) /\ (Covered(u) => Covered(u)')
      BY Zenon, <2>2, <3>1, <3>2, NewerTask, CoveredKept DEF Young, Trials
    <3> QED
      BY Zenon, <3>2, CoveredStep
  <2>3. CASE Evict \/ UNCHANGED vars
    <3>1. UNCHANGED <<breaker, task>>
      BY Zenon, <2>3 DEF Evict, vars
    <3> QED
      BY Zenon, <3>1 DEF TrialsCovered, Young, Covered, Trials
  <2>4. CASE Tick
    BY Zenon, <2>4, CoveredTick
  <2> QED
    BY Zenon, <2>1, <2>2, <2>3, <2>4 DEF Next
<1>3. TrialsCovered => OneTrial
  BY Zenon DEF TrialsCovered, OneTrial, Young, Trials
<1> QED
  BY <1>1, <1>2, <1>3, TypedAlways, PTL DEF Spec
=============================================================================
