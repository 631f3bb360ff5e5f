# A TLA+ verification of x-algorithm

TLA+ models of the parts of this repository whose correctness depends on the
order in which threads, requests, store calls and clocks take their steps, with
TLC configurations that explore small instances and TLAPS proofs that hold for
every size. Paths below are relative to `src/`.

## 1. The system

The repository builds and polices the For You feed. `home-mixer` assembles a
response with the `candidate-pipeline` framework; candidates come from `thunder`
(recent posts of followed accounts, in memory), `phoenix` retrieval over the
`phoenix-rankall` index, and `simclusters`; `phoenix` and `vm-ranker` rank them.
Classifiers (`grox`, `media-model-proxy`, `agatha`, `bdsm`, ...) label posts and
accounts; `visibility-filtering` decides what may be shown;
`abuse-enforcement-service` acts on account scores.

### Inventory of the stateful components

| Component | State | Operations | What is hard | What must hold |
|---|---|---|---|---|
| Thunder post store (`thunder/posts/post_store.rs`) | concurrent maps `posts`, `deleted_posts`, three lists per author, a list of tombstones | `insert_posts`, `mark_as_deleted`, `trim_old_posts`, `finalize_init`, reads | every call is many single-key steps; check-then-insert; unsigned ages | a deleted post stays deleted; recent posts stay; nothing leaks |
| Thunder listener and start-up (`thunder/kafka/tweet_events_listener_v2.rs`, `thunder/main.rs`) | message buffer, `init_data_downloaded`, semaphore, catch-up channel, readiness | poll, batch, signal, receive, clean up | batches run unlocked until a thread has caught up; lost catch-up signals; a panicking batch | exclusion after start-up, a purge that repairs the races, readiness |
| Candidate pipeline (`candidate-pipeline/`) | query, candidate list, filtered and non-selected lists | ten stages, three of them concurrent | components fail wholly, partly or with short answers, in any order | nobody gets another's data; nothing lost; the best is served |
| Cached hydrator (`candidate-pipeline/hydrator.rs`) | shared cache, per-request result vector | get, client call, insert | index bookkeeping between hits and misses, under eviction | values aligned, no holes |
| Dedup slot (`abuse-enforcement-service/.../dedup_cache.rs`, `lib.rs`) | one row per entity: claim or outcome with class and deadline | `try_insert`, `update`, `update_skip`, `invalidate`, retries | a store without conditional writes; bypasses over claims; crashes | no hold is lost silently; no repeated enforcement; no abandoned claim |
| Backfill runs (`.../backfill.rs`) | run records, off-switch holds, stop markers | `start`, `change`, `hold_for_off_switch` | two-step protocols over get/put/scan; stale reads; retries | one run per model; stop is final; holds last |
| Backfill claims (`.../backfill_claims.rs`, `lib.rs`) | a claim per item of a run, a day's budget of tickets, key locks per pod | `state`, `take`, `finish`, and the decisions around them | claims that go stale under a slow decision, redelivery, retries, lost answers | a young claim holds its item; a repeat has a reason; the budget is exact; a stop ends the actions |
| Head guard, off switch (`.../head_guard.rs`, `off_switch.rs`) | action counts, switch records, caches | count, trip, switch | ceilings across pods, stale caches | a tripped model stops acting |
| Sliding windows, limiter (`.../sliding_window.rs`, `limiter.rs`) | rolling counts in rows written by several pods | record, read | lost updates, window edges | counts never understate beyond a bound |
| Overturn holds (`.../overturn_hold.rs`, `abuse-ledger-service`) | holds after appeals; a cache of answers; a circuit breaker with trials and a backoff | `evaluate` | overlapping probes, answers for other labels, dropped and late trials | no action against a known hold; the cache never goes back; one trial at a time; recovery |
| Action control (`.../action_control.rs`) | versioned settings rows | read, write with read back | concurrent editors | last accepted version wins |
| Phoenix rankall index (`phoenix-rankall/`) | post index | event updates, queries | ordering of updates | deleted posts leave |
| Label cache (`safety-label-source/`) | two cache tiers, warm queue | read, warm | full queues, outages | no stale label past its age |
| Grox engine (`grox/core/`) | task plans | dispatch, retry | partial failure | every task ends |

The remaining directories (models, training, offline jobs, rule languages,
schemas) are listed in `PROJECT.json` with the reason each is not modelled.

## 2. How the project is split

One module per component (`PostStore`, `ThunderServing`, `DedupCache`,
`CandidatePipeline`, `CachedHydrator`, `BackfillRuns`, `BackfillClaims`,
`HoldGate`), one abstract specification (`RunLifecycle`), `MC...` modules and
configurations for TLC, and `...Proofs` modules for TLAPS. `ThunderServing` is
composed of `PostStore` and the listeners. `RunLifecycle` stands between two
components: `BackfillRuns` implements it, and `BackfillClaims` is composed with it
instead of with the whole store protocol.

## 3. Modules

### Thunder: `PostStore`, `ThunderServing`

`PostStore` holds the store and its two kinds of users. A *worker* applies one
batch: for each create it looks for a tombstone (`CheckDeleted`), stores the post
(`StorePost`), pushes it to its author's list and to the video list
(`PushPrimary`, `PushVideo`) and removes what full lists pushed out
(`RemoveEvicted`); for each delete it removes the post, enters the tombstone and
lists it (`RemovePost`, `Bury`, `PushTomb`). Each is one locked access to one
key, which is the granularity at which threads interleave. The *trimmer* runs
`trim_old_posts`: tombstones, then one author at a time, then the removals.
Subtraction of ages is modelled for both build profiles (`OverflowChecks`):
wrapping, or a panic that ends the trimmer. `applied`, `accepted` and `squeezed`
are history variables; no action reads them.

`ThunderServing` adds the listener threads (`Poll`, `Acquire`, `StartBatch`,
`EndBatch`, `Signal`), `main` (`Recv`, `SortAll`, `StartTrim`, `StartPurge`,
`Purge`, `BecomeReady`), the clock and the feeder, whose events, repeats and
orders are arbitrary. An event without a variant drops its batch, as the panic
of the blocking task does.

### Dedup slot: `DedupCache`

One row, with get, put and delete as separate steps, and workers that each carry
one decision from `Receive` through `try_insert` (`Check`, `Claim`, `Verify`, or
`Duplicate`, `ClaimLost`), the enforcement (`Act`, `Skip`, `Release`, `Retry`) and
the final write (`Prepare...`, `Put`, `Fenced`, `LeaveInPlace`). Every store call
has a failing variant, and a put that fails may or may not have been applied.
`Crash` ends a decision anywhere. Nonces are unique and all pods read one clock.
Action classes are the code's five numbers. `serial` and `until` are history
variables.

### Candidate pipeline: `CandidatePipeline`

One request through `execute_stages`. Concurrent components complete in any order
(`Answer`) and are joined (`JoinQuery`, `JoinSources`, `JoinHydrators`); filters
and scorers run in turn; `Select`, `Truncate` and the side effects end it. A
candidate is its identity, its score and the set of answers applied to it, each
tagged with the candidate the answer was about. The configuration (components per
stage, the query fields they need) is a constant.

### Cached hydrator: `CachedHydrator`

Concurrent requests over one cache, one action per await: `Get`, `CallClient`,
`Insert`, with `Evict` as the cache's own freedom. The client may fail wholly,
per entry or return too little.

### Backfill runs: `BackfillRuns`

The three tables of the control store and callers on any pod. Each store call is
a step; `Abandon` drops a call in progress anywhere (a crash or a failed call).
`start` is `Begin`, `StartAgain`/`StartNew`, `Put`, `ReadBack`, then
`ScanStops` and `FinishStart` until it wins, loses or has waited
`START_SETTLE_WAITS` times; a change is `Begin`, `ChangeReadHold`,
`ChangeDecide`, `ResumeCheck` for a resume, `MarkStop` for a stop, `Put`,
`ReadBack`, `Unhold`; a decision that finds its model switched off is
`GateStop`, `GateHold`, `HoldForOffSwitch`. All runs share the entity and the
head, and `Classifier` says which of them overlap. `lostUpdate` is a history
variable: a write of an active state replaced a record it was not made from.

### Life of a run: `RunLifecycle`

What readers of a backfill run may rely on, whatever its writers do: it starts
paused, is never forgotten, and a stopped run stays stopped. The refinement mapping
of `BackfillRuns` is `Now(r)`, the state that `Backfill::run` puts together from
record, stop marker and hold (`FollowsLifecycle`).

### Backfill claims: `BackfillClaims`

The rows of `backfill_items` and the decisions of any pod. A decision is received
(`Receive`), admitted (`AdmitRun`, `AdmitClaim`, `ArriveUnread`, `Refuse`), takes
the key lock of its pod (`Lock`), reads the facts, the run and the claim
(`ReadFacts`, `GateRun`, `CheckClaim`), takes the row in one transaction (`Take`,
`TakeRefused`), acts (`Act`, `Rejected`) and marks the row (`Finish`). Every call may
fail and send the decision to the retry queue with its nonce (`CallFails`,
`ActFails`), the answer of a committed `take` may be lost (`TakeLost`), and a
decision may vanish anywhere (`Lose`). Ages are counted up to one past
`STALE_AFTER`, because `take` compares with `<` and `finish` with `>`. `over`, `late`
and `unexplained` are history.

### Overturn holds: `HoldGate`

Concurrent calls of `evaluate` about one account, against a ledger in which people
place and revoke holds that also expire. A call looks in the cache (`Begin`), asks
the breaker (`BeforeProbe`), probes (`Probe`, `ProbeFails`), reports to the breaker
(`Report`), and caches and uses the answer (`Settle`); its caller may drop it at the
await (`Drop`). Deadlines are the ticks they have left and stamps are ages, so the
clock is one action and the model stays finite without a bound on time. The
breaker's `generation` is compared for equality only: a call is `fresh` while its
generation is the breaker's. `newer`, `read` and `overrode` are history: the holds
placed since an answer was read, its age, and the holds a decision acted against
although its answer could have known them.

## 4. Runs

The figures are bounds of the instance. Deadlock checking is off where the system
may stop: all messages handled, the request answered, the process crashed, or the
budget of calls used up.

| Run | Instance | Shows |
|---|---|---|
| `thunder_race` | 2 threads, backlogs of 1 to 3 events on one post, 1 further event | `DeletedStaysDeleted`, `PurgeCoversRaces`, `BatchesExclusive`, `StaleOnlyWithStraggler`, `EventuallyReady`, `TypeOK` |
| `thunder_trim` | 1 thread, lists of length 1, a video, a retweet of it and a plain post, retention 2, clock 3 to 5, skewed delete stamps, slow trims, overflow checks on, failing lag requests | `TombstoneOutlivesPost`, `DeletedStaysDeleted`, `RecentPostsHeld`, `NoOrphan` |
| `thunder_slow_trim` | 1 thread, 2 posts, slow trims, wrapping arithmetic | `RecentPostsHeld` is violated |
| `dedup` | 2 workers, 2 decisions in turn or at once, 1 fault anywhere, clock past both TTLs | `CarryInside`, `NoAbandonedClaim`, `HoldKept`, `OutranksRecent`, `TypeOK` |
| `pipeline` | every stage, up to 3 candidates, 2 scorers, 2 cuts | `OwnData`, `Conserved`, `ServesBest`, `Completes`, `TypeOK` |
| `cached_hydrator` | 2 requests of up to 3 candidates, 2 keys | `Aligned`, `NoHole`, `TypeOK` |
| `backfill_start` | 3 runs, 3 callers, 3 starts, two clocks | `OneRunner`, `TypeOK` |
| `backfill_change` | 2 runs, 2 callers: two starts, a resume, an end, a stop, a hold | `OneRunnerUnlessLostUpdate`, `StopFinal`, `HoldLasts`, and the refinement `FollowsLifecycle` |
| `backfill_stale_resume` | 2 runs, a resume racing an end and a start | `ResumeRefuses` is violated |
| `backfill_hold_lost` | 1 run, resumes racing a hold | `HoldUntilResume` is violated |
| `backfill_claims` | 2 decisions on 2 pods, a listed and an unlisted item, 2 tickets, 1 retry, claims stale after 1 tick, every move of the run | `ClaimHeld`, `RepeatsExplained`, `BudgetExact`, `StopQuiets`, `TypeOK` |
| `hold_gate` | 2 calls, a suspend hold and a label, every class of fault, limits of 1 and 2 | `HoldsRespected`, `OneTrial`, `CacheMovesForward`, `OpenRunsItsTime`, `Recovers`, `TypeOK` |

Why the bounds are enough for the questions asked: the store's races are between
two threads on one post, and a list of length one already overflows at its second
entry; clocks run past retention or a TTL so that things expire; the dedup races
need a reader, a writer in between and a third decision that sees the result;
the backfill start protocol is symmetric in pairs of runs, and three runs of which
one overlaps both others add the case where the loser of one contest is the
winner of another. Three candidates give the hydrator a hit between two misses.
In `backfill_change` the pause is the one a hold makes; pauses by a person are
covered by the proofs and by the two runs that follow. In `backfill_claims` the two
decisions are on different pods, where the key lock does not help and the row
has to; the budget is that of one day. In `hold_gate` the limits are the smallest at
which every transition of breaker, backoff and cache happens; all its safety
properties are also proved, for any limits.

**Fairness.** Four runs assume any. `thunder_race`: the tokio runtime keeps
running every task (weak fairness of each thread and of `main`), and tokio's
semaphore is first come, first served, which is strong fairness of `Acquire`;
nothing is assumed of the clock or the feeder, so every thread starts with at
least one full batch; in this run polls are full and the lag request answers,
without which the code does not promise readiness. `pipeline`: weak fairness of
the whole step relation, that is, every component's future completes; the
framework itself has no timeout. `backfill_claims`: pods poll a decision they have accepted to its end
(weak fairness of its own steps, not of faults or of the run's changes).
`hold_gate`: decisions keep coming, each call is polled to its end, and time passes;
`Recovers` moreover supposes that from some time on no probe fails and no caller
gives up.

### Where code and documentation disagree

- `thunder_slow_trim`: `trim_old_posts` reads the clock once and subtracts
  creation times as unsigned numbers. A post inserted later than that reading, at
  the front of its author's list, has a wrapped, huge age and is dropped although
  it is new (`post_store.rs:555`), against "Holds recent posts in memory as they
  are published" (`README.md:276`). With overflow checks the trimmer panics instead.
- `backfill_stale_resume`: `change` writes with a plain put after a version check
  and a listing that may be stale, so a resume can set a run Running beside
  another (`backfill.rs:1175`), against the test
  `resume_refuses_while_another_run_holds_the_model`.
- `backfill_hold_lost`: a resume deletes the hold by run id after its write, and
  with it a hold that was put for the new version (`backfill.rs:1178`), against
  the test `an_off_switch_hold_pauses_until_a_person_resumes`.

`HoldLasts` and `OneRunnerUnlessLostUpdate` state what does hold in these places.

## 5. Proofs

All theorems are for any number of threads, posts, decisions, requests, runs and
callers, from the named `ASSUME`s of the modules. These give the ranges of the
constants; two say more: `ClaimsAssumption` has finitely many decisions, which
counting tickets needs, and `PipelineAssumption` lists each source once.
Every safety property that a passing run checks has a theorem.

**`ThunderServingProofs`**: `TypeCorrect`, and the listeners. `PermitInv` is
inductive: a thread that has caught up and is in a batch holds the permit, and
whoever has told main has caught up. `BatchesExclusive` follows, because main goes
on when as many distinct threads as there are have told it (`AllReceived`).
`StaleOnlyWithStraggler` and `PurgeCoversRaces` are not inductive alone: a purge is
repaired only if no thread can store a deleted post behind it, which needs that a
permit holder's look at the tombstones is fresh unless a straggler exists.
`RaceInv` is their conjunction with `PermitInv`, the uniqueness of the next delete
of a batch, and the emptiness of the purge set once the server is ready.

**`ThunderSafetyProofs`**: what the store keeps.
- Under `NoWrap` (overflow checks on, or trims that end within the second and
  deletes not stamped ahead of the clock) a tombstone is dropped only for a post
  too old to return, and hence a deleted post stays deleted. `EventStamps` and
  `TombStamps` carry the fact that a delete is stamped no earlier than its post's
  creation from the log through buffers and batches to the tombstone list;
  `AgeInv` says that what the trimmer has popped is too old, and that a deleted
  post has its tombstone or is too old.
- `NothingOrphaned`: `NoOrphan` is inductive with the types, without `NoWrap`.
  `Placed` says where a stored post is on its way: listed, about to be listed, or
  about to be removed. Lemmas say what a push, a trim and a sort do to an entry of
  a list; no step un-places a post without taking it out of `posts`.
- `RecentHeld`, under `NoWrap`: `HeldInv` adds to `RecentPostsHeld` that no list is
  longer than `MAX_POSTING_LIST_SIZE` (`ListsFit`; so the trimmer pops for age
  alone), that entries bear creation times that are past (`Past`), and that
  whoever is about to take out a post has its reason on record (`Reasons`): its
  age, a full list or a delete. `GoneForGood` says that such a reason never lapses.

Without `NoWrap` the first and the third argument fail at the wrapped subtraction
of the first finding.

**`DedupCacheProofs`**: `HoldInv` strengthens `CarryInside` to the rows that are
still to be written (`EntryInv`), says that a claim's nonce determines its carried
hold (`OwnCarry`) and what each phase knows of what it read (`PhaseInv`).
`HoldKept`, an action property, then holds step by step, faults and crashes
included. `ClaimsOwned` gives `NoAbandonedClaim`. `SerialOutranks` follows from
`SerialInv`: when decisions follow one another, every class enforced within the TTL
is covered by the slot, by the hold the claim carries or by what the decision in
flight knows is held.

**`CachedHydratorProofs`**: `Accounted` says, for each phase, which indices have a
result and which are in the list of missing ones; with it `Aligned` and
`NoHole` are inductive.

**`CandidatePipelineProofs`**: joins, filters and the selector's sort are defined by
what they yield (`InOrder`: the list of a set under a strict order) and not by
recursion, so that they can be reasoned about. That a finite set has such a list
is shown first, with a smallest counterexample in place of an induction over data.
`PipelineInv` then says of every stage that a candidate's data are its own, that
the lists share out what was fetched (`Shared`), and how they are ordered
(`Order`); `OwnData`, `Conserved` and `ServesBest` follow.

**`BackfillProofs`**: `Inv` says that a record says Stopped only if a stop marker
exists, and that whoever is about to write Stopped has put the marker. Markers are
never removed, so `StopFinal` follows. For `Refinement`, `Grounds` says that a call
about to write a record has seen the run (so a run is never forgotten, and its
first record is a paused one); `OneRunMoves` that a store call changes what is read
of one run only; `RunMoves` that the change is one the life cycle has.

`OneRunner` needs more than states. A run is `Cleared` when its record, or a record
some call has read or will write, says that its start succeeded. `Excluded`, the
core of `RunnerInv`, says that of two overlapping runs that are cleared one is
`Over` (marked stopped, or done), or a done run may have come back (`Revived`). The
last can happen only once runs are marked done, hence `OneRunnerBeforeDone`, which
assumes that no run is; with ends included, `OneRunnerUnlessLost`. `Sound` ties
what a call has read to what it will write. `HoldsLast` uses the same invariant.

**`BackfillClaimsProofs`**: every step of a decision moves it on, takes its row or
ends it (three lemmas, so that the invariants are proved for three kinds of step
and not for twenty actions). `ClaimsInv` adds to `ClaimHeld` and
`RepeatsExplained` that a claim belongs to the decision that took it (`Holder`),
that a free row's item is untouched (`Untouched`), that a decision about to act
knows its claim's age (`Acting`), and that nobody else has acted or is about to
while a decision that took over from nobody holds the row (`Sole`). `BudgetExact`
counts the decisions that took a row. `StopBarsDecisions` is the safety half of
`StopQuiets`: a decision not past the gate of a stopped run never passes it.

**`HoldGateProofs`**: five theorems over one type invariant, `Typed`, which adds to
`TypeOK` that an entry's age and remaining time never exceed its ttl.
`Respected` rests on `HoldsKnown`: an answer under way or cached has every live
hold on what it was asked about, unless the hold is newer, for at least as long
as the ledger has it; the clock takes a tick from both sides, and a placed or
revoked hold moves in or out of `newer`. `MovesForward` rests on `Readings`: a
reading is no older than its probe, and an entry no older than its reading.
`OpenForItsTime` rests on `FreshTrials`: while the breaker is open, a probe of its
generation is a trial and the open time is over. `SingleTrial` rests on
`TrialsCovered`: a young trial has the slot with the slot's age, or the breaker will
be open for longer than the trial stays young. The last needs
`half_open_stale_after` to be at most `DEFAULT_BREAKER_OPEN`, which
`HoldGateAssumption` states and the code's limits on `timeout_ms` give.

Most leaves cite `Zenon`, which decides them from the named facts at once; the
others need arithmetic or records and go to the SMT solver.

**Only model-checked.** Liveness, which is outside the prover's reach:
`EventuallyReady`, `Completes`, `Recovers`, and that in `StopQuiets` the decisions
past the gate come to their end. The three properties of the violation runs are
false as stated; `RecentHeld` proves the first of them under `NoWrap`.

## 6. Not modelled

- Thunder's requests, statistics and `clear`; partitions within one thread (one
  log per thread); more or fewer threads than `kafka_num_threads`.
- Dedup: clock differences between pods, equal nonces, and everything that decides
  *which* class a decision has.
- Pipeline: what components compute, tracing and statistics, NaN scores. Which
  mixture of scores is acceptable when a scorer fails for some candidates is stated
  nowhere in the repository, so no property is about it.
- Hydrator: the age of a value; a value is the key it is about. Two requests may
  fill a key from answers of different times, and nothing in the code orders them.
- Backfill: request validation, the expiry of records and markers, the change of
  day that refills the ticket budget. That one of two slow starts wins would need
  a bound on store latency that the code does not state.
- Overturn holds: mode shadow, which acts whatever the answer is; the tables and
  row formats of the ledger; accounts other than the one in question, which share
  only the breaker and the size of the cache (`Evict`).
- Head guard, off switch, limiter and sliding windows appear only as free choices
  of the decisions that ask them. Their promises are bounds on rates over
  wall-clock windows shared by pods, which the ticks used here cannot express.
- Action control, the Phoenix rankall index, the label cache of
  `safety-label-source` and the Grox engine keep state and could be modelled; they
  are not yet, and nothing here says anything about them. The serving queues of
  Phoenix are in the same position.
- Models, training, offline jobs, rule languages and schemas make up most of the
  repository's lines. They are numeric code, tables or generated types rather than
  protocols; each is listed in `PROJECT.json` with its reason.

By lines the models cover little of the repository: about 3,300 of some
250,000 lines of Rust, under two percent, and none of as many lines of Python,
Scala and Java. What they cover closely is five parts of it: the Thunder store
and listener, the pipeline framework with its cached hydrator, the dedup slot, the
backfill runs with their claims, and the overturn holds.
