---------------------------- MODULE ThunderServing ----------------------------
(***************************************************************************)
(* A serving Thunder process: the listener threads that read the event     *)
(* topic (thunder/kafka/tweet_events_listener_v2.rs), the start-up         *)
(* sequence of main (thunder/main.rs) and the trimmer, all working on one  *)
(* PostStore.                                                              *)
(*                                                                         *)
(* A thread reads its own partitions, here one log per thread.  Until the  *)
(* thread has caught up with its log it applies batches without any lock;  *)
(* from then on it holds the single permit of a semaphore for each batch.  *)
(* main counts one "caught up" message per thread, cleans the store and    *)
(* then declares the server ready.                                         *)
(***************************************************************************)
EXTENDS PostStore

CONSTANTS InitLogs,            \* what the threads' partitions may hold at start-up
          NumThreads,          \* kafka_num_threads
          BatchSize,           \* kafka_batch_size
          PartitionsPerThread, \* the length of get_partition_lags' answer
          ShortPolls,          \* may poll return fewer messages than there are?
          LagFails,            \* may the request for the lags fail?
          MaxSkew,             \* how far the clock that stamps deletes may be ahead
          TrimStalls,          \* may the clock advance while trim_old_posts runs?
          MaxNow, MaxEvents,   \* bounds: the clock, and events written after start-up
          NoWorker

Event == {e \in [kind: {"create", "delete", "none"}, id: Post, at: Nat] :
            e.kind = "delete" => e.at >= Attr[e.id].created}

\* What the feeder can have written by time t: a post's creation, its deletion
\* stamped with the feeder's clock, or an event without a variant.
Possible(t) ==
  {e \in [kind: {"create", "delete", "none"}, id: Post, at: 0..(t + MaxSkew)] :
     /\ Attr[e.id].created <= t
     /\ IF e.kind = "delete" THEN e.at >= Attr[e.id].created
                             ELSE e.at = Attr[e.id].created}

ASSUME ServingAssumption ==
  /\ IsFiniteSet(Worker) /\ NoWorker \notin Worker
  /\ NumThreads \in Nat /\ Cardinality(Worker) <= NumThreads
  /\ BatchSize \in Nat \ {0}
  /\ PartitionsPerThread \in Nat \ {0}
  /\ ShortPolls \in BOOLEAN /\ LagFails \in BOOLEAN /\ TrimStalls \in BOOLEAN
  /\ MaxSkew \in Nat /\ MaxNow \in Nat /\ MaxEvents \in Nat
  /\ \A l \in InitLogs : l \in [Worker -> Seq(Possible(Now0))]

VARIABLES
  log,        \* the events in each thread's partitions that it has not polled
  written,    \* how many events were written after start-up
  buffer,     \* message_buffer: the events polled and not yet in a batch
  initDone,   \* init_data_downloaded
  catchup,    \* catchup_sender.is_some()
  permit,     \* the holder of the semaphore's permit
  channel,    \* threads whose "caught up" message is in the mpsc channel
  received,   \* threads whose message main has received
  main,       \* where main is
  iter,       \* trim_iter of the next trim
  purge       \* tombstones finalize_init has still to visit

ListenTypeOK ==
  /\ log \in [Worker -> Seq(Event)] /\ written \in 0..MaxEvents
  /\ buffer \in [Worker -> Seq(Event)]
  /\ initDone \in [Worker -> BOOLEAN] /\ catchup \in [Worker -> BOOLEAN]
  /\ permit \in Worker \cup {NoWorker}
  /\ channel \subseteq Worker

MainTypeOK ==
  /\ received \subseteq Worker
  /\ main \in {"wait", "sort", "trim", "purge", "ready", "crashed"}
  /\ iter \in 0..TrimFraction
  /\ tpc \in {"tombs", "lists"} => main \in {"trim", "ready"}
  /\ tpc \in {"tombs", "lists"} /\ main = "trim" => iter < TrimFraction
  /\ purge \subseteq Post

listenVars == <<log, written, buffer, initDone, catchup, permit, channel>>
mainVars   == <<received, main, iter, purge>>
vars == <<now, storeVars, workVars, trimVars, histVars, listenVars, mainVars>>

Init ==
  /\ now = Now0
  /\ posts = {} /\ deleted = {} /\ tombs = <<>>
  /\ lists = [k \in Kind |-> [u \in User |-> <<>>]]
  /\ pc = [w \in Worker |-> "poll"]
  /\ creates = [w \in Worker |-> {}] /\ dels = [w \in Worker |-> {}]
  /\ cur = [w \in Worker |-> NoPost] /\ evicted = [w \in Worker |-> {}]
  /\ tpc = "idle" /\ tkind = "original" /\ tnow = Now0
  /\ tusers = {} /\ tremove = {} /\ tdel = {}
  /\ applied = {} /\ accepted = {} /\ squeezed = {}
  /\ log \in InitLogs
  /\ written = 0 /\ buffer = [w \in Worker |-> <<>>]
  /\ initDone = [w \in Worker |-> FALSE] /\ catchup = [w \in Worker |-> FALSE]
  /\ permit = NoWorker /\ channel = {}
  /\ received = {} /\ main = "wait" /\ iter = 0 /\ purge = {}

-----------------------------------------------------------------------------
(* The environment *)

\* A second passes.
Tick ==
  /\ now < MaxNow
  /\ TrimStalls \/ tpc = "idle"
  /\ now' = now + 1
  /\ UNCHANGED <<storeVars, workVars, trimVars, histVars, listenVars, mainVars>>

\* The feeder writes an event, possibly one it has written before.
Produce(w) ==
  /\ written < MaxEvents
  /\ \E e \in Possible(now) : log' = [log EXCEPT ![w] = Append(@, e)]
  /\ written' = written + 1
  /\ UNCHANGED <<now, storeVars, workVars, trimVars, histVars, buffer,
                 initDone, catchup, permit, channel, mainVars>>

-----------------------------------------------------------------------------
(* A listener thread: process_tweet_events_v2 *)

\* Mutant: the permit is taken only if the thread had caught up before this poll.
NeedsPermitLate(w, caughtUp) == initDone[w]

\* init_data_downloaded, after this poll has looked at the lag.
NeedsPermit(w, caughtUp) == initDone[w] \/ caughtUp

\* poll(batch_size) returns n messages; then the lag is read, if the thread has
\* not caught up yet.  The lag request may fail.  The "caught up" message is
\* kept only for the batch that this very poll completes.
Poll(w) ==
  /\ pc[w] = "poll"
  /\ LET unread == Len(log[w])
         full   == IF unread < BatchSize THEN unread ELSE BatchSize
     IN \E n \in (IF ShortPolls THEN 0..full ELSE {full}), lagOk \in {TRUE, ~LagFails} :
          LET caughtUp == lagOk /\ unread - n < PartitionsPerThread * BatchSize
              buf == buffer[w] \o SubSeq(log[w], 1, n)
              batch == Len(buf) >= BatchSize
          IN /\ log' = [log EXCEPT ![w] = SubSeq(@, n + 1, unread)]
             /\ buffer' = [buffer EXCEPT ![w] = buf]
             /\ initDone' = [initDone EXCEPT ![w] = @ \/ caughtUp]
             /\ catchup' = [catchup EXCEPT ![w] = batch /\ ~initDone[w] /\ caughtUp]
             /\ pc' = [pc EXCEPT ![w] = IF ~batch THEN "poll"
                                        ELSE IF NeedsPermit(w, caughtUp) THEN "acquire"
                                        ELSE "start"]
  /\ UNCHANGED <<now, storeVars, creates, dels, cur, evicted, trimVars, histVars,
                 written, permit, channel, mainVars>>

\* Mutant: the semaphore never makes a thread wait.
PermitAlways == TRUE

\* Semaphore::new(1)
PermitFree == permit = NoWorker

Acquire(w) ==
  /\ pc[w] = "acquire" /\ PermitFree
  /\ permit' = w
  /\ pc' = [pc EXCEPT ![w] = "start"]
  /\ UNCHANGED <<now, storeVars, creates, dels, cur, evicted, trimVars, histVars,
                 log, written, buffer, initDone, catchup, channel, mainVars>>

\* deserialize_batch, and insert_posts up to its loop.  An event without a
\* variant panics the blocking task; the listener ignores that, and the whole
\* batch with it.
StartBatch(w) ==
  LET msg == buffer[w]
      Of(kind) == {i \in DOMAIN msg : msg[i].kind = kind}
  IN /\ pc[w] = "start"
     /\ buffer' = [buffer EXCEPT ![w] = <<>>]
     /\ IF Of("none") # {}
        THEN pc' = [pc EXCEPT ![w] = "done"] /\ UNCHANGED <<creates, dels>>
        ELSE /\ pc' = [pc EXCEPT ![w] = "check"]
             /\ creates' = [creates EXCEPT ![w] =
                  Retain({[off |-> i, id |-> msg[i].id] : i \in Of("create")})]
             /\ dels' = [dels EXCEPT ![w] =
                  {[off |-> i, id |-> msg[i].id, at |-> msg[i].at] : i \in Of("delete")}]
     /\ UNCHANGED <<now, storeVars, cur, evicted, trimVars, histVars, log, written,
                    initDone, catchup, permit, channel, mainVars>>

\* Mutant: the "caught up" message is never sent.
AfterBatchNoSignal(w) == "poll"

AfterBatch(w) == IF catchup[w] THEN "signal" ELSE "poll"

\* The blocking task ends and drops the permit it may hold.
EndBatch(w) ==
  /\ pc[w] = "done"
  /\ permit' = IF permit = w THEN NoWorker ELSE permit
  /\ pc' = [pc EXCEPT ![w] = AfterBatch(w)]
  /\ UNCHANGED <<now, storeVars, creates, dels, cur, evicted, trimVars, histVars,
                 log, written, buffer, initDone, catchup, channel, mainVars>>

Signal(w) ==
  /\ pc[w] = "signal"
  /\ channel' = channel \cup {w}
  /\ catchup' = [catchup EXCEPT ![w] = FALSE]
  /\ pc' = [pc EXCEPT ![w] = "poll"]
  /\ UNCHANGED <<now, storeVars, creates, dels, cur, evicted, trimVars, histVars,
                 log, written, buffer, initDone, permit, mainVars>>

\* A panic in finalize_init ends the process, its threads included.
Listen(w) ==
  /\ main # "crashed"
  /\ \/ Poll(w) \/ Acquire(w) \/ StartBatch(w)
     \/ BatchStep(w) /\ UNCHANGED <<listenVars, mainVars>>
     \/ EndBatch(w) \/ Signal(w)

-----------------------------------------------------------------------------
(* main: start-up, and the auto-trim task it leaves behind *)

\* One rx.recv() of the loop over 0..kafka_num_threads.
Recv ==
  /\ main = "wait"
  /\ \E w \in channel : channel' = channel \ {w} /\ received' = received \cup {w}
  /\ main' = IF Cardinality(received') = NumThreads THEN "sort" ELSE "wait"
  /\ UNCHANGED <<now, storeVars, workVars, trimVars, histVars, log, written, buffer,
                 initDone, catchup, permit, iter, purge>>

\* An ordering of a list by time; entries of equal time may come in any order.
IsSortOf(s, l) ==
  /\ \E f \in [DOMAIN l -> DOMAIN l] :
       /\ {f[i] : i \in DOMAIN l} = DOMAIN l
       /\ s = [i \in DOMAIN l |-> l[f[i]]]
  /\ \A i, j \in DOMAIN l : i < j => s[i].at <= s[j].at
SortsOf(l) == {s \in [DOMAIN l -> {l[i] : i \in DOMAIN l}] : IsSortOf(s, l)}

ListSorts == UNION {UNION {SortsOf(lists[k][u]) : u \in User} : k \in Kind}

\* finalize_init, first part: sort_all_user_posts.
SortAll ==
  /\ main = "sort"
  /\ tombs' \in SortsOf(tombs)
  /\ lists' \in [Kind -> [User -> ListSorts]]
  /\ \A k \in Kind, u \in User : lists'[k][u] \in SortsOf(lists[k][u])
  /\ main' = "trim"
  /\ UNCHANGED <<now, posts, deleted, workVars, trimVars, histVars, listenVars,
                 received, iter, purge>>

\* finalize_init runs trim_old_posts(0), ..., trim_old_posts(TRIM_FRACTION - 1);
\* the auto-trim task calls it with 1, 2, ... for ever.  Only the remainder
\* mod TRIM_FRACTION matters.
StartTrim ==
  /\ \/ main = "trim" /\ iter < TrimFraction
     \/ main = "ready"
  /\ TrimStart(iter)
  /\ UNCHANGED <<listenVars, mainVars>>

TrimStep ==
  /\ \/ TrimTombs \/ (\E u \in tusers : TrimUser(u))
     \/ TrimPost \/ TrimTombstone
  /\ main' = IF tpc' = "dead" /\ main = "trim" THEN "crashed" ELSE main
  /\ UNCHANGED <<listenVars, received, iter, purge>>

EndTrim ==
  /\ TrimNext(iter)
  /\ iter' = IF tpc' # "idle" THEN iter
             ELSE IF main = "trim" THEN iter + 1 ELSE (iter + 1) % TrimFraction
  /\ UNCHANGED <<listenVars, received, main, purge>>

\* Mutant: nothing is purged.
NoneBuried == {}

\* What deleted_posts.iter() is certain to show.
Buried == deleted

\* finalize_init, last part: every post with a tombstone is removed.
StartPurge ==
  /\ main = "trim" /\ tpc = "idle" /\ iter = TrimFraction
  /\ main' = "purge"
  /\ purge' = Buried
  /\ UNCHANGED <<now, storeVars, workVars, trimVars, histVars, listenVars,
                 received, iter>>

\* The iteration may or may not show it the tombstones added meanwhile.
Purge ==
  /\ main = "purge" /\ purge # {}
  /\ \E p \in deleted : posts' = posts \ {p} /\ purge' = purge \ {p}
  /\ UNCHANGED <<now, deleted, lists, tombs, workVars, trimVars, histVars,
                 listenVars, received, main, iter>>

\* start_auto_trim(2), whose trim_iter starts at 1; set_readiness(true).
BecomeReady ==
  /\ main = "purge" /\ purge = {}
  /\ main' = "ready"
  /\ iter' = 1 % TrimFraction
  /\ UNCHANGED <<now, storeVars, workVars, trimVars, histVars, listenVars,
                 received, purge>>

Main == Recv \/ SortAll \/ StartTrim \/ TrimStep \/ EndTrim
          \/ StartPurge \/ Purge \/ BecomeReady

Next ==
  \/ Tick
  \/ \E w \in Worker : Produce(w) \/ Listen(w)
  \/ Main

Spec == Init /\ [][Next]_vars

\* The runtime keeps running every task; the semaphore is first come, first
\* served, so a waiting thread gets the permit.  Nothing is assumed of Tick or
\* Produce.
Fairness ==
  /\ \A w \in Worker : WF_vars(Listen(w)) /\ SF_vars(Acquire(w))
  /\ WF_vars(Main)

FairSpec == Spec /\ Fairness

\* The trimmer never meets an entry younger than its clock, or panics if it does:
\* either the build checks for overflow, or no trim lasts into the next second
\* and no delete is stamped ahead of the clock.
NoWrap == OverflowChecks \/ (~TrimStalls /\ MaxSkew = 0)

-----------------------------------------------------------------------------
(* Properties *)

\* Every variable holds what the code can put there.
TypeOK == StoreTypeOK /\ WorkTypeOK /\ TrimTypeOK /\ ListenTypeOK /\ MainTypeOK

\* Once the server is ready, a post that a mark_as_deleted has entered in
\* deleted_posts is in posts only if it is past the retention period: neither
\* the unlocked batches of the start-up phase, nor a create that arrives after
\* the delete, nor the trimmer's dropping of tombstones brings it back.
DeletedStaysDeleted ==
  main = "ready" => \A p \in applied \cap posts : TooOld(p)

\* The tombstones that finalize_init still has to visit are the only ones whose
\* post may be in posts; afterwards there are none.
PurgeCoversRaces ==
  main \in {"purge", "ready"} => deleted \cap posts \subseteq purge

\* From the moment main stops waiting, no two threads are inside a batch: each
\* has caught up and holds the permit for as long as its batch lasts.
BatchesExclusive ==
  main \in {"sort", "trim", "purge", "ready"} =>
    \A w \in Worker : pc[w] \in InBatch => permit = w

\* A thread that has not caught up, or that caught up in a poll that completed
\* no batch, or that still waits for its first permit: it has told main nothing.
Straggler ==
  \E v \in Worker : /\ v \notin channel \cup received
                    /\ pc[v] # "signal"
                    /\ pc[v] \in InBatch => ~initDone[v]

\* A thread that holds the permit finds its own check of deleted_posts, or its
\* own removal from posts, undone by another thread only while some thread has
\* not told main that it has caught up, so never after main's wait.
StaleOnlyWithStraggler ==
  \A w \in Worker :
    /\ initDone[w]
    /\ \/ pc[w] = "insert" /\ cur[w] \in deleted
       \/ pc[w] = "bury" /\ \E d \in dels[w] : IsNextDelete(w, d) /\ d.id \in posts
    => Straggler

\* trim_old_posts drops a tombstone only when its post is too old for
\* insert_posts to take it again.
TombstoneOutlivesPost ==
  [][\A p \in deleted \ deleted' : TooOld(p)]_vars

InList(p, k) == \E i \in DOMAIN lists[k][Attr[p].author] :
                   lists[k][Attr[p].author][i].id = p

\* A post in posts is in its author's list, where the trimmer will find it, or
\* some thread is about to list it or to remove it.  Otherwise it would stay in
\* memory for ever.  (A trimmer that panicked forgets what it had popped.)
NoOrphan ==
  tpc # "dead" =>
    \A p \in posts :
      \/ InList(p, Primary(p))
      \/ p \in tremove
      \/ \E w \in Worker : (pc[w] = "push" /\ cur[w] = p) \/ p \in evicted[w]

Deleting(p) ==
  \E w \in Worker : pc[w] = "bury" /\ \E d \in dels[w] : IsNextDelete(w, d) /\ d.id = p

\* A post that insert_posts took stays in posts until it is deleted, too old or
\* pushed out of a full list of its author's.
RecentPostsHeld ==
  \A p \in accepted \ posts :
    p \in applied \/ Deleting(p) \/ TooOld(p) \/ p \in squeezed

\* The server becomes ready.
EventuallyReady == <>(main = "ready")
=============================================================================
