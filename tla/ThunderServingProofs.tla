------------------------- MODULE ThunderServingProofs -------------------------
(***************************************************************************)
(* Type correctness of ThunderServing, and why the races of the start-up   *)
(* phase do no lasting harm, for any number of threads, posts, authors and *)
(* events: the permit makes batches exclusive once every thread has caught *)
(* up, so that the start-up purge has the last word on the races before.   *)
(***************************************************************************)
EXTENDS ThunderServing, FiniteSetTheorems, TLAPS

-----------------------------------------------------------------------------
(* Lists *)

\* Sequences, their entries, and what Append, \o and SubSeq make of them.
LEMMA SeqPlaces ==
  ASSUME NEW S, NEW l \in Seq(S)
  PROVE  /\ Len(l) \in Nat /\ DOMAIN l = 1..Len(l)
         /\ l \in [1..Len(l) -> S]
OBVIOUS

LEMMA SeqEntry ==
  ASSUME NEW S, NEW l \in Seq(S), NEW i \in 1..Len(l)
  PROVE  l[i] \in S
OBVIOUS

LEMMA Appended ==
  ASSUME NEW S, NEW l \in Seq(S), NEW x \in S
  PROVE  /\ Append(l, x) \in Seq(S)
         /\ Len(Append(l, x)) = Len(l) + 1
         /\ \A i \in 1..Len(l) : Append(l, x)[i] = l[i]
         /\ Append(l, x)[Len(l) + 1] = x
OBVIOUS

LEMMA Joined ==
  ASSUME NEW S, NEW l \in Seq(S), NEW r \in Seq(S)
  PROVE  /\ l \o r \in Seq(S)
         /\ Len(l \o r) = Len(l) + Len(r)
         /\ \A i \in 1..Len(l) + Len(r) : (l \o r)[i] = IF i <= Len(l) THEN l[i] ELSE r[i - Len(l)]
OBVIOUS

LEMMA Cut ==
  ASSUME NEW S, NEW l, NEW m \in Int, NEW n \in Int, \A i \in m..n : l[i] \in S
  PROVE  /\ SubSeq(l, m, n) \in Seq(S)
         /\ Len(SubSeq(l, m, n)) = IF m <= n THEN n - m + 1 ELSE 0
         /\ \A i \in 1..(n - m + 1) : SubSeq(l, m, n)[i] = l[m + i - 1]
OBVIOUS

\* Dropping a prefix of a list leaves a list of its entries.
LEMMA DropType ==
  ASSUME NEW S, NEW l \in Seq(S), NEW n \in Nat
  PROVE  /\ SubSeq(l, n + 1, Len(l)) \in Seq(S)
         /\ \A i \in DOMAIN SubSeq(l, n + 1, Len(l)) :
              \E j \in DOMAIN l : SubSeq(l, n + 1, Len(l))[i] = l[j]
<1>1. Len(l) \in Nat /\ DOMAIN l = 1..Len(l) /\ \A i \in 1..Len(l) : l[i] \in S
  BY Zenon, SeqPlaces, SeqEntry
<1>2. \A i \in (n + 1)..Len(l) : l[i] \in S
  BY <1>1
<1>3. /\ SubSeq(l, n + 1, Len(l)) \in Seq(S)
      /\ Len(SubSeq(l, n + 1, Len(l))) = IF n + 1 <= Len(l) THEN Len(l) - (n + 1) + 1 ELSE 0
      /\ \A i \in 1..(Len(l) - (n + 1) + 1) :
           SubSeq(l, n + 1, Len(l))[i] = l[(n + 1) + i - 1]
  <2>1. n + 1 \in Int /\ Len(l) \in Int
    BY <1>1
  <2>. QED  BY <1>2, <2>1, Cut
<1>4. ASSUME NEW i \in DOMAIN SubSeq(l, n + 1, Len(l))
      PROVE  \E j \in DOMAIN l : SubSeq(l, n + 1, Len(l))[i] = l[j]
  <2>1. i \in 1..Len(SubSeq(l, n + 1, Len(l)))
    BY Zenon, <1>3, SeqPlaces
  <2>2. i \in 1..(Len(l) - (n + 1) + 1) /\ (n + 1) + i - 1 \in 1..Len(l)
    BY <2>1, <1>1, <1>3
  <2>. QED  BY Zenon, <2>2, <1>1, <1>3
<1>. QED  BY Zenon, <1>3, <1>4

\* The number of entries popped is a number.
LEMMA PrefixCount ==
  ASSUME NEW S, NEW l \in Seq(S), NEW T \in SUBSET DOMAIN l
  PROVE  Cardinality(T) \in Nat
<1>1. DOMAIN l = 1..Len(l) /\ Len(l) \in Nat
  BY Zenon, SeqPlaces
<1>2. IsFiniteSet(1..Len(l))
  BY <1>1, FS_Interval
<1>. QED  BY Zenon, <1>1, <1>2, FS_Subset, FS_CardinalityType

\* What insert_posts makes of a list of TinyPosts.
LEMMA PushTypes ==
  ASSUME NEW l \in Seq(Tiny), NEW x \in Tiny
  PROVE  Push(l, x) \in Seq(Tiny) /\ PushedOut(l) \subseteq Post
<1>0. Len(l) \in Nat /\ DOMAIN l = 1..Len(l) /\ \A i \in 1..Len(l) : l[i] \in Tiny
  BY Zenon, SeqPlaces, SeqEntry
<1>1. Overflow(l) \in 0..Len(l)
  BY <1>0, StoreAssumption DEF Overflow
<1>2. Push(l, x) \in Seq(Tiny)
  BY <1>1, <1>0, DropType, Appended DEF Push
<1>3. PushedOut(l) \subseteq Post
  BY <1>0, <1>1 DEF PushedOut, Tiny
<1>. QED  BY Zenon, <1>2, <1>3

\* What trim_old_posts makes of it.
LEMMA TrimTypes ==
  ASSUME NEW l \in Seq(Tiny), NEW limit
  PROVE  /\ Rest(l, limit) \in Seq(Tiny)
         /\ LeftByPanic(l, limit) \in Seq(Tiny)
         /\ Popped(l, limit) \subseteq Post
         /\ \A i \in DOMAIN Rest(l, limit) : \E j \in DOMAIN l : Rest(l, limit)[i] = l[j]
         /\ \A i \in DOMAIN LeftByPanic(l, limit) :
              \E j \in DOMAIN l : LeftByPanic(l, limit)[i] = l[j]
<1>0. Len(l) \in Nat /\ DOMAIN l = 1..Len(l) /\ \A i \in 1..Len(l) : l[i] \in Tiny
  BY Zenon, SeqPlaces, SeqEntry
<1>1. Cardinality(Prefix(l, limit)) \in Nat
  <2>1. Prefix(l, limit) \in SUBSET DOMAIN l
    BY Zenon DEF Prefix
  <2>. QED  BY Zenon, <2>1, PrefixCount
<1>2. Cardinality(BeforePanic(l, limit)) \in Nat
  <2>1. BeforePanic(l, limit) \in SUBSET DOMAIN l
    BY Zenon DEF BeforePanic, Prefix
  <2>. QED  BY Zenon, <2>1, PrefixCount
<1>3. Popped(l, limit) \subseteq Post
  BY Zenon, <1>0 DEF Popped, Prefix, Tiny
<1>4. /\ Rest(l, limit) \in Seq(Tiny)
      /\ \A i \in DOMAIN Rest(l, limit) : \E j \in DOMAIN l : Rest(l, limit)[i] = l[j]
  BY Zenon, <1>1, DropType DEF Rest
<1>5. /\ LeftByPanic(l, limit) \in Seq(Tiny)
      /\ \A i \in DOMAIN LeftByPanic(l, limit) :
           \E j \in DOMAIN l : LeftByPanic(l, limit)[i] = l[j]
  BY Zenon, <1>2, DropType DEF LeftByPanic
<1>. QED  BY Zenon, <1>3, <1>4, <1>5

\* A sorted copy of a list is a list of the same entries.
LEMMA SortTypes ==
  ASSUME NEW l \in Seq(Tiny), NEW s \in SortsOf(l)
  PROVE  /\ s \in Seq(Tiny)
         /\ \A i \in DOMAIN s : \E j \in DOMAIN l : s[i] = l[j]
<1>1. Len(l) \in Nat /\ DOMAIN l = 1..Len(l) /\ \A i \in 1..Len(l) : l[i] \in Tiny
  BY Zenon, SeqPlaces, SeqEntry
<1>2. s \in [1..Len(l) -> {l[i] : i \in DOMAIN l}]
  BY Zenon, <1>1 DEF SortsOf
<1>3. s \in [1..Len(l) -> Tiny]
  BY Zenon, <1>1, <1>2
<1>4. s \in Seq(Tiny)
  BY <1>1, <1>3
<1>. QED  BY Zenon, <1>1, <1>2, <1>4

-----------------------------------------------------------------------------
(* Type correctness *)

\* The initial state is well typed.
LEMMA TypeInit == Init => TypeOK
<1>. SUFFICES ASSUME Init PROVE TypeOK
  BY Zenon
<1>. USE StoreAssumption, ServingAssumption
<1>1. StoreTypeOK
  BY DEF Init, StoreTypeOK, Tiny, Kind
<1>2. WorkTypeOK
  BY Zenon DEF Init, WorkTypeOK, InBatch
<1>3. TrimTypeOK
  BY DEF Init, TrimTypeOK, Kind
<1>4. ListenTypeOK
  <2>1. Possible(Now0) \subseteq Event
    BY DEF Possible, Event
  <2>2. log \in [Worker -> Seq(Event)]
    BY <2>1 DEF Init
  <2>. QED  BY <2>2 DEF Init, ListenTypeOK
<1>5. MainTypeOK
  BY DEF Init, MainTypeOK
<1>. QED  BY Zenon, <1>1, <1>2, <1>3, <1>4, <1>5 DEF TypeOK

\* Every step of insert_posts and mark_as_deleted keeps the store and the
\* worker's own state well typed.
LEMMA TypeBatchStep ==
  ASSUME TypeOK, NEW w \in Worker, BatchStep(w)
  PROVE  StoreTypeOK' /\ WorkTypeOK'
<1>. USE StoreAssumption DEF TypeOK
<1>1. CASE CheckDeleted(w)
  <2>1. PICK c \in creates[w] :
          /\ creates' = [creates EXCEPT ![w] = @ \ {c}]
          /\ IF HasTombstone(c.id)
             THEN UNCHANGED <<pc, cur>>
             ELSE /\ pc'  = [pc EXCEPT ![w] = "insert"]
                  /\ cur' = [cur EXCEPT ![w] = c.id]
    BY Zenon, <1>1 DEF CheckDeleted
  <2>2. c.id \in Post
    BY <2>1 DEF WorkTypeOK, Create
  <2>3. creates' \in [Worker -> SUBSET Create]
    BY Zenon, <2>1 DEF WorkTypeOK
  <2>4. /\ pc' \in [Worker -> InBatch \cup {"poll", "acquire", "signal"}]
        /\ cur' \in [Worker -> Post \cup {NoPost}]
        /\ \A v \in Worker : pc'[v] \in {"insert", "push", "video"} => cur'[v] \in Post
    <3>1. CASE HasTombstone(c.id)
      BY Zenon, <2>1, <3>1 DEF WorkTypeOK
    <3>2. CASE ~HasTombstone(c.id)
      BY Zenon, <2>1, <2>2, <3>2 DEF WorkTypeOK, InBatch
    <3>. QED  BY Zenon, <3>1, <3>2
  <2>5. UNCHANGED <<now, posts, deleted, lists, tombs, dels, evicted, applied, accepted, squeezed>>
    BY Zenon, <1>1 DEF CheckDeleted, storeVars, histVars
  <2>. QED  BY Zenon, <2>3, <2>4, <2>5 DEF StoreTypeOK, WorkTypeOK
<1>2. CASE StorePost(w)
  BY Zenon, <1>2 DEF StorePost, StoreTypeOK, WorkTypeOK, InBatch
<1>3. ASSUME NEW k \in Kind, PushTo(w, k), cur[w] \in Post
      PROVE  /\ lists' \in [Kind -> [User -> Seq(Tiny)]]
             /\ evicted' \in [Worker -> SUBSET Post]
             /\ squeezed' \subseteq Post
  <2>. DEFINE a == Attr[cur[w]].author  l == lists[k][a]
  <2>1. a \in User /\ TinyPost(cur[w]) \in Tiny
    BY Zenon, <1>3 DEF AttrType, TinyPost, Tiny
  <2>2. l \in Seq(Tiny)
    BY Zenon, <2>1 DEF StoreTypeOK
  <2>3. Push(l, TinyPost(cur[w])) \in Seq(Tiny) /\ PushedOut(l) \subseteq Post
    BY Zenon, <2>1, <2>2, PushTypes
  <2>. QED  BY Zenon, <1>3, <2>1, <2>2, <2>3 DEF PushTo, StoreTypeOK, WorkTypeOK, ToRemove
<1>4. CASE PushPrimary(w)
  <2>1. Primary(cur[w]) \in Kind
    BY Zenon DEF Primary, Kind
  <2>2. cur[w] \in Post
    BY Zenon, <1>4 DEF PushPrimary, WorkTypeOK
  <2>. QED  BY Zenon, <1>3, <1>4, <2>1, <2>2 DEF PushPrimary, StoreTypeOK, WorkTypeOK, InBatch
<1>5. CASE PushVideo(w)
  <2>1. "video" \in Kind /\ cur[w] \in Post
    BY Zenon, <1>5 DEF Kind, PushVideo, WorkTypeOK
  <2>2. /\ lists' \in [Kind -> [User -> Seq(Tiny)]]
        /\ evicted' \in [Worker -> SUBSET Post]
        /\ squeezed' \subseteq Post
    BY Zenon, <1>3, <1>5, <2>1 DEF PushVideo, StoreTypeOK, WorkTypeOK
  <2>. QED  BY Zenon, <1>5, <2>2 DEF PushVideo, StoreTypeOK, WorkTypeOK, InBatch
<1>6. CASE RemoveEvicted(w)
  BY <1>6 DEF RemoveEvicted, StoreTypeOK, WorkTypeOK, InBatch, histVars
<1>7. CASE InsertsDone(w)
  BY Zenon, <1>7 DEF InsertsDone, StoreTypeOK, WorkTypeOK, InBatch, storeVars, histVars
<1>8. CASE RemovePost(w)
  BY Zenon, <1>8 DEF RemovePost, StoreTypeOK, WorkTypeOK, InBatch, histVars
<1>9. CASE Bury(w)
  BY <1>9 DEF Bury, StoreTypeOK, WorkTypeOK, InBatch, Delete
<1>10. CASE PushTomb(w)
  <2>1. PICK d \in dels[w] : /\ tombs' = Append(tombs, [id |-> d.id, at |-> d.at])
                            /\ dels' = [dels EXCEPT ![w] = @ \ {d}]
    BY Zenon, <1>10 DEF PushTomb
  <2>2. [id |-> d.id, at |-> d.at] \in Tiny
    BY <2>1 DEF WorkTypeOK, Delete, Tiny
  <2>3. tombs' \in Seq(Tiny)
    BY Zenon, <2>1, <2>2, Appended DEF StoreTypeOK
  <2>. QED  BY Zenon, <1>10, <2>1, <2>3 DEF PushTomb, StoreTypeOK, WorkTypeOK, InBatch, histVars
<1>11. CASE DeletesDone(w)
  BY Zenon, <1>11 DEF DeletesDone, StoreTypeOK, WorkTypeOK, InBatch, storeVars, histVars
<1>. QED  BY Zenon, <1>1, <1>2, <1>4, <1>5, <1>6, <1>7, <1>8, <1>9, <1>10, <1>11 DEF BatchStep

\* So does every step of trim_old_posts.
LEMMA TypeTrimStep ==
  ASSUME TypeOK,
         TrimTombs \/ (\E u \in tusers : TrimUser(u)) \/ TrimPost \/ TrimTombstone
  PROVE  StoreTypeOK' /\ TrimTypeOK' /\ UNCHANGED workVars
<1>. USE DEF TypeOK
<1>1. CASE TrimTombs
  <2>1. tombs \in Seq(Tiny)
    BY Zenon DEF StoreTypeOK
  <2>2. /\ Rest(tombs, Len(tombs)) \in Seq(Tiny)
        /\ LeftByPanic(tombs, Len(tombs)) \in Seq(Tiny)
        /\ Popped(tombs, Len(tombs)) \subseteq Post
    BY Zenon, <2>1, TrimTypes
  <2>. QED  BY Zenon, <1>1, <2>2 DEF TrimTombs, TrimPanic, StoreTypeOK, TrimTypeOK, workVars, histVars
<1>2. CASE \E u \in tusers : TrimUser(u)
  <2>1. PICK u \in tusers : TrimUser(u)
    BY Zenon, <1>2
  <2>2. tkind \in Kind /\ u \in User
    BY Zenon DEF TrimTypeOK
  <2>3. lists[tkind][u] \in Seq(Tiny)
    BY Zenon, <2>2 DEF StoreTypeOK
  <2>4. /\ Rest(lists[tkind][u], MaxList) \in Seq(Tiny)
        /\ LeftByPanic(lists[tkind][u], MaxList) \in Seq(Tiny)
        /\ Popped(lists[tkind][u], MaxList) \subseteq Post
    BY Zenon, <2>3, TrimTypes
  <2>5. lists' \in [Kind -> [User -> Seq(Tiny)]]
    <3>1. CASE lists' = [lists EXCEPT ![tkind][u] = LeftByPanic(lists[tkind][u], MaxList)]
      BY Zenon, <2>2, <2>4, <3>1 DEF StoreTypeOK
    <3>2. CASE lists' = [lists EXCEPT ![tkind][u] = Rest(lists[tkind][u], MaxList)]
      BY Zenon, <2>2, <2>4, <3>2 DEF StoreTypeOK
    <3>. QED  BY Zenon, <2>1, <3>1, <3>2 DEF TrimUser
  <2>6. /\ UNCHANGED <<now, posts, deleted, tombs, workVars, tkind, tnow, histVars>>
        /\ tpc' \in {tpc, "dead"} /\ tusers' \subseteq tusers
        /\ tremove' \subseteq tremove \cup Popped(lists[tkind][u], MaxList)
        /\ tdel' \subseteq tdel
    BY Zenon, <2>1 DEF TrimUser, TrimPanic
  <2>. QED  BY Zenon, <2>4, <2>5, <2>6 DEF StoreTypeOK, TrimTypeOK, histVars
<1>3. CASE TrimPost
  BY Zenon, <1>3 DEF TrimPost, StoreTypeOK, TrimTypeOK, workVars, histVars
<1>4. CASE TrimTombstone
  BY Zenon, <1>4 DEF TrimTombstone, StoreTypeOK, TrimTypeOK, workVars, histVars
<1>. QED  BY Zenon, <1>1, <1>2, <1>3, <1>4

\* What a poll leaves behind when it read n events, found the thread caught up or
\* not, and completed a batch or not.
Polled(w, n, caughtUp, batch) ==
  /\ log' = [log EXCEPT ![w] = SubSeq(log[w], n + 1, Len(log[w]))]
  /\ buffer' = [buffer EXCEPT ![w] = buffer[w] \o SubSeq(log[w], 1, n)]
  /\ initDone' = [initDone EXCEPT ![w] = initDone[w] \/ caughtUp]
  /\ catchup' = [catchup EXCEPT ![w] = batch /\ ~initDone[w] /\ caughtUp]
  /\ pc' = [pc EXCEPT ![w] = IF ~batch THEN "poll"
                             ELSE IF initDone[w] \/ caughtUp THEN "acquire" ELSE "start"]

\* Poll is one of these.
LEMMA PollSplit ==
  ASSUME TypeOK, NEW w \in Worker, Poll(w)
  PROVE  \E n \in Nat, caughtUp \in BOOLEAN, batch \in BOOLEAN :
            n <= Len(log[w]) /\ Polled(w, n, caughtUp, batch)
<1>. DEFINE unread == Len(log[w])
            full   == IF unread < BatchSize THEN unread ELSE BatchSize
<1>1. log[w] \in Seq(Event)
  BY Zenon DEF TypeOK, ListenTypeOK
<1>2. unread \in Nat /\ full \in Nat /\ full <= unread
  BY <1>1, SeqPlaces, ServingAssumption
<1>3. PICK n \in (IF ShortPolls THEN 0..full ELSE {full}), lagOk \in {TRUE, ~LagFails} :
        LET caughtUp == lagOk /\ unread - n < PartitionsPerThread * BatchSize
            buf == buffer[w] \o SubSeq(log[w], 1, n)
            batch == Len(buf) >= BatchSize
        IN /\ log' = [log EXCEPT ![w] = SubSeq(@, n + 1, unread)]
           /\ buffer' = [buffer EXCEPT ![w] = buf]
           /\ initDone' = [initDone EXCEPT ![w] = @ \/ caughtUp]
           /\ catchup' = [catchup EXCEPT ![w] = batch /\ ~initDone[w] /\ caughtUp]
           /\ pc' = [pc EXCEPT ![w] = IF ~batch THEN "poll"
                                      ELSE IF NeedsPermit(w, caughtUp) THEN "acquire"
                                      ELSE "start"]
  BY Zenon, Zenon DEF Poll
<1>. DEFINE caughtUp == lagOk /\ unread - n < PartitionsPerThread * BatchSize
            batch == Len(buffer[w] \o SubSeq(log[w], 1, n)) >= BatchSize
<1>4. n \in Nat /\ n <= unread
  BY <1>2, <1>3
<1>5. caughtUp \in BOOLEAN /\ batch \in BOOLEAN
  BY <1>3, ServingAssumption
<1>6. Polled(w, n, caughtUp, batch)
  BY Zenon, <1>3 DEF Polled, NeedsPermit
<1>. QED  BY Zenon, <1>4, <1>5, <1>6

\* Every step of a listener thread is well typed.
LEMMA TypeListen ==
  ASSUME TypeOK, NEW w \in Worker, Listen(w)
  PROVE  TypeOK'
<1>. USE DEF TypeOK
<1>0. log[w] \in Seq(Event) /\ buffer[w] \in Seq(Event)
  BY Zenon DEF ListenTypeOK
<1>1. CASE Poll(w)
  <2>1. PICK n \in Nat, caughtUp \in BOOLEAN, batch \in BOOLEAN :
               n <= Len(log[w]) /\ Polled(w, n, caughtUp, batch)
    BY Zenon, <1>1, PollSplit
  <2>2. SubSeq(log[w], n + 1, Len(log[w])) \in Seq(Event)
    BY Zenon, <1>0, DropType
  <2>3. buffer[w] \o SubSeq(log[w], 1, n) \in Seq(Event)
    <3>1. Len(log[w]) \in Nat /\ \A i \in 1..n : log[w][i] \in Event
      BY <1>0, <2>1, SeqPlaces, SeqEntry
    <3>2. SubSeq(log[w], 1, n) \in Seq(Event)
      BY <3>1, Cut
    <3>. QED  BY Zenon, <1>0, <3>2, Joined
  <2>4. ListenTypeOK'
    BY Zenon, <1>1, <2>1, <2>2, <2>3 DEF Poll, Polled, ListenTypeOK
  <2>5. WorkTypeOK'
    BY Zenon, <1>1, <2>1 DEF Poll, Polled, WorkTypeOK, InBatch
  <2>. QED  BY Zenon, <1>1, <2>4, <2>5 DEF Poll, StoreTypeOK, TrimTypeOK, MainTypeOK,
                                   storeVars, trimVars, histVars, mainVars
<1>2. CASE Acquire(w)
  BY Zenon, <1>2 DEF Acquire, StoreTypeOK, WorkTypeOK, TrimTypeOK, ListenTypeOK, MainTypeOK, InBatch,
              storeVars, trimVars, histVars, mainVars
<1>3. CASE StartBatch(w)
  <2>. DEFINE msg == buffer[w]
              cs == {[off |-> i, id |-> msg[i].id] : i \in {i \in DOMAIN msg : msg[i].kind = "create"}}
              ds == {[off |-> i, id |-> msg[i].id, at |-> msg[i].at] :
                       i \in {i \in DOMAIN msg : msg[i].kind = "delete"}}
  <2>1. \A i \in DOMAIN msg : i \in Nat /\ msg[i] \in Event
    BY <1>0, SeqPlaces, SeqEntry
  <2>2. Retain(cs) \subseteq Create
    BY <2>1 DEF Retain, Create, Event
  <2>3. ds \subseteq Delete
    BY <2>1 DEF Delete, Event
  <2>4. WorkTypeOK'
    <3>1. \/ pc' = [pc EXCEPT ![w] = "done"] /\ creates' = creates /\ dels' = dels
          \/ /\ pc' = [pc EXCEPT ![w] = "check"]
             /\ creates' = [creates EXCEPT ![w] = Retain(cs)] /\ dels' = [dels EXCEPT ![w] = ds]
      BY Zenon, <1>3 DEF StartBatch
    <3>2. cur' = cur /\ evicted' = evicted
      BY Zenon, <1>3 DEF StartBatch
    <3>. HIDE DEF cs, ds
    <3>3. creates' \in [Worker -> SUBSET Create] /\ dels' \in [Worker -> SUBSET Delete]
      BY Zenon, <2>2, <2>3, <3>1 DEF WorkTypeOK
    <3>. QED  BY Zenon, <3>1, <3>2, <3>3 DEF WorkTypeOK, InBatch
  <2>5. ListenTypeOK'
    <3>1. <<>> \in Seq(Event)
      OBVIOUS
    <3>. QED  BY Zenon, <1>3, <3>1 DEF StartBatch, ListenTypeOK
  <2>. QED  BY Zenon, <1>3, <2>4, <2>5 DEF StartBatch, StoreTypeOK, TrimTypeOK, MainTypeOK,
                                   storeVars, trimVars, histVars, mainVars
<1>4. CASE BatchStep(w) /\ UNCHANGED <<listenVars, mainVars>>
  <2>1. StoreTypeOK' /\ WorkTypeOK'
    BY Zenon, <1>4, TypeBatchStep
  <2>2. UNCHANGED <<now, trimVars>>
    BY Zenon, <1>4 DEF BatchStep, CheckDeleted, StorePost, PushPrimary, PushVideo, RemoveEvicted,
                InsertsDone, RemovePost, Bury, PushTomb, DeletesDone
  <2>. QED  BY Zenon, <1>4, <2>1, <2>2 DEF TrimTypeOK, ListenTypeOK, MainTypeOK, trimVars, listenVars,
                                   mainVars
<1>5. CASE EndBatch(w)
  BY Zenon, <1>5 DEF EndBatch, AfterBatch, StoreTypeOK, WorkTypeOK, TrimTypeOK, ListenTypeOK, MainTypeOK,
              InBatch, storeVars, trimVars, histVars, mainVars
<1>6. CASE Signal(w)
  BY Zenon, <1>6 DEF Signal, StoreTypeOK, WorkTypeOK, TrimTypeOK, ListenTypeOK, MainTypeOK, InBatch,
              storeVars, trimVars, histVars, mainVars
<1>. QED  BY Zenon, <1>1, <1>2, <1>3, <1>4, <1>5, <1>6 DEF Listen

\* Every step of main, of the trimmer and of the environment is well typed.
LEMMA TypeMain ==
  ASSUME TypeOK, Main
  PROVE  TypeOK'
<1>. USE StoreAssumption DEF TypeOK
<1>1. CASE Recv
  BY Zenon, <1>1 DEF Recv, StoreTypeOK, WorkTypeOK, TrimTypeOK, ListenTypeOK, MainTypeOK,
              storeVars, workVars, trimVars, histVars
<1>2. CASE SortAll
  <2>1. tombs' \in Seq(Tiny)
    BY Zenon, <1>2, SortTypes DEF SortAll, StoreTypeOK
  <2>2. ASSUME NEW k \in Kind, NEW u \in User
        PROVE  lists'[k][u] \in Seq(Tiny)
    <3>1. lists[k][u] \in Seq(Tiny) /\ lists'[k][u] \in SortsOf(lists[k][u])
      BY <1>2 DEF SortAll, StoreTypeOK
    <3>. QED  BY Zenon, <3>1, SortTypes
  <2>3. lists' \in [Kind -> [User -> ListSorts]]
    BY Zenon, <1>2 DEF SortAll
  <2>4. lists' \in [Kind -> [User -> Seq(Tiny)]]
    BY Zenon, <2>2, <2>3
  <2>. QED  BY Zenon, <1>2, <2>1, <2>4 DEF SortAll, StoreTypeOK, WorkTypeOK, TrimTypeOK, ListenTypeOK,
                                   MainTypeOK, workVars, trimVars, histVars, listenVars
<1>3. CASE StartTrim
  BY <1>3 DEF StartTrim, TrimStart, UsersOf, Kind, StoreTypeOK, WorkTypeOK, TrimTypeOK, ListenTypeOK,
              MainTypeOK, storeVars, workVars, histVars, listenVars, mainVars
<1>4. CASE TrimStep
  <2>1. StoreTypeOK' /\ TrimTypeOK' /\ UNCHANGED workVars
    BY Zenon, <1>4, TypeTrimStep DEF TrimStep
  <2>2. tpc \in {"tombs", "lists"}
    BY Zenon, <1>4 DEF TrimStep, TrimTombs, TrimUser, TrimPost, TrimTombstone
  <2>3. MainTypeOK'
    BY Zenon, <1>4, <2>2 DEF TrimStep, MainTypeOK
  <2>. QED  BY Zenon, <1>4, <2>1, <2>3 DEF TrimStep, WorkTypeOK, ListenTypeOK, workVars, listenVars
<1>5. CASE EndTrim
  <2>1. iter' \in 0..TrimFraction
    BY <1>5 DEF EndTrim, TrimNext, MainTypeOK
  <2>. QED  BY Zenon, <1>5, <2>1 DEF EndTrim, TrimNext, UsersOf, Kind, StoreTypeOK, WorkTypeOK, TrimTypeOK,
              ListenTypeOK, MainTypeOK, storeVars, workVars, histVars, listenVars
<1>6. CASE StartPurge
  BY Zenon, <1>6 DEF StartPurge, Buried, StoreTypeOK, WorkTypeOK, TrimTypeOK, ListenTypeOK, MainTypeOK,
              storeVars, workVars, trimVars, histVars, listenVars
<1>7. CASE Purge
  BY Zenon, <1>7 DEF Purge, StoreTypeOK, WorkTypeOK, TrimTypeOK, ListenTypeOK, MainTypeOK,
              workVars, trimVars, histVars, listenVars
<1>8. CASE BecomeReady
  <2>1. StoreTypeOK'
    BY Zenon, <1>8 DEF BecomeReady, StoreTypeOK, storeVars, histVars
  <2>2. WorkTypeOK'
    BY Zenon, <1>8 DEF BecomeReady, WorkTypeOK, workVars
  <2>3. TrimTypeOK' /\ ListenTypeOK'
    BY Zenon, <1>8 DEF BecomeReady, TrimTypeOK, ListenTypeOK, trimVars, listenVars
  <2>4. 1 % TrimFraction \in 0..TrimFraction
    OBVIOUS
  <2>5. MainTypeOK'
    <3>1. tpc' = tpc /\ purge' = purge /\ received' = received
      BY Zenon, <1>8 DEF BecomeReady, trimVars
    <3>. QED  BY Zenon, <1>8, <2>4, <3>1 DEF BecomeReady, MainTypeOK
  <2>. QED  BY Zenon, <2>1, <2>2, <2>3, <2>5
<1>. QED  BY Zenon, <1>1, <1>2, <1>3, <1>4, <1>5, <1>6, <1>7, <1>8 DEF Main

\* The invariant TypeOK of ThunderServing: whatever the number of threads, posts
\* and authors, and whatever the interleaving, every variable holds a value of
\* its type; in particular no list ever holds anything but a TinyPost.
THEOREM TypeCorrect == Spec => []TypeOK
<1>1. TypeOK /\ [Next]_vars => TypeOK'
  <2>. SUFFICES ASSUME TypeOK, [Next]_vars PROVE TypeOK'
    BY Zenon
  <2>1. CASE Tick
    <3>1. now' = now + 1 /\ now \in Nat
      BY Zenon, <2>1 DEF Tick, TypeOK, StoreTypeOK
    <3>2. StoreTypeOK'
      BY <2>1, <3>1 DEF Tick, TypeOK, StoreTypeOK, storeVars, histVars
    <3>3. WorkTypeOK'
      BY Zenon, <2>1 DEF Tick, TypeOK, WorkTypeOK, workVars
    <3>4. TrimTypeOK'
      BY <2>1, <3>1 DEF Tick, TypeOK, TrimTypeOK, trimVars
    <3>5. ListenTypeOK'
      BY Zenon, <2>1 DEF Tick, TypeOK, ListenTypeOK, listenVars
    <3>6. MainTypeOK'
      BY Zenon, <2>1 DEF Tick, TypeOK, MainTypeOK, mainVars, trimVars
    <3>. QED  BY Zenon, <3>2, <3>3, <3>4, <3>5, <3>6 DEF TypeOK
  <2>2. ASSUME NEW w \in Worker, Produce(w) PROVE TypeOK'
    <3>1. PICK e \in Possible(now) : log' = [log EXCEPT ![w] = Append(@, e)]
      BY Zenon, <2>2 DEF Produce
    <3>2. e \in Event
      <4>1. now \in Nat /\ MaxSkew \in Nat
        BY Zenon, ServingAssumption DEF TypeOK, StoreTypeOK
      <4>2. 0..(now + MaxSkew) \subseteq Nat
        BY <4>1
      <4>. QED  BY Zenon, <3>1, <4>2 DEF Possible, Event
    <3>3. log[w] \in Seq(Event)
      BY Zenon DEF TypeOK, ListenTypeOK
    <3>4. Append(log[w], e) \in Seq(Event)
      BY Zenon, <3>2, <3>3, Appended
    <3>5. written' \in 0..MaxEvents
      BY <2>2, ServingAssumption DEF Produce, TypeOK, ListenTypeOK
    <3>6. ListenTypeOK'
      BY Zenon, <2>2, <3>1, <3>4, <3>5 DEF Produce, TypeOK, ListenTypeOK
    <3>. QED  BY Zenon, <2>2, <3>6 DEF Produce, TypeOK, StoreTypeOK, WorkTypeOK, TrimTypeOK, MainTypeOK,
                              storeVars, workVars, trimVars, histVars, mainVars
  <2>3. CASE \E w \in Worker : Listen(w)
    BY Zenon, <2>3, TypeListen
  <2>4. CASE Main
    BY Zenon, <2>4, TypeMain
  <2>5. CASE UNCHANGED vars
    BY Zenon, <2>5 DEF vars, TypeOK, StoreTypeOK, WorkTypeOK, TrimTypeOK, ListenTypeOK, MainTypeOK,
                storeVars, workVars, trimVars, histVars, listenVars, mainVars
  <2>. QED  BY Zenon, <2>1, <2>2, <2>3, <2>4, <2>5 DEF Next
<1>. QED  BY TypeInit, <1>1, PTL DEF Spec

-----------------------------------------------------------------------------
(* What the composite steps change *)

\* A step of a batch moves its own thread only, and that thread stays in its batch.
LEMMA BatchFrame ==
  ASSUME TypeOK, NEW w \in Worker, BatchStep(w)
  PROVE  /\ pc[w] \in InBatch /\ pc'[w] \in InBatch
         /\ \A v \in Worker \ {w} :
              pc'[v] = pc[v] /\ cur'[v] = cur[v] /\ dels'[v] = dels[v]
         /\ dels'[w] \subseteq dels[w]
         /\ UNCHANGED <<now, trimVars>>
<1>. USE DEF TypeOK, WorkTypeOK, InBatch
<1>1. CASE CheckDeleted(w)  BY Zenon, <1>1 DEF CheckDeleted
<1>2. CASE StorePost(w)     BY Zenon, <1>2 DEF StorePost
<1>3. CASE PushPrimary(w)   BY Zenon, <1>3 DEF PushPrimary
<1>4. CASE PushVideo(w)     BY Zenon, <1>4 DEF PushVideo
<1>5. CASE RemoveEvicted(w) BY Zenon, <1>5 DEF RemoveEvicted
<1>6. CASE InsertsDone(w)   BY Zenon, <1>6 DEF InsertsDone
<1>7. CASE RemovePost(w)    BY Zenon, <1>7 DEF RemovePost
<1>8. CASE Bury(w)          BY Zenon, <1>8 DEF Bury
<1>9. CASE PushTomb(w)      BY Zenon, <1>9 DEF PushTomb
<1>10. CASE DeletesDone(w)  BY Zenon, <1>10 DEF DeletesDone
<1>. QED  BY Zenon, <1>1, <1>2, <1>3, <1>4, <1>5, <1>6, <1>7, <1>8, <1>9, <1>10 DEF BatchStep

\* main and the trimmer leave the threads alone, and only ever remove posts and
\* tombstones.
LEMMA MainFrame ==
  ASSUME TypeOK, Main
  PROVE  /\ posts' \subseteq posts /\ deleted' \subseteq deleted
         /\ UNCHANGED <<now, workVars, histVars, log, written, buffer, initDone, catchup, permit>>
         /\ channel' \cup received' = channel \cup received
<1>1. CASE Recv         BY Zenon, <1>1 DEF Recv, storeVars
<1>2. CASE SortAll      BY Zenon, <1>2 DEF SortAll, listenVars
<1>3. CASE StartTrim    BY Zenon, <1>3 DEF StartTrim, TrimStart, storeVars, listenVars, mainVars
<1>4. CASE TrimStep
  BY Zenon, <1>4 DEF TrimStep, TrimTombs, TrimUser, TrimPost, TrimTombstone, TrimPanic, listenVars
<1>5. CASE EndTrim      BY Zenon, <1>5 DEF EndTrim, TrimNext, storeVars, listenVars
<1>6. CASE StartPurge   BY Zenon, <1>6 DEF StartPurge, storeVars, listenVars
<1>7. CASE Purge        BY Zenon, <1>7 DEF Purge, listenVars
<1>8. CASE BecomeReady  BY Zenon, <1>8 DEF BecomeReady, storeVars, listenVars
<1>. QED  BY Zenon, <1>1, <1>2, <1>3, <1>4, <1>5, <1>6, <1>7, <1>8 DEF Main

\* The environment changes the clock and the unread events.
LEMMA EnvFrame ==
  ASSUME TypeOK, Tick \/ \E w \in Worker : Produce(w)
  PROVE  UNCHANGED <<storeVars, workVars, trimVars, histVars, buffer, initDone, catchup, permit,
                     channel, mainVars>>
<1>1. CASE Tick                           BY Zenon, <1>1 DEF Tick, listenVars
<1>2. CASE \E w \in Worker : Produce(w)  BY Zenon, <1>2 DEF Produce
<1>. QED  BY Zenon, <1>1, <1>2

-----------------------------------------------------------------------------
(* The permit *)

\* A thread that has caught up is in a batch only with the permit; what has told
\* main, or is about to, has caught up; and main stops waiting only when every
\* thread has told it.
PermitInv ==
  /\ \A w \in Worker : pc[w] \in InBatch /\ initDone[w] => permit = w
  /\ \A w \in Worker :
       w \in channel \cup received \/ pc[w] \in {"acquire", "signal"} \/ catchup[w] => initDone[w]
  /\ main # "wait" => received = Worker

LEMMA PermitInit == Init => PermitInv
BY Zenon DEF Init, PermitInv, InBatch

\* The step of the wait loop after which main goes on has counted every thread.
LEMMA AllReceived ==
  ASSUME TypeOK, Recv, main' # "wait"
  PROVE  received' = Worker
<1>1. received' \subseteq Worker
  BY Zenon DEF Recv, TypeOK, ListenTypeOK, MainTypeOK
<1>2. Cardinality(received') = NumThreads
  BY Zenon DEF Recv
<1>3. Cardinality(received') <= Cardinality(Worker)
      /\ (Cardinality(received') = Cardinality(Worker) => received' = Worker)
  BY Zenon, <1>1, ServingAssumption, FS_Subset
<1>4. Cardinality(Worker) \in Nat
  BY Zenon, ServingAssumption, FS_CardinalityType
<1>. QED  BY <1>2, <1>3, <1>4, ServingAssumption

LEMMA PermitListen ==
  ASSUME TypeOK, PermitInv, NEW w \in Worker, Listen(w)
  PROVE  PermitInv'
<1>. USE DEF TypeOK, PermitInv
<1>1. CASE Poll(w)
  <2>0. PICK n \in Nat, caughtUp \in BOOLEAN, batch \in BOOLEAN : Polled(w, n, caughtUp, batch)
    BY Zenon, <1>1, PollSplit
  <2>1. /\ pc'[w] = IF ~batch THEN "poll"
                    ELSE IF initDone[w] \/ caughtUp THEN "acquire" ELSE "start"
        /\ initDone'[w] <=> initDone[w] \/ caughtUp
        /\ catchup'[w] <=> batch /\ ~initDone[w] /\ caughtUp
        /\ \A v \in Worker \ {w} :
             pc'[v] = pc[v] /\ initDone'[v] = initDone[v] /\ catchup'[v] = catchup[v]
    BY Zenon, <2>0 DEF Polled, WorkTypeOK, ListenTypeOK
  <2>2. /\ pc'[w] \in {"poll", "acquire", "start"}
        /\ pc'[w] = "start" => ~initDone'[w]
        /\ pc'[w] = "acquire" \/ catchup'[w] => initDone'[w]
        /\ initDone[w] => initDone'[w]
    BY Zenon, <2>1
  <2>3. UNCHANGED <<permit, channel, received, main>>
    BY Zenon, <1>1 DEF Poll, mainVars
  <2>. QED  BY Zenon, <2>1, <2>2, <2>3 DEF InBatch
<1>2. CASE Acquire(w)
  <2>1. \A v \in Worker : ~(pc[v] \in InBatch /\ initDone[v])
    BY Zenon, <1>2, ServingAssumption DEF Acquire, PermitFree
  <2>. QED  BY Zenon, <1>2, <2>1 DEF Acquire, WorkTypeOK, InBatch, mainVars
<1>3. CASE StartBatch(w)
  <2>1. /\ pc[w] = "start" /\ pc'[w] \in {"done", "check"} /\ \A v \in Worker \ {w} : pc'[v] = pc[v]
        /\ UNCHANGED <<initDone, catchup, permit, channel, received, main>>
    BY Zenon, <1>3 DEF StartBatch, WorkTypeOK, mainVars
  <2>. QED  BY Zenon, <2>1 DEF InBatch
<1>4. CASE BatchStep(w) /\ UNCHANGED <<listenVars, mainVars>>
  BY Zenon, <1>4, BatchFrame DEF listenVars, mainVars, InBatch
<1>5. CASE EndBatch(w)
  BY Zenon, <1>5 DEF EndBatch, AfterBatch, WorkTypeOK, InBatch, mainVars
<1>6. CASE Signal(w)
  BY Zenon, <1>6 DEF Signal, WorkTypeOK, ListenTypeOK, InBatch, mainVars
<1>. QED  BY Zenon, <1>1, <1>2, <1>3, <1>4, <1>5, <1>6 DEF Listen

LEMMA PermitStep ==
  ASSUME TypeOK, PermitInv, [Next]_vars
  PROVE  PermitInv'
<1>1. CASE \E w \in Worker : Listen(w)
  BY Zenon, <1>1, PermitListen
<1>2. CASE Tick \/ \E w \in Worker : Produce(w)
  BY Zenon, <1>2, EnvFrame DEF PermitInv, workVars, mainVars
<1>3. CASE Main
  <2>1. main' # "wait" => received' = Worker
    <3>1. CASE Recv
      BY Zenon, <3>1, AllReceived
    <3>2. CASE ~Recv
      <4>1. main' # "wait" => main # "wait"
        BY Zenon, <1>3, <3>2 DEF Main, SortAll, StartTrim, TrimStep, EndTrim, StartPurge, Purge,
                          BecomeReady, mainVars
      <4>2. received' = received
        BY Zenon, <1>3, <3>2 DEF Main, SortAll, StartTrim, TrimStep, EndTrim, StartPurge, Purge,
                          BecomeReady, mainVars
      <4>. QED  BY Zenon, <4>1, <4>2 DEF PermitInv
    <3>. QED  BY Zenon, <3>1, <3>2
  <2>. QED  BY Zenon, <1>3, <2>1, MainFrame DEF PermitInv, workVars
<1>4. CASE UNCHANGED vars
  BY Zenon, <1>4 DEF vars, PermitInv, workVars, listenVars, mainVars
<1>. QED  BY Zenon, <1>1, <1>2, <1>3, <1>4 DEF Next

\* The permit and the start-up count do their work, however many threads there
\* are: in every reachable state PermitInv holds.
THEOREM PermitHolds == Spec => []PermitInv
<1>1. TypeOK /\ PermitInv /\ [Next]_vars => PermitInv'
  BY Zenon, PermitStep
<1>. QED  BY TypeCorrect, PermitInit, <1>1, PTL DEF Spec

\* BatchesExclusive: once main has stopped waiting, at most one of
\* process_tweet_events_v2's threads is inside insert_posts or mark_as_deleted.
THEOREM Exclusive == Spec => []BatchesExclusive
<1>1. TypeOK /\ PermitInv => BatchesExclusive
  BY Zenon DEF PermitInv, BatchesExclusive, TypeOK, MainTypeOK
<1>. QED  BY TypeCorrect, PermitHolds, <1>1, PTL

-----------------------------------------------------------------------------
(* Races between batches *)

\* The deletes of a batch are told apart by their place in it.
OneNext == \A w \in Worker : \A d, e \in dels[w] : d.off = e.off => d = e

\* main is done with the tombstones it had to visit when the server is ready.
PurgeDone == main = "ready" => purge = {}

\* Some thread's check of deleted_posts or removal from posts has been undone.
Undone(w) ==
  \/ pc[w] = "insert" /\ cur[w] \in deleted
  \/ pc[w] = "bury" /\ \E d \in dels[w] : IsNextDelete(w, d) /\ d.id \in posts

\* While a thread holds the permit, a straggler cannot get into a locked batch,
\* and so cannot tell main that it has caught up.
LEMMA StragglerKept ==
  ASSUME TypeOK, PermitInv, Straggler, [Next]_vars,
         NEW w \in Worker, pc[w] \in InBatch, initDone[w]
  PROVE  Straggler'
<1>1. permit = w
  BY Zenon DEF PermitInv
<1>2. PICK v \in Worker : /\ v \notin channel \cup received
                          /\ pc[v] # "signal"
                          /\ pc[v] \in InBatch => ~initDone[v]
  BY Zenon DEF Straggler
<1>3. v # w
  BY Zenon, <1>2
<1>. DEFINE Lags == /\ v \notin channel \cup received
                    /\ pc[v] # "signal"
                    /\ pc[v] \in InBatch => ~initDone[v]
<1>4. SUFFICES Lags'
  BY Zenon DEF Straggler
<1>. USE DEF TypeOK
<1>5. ASSUME NEW x \in Worker, Listen(x)
      PROVE  Lags'
  <2>1. CASE Poll(x)
    <3>1. PICK n \in Nat, caughtUp \in BOOLEAN, batch \in BOOLEAN : Polled(x, n, caughtUp, batch)
      BY Zenon, <2>1, PollSplit
    <3>2. UNCHANGED <<channel, received>>
      BY Zenon, <2>1 DEF Poll, mainVars
    <3>3. CASE x # v
      <4>1. pc'[v] = pc[v] /\ initDone'[v] = initDone[v]
        BY Zenon, <3>1, <3>3 DEF Polled, WorkTypeOK, ListenTypeOK
      <4>. QED  BY Zenon, <1>2, <3>2, <4>1
    <3>4. CASE x = v
      <4>1. /\ pc'[v] = IF ~batch THEN "poll"
                        ELSE IF initDone[v] \/ caughtUp THEN "acquire" ELSE "start"
            /\ initDone'[v] <=> initDone[v] \/ caughtUp
        BY Zenon, <3>1, <3>4 DEF Polled, WorkTypeOK, ListenTypeOK
      <4>. QED  BY Zenon, <1>2, <3>2, <4>1 DEF InBatch
    <3>. QED  BY Zenon, <3>3, <3>4
  <2>2. CASE Acquire(x)
    BY Zenon, <1>1, <2>2, ServingAssumption DEF Acquire, PermitFree
  <2>3. CASE StartBatch(x)
    BY Zenon, <1>2, <2>3 DEF StartBatch, WorkTypeOK, InBatch, mainVars
  <2>4. CASE BatchStep(x) /\ UNCHANGED <<listenVars, mainVars>>
    <3>1. pc'[v] = pc[v] \/ (pc[v] \in InBatch /\ pc'[v] \in InBatch)
      BY Zenon, <2>4, BatchFrame
    <3>. QED  BY Zenon, <1>2, <2>4, <3>1 DEF InBatch, listenVars, mainVars
  <2>5. CASE EndBatch(x)
    <3>1. CASE x # v
      BY Zenon, <1>2, <2>5, <3>1 DEF EndBatch, WorkTypeOK, mainVars
    <3>2. CASE x = v
      <4>1. ~catchup[v]
        BY Zenon, <1>2, <2>5, <3>2 DEF EndBatch, PermitInv, InBatch
      <4>. QED  BY Zenon, <1>2, <2>5, <3>2, <4>1 DEF EndBatch, AfterBatch, WorkTypeOK, InBatch, mainVars
    <3>. QED  BY Zenon, <3>1, <3>2
  <2>6. CASE Signal(x)
    BY Zenon, <1>2, <2>6 DEF Signal, WorkTypeOK, InBatch, mainVars
  <2>. QED  BY Zenon, <1>5, <2>1, <2>2, <2>3, <2>4, <2>5, <2>6 DEF Listen
<1>6. CASE Tick \/ \E x \in Worker : Produce(x)
  BY Zenon, <1>2, <1>6, EnvFrame DEF workVars, mainVars
<1>7. CASE Main
  BY Zenon, <1>2, <1>7, MainFrame DEF workVars
<1>8. CASE UNCHANGED vars
  BY Zenon, <1>2, <1>8 DEF vars, workVars, listenVars, mainVars
<1>. QED  BY Zenon, <1>5, <1>6, <1>7, <1>8 DEF Next

\* What gets into the way of a thread that holds the permit is a straggler.
LEMMA IntruderIsStraggler ==
  ASSUME TypeOK, PermitInv, NEW w \in Worker, pc[w] \in InBatch, initDone[w],
         NEW v \in Worker \ {w}, BatchStep(v), UNCHANGED <<listenVars, mainVars>>
  PROVE  Straggler'
<1>1. pc[v] \in InBatch /\ pc'[v] \in InBatch
  BY Zenon, BatchFrame
<1>2. permit = w
  BY Zenon DEF PermitInv
<1>3. ~initDone[v]
  BY Zenon, <1>1, <1>2 DEF PermitInv
<1>4. v \notin channel \cup received
  BY Zenon, <1>3 DEF PermitInv
<1>. QED  BY Zenon, <1>1, <1>3, <1>4 DEF Straggler, listenVars, mainVars, InBatch

\* A thread that has just looked has seen what there is.
LEMMA FreshLook ==
  ASSUME TypeOK, OneNext, NEW w \in Worker, BatchStep(w)
  PROVE  ~Undone(w)'
<1>. USE DEF TypeOK, WorkTypeOK, InBatch
<1>1. CASE CheckDeleted(w)
  <2>1. PICK c \in creates[w] :
          IF HasTombstone(c.id)
          THEN UNCHANGED <<pc, cur>>
          ELSE /\ pc'  = [pc EXCEPT ![w] = "insert"]
               /\ cur' = [cur EXCEPT ![w] = c.id]
    BY Zenon, <1>1 DEF CheckDeleted
  <2>2. pc[w] = "check" /\ deleted' = deleted
    BY Zenon, <1>1 DEF CheckDeleted, storeVars
  <2>3. CASE HasTombstone(c.id)
    BY Zenon, <2>1, <2>2, <2>3 DEF Undone
  <2>4. CASE ~HasTombstone(c.id)
    <3>1. pc'[w] = "insert" /\ cur'[w] = c.id
      BY Zenon, <2>1, <2>4
    <3>. QED  BY Zenon, <2>2, <2>4, <3>1 DEF Undone, HasTombstone
  <2>. QED  BY Zenon, <2>3, <2>4
<1>2. CASE RemovePost(w)
  <2>1. PICK d \in dels[w] : IsNextDelete(w, d) /\ posts' = posts \ {d.id}
    BY Zenon, <1>2 DEF RemovePost
  <2>2. pc'[w] = "bury" /\ dels' = dels
    BY Zenon, <1>2 DEF RemovePost
  <2>3. ASSUME NEW e \in dels'[w], IsNextDelete(w, e)' PROVE e.id = d.id
    <3>1. e \in dels[w] /\ d.off <= e.off /\ e.off <= d.off
      BY Zenon, <2>1, <2>2, <2>3 DEF IsNextDelete
    <3>2. d.off \in Nat /\ e.off \in Nat
      BY <2>1, <3>1 DEF Delete
    <3>. QED  BY <2>1, <3>1, <3>2 DEF OneNext
  <2>. QED  BY Zenon, <2>1, <2>2, <2>3 DEF Undone
<1>3. CASE ~CheckDeleted(w) /\ ~RemovePost(w)
  <2>1. pc'[w] \notin {"insert", "bury"}
    BY Zenon, <1>3 DEF BatchStep, StorePost, PushPrimary, PushVideo, RemoveEvicted, InsertsDone, Bury,
                PushTomb, DeletesDone
  <2>. QED  BY Zenon, <2>1 DEF Undone
<1>. QED  BY Zenon, <1>1, <1>2, <1>3

LEMMA StaleStep ==
  ASSUME TypeOK, PermitInv, OneNext, StaleOnlyWithStraggler, [Next]_vars
  PROVE  StaleOnlyWithStraggler'
<1>. SUFFICES ASSUME NEW w \in Worker, initDone'[w], Undone(w)'
              PROVE  Straggler'
  BY Zenon DEF StaleOnlyWithStraggler, Undone
<1>. USE DEF TypeOK
<1>0. pc'[w] \in {"insert", "bury"}
  BY Zenon DEF Undone
<1>1. ASSUME pc'[w] = pc[w], cur'[w] = cur[w], dels'[w] = dels[w], initDone'[w] = initDone[w],
             posts' \subseteq posts, deleted' \subseteq deleted
      PROVE  Straggler'
  <2>1. Undone(w) /\ initDone[w] /\ pc[w] \in InBatch
    BY Zenon, <1>0, <1>1 DEF Undone, IsNextDelete, InBatch
  <2>2. Straggler
    BY Zenon, <2>1 DEF StaleOnlyWithStraggler, Undone
  <2>. QED  BY Zenon, <2>1, <2>2, StragglerKept
<1>2. ASSUME NEW v \in Worker, Listen(v)
      PROVE  Straggler'
  <2>1. CASE BatchStep(v) /\ UNCHANGED <<listenVars, mainVars>>
    <3>1. v # w
      BY Zenon, <2>1, FreshLook
    <3>2. pc[w] \in InBatch /\ initDone[w]
      BY Zenon, <1>0, <2>1, <3>1, BatchFrame DEF InBatch, listenVars
    <3>. QED  BY Zenon, <2>1, <3>1, <3>2, IntruderIsStraggler
  <2>2. CASE Poll(v)
    <3>1. PICK n \in Nat, caughtUp \in BOOLEAN, batch \in BOOLEAN : Polled(v, n, caughtUp, batch)
      BY Zenon, <2>2, PollSplit
    <3>2. v # w
      BY Zenon, <1>0, <3>1 DEF Polled, WorkTypeOK
    <3>3. pc'[w] = pc[w] /\ initDone'[w] = initDone[w]
      BY Zenon, <3>1, <3>2 DEF Polled, WorkTypeOK, ListenTypeOK
    <3>. QED  BY Zenon, <1>1, <2>2, <3>3 DEF Poll, storeVars
  <2>3. CASE Acquire(v)
    <3>1. v # w
      BY Zenon, <1>0, <2>3 DEF Acquire, WorkTypeOK
    <3>. QED  BY Zenon, <1>1, <2>3, <3>1 DEF Acquire, storeVars, WorkTypeOK
  <2>4. CASE StartBatch(v)
    <3>1. v # w
      BY Zenon, <1>0, <2>4 DEF StartBatch, WorkTypeOK
    <3>2. pc'[w] = pc[w] /\ dels'[w] = dels[w]
      BY Zenon, <2>4, <3>1 DEF StartBatch, WorkTypeOK
    <3>. QED  BY Zenon, <1>1, <2>4, <3>2 DEF StartBatch, storeVars
  <2>5. CASE EndBatch(v)
    <3>1. v # w
      BY Zenon, <1>0, <2>5 DEF EndBatch, AfterBatch, WorkTypeOK
    <3>. QED  BY Zenon, <1>1, <2>5, <3>1 DEF EndBatch, storeVars, WorkTypeOK
  <2>6. CASE Signal(v)
    <3>1. v # w
      BY Zenon, <1>0, <2>6 DEF Signal, WorkTypeOK
    <3>. QED  BY Zenon, <1>1, <2>6, <3>1 DEF Signal, storeVars, WorkTypeOK
  <2>. QED  BY Zenon, <1>2, <2>1, <2>2, <2>3, <2>4, <2>5, <2>6 DEF Listen
<1>3. CASE Tick \/ \E x \in Worker : Produce(x)
  BY Zenon, <1>1, <1>3, EnvFrame DEF storeVars, workVars
<1>4. CASE Main
  BY Zenon, <1>1, <1>4, MainFrame DEF workVars
<1>5. CASE UNCHANGED vars
  BY Zenon, <1>1, <1>5 DEF vars, storeVars, workVars, listenVars
<1>. QED  BY Zenon, <1>2, <1>3, <1>4, <1>5 DEF Next

LEMMA OneNextStep ==
  ASSUME TypeOK, OneNext, [Next]_vars
  PROVE  OneNext'
<1>. USE DEF TypeOK
<1>1. ASSUME NEW w \in Worker, Listen(w)
      PROVE  OneNext'
  <2>1. CASE StartBatch(w)
    <3>. DEFINE msg == buffer[w]
                ds == {[off |-> i, id |-> msg[i].id, at |-> msg[i].at] :
                         i \in {i \in DOMAIN msg : msg[i].kind = "delete"}}
    <3>1. dels' = [dels EXCEPT ![w] = ds] \/ dels' = dels
      BY Zenon, <2>1 DEF StartBatch
    <3>2. ASSUME NEW d \in ds, NEW e \in ds, d.off = e.off
          PROVE  d = e
      <4>1. PICK i \in DOMAIN msg : d = [off |-> i, id |-> msg[i].id, at |-> msg[i].at]
        BY Zenon
      <4>2. PICK j \in DOMAIN msg : e = [off |-> j, id |-> msg[j].id, at |-> msg[j].at]
        BY Zenon
      <4>3. d.off = i /\ e.off = j
        BY Zenon, <4>1, <4>2
      <4>. HIDE DEF msg, ds
      <4>4. i = j
        BY Zenon, <3>2, <4>3
      <4>. QED  BY Zenon, <4>1, <4>2, <4>4
    <3>. QED  BY Zenon, <3>1, <3>2 DEF OneNext, WorkTypeOK
  <2>2. CASE BatchStep(w)
    BY Zenon, <2>2, BatchFrame DEF OneNext
  <2>3. CASE UNCHANGED dels
    BY Zenon, <2>3 DEF OneNext
  <2>. QED  BY Zenon, <1>1, <2>1, <2>2, <2>3 DEF Listen, Poll, Acquire, EndBatch, Signal
<1>2. CASE Tick \/ \E x \in Worker : Produce(x)
  BY Zenon, <1>2, EnvFrame DEF OneNext, workVars
<1>3. CASE Main
  BY Zenon, <1>3, MainFrame DEF OneNext, workVars
<1>4. CASE UNCHANGED vars
  BY Zenon, <1>4 DEF vars, OneNext, workVars
<1>. QED  BY Zenon, <1>1, <1>2, <1>3, <1>4 DEF Next

LEMMA PurgeDoneStep ==
  ASSUME TypeOK, PurgeDone, [Next]_vars
  PROVE  PurgeDone'
<1>1. CASE \E w \in Worker : Listen(w)
  BY Zenon, <1>1 DEF Listen, Poll, Acquire, StartBatch, EndBatch, Signal, PurgeDone, mainVars
<1>2. CASE Tick \/ \E x \in Worker : Produce(x)
  BY Zenon, <1>2, EnvFrame DEF PurgeDone, mainVars
<1>3. CASE Main
  BY Zenon, <1>3 DEF Main, Recv, SortAll, StartTrim, TrimStep, EndTrim, StartPurge, Purge, BecomeReady,
              PurgeDone, mainVars
<1>4. CASE UNCHANGED vars
  BY Zenon, <1>4 DEF vars, PurgeDone, mainVars
<1>. QED  BY Zenon, <1>1, <1>2, <1>3, <1>4 DEF Next

\* Past the wait there is no straggler, so nothing is undone: an insert puts a
\* live post into posts, and a burial finds its post gone.
LEMMA PurgeStep ==
  ASSUME TypeOK, PermitInv, StaleOnlyWithStraggler, PurgeCoversRaces, [Next]_vars
  PROVE  PurgeCoversRaces'
<1>. SUFFICES ASSUME main' \in {"purge", "ready"}
              PROVE  deleted' \cap posts' \subseteq purge'
  BY Zenon DEF PurgeCoversRaces
<1>. USE DEF TypeOK
<1>1. ASSUME NEW w \in Worker, Listen(w)
      PROVE  deleted' \cap posts' \subseteq purge'
  <2>1. UNCHANGED mainVars
    BY Zenon, <1>1 DEF Listen, Poll, Acquire, StartBatch, EndBatch, Signal
  <2>2. main \in {"purge", "ready"} /\ deleted \cap posts \subseteq purge
    BY Zenon, <2>1 DEF PurgeCoversRaces, mainVars
  <2>3. received = Worker
    BY Zenon, <2>2 DEF PermitInv
  <2>4. initDone[w] /\ ~Straggler
    BY Zenon, <2>3 DEF PermitInv, Straggler
  <2>5. CASE StorePost(w)
    <3>1. cur[w] \notin deleted
      BY Zenon, <2>4, <2>5 DEF StaleOnlyWithStraggler, StorePost
    <3>. QED  BY Zenon, <2>1, <2>2, <2>5, <3>1 DEF StorePost, mainVars
  <2>6. CASE Bury(w)
    <3>1. PICK d \in dels[w] : IsNextDelete(w, d) /\ deleted' = deleted \cup {d.id}
      BY Zenon, <2>6 DEF Bury
    <3>2. d.id \notin posts
      BY Zenon, <2>4, <2>6, <3>1 DEF StaleOnlyWithStraggler, Bury
    <3>. QED  BY Zenon, <2>1, <2>2, <2>6, <3>1, <3>2 DEF Bury, mainVars
  <2>7. CASE posts' \subseteq posts /\ deleted' = deleted
    BY Zenon, <2>1, <2>2, <2>7 DEF mainVars
  <2>8. StorePost(w) \/ Bury(w) \/ (posts' \subseteq posts /\ deleted' = deleted)
    <3>1. CASE BatchStep(w)
      BY Zenon, <3>1 DEF BatchStep, CheckDeleted, PushPrimary, PushVideo, RemoveEvicted,
                  InsertsDone, RemovePost, PushTomb, DeletesDone, storeVars
    <3>2. CASE ~BatchStep(w)
      BY Zenon, <1>1, <3>2 DEF Listen, Poll, Acquire, StartBatch, EndBatch, Signal, storeVars
    <3>. QED  BY Zenon, <3>1, <3>2
  <2>. QED  BY Zenon, <2>5, <2>6, <2>7, <2>8
<1>2. CASE Tick \/ \E x \in Worker : Produce(x)
  BY Zenon, <1>2, EnvFrame DEF PurgeCoversRaces, storeVars, mainVars
<1>3. CASE Main
  <2>1. posts' \subseteq posts /\ deleted' \subseteq deleted
    BY Zenon, <1>3, MainFrame
  <2>2. CASE StartPurge
    BY Zenon, <2>1, <2>2 DEF StartPurge, Buried
  <2>3. CASE Purge
    <3>1. PICK p \in deleted : posts' = posts \ {p} /\ purge' = purge \ {p}
      BY Zenon, <2>3 DEF Purge
    <3>. QED  BY Zenon, <2>1, <2>3, <3>1 DEF Purge, PurgeCoversRaces
  <2>4. CASE ~StartPurge /\ ~Purge
    <3>1. purge' = purge /\ main \in {"purge", "ready"}
      BY Zenon, <1>3, <2>4 DEF Main, Recv, SortAll, StartTrim, TrimStep, EndTrim, BecomeReady, mainVars
    <3>. QED  BY Zenon, <2>1, <3>1 DEF PurgeCoversRaces
  <2>. QED  BY Zenon, <2>2, <2>3, <2>4
<1>4. CASE UNCHANGED vars
  BY Zenon, <1>4 DEF vars, PurgeCoversRaces, storeVars, mainVars
<1>. QED  BY Zenon, <1>1, <1>2, <1>3, <1>4 DEF Next

RaceInv == PermitInv /\ OneNext /\ PurgeDone /\ StaleOnlyWithStraggler /\ PurgeCoversRaces

LEMMA RaceHolds == Spec => []RaceInv
<1>1. Init => RaceInv
  BY Zenon, PermitInit DEF Init, RaceInv, OneNext, PurgeDone, StaleOnlyWithStraggler, PurgeCoversRaces
<1>2. TypeOK /\ RaceInv /\ [Next]_vars => RaceInv'
  BY Zenon, PermitStep, OneNextStep, PurgeDoneStep, StaleStep, PurgeStep DEF RaceInv
<1>. QED  BY TypeCorrect, <1>1, <1>2, PTL DEF Spec

\* StaleOnlyWithStraggler: insert_posts' look at deleted_posts, and
\* mark_as_deleted's removal from posts, hold good until they are used, unless a
\* thread that has not told main of its catching up is still running.
THEOREM StaleNeedsStraggler == Spec => []StaleOnlyWithStraggler
BY RaceHolds, PTL DEF RaceInv

\* PurgeCoversRaces: finalize_init's last loop removes every post that a race of
\* the start-up phase left in posts in spite of its tombstone, and no new one
\* appears behind its back.
THEOREM PurgeCovers == Spec => []PurgeCoversRaces
BY RaceHolds, PTL DEF RaceInv
=============================================================================
