------------------------- MODULE ThunderSafetyProofs -------------------------
(***************************************************************************)
(* What the trimmer may take, for any number of threads, posts and events. *)
(* A tombstone outlives its post's retention period, so that with the      *)
(* start-up purge a deleted post does not come back; no post is left in    *)
(* posts that nobody will take out; and none is taken out but for its age, *)
(* a delete or a full list.  The first and the last need the hypothesis    *)
(* NoWrap: without it the trimmer can take an entry from the future for an *)
(* ancient one.                                                            *)
(***************************************************************************)
EXTENDS ThunderServingProofs

-----------------------------------------------------------------------------
(* A tombstone outlives the retention period of its post, so dropping it     *)
(* brings nothing back.                                                      *)

\* Nothing is stamped further ahead than the clocks may disagree, and a tombstone
\* is no older than its post.
EventStamps ==
  \A w \in Worker :
    /\ \A i \in DOMAIN log[w] : log[w][i].at <= now + MaxSkew
    /\ \A i \in DOMAIN buffer[w] : buffer[w][i].at <= now + MaxSkew
    /\ \A d \in dels[w] : d.at <= now + MaxSkew

TombStamps ==
  \A i \in DOMAIN tombs : /\ tombs[i].at <= now + MaxSkew
                          /\ tombs[i].at >= Attr[tombs[i].id].created

\* A deleted post has a tombstone or is too old to come back; so have the posts
\* whose tombstones the trimmer is about to drop.
AgeInv ==
  /\ ~TrimStalls /\ tpc = "tombs" => tnow = now
  /\ \A p \in tdel : TooOld(p)
  /\ \A p \in applied : p \in deleted \/ TooOld(p)

-----------------------------------------------------------------------------
(* Lists *)

\* The entries of a list with one more, and of two lists in a row.
LEMMA AppendEntries ==
  ASSUME NEW S, NEW l \in Seq(S), NEW x \in S, NEW i \in DOMAIN Append(l, x)
  PROVE  Append(l, x)[i] = x \/ (i \in DOMAIN l /\ Append(l, x)[i] = l[i])
<1>1. Len(l) \in Nat /\ DOMAIN l = 1..Len(l)
  BY Zenon, SeqPlaces
<1>2. DOMAIN Append(l, x) = 1..(Len(l) + 1)
  <2>1. Append(l, x) \in Seq(S) /\ Len(Append(l, x)) = Len(l) + 1
    BY Zenon, Appended
  <2>. QED  BY Zenon, <2>1, SeqPlaces
<1>3. CASE i = Len(l) + 1
  <2>1. Append(l, x)[Len(l) + 1] = x
    BY Zenon, Appended, Zenon
  <2>. QED  BY Zenon, <1>3, <2>1, Zenon
<1>4. CASE i \in 1..Len(l)
  BY <1>1, <1>4, Appended
<1>. QED  BY <1>1, <1>2, <1>3, <1>4

LEMMA ConcatEntries ==
  ASSUME NEW l \in Seq(Event), NEW m \in Seq(Event)
  PROVE  \A i \in DOMAIN (l \o m) : \/ \E j \in DOMAIN l : (l \o m)[i] = l[j]
                                   \/ \E j \in DOMAIN m : (l \o m)[i] = m[j]
<1>. SUFFICES ASSUME NEW i \in DOMAIN (l \o m)
              PROVE  \/ \E j \in DOMAIN l : (l \o m)[i] = l[j]
                     \/ \E j \in DOMAIN m : (l \o m)[i] = m[j]
  BY Zenon
<1>1. Len(l) \in Nat /\ DOMAIN l = 1..Len(l) /\ Len(m) \in Nat /\ DOMAIN m = 1..Len(m)
  BY Zenon, SeqPlaces
<1>2. /\ l \o m \in Seq(Event) /\ Len(l \o m) = Len(l) + Len(m)
      /\ \A k \in 1..(Len(l) + Len(m)) :
           (l \o m)[k] = IF k <= Len(l) THEN l[k] ELSE m[k - Len(l)]
  BY Zenon, Joined
<1>3. i \in 1..(Len(l) + Len(m))
  BY Zenon, <1>2, SeqPlaces
<1>4. CASE i <= Len(l)
  BY <1>1, <1>2, <1>3, <1>4
<1>5. CASE ~(i <= Len(l))
  <2>1. i - Len(l) \in 1..Len(m) /\ (l \o m)[i] = m[i - Len(l)]
    BY <1>1, <1>2, <1>3, <1>5
  <2>. QED  BY Zenon, <1>1, <2>1
<1>. QED  BY Zenon, <1>4, <1>5

\* The first entries of a list are entries of it.
LEMMA TakeEntries ==
  ASSUME NEW S, NEW l \in Seq(S), NEW n \in Nat, n <= Len(l)
  PROVE  /\ SubSeq(l, 1, n) \in Seq(S)
         /\ \A i \in DOMAIN SubSeq(l, 1, n) : i \in DOMAIN l /\ SubSeq(l, 1, n)[i] = l[i]
<1>1. Len(l) \in Nat /\ DOMAIN l = 1..Len(l) /\ \A i \in 1..n : l[i] \in S
  BY SeqPlaces, SeqEntry
<1>2. /\ SubSeq(l, 1, n) \in Seq(S)
      /\ Len(SubSeq(l, 1, n)) = IF 1 <= n THEN n - 1 + 1 ELSE 0
      /\ \A i \in 1..(n - 1 + 1) : SubSeq(l, 1, n)[i] = l[1 + i - 1]
  BY <1>1, Cut
<1>3. DOMAIN SubSeq(l, 1, n) = 1..n
  BY <1>2, SeqPlaces
<1>. QED  BY <1>1, <1>2, <1>3

-----------------------------------------------------------------------------
(* Stamps *)

LEMMA StampInit == Init => EventStamps /\ TombStamps
<1>. SUFFICES ASSUME Init PROVE EventStamps /\ TombStamps
  BY Zenon
<1>. USE StoreAssumption, ServingAssumption
<1>1. ASSUME NEW w \in Worker, NEW i \in DOMAIN log[w]
      PROVE  log[w][i].at <= now + MaxSkew
  <2>1. log[w] \in Seq(Possible(Now0))
    BY Zenon DEF Init
  <2>2. log[w][i] \in Possible(Now0)
    BY <2>1, SeqPlaces, SeqEntry
  <2>. QED  BY <2>2 DEF Init, Possible
<1>2. \A w \in Worker : DOMAIN buffer[w] = {} /\ dels[w] = {}
  BY DEF Init
<1>3. DOMAIN tombs = {}
  BY DEF Init
<1>. QED  BY Zenon, <1>1, <1>2, <1>3 DEF EventStamps, TombStamps

LEMMA EventStampsStep ==
  ASSUME TypeOK, EventStamps, [Next]_vars
  PROVE  EventStamps'
<1>. USE DEF TypeOK
<1>0. now \in Nat /\ MaxSkew \in Nat
  BY Zenon, ServingAssumption DEF StoreTypeOK
<1>1. ASSUME NEW w \in Worker, Listen(w)
      PROVE  EventStamps'
  <2>0. now' = now
    BY Zenon, <1>1, BatchFrame DEF Listen, Poll, Acquire, StartBatch, EndBatch, Signal
  <2>1. CASE Poll(w)
    <3>1. PICK n \in Nat, caughtUp \in BOOLEAN, batch \in BOOLEAN :
                 n <= Len(log[w]) /\ Polled(w, n, caughtUp, batch)
      BY Zenon, <2>1, PollSplit
    <3>2. log[w] \in Seq(Event) /\ buffer[w] \in Seq(Event)
      BY Zenon DEF ListenTypeOK
    <3>3. /\ log'[w] = SubSeq(log[w], n + 1, Len(log[w]))
          /\ buffer'[w] = buffer[w] \o SubSeq(log[w], 1, n)
          /\ \A v \in Worker \ {w} : log'[v] = log[v] /\ buffer'[v] = buffer[v]
      BY Zenon, <3>1 DEF Polled, ListenTypeOK
    <3>4. \A i \in DOMAIN log'[w] : log'[w][i].at <= now + MaxSkew
      <4>1. \A i \in DOMAIN log'[w] : \E j \in DOMAIN log[w] : log'[w][i] = log[w][j]
        BY <3>2, <3>3, DropType
      <4>. QED  BY Zenon, <4>1 DEF EventStamps
    <3>5. ASSUME NEW i \in DOMAIN buffer'[w]
          PROVE  buffer'[w][i].at <= now + MaxSkew
      <4>1. /\ SubSeq(log[w], 1, n) \in Seq(Event)
            /\ \A j \in DOMAIN SubSeq(log[w], 1, n) :
                 j \in DOMAIN log[w] /\ SubSeq(log[w], 1, n)[j] = log[w][j]
        BY Zenon, <3>1, <3>2, TakeEntries
      <4>. DEFINE polled == SubSeq(log[w], 1, n)
      <4>2. i \in DOMAIN (buffer[w] \o polled)
        BY Zenon, <3>3, <3>5
      <4>. HIDE DEF polled
      <4>3. \/ \E j \in DOMAIN buffer[w] : (buffer[w] \o polled)[i] = buffer[w][j]
            \/ \E j \in DOMAIN polled : (buffer[w] \o polled)[i] = polled[j]
        <5>1. polled \in Seq(Event)
          BY Zenon, <4>1 DEF polled
        <5>2. \A k \in DOMAIN (buffer[w] \o polled) :
                \/ \E j \in DOMAIN buffer[w] : (buffer[w] \o polled)[k] = buffer[w][j]
                \/ \E j \in DOMAIN polled : (buffer[w] \o polled)[k] = polled[j]
          BY Zenon, <3>2, <5>1, ConcatEntries, Zenon
        <5>. QED  BY Zenon, <4>2, <5>2
      <4>. QED  BY ZenonT(40), <3>3, <4>1, <4>3 DEF EventStamps, polled
    <3>. QED  BY ZenonT(40), <2>0, <2>1, <3>3, <3>4, <3>5 DEF EventStamps, Poll
  <2>2. CASE StartBatch(w)
    <3>. DEFINE msg == buffer[w]
                ds == {[off |-> i, id |-> msg[i].id, at |-> msg[i].at] :
                         i \in {i \in DOMAIN msg : msg[i].kind = "delete"}}
    <3>1. dels' = [dels EXCEPT ![w] = ds] \/ dels' = dels
      BY Zenon, <2>2 DEF StartBatch
    <3>2. \A d \in ds : d.at <= now + MaxSkew
      BY DEF EventStamps
    <3>3. \A v \in Worker : \A d \in dels'[v] : d.at <= now + MaxSkew
      BY Zenon, <3>1, <3>2 DEF EventStamps, WorkTypeOK
    <3>4. buffer' = [buffer EXCEPT ![w] = <<>>] /\ log' = log
      BY Zenon, <2>2 DEF StartBatch
    <3>5. \A v \in Worker : \A i \in DOMAIN buffer'[v] : buffer'[v][i].at <= now + MaxSkew
      <4>. SUFFICES ASSUME NEW v \in Worker, NEW i \in DOMAIN buffer'[v]
                    PROVE  buffer'[v][i].at <= now + MaxSkew
        BY Zenon
      <4>1. buffer'[v] = IF v = w THEN <<>> ELSE buffer[v]
        BY Zenon, <3>4 DEF ListenTypeOK
      <4>2. v # w
        BY <4>1
      <4>. QED  BY Zenon, <4>1, <4>2 DEF EventStamps
    <3>. QED  BY Zenon, <2>0, <3>3, <3>4, <3>5 DEF EventStamps
  <2>3. CASE BatchStep(w) /\ UNCHANGED <<listenVars, mainVars>>
    BY Zenon, <2>0, <2>3, BatchFrame DEF EventStamps, listenVars
  <2>4. CASE Acquire(w) \/ EndBatch(w) \/ Signal(w)
    BY Zenon, <2>0, <2>4 DEF Acquire, EndBatch, Signal, EventStamps
  <2>. QED  BY Zenon, <1>1, <2>1, <2>2, <2>3, <2>4 DEF Listen
<1>2. ASSUME NEW w \in Worker, Produce(w)
      PROVE  EventStamps'
  <2>1. PICK e \in Possible(now) : log' = [log EXCEPT ![w] = Append(@, e)]
    BY Zenon, <1>2 DEF Produce
  <2>2. e \in Event /\ e.at <= now + MaxSkew
    BY <1>0, <2>1 DEF Possible, Event
  <2>3. log[w] \in Seq(Event)
    BY Zenon DEF ListenTypeOK
  <2>4. log'[w] = Append(log[w], e) /\ \A v \in Worker \ {w} : log'[v] = log[v]
    BY Zenon, <2>1 DEF ListenTypeOK
  <2>5. \A i \in DOMAIN log'[w] : log'[w][i].at <= now + MaxSkew
    BY <2>2, <2>3, <2>4, AppendEntries DEF EventStamps
  <2>. QED  BY Zenon, <1>2, <2>4, <2>5 DEF EventStamps, Produce, workVars
<1>3. CASE Tick
  <2>1. now' = now + 1
    BY Zenon, <1>3 DEF Tick
  <2>2. ASSUME NEW x \in Nat, x <= now + MaxSkew PROVE x <= now' + MaxSkew
    BY <1>0, <2>1, <2>2
  <2>3. ASSUME NEW w \in Worker
        PROVE  /\ \A i \in DOMAIN log[w] : log[w][i].at \in Nat
               /\ \A i \in DOMAIN buffer[w] : buffer[w][i].at \in Nat
               /\ \A d \in dels[w] : d.at \in Nat
    <3>1. log[w] \in Seq(Event) /\ buffer[w] \in Seq(Event)
      BY Zenon DEF ListenTypeOK
    <3>2. /\ \A i \in DOMAIN log[w] : log[w][i] \in Event
          /\ \A i \in DOMAIN buffer[w] : buffer[w][i] \in Event
      BY Zenon, <3>1, SeqPlaces, SeqEntry
    <3>. QED  BY <3>2 DEF Event, Delete, WorkTypeOK
  <2>. QED  BY Zenon, <1>3, <2>2, <2>3 DEF Tick, EventStamps, workVars, listenVars
<1>4. CASE Main
  BY Zenon, <1>4, MainFrame DEF EventStamps, workVars
<1>5. CASE UNCHANGED vars
  BY Zenon, <1>5 DEF vars, EventStamps, workVars, listenVars
<1>. QED  BY Zenon, <1>1, <1>2, <1>3, <1>4, <1>5 DEF Next

\* tombs grows in mark_as_deleted, is sorted once, and is trimmed at the front.
LEMMA TombStampsStep ==
  ASSUME TypeOK, EventStamps, TombStamps, [Next]_vars
  PROVE  TombStamps'
<1>. USE DEF TypeOK
<1>0. now \in Nat /\ MaxSkew \in Nat /\ tombs \in Seq(Tiny)
  BY Zenon, ServingAssumption DEF StoreTypeOK
<1>1. ASSUME now' = now,
             \A i \in DOMAIN tombs' : \E j \in DOMAIN tombs : tombs'[i] = tombs[j]
      PROVE  TombStamps'
  BY Zenon, <1>1 DEF TombStamps
<1>2. ASSUME now' = now, tombs' = tombs
      PROVE  TombStamps'
  BY Zenon, <1>2 DEF TombStamps
<1>3. ASSUME NEW w \in Worker, Listen(w)
      PROVE  TombStamps'
  <2>1. CASE PushTomb(w)
    <3>1. PICK d \in dels[w] : tombs' = Append(tombs, [id |-> d.id, at |-> d.at])
      BY Zenon, <2>1 DEF PushTomb
    <3>. DEFINE x == [id |-> d.id, at |-> d.at]
    <3>2. x \in Tiny /\ x.at <= now + MaxSkew /\ x.at >= Attr[x.id].created
      BY <3>1 DEF WorkTypeOK, Delete, Tiny, EventStamps
    <3>3. now' = now
      BY Zenon, <2>1 DEF PushTomb
    <3>4. ASSUME NEW i \in DOMAIN tombs'
          PROVE  tombs'[i].at <= now + MaxSkew /\ tombs'[i].at >= Attr[tombs'[i].id].created
      <4>. HIDE DEF x
      <4>1. tombs' = Append(tombs, x)
        BY Zenon, <3>1 DEF x
      <4>2. tombs'[i] = x \/ (i \in DOMAIN tombs /\ tombs'[i] = tombs[i])
        BY <1>0, <3>2, <4>1, AppendEntries
      <4>. QED  BY Zenon, <3>2, <4>2 DEF TombStamps
    <3>. QED  BY Zenon, <3>3, <3>4 DEF TombStamps
  <2>2. CASE ~PushTomb(w)
    <3>1. CASE BatchStep(w)
      BY Zenon, <1>2, <2>2, <3>1 DEF BatchStep, CheckDeleted, StorePost, PushPrimary, PushVideo,
            RemoveEvicted, InsertsDone, RemovePost, Bury, DeletesDone, storeVars
    <3>2. CASE ~BatchStep(w)
      BY Zenon, <1>2, <1>3, <3>2 DEF Listen, Poll, Acquire, StartBatch, EndBatch, Signal, storeVars
    <3>. QED  BY Zenon, <3>1, <3>2
  <2>. QED  BY Zenon, <2>1, <2>2
<1>4. CASE Main
  <2>0. now' = now
    BY Zenon, <1>4, MainFrame
  <2>1. CASE SortAll
    BY Zenon, <1>0, <1>1, <2>0, <2>1, SortTypes DEF SortAll
  <2>2. CASE TrimTombs
    <3>1. tombs' = Rest(tombs, Len(tombs)) \/ tombs' = LeftByPanic(tombs, Len(tombs))
      BY Zenon, <2>2 DEF TrimTombs
    <3>2. \A i \in DOMAIN tombs' : \E j \in DOMAIN tombs : tombs'[i] = tombs[j]
      BY <1>0, <3>1, TrimTypes
    <3>. QED  BY Zenon, <1>1, <2>0, <3>2
  <2>3. CASE ~SortAll /\ ~TrimTombs
    BY Zenon, <1>2, <1>4, <2>0, <2>3 DEF Main, Recv, StartTrim, TrimStart, TrimStep, TrimUser, TrimPost,
          TrimTombstone, EndTrim, TrimNext, StartPurge, Purge, BecomeReady, storeVars
  <2>. QED  BY Zenon, <2>1, <2>2, <2>3
<1>5. CASE Tick
  <2>1. now' = now + 1 /\ tombs' = tombs
    BY Zenon, <1>5 DEF Tick, storeVars
  <2>2. \A i \in DOMAIN tombs : tombs[i].at \in Nat
    <3>1. \A i \in DOMAIN tombs : tombs[i] \in Tiny
      BY Zenon, <1>0, SeqPlaces, SeqEntry
    <3>. QED  BY Zenon, <3>1 DEF Tiny
  <2>. QED  BY <1>0, <2>1, <2>2 DEF TombStamps
<1>6. CASE \E w \in Worker : Produce(w)
  BY Zenon, <1>2, <1>6 DEF Produce, storeVars
<1>7. CASE UNCHANGED vars
  BY Zenon, <1>2, <1>7 DEF vars, storeVars
<1>. QED  BY Zenon, <1>3, <1>4, <1>5, <1>6, <1>7 DEF Next

-----------------------------------------------------------------------------
(* Tombstones are dropped late enough *)

\* What trim_old_posts takes from the tombstone list belongs to posts that
\* insert_posts refuses by now.
LEMMA PoppedIsOld ==
  ASSUME NoWrap, TypeOK, TombStamps, AgeInv, TrimTombs, Underflows(tombs, Len(tombs)) = {},
         NEW p \in Popped(tombs, Len(tombs))
  PROVE  TooOld(p)
<1>1. tombs \in Seq(Tiny) /\ now \in Nat /\ tnow \in Nat /\ tnow <= now
  BY Zenon DEF TypeOK, StoreTypeOK, TrimTypeOK
<1>2. Len(tombs) \in Nat /\ DOMAIN tombs = 1..Len(tombs) /\ \A i \in 1..Len(tombs) : tombs[i] \in Tiny
  BY Zenon, <1>1, SeqPlaces, SeqEntry
<1>3. PICK i \in Prefix(tombs, Len(tombs)) : p = tombs[i].id
  BY Zenon DEF Popped
<1>4. i \in 1..Len(tombs) /\ (Len(tombs) - i + 1 > Len(tombs) \/ Stale(tombs[i]))
  BY <1>2, <1>3 DEF Prefix
<1>5. Stale(tombs[i])
  BY <1>2, <1>4
<1>6. tombs[i].at \in Nat /\ p \in Post /\ Attr[p].created \in Nat
  BY Zenon, <1>2, <1>3, <1>4, StoreAssumption DEF Tiny, AttrType
<1>7. tombs[i].at <= tnow
  <2>1. CASE OverflowChecks
    <3>1. i \notin Underflows(tombs, Len(tombs)) /\ Len(tombs) - i + 1 <= Len(tombs)
      BY <1>2, <1>4
    <3>. QED  BY <1>1, <1>3, <1>6, <2>1, <3>1 DEF Underflows
  <2>2. CASE ~TrimStalls /\ MaxSkew = 0
    <3>1. tnow = now
      BY Zenon, <2>2 DEF AgeInv, TrimTombs
    <3>2. tombs[i].at <= now + 0
      BY Zenon, <1>2, <1>4, <2>2 DEF TombStamps
    <3>. QED  BY <1>1, <1>6, <3>1, <3>2
  <2>. QED  BY Zenon, <2>1, <2>2 DEF NoWrap
<1>8. tnow - tombs[i].at > Retention
  BY <1>1, <1>5, <1>6, <1>7 DEF Stale
<1>9. Attr[p].created <= tombs[i].at
  BY Zenon, <1>2, <1>3, <1>4, <1>6 DEF TombStamps
<1>. QED  BY <1>1, <1>6, <1>8, <1>9, StoreAssumption DEF TooOld

LEMMA AgeInit == Init => AgeInv
BY Zenon DEF Init, AgeInv

LEMMA AgeStep ==
  ASSUME NoWrap, TypeOK, TombStamps, AgeInv, [Next]_vars
  PROVE  AgeInv'
<1>. USE DEF TypeOK
<1>0. now \in Nat /\ Retention \in Nat /\ tdel \subseteq Post /\ applied \subseteq Post
      /\ \A p \in Post : Attr[p].created \in Nat
  BY Zenon, StoreAssumption DEF StoreTypeOK, TrimTypeOK, AttrType
<1>1. ASSUME now' = now, tdel' \subseteq tdel, UNCHANGED <<applied, deleted>>,
             tpc' = "tombs" => tnow' = now \/ (tpc = "tombs" /\ tnow' = tnow)
      PROVE  AgeInv'
  BY Zenon, <1>1 DEF AgeInv, TooOld
<1>2. ASSUME NEW w \in Worker, Listen(w)
      PROVE  AgeInv'
  <2>1. CASE Bury(w)
    <3>1. PICK d \in dels[w] : deleted' = deleted \cup {d.id} /\ applied' = applied \cup {d.id}
      BY Zenon, <2>1 DEF Bury
    <3>. QED  BY Zenon, <2>1, <3>1 DEF Bury, AgeInv, TooOld, trimVars
  <2>2. CASE ~Bury(w)
    <3>1. UNCHANGED <<now, trimVars, applied, deleted>>
      <4>1. CASE BatchStep(w)
        BY Zenon, <2>2, <4>1 DEF BatchStep, CheckDeleted, StorePost, PushPrimary, PushVideo,
              RemoveEvicted, InsertsDone, RemovePost, PushTomb, DeletesDone, storeVars, histVars
      <4>2. CASE ~BatchStep(w)
        BY Zenon, <1>2, <4>2 DEF Listen, Poll, Acquire, StartBatch, EndBatch, Signal, storeVars, histVars
      <4>. QED  BY Zenon, <4>1, <4>2
    <3>. QED  BY Zenon, <1>1, <3>1 DEF trimVars
  <2>. QED  BY Zenon, <2>1, <2>2
<1>3. CASE Main
  <2>0. now' = now /\ applied' = applied
    BY Zenon, <1>3, MainFrame DEF histVars
  <2>1. CASE TrimTombs
    <3>1. deleted' = deleted /\ tnow' = tnow /\ tpc' # "tombs"
      BY Zenon, <2>1 DEF TrimTombs, TrimPanic
    <3>2. \A p \in tdel' : TooOld(p)
      <4>1. CASE Underflows(tombs, Len(tombs)) # {}
        BY Zenon, <2>1, <4>1 DEF TrimTombs, TrimPanic
      <4>2. CASE Underflows(tombs, Len(tombs)) = {}
        <5>1. tdel' = tdel \cup Popped(tombs, Len(tombs))
          BY Zenon, <2>1, <4>2 DEF TrimTombs
        <5>2. \A p \in Popped(tombs, Len(tombs)) : TooOld(p)
          BY Zenon, <2>1, <4>2, PoppedIsOld
        <5>. QED  BY Zenon, <5>1, <5>2 DEF AgeInv
      <4>. QED  BY Zenon, <4>1, <4>2
    <3>. QED  BY Zenon, <2>0, <3>1, <3>2 DEF AgeInv, TooOld
  <2>2. CASE TrimTombstone
    <3>1. PICK p \in tdel : deleted' = deleted \ {p} /\ tdel' = tdel \ {p}
      BY Zenon, <2>2 DEF TrimTombstone
    <3>2. tpc' = "lists"
      BY Zenon, <2>2 DEF TrimTombstone
    <3>. QED  BY Zenon, <2>0, <3>1, <3>2 DEF AgeInv, TooOld
  <2>3. CASE ~TrimTombs /\ ~TrimTombstone
    <3>1. tdel' \subseteq tdel /\ deleted' = deleted
      BY Zenon, <1>3, <2>3 DEF Main, Recv, SortAll, StartTrim, TrimStart, TrimStep, TrimUser, TrimPanic,
            TrimPost, EndTrim, TrimNext, StartPurge, Purge, BecomeReady, storeVars, trimVars
    <3>2. tpc' = "tombs" => tnow' = now \/ (tpc = "tombs" /\ tnow' = tnow)
      BY Zenon, <1>3, <2>3 DEF Main, Recv, SortAll, StartTrim, TrimStart, TrimStep, TrimUser, TrimPanic,
            TrimPost, EndTrim, TrimNext, StartPurge, Purge, BecomeReady, trimVars
    <3>. QED  BY Zenon, <1>1, <2>0, <3>1, <3>2
  <2>. QED  BY Zenon, <2>1, <2>2, <2>3
<1>4. CASE Tick
  <2>1. /\ now' = now + 1 /\ UNCHANGED <<tdel, applied, deleted, tpc, tnow>>
        /\ TrimStalls \/ tpc = "idle"
    BY Zenon, <1>4 DEF Tick, storeVars, trimVars, histVars
  <2>2. ASSUME NEW p \in Post, TooOld(p) PROVE TooOld(p)'
    BY <1>0, <2>1, <2>2 DEF TooOld
  <2>. QED  BY Zenon, <1>0, <2>1, <2>2 DEF AgeInv
<1>5. CASE \E w \in Worker : Produce(w)
  BY Zenon, <1>1, <1>5 DEF Produce, storeVars, trimVars, histVars
<1>6. CASE UNCHANGED vars
  BY Zenon, <1>1, <1>6 DEF vars, storeVars, trimVars, histVars
<1>. QED  BY Zenon, <1>2, <1>3, <1>4, <1>5, <1>6 DEF Next

LEMMA AgeHolds == ASSUME NoWrap PROVE Spec => [](EventStamps /\ TombStamps /\ AgeInv)
<1>1. TypeOK /\ (EventStamps /\ TombStamps /\ AgeInv) /\ [Next]_vars
        => (EventStamps /\ TombStamps /\ AgeInv)'
  BY Zenon, EventStampsStep, TombStampsStep, AgeStep
<1>2. Init => EventStamps /\ TombStamps /\ AgeInv
  BY Zenon, StampInit, AgeInit
<1>. QED  BY TypeCorrect, <1>1, <1>2, PTL DEF Spec

\* TombstoneOutlivesPost: when trim_old_posts takes a key out of deleted_posts,
\* insert_posts already refuses that post for its age.
THEOREM TombstonesLast == ASSUME NoWrap PROVE Spec => TombstoneOutlivesPost
<1>1. TypeOK /\ AgeInv /\ [Next]_vars => [\A p \in deleted \ deleted' : TooOld(p)]_vars
  <2>. SUFFICES ASSUME TypeOK, AgeInv, Next, NEW p \in deleted \ deleted'
                PROVE  TooOld(p)
    BY Zenon DEF vars
  <2>1. CASE TrimTombstone
    <3>1. PICK q \in tdel : deleted' = deleted \ {q}
      BY Zenon, <2>1 DEF TrimTombstone
    <3>. QED  BY Zenon, <3>1 DEF AgeInv
  <2>2. CASE ~TrimTombstone
    <3>1. CASE Main
      BY Zenon, <2>2, <3>1 DEF Main, Recv, SortAll, StartTrim, TrimStart, TrimStep, TrimTombs, TrimUser,
            TrimPanic, TrimPost, EndTrim, TrimNext, StartPurge, Purge, BecomeReady, storeVars
    <3>2. CASE Tick \/ \E w \in Worker : Produce(w)
      BY Zenon, <3>2, EnvFrame DEF storeVars
    <3>3. ASSUME NEW w \in Worker, Listen(w) PROVE deleted \subseteq deleted'
      <4>1. CASE BatchStep(w)
        BY Zenon, <4>1 DEF BatchStep, CheckDeleted, StorePost, PushPrimary, PushVideo, RemoveEvicted,
              InsertsDone, RemovePost, Bury, PushTomb, DeletesDone, storeVars
      <4>2. CASE ~BatchStep(w)
        BY Zenon, <3>3, <4>2 DEF Listen, Poll, Acquire, StartBatch, EndBatch, Signal, storeVars
      <4>. QED  BY Zenon, <4>1, <4>2
    <3>. QED  BY Zenon, <3>1, <3>2, <3>3 DEF Next
  <2>. QED  BY Zenon, <2>1, <2>2
<1>. QED  BY TypeCorrect, AgeHolds, <1>1, PTL DEF Spec, TombstoneOutlivesPost

\* DeletedStaysDeleted: once the server is ready, no interleaving of
\* insert_posts, mark_as_deleted, trim_old_posts and the start-up sequence leaves
\* a deleted post in posts within its retention period.
THEOREM DeletedStays == ASSUME NoWrap PROVE Spec => []DeletedStaysDeleted
<1>1. RaceInv /\ AgeInv => DeletedStaysDeleted
  BY Zenon DEF RaceInv, PurgeDone, PurgeCoversRaces, AgeInv, DeletedStaysDeleted
<1>. QED  BY RaceHolds, AgeHolds, <1>1, PTL

-----------------------------------------------------------------------------
(* What becomes of the entries of a list *)

\* Dropping the first n entries keeps the others.
LEMMA DropEntries ==
  ASSUME NEW S, NEW l \in Seq(S), NEW n \in Nat, n <= Len(l)
  PROVE  /\ SubSeq(l, n + 1, Len(l)) \in Seq(S)
         /\ Len(SubSeq(l, n + 1, Len(l))) = Len(l) - n
         /\ \A j \in DOMAIN l : j > n =>
              \E i \in DOMAIN SubSeq(l, n + 1, Len(l)) : SubSeq(l, n + 1, Len(l))[i] = l[j]
<1>1. Len(l) \in Nat /\ DOMAIN l = 1..Len(l) /\ \A i \in 1..Len(l) : l[i] \in S
  BY Zenon, SeqPlaces, SeqEntry
<1>2. \A i \in (n + 1)..Len(l) : l[i] \in S
  BY <1>1
<1>3. /\ SubSeq(l, n + 1, Len(l)) \in Seq(S)
      /\ Len(SubSeq(l, n + 1, Len(l))) = IF n + 1 <= Len(l) THEN Len(l) - (n + 1) + 1 ELSE 0
      /\ \A i \in 1..(Len(l) - (n + 1) + 1) :
           SubSeq(l, n + 1, Len(l))[i] = l[(n + 1) + i - 1]
  <2>1. n + 1 \in Int /\ Len(l) \in Int
    BY <1>1
  <2>. QED  BY <1>2, <2>1, Cut
<1>4. Len(SubSeq(l, n + 1, Len(l))) = Len(l) - n
  <2>1. ASSUME NEW m \in Nat, n <= m
        PROVE  (IF n + 1 <= m THEN m - (n + 1) + 1 ELSE 0) = m - n
    BY <2>1
  <2>. QED  BY Zenon, <1>1, <1>3, <2>1
<1>5. ASSUME NEW j \in DOMAIN l, j > n
      PROVE  \E i \in DOMAIN SubSeq(l, n + 1, Len(l)) : SubSeq(l, n + 1, Len(l))[i] = l[j]
  <2>1. j - n \in 1..(Len(l) - n) /\ j - n \in 1..(Len(l) - (n + 1) + 1) /\ (n + 1) + (j - n) - 1 = j
    BY <1>1, <1>5
  <2>2. j - n \in DOMAIN SubSeq(l, n + 1, Len(l))
    BY Zenon, <1>3, <1>4, <2>1, SeqPlaces
  <2>3. SubSeq(l, n + 1, Len(l))[j - n] = l[(n + 1) + (j - n) - 1]
    BY Zenon, <1>3, <2>1
  <2>. QED  BY Zenon, <2>1, <2>2, <2>3
<1>. QED  BY Zenon, <1>3, <1>4, <1>5

\* A set of places of a list is no larger than the last place it reaches.
LEMMA PlacesCount ==
  ASSUME NEW n \in Nat, NEW T \in SUBSET (1..n)
  PROVE  Cardinality(T) \in Nat /\ Cardinality(T) <= n
<1>1. IsFiniteSet(1..n) /\ Cardinality(1..n) = n
  BY FS_Interval
<1>. QED  BY Zenon, <1>1, FS_Subset, FS_CardinalityType

\* trim_old_posts pops an entry or leaves it, and never lengthens a list.
LEMMA PoppedOrKept ==
  ASSUME NEW l \in Seq(Tiny), NEW limit
  PROVE  /\ \A i \in DOMAIN l : \/ l[i].id \in Popped(l, limit)
                                \/ \E j \in DOMAIN Rest(l, limit) : Rest(l, limit)[j] = l[i]
         /\ Len(Rest(l, limit)) <= Len(l) /\ Len(LeftByPanic(l, limit)) <= Len(l)
<1>1. Len(l) \in Nat /\ DOMAIN l = 1..Len(l)
  BY Zenon, SeqPlaces
<1>2. ASSUME NEW T \in SUBSET DOMAIN l
      PROVE  Cardinality(T) \in Nat /\ Cardinality(T) <= Len(l)
  BY Zenon, <1>1, <1>2, PlacesCount
<1>3. Prefix(l, limit) \in SUBSET DOMAIN l /\ BeforePanic(l, limit) \in SUBSET DOMAIN l
  BY Zenon DEF Prefix, BeforePanic
<1>4. Len(Rest(l, limit)) <= Len(l)
  <2>1. Cardinality(Prefix(l, limit)) \in Nat /\ Cardinality(Prefix(l, limit)) <= Len(l)
    BY Zenon, <1>2, <1>3
  <2>2. Len(Rest(l, limit)) = Len(l) - Cardinality(Prefix(l, limit))
    BY Zenon, <2>1, DropEntries DEF Rest
  <2>. QED  BY <1>1, <2>1, <2>2
<1>5. Len(LeftByPanic(l, limit)) <= Len(l)
  <2>1. Cardinality(BeforePanic(l, limit)) \in Nat /\ Cardinality(BeforePanic(l, limit)) <= Len(l)
    BY Zenon, <1>2, <1>3
  <2>2. Len(LeftByPanic(l, limit)) = Len(l) - Cardinality(BeforePanic(l, limit))
    BY Zenon, <2>1, DropEntries DEF LeftByPanic
  <2>. QED  BY <1>1, <2>1, <2>2
<1>6. ASSUME NEW i \in DOMAIN l, i \notin Prefix(l, limit)
      PROVE  \E j \in DOMAIN Rest(l, limit) : Rest(l, limit)[j] = l[i]
  <2>1. i \in 1..Len(l) /\ i - 1 \in Nat
    BY <1>1
  <2>2. Prefix(l, limit) \in SUBSET (1..(i - 1))
    <3>. SUFFICES ASSUME NEW k \in Prefix(l, limit) PROVE k \in 1..(i - 1)
      BY Zenon
    <3>1. k \in 1..Len(l) /\ \A j \in 1..k : Len(l) - j + 1 > limit \/ Stale(l[j])
      BY Zenon, <1>1 DEF Prefix
    <3>2. ASSUME i <= k PROVE i \in Prefix(l, limit)
      <4>1. \A j \in 1..i : j \in 1..k
        BY <2>1, <3>1, <3>2
      <4>. QED  BY Zenon, <3>1, <4>1 DEF Prefix
    <3>3. ~(i <= k)
      BY Zenon, <1>6, <3>2
    <3>. QED  BY <2>1, <3>1, <3>3
  <2>3. Cardinality(Prefix(l, limit)) \in Nat /\ Cardinality(Prefix(l, limit)) <= i - 1
    BY Zenon, <2>1, <2>2, PlacesCount
  <2>4. i > Cardinality(Prefix(l, limit)) /\ Cardinality(Prefix(l, limit)) <= Len(l)
    BY <1>1, <2>1, <2>3
  <2>. QED  BY Zenon, <2>3, <2>4, DropEntries DEF Rest
<1>7. \A i \in DOMAIN l : i \in Prefix(l, limit) => l[i].id \in Popped(l, limit)
  BY Zenon DEF Popped
<1>. QED  BY Zenon, <1>4, <1>5, <1>6, <1>7

\* insert_posts pushes an entry out or leaves it, lists the new one, and keeps the
\* list within MAX_POSTING_LIST_SIZE.
LEMMA PushEntries ==
  ASSUME NEW l \in Seq(Tiny), NEW x \in Tiny
  PROVE  /\ \A i \in DOMAIN Push(l, x) :
              Push(l, x)[i] = x \/ \E j \in DOMAIN l : Push(l, x)[i] = l[j]
         /\ \E i \in DOMAIN Push(l, x) : Push(l, x)[i] = x
         /\ \A j \in DOMAIN l : \/ l[j].id \in PushedOut(l)
                                \/ \E i \in DOMAIN Push(l, x) : Push(l, x)[i] = l[j]
         /\ Len(Push(l, x)) <= MaxList
<1>. DEFINE n == Overflow(l)
            r == SubSeq(l, n + 1, Len(l))
<1>0. Len(l) \in Nat /\ DOMAIN l = 1..Len(l) /\ MaxList \in Nat /\ MaxList >= 1
  BY SeqPlaces, StoreAssumption
<1>1. n \in Nat /\ n <= Len(l) /\ Len(l) - n + 1 <= MaxList
  BY <1>0 DEF Overflow
<1>. HIDE DEF n
<1>2. /\ r \in Seq(Tiny) /\ Len(r) = Len(l) - n
      /\ \A j \in DOMAIN l : j > n => \E i \in DOMAIN r : r[i] = l[j]
  BY Zenon, <1>1, DropEntries
<1>3. \A i \in DOMAIN r : \E j \in DOMAIN l : r[i] = l[j]
  BY Zenon, <1>1, DropType
<1>4. Push(l, x) = Append(r, x)
  BY Zenon DEF Push, n
<1>. HIDE DEF r
<1>5. /\ Append(r, x) \in Seq(Tiny) /\ Len(Append(r, x)) = Len(r) + 1
      /\ Append(r, x)[Len(r) + 1] = x
      /\ \A i \in 1..Len(r) : Append(r, x)[i] = r[i]
  BY <1>2, Appended
<1>6. /\ DOMAIN Append(r, x) = 1..(Len(r) + 1) /\ DOMAIN r = 1..Len(r) /\ Len(r) \in Nat
  BY Zenon, <1>2, <1>5, SeqPlaces
<1>7. \A i \in DOMAIN Append(r, x) : Append(r, x)[i] = x \/ (i \in DOMAIN r /\ Append(r, x)[i] = r[i])
  BY <1>2, AppendEntries
<1>8. Len(r) + 1 \in DOMAIN Append(r, x) /\ \A i \in DOMAIN r : i \in DOMAIN Append(r, x)
  BY <1>6
<1>9. ASSUME NEW j \in DOMAIN l, l[j].id \notin PushedOut(l)
      PROVE  \E i \in DOMAIN Append(r, x) : Append(r, x)[i] = l[j]
  <2>1. j \notin 1..n
    BY Zenon, <1>9 DEF PushedOut, n
  <2>2. j > n
    BY <1>0, <1>1, <2>1
  <2>. QED  BY Zenon, <1>2, <1>5, <1>6, <1>8, <2>2
<1>10. Len(Append(r, x)) <= MaxList
  <2>1. Len(Append(r, x)) = Len(l) - n + 1
    BY Zenon, <1>2, <1>5
  <2>. QED  BY Zenon, <1>1, <2>1
<1>11. \A i \in DOMAIN Append(r, x) :
         Append(r, x)[i] = x \/ \E j \in DOMAIN l : Append(r, x)[i] = l[j]
  BY Zenon, <1>3, <1>7
<1>12. \E i \in DOMAIN Append(r, x) : Append(r, x)[i] = x
  BY Zenon, <1>5, <1>8
<1>. QED  BY Zenon, <1>4, <1>9, <1>10, <1>11, <1>12

\* Sorting loses no entry.
LEMMA SortEntries ==
  ASSUME NEW l \in Seq(Tiny), NEW s \in SortsOf(l)
  PROVE  /\ Len(s) = Len(l)
         /\ \A j \in DOMAIN l : \E i \in DOMAIN s : s[i] = l[j]
<1>1. Len(l) \in Nat /\ DOMAIN l = 1..Len(l)
  BY Zenon, SeqPlaces
<1>2. s \in Seq(Tiny) /\ DOMAIN s = DOMAIN l
  BY Zenon, SortTypes DEF SortsOf
<1>3. Len(s) = Len(l)
  BY <1>1, <1>2, SeqPlaces
<1>4. PICK f \in [DOMAIN l -> DOMAIN l] :
        {f[i] : i \in DOMAIN l} = DOMAIN l /\ s = [i \in DOMAIN l |-> l[f[i]]]
  BY Zenon DEF SortsOf, IsSortOf
<1>5. ASSUME NEW j \in DOMAIN l PROVE \E i \in DOMAIN s : s[i] = l[j]
  <2>1. PICK i \in DOMAIN l : f[i] = j
    BY Zenon, <1>4
  <2>2. s[i] = l[j]
    BY Zenon, <1>4, <2>1
  <2>. QED  BY Zenon, <1>2, <2>2
<1>. QED  BY Zenon, <1>3, <1>5

-----------------------------------------------------------------------------
(* No post is left in posts that nobody will take out *)

Placed(p) ==
  \/ InList(p, Primary(p))
  \/ p \in tremove
  \/ \E w \in Worker : (pc[w] = "push" /\ cur[w] = p) \/ p \in evicted[w]

LEMMA PrimaryKind ==
  ASSUME NEW p \in Post
  PROVE  Primary(p) \in Kind \ {"video"} /\ Attr[p].author \in User
BY Zenon, StoreAssumption DEF Primary, Kind, AttrType

\* Most steps change no list, and leave whoever is to list or remove a post to it.
LEMMA PlacedStays ==
  ASSUME TypeOK, NoOrphan, posts' \subseteq posts, lists' = lists, tremove \subseteq tremove',
         tpc' # "dead" => tpc # "dead",
         \A v \in Worker : /\ pc[v] = "push" => pc'[v] = "push" /\ cur'[v] = cur[v]
                           /\ evicted[v] \subseteq evicted'[v]
  PROVE  NoOrphan'
<1>1. ASSUME NEW p \in posts', tpc' # "dead" PROVE Placed(p)'
  <2>1. Placed(p)
    BY Zenon, <1>1 DEF NoOrphan, Placed
  <2>2. InList(p, Primary(p)) => InList(p, Primary(p))'
    BY Zenon DEF InList
  <2>. QED  BY Zenon, <2>1, <2>2 DEF Placed
<1>. QED  BY Zenon, <1>1 DEF NoOrphan, Placed

\* The steps of a batch
LEMMA PlacedBatch ==
  ASSUME TypeOK, NoOrphan, NEW w \in Worker, BatchStep(w)
  PROVE  NoOrphan'
<1>0. UNCHANGED trimVars /\ tpc' = tpc /\ tremove' = tremove
  BY Zenon, BatchFrame DEF trimVars
<1>. USE DEF TypeOK, WorkTypeOK
<1>1. CASE CheckDeleted(w)
  BY Zenon, <1>0, <1>1, PlacedStays DEF CheckDeleted, storeVars
<1>2. CASE InsertsDone(w) \/ DeletesDone(w)
  BY Zenon, <1>0, <1>2, PlacedStays DEF InsertsDone, DeletesDone, storeVars
<1>3. CASE RemovePost(w)
  BY Zenon, <1>0, <1>3, PlacedStays DEF RemovePost
<1>4. CASE Bury(w)
  BY Zenon, <1>0, <1>4, PlacedStays DEF Bury
<1>5. CASE PushTomb(w)
  BY Zenon, <1>0, <1>5, PlacedStays DEF PushTomb
<1>6. CASE StorePost(w)
  <2>1. /\ pc[w] = "insert" /\ posts' = posts \cup {cur[w]} /\ UNCHANGED <<lists, cur, evicted>>
        /\ pc' = [pc EXCEPT ![w] = IF cur[w] \in posts THEN "check" ELSE "push"]
    BY Zenon, <1>6 DEF StorePost
  <2>2. \A v \in Worker : pc[v] = "push" => pc'[v] = "push"
    BY Zenon, <2>1
  <2>3. cur[w] \notin posts => pc'[w] = "push"
    BY Zenon, <2>1
  <2>4. ASSUME NEW p \in posts', tpc' # "dead" PROVE Placed(p)'
    <3>1. CASE p \in posts
      <4>1. Placed(p)
        BY Zenon, <1>0, <2>4, <3>1 DEF NoOrphan, Placed
      <4>2. InList(p, Primary(p)) => InList(p, Primary(p))'
        BY Zenon, <2>1 DEF InList
      <4>. QED  BY Zenon, <1>0, <2>1, <2>2, <4>1, <4>2 DEF Placed
    <3>2. CASE p \notin posts
      BY Zenon, <2>1, <2>3, <2>4, <3>2 DEF Placed
    <3>. QED  BY Zenon, <3>1, <3>2
  <2>. QED  BY Zenon, <2>4 DEF NoOrphan, Placed
<1>7. CASE PushPrimary(w)
  <2>. DEFINE q == cur[w]
              u == Attr[q].author
              l == lists[Primary(q)][u]
              x == TinyPost(q)
  <2>1. q \in Post /\ u \in User /\ Primary(q) \in Kind /\ x \in Tiny /\ x.id = q
    <3>1. q \in Post
      BY Zenon, <1>7 DEF PushPrimary
    <3>. QED  BY Zenon, <3>1, PrimaryKind, StoreAssumption DEF TinyPost, Tiny, AttrType
  <2>2. l \in Seq(Tiny)
    BY Zenon, <2>1 DEF StoreTypeOK
  <2>3. /\ lists' = [lists EXCEPT ![Primary(q)][u] = Push(l, x)]
        /\ evicted' = [evicted EXCEPT ![w] = @ \cup PushedOut(l)]
        /\ pc' = [pc EXCEPT ![w] = "video"] /\ cur' = cur /\ posts' = posts /\ pc[w] = "push"
    BY Zenon, <1>7 DEF PushPrimary, PushTo, ToRemove
  <2>4. /\ lists'[Primary(q)][u] = Push(l, x)
        /\ \A k \in Kind, a \in User : k # Primary(q) \/ a # u => lists'[k][a] = lists[k][a]
    BY Zenon, <2>1, <2>3 DEF StoreTypeOK
  <2>5. evicted'[w] = evicted[w] \cup PushedOut(l) /\ \A v \in Worker : evicted[v] \subseteq evicted'[v]
    BY Zenon, <2>3
  <2>6. \A v \in Worker \ {w} : pc'[v] = pc[v]
    BY Zenon, <2>3
  <2>. HIDE DEF u, l, x
  <2>7. ASSUME NEW p \in Post, p = q PROVE InList(p, Primary(p))'
    <3>1. \E i \in DOMAIN Push(l, x) : Push(l, x)[i] = x
      BY Zenon, <2>1, <2>2, PushEntries
    <3>2. lists'[Primary(p)][Attr[p].author] = Push(l, x) /\ x.id = p
      BY Zenon, <2>1, <2>4, <2>7 DEF u
    <3>. QED  BY Zenon, <3>1, <3>2 DEF InList
  <2>8. ASSUME NEW p \in Post, InList(p, Primary(p)) PROVE InList(p, Primary(p))' \/ p \in evicted'[w]
    <3>. DEFINE a == Attr[p].author
    <3>0. Primary(p) \in Kind /\ a \in User
      BY Zenon, PrimaryKind
    <3>1. PICK i \in DOMAIN lists[Primary(p)][a] : lists[Primary(p)][a][i].id = p
      BY Zenon, <2>8 DEF InList
    <3>2. CASE Primary(p) = Primary(q) /\ a = u
      <4>1. i \in DOMAIN l /\ l[i].id = p
        BY Zenon, <3>1, <3>2 DEF l
      <4>2. p \in PushedOut(l) \/ \E j \in DOMAIN Push(l, x) : Push(l, x)[j] = l[i]
        <5>1. \A j \in DOMAIN l : \/ l[j].id \in PushedOut(l)
                                  \/ \E m \in DOMAIN Push(l, x) : Push(l, x)[m] = l[j]
          BY Zenon, <2>1, <2>2, PushEntries
        <5>. QED  BY Zenon, <4>1, <5>1
      <4>3. CASE p \in PushedOut(l)
        BY Zenon, <2>5, <4>3
      <4>4. CASE \E j \in DOMAIN Push(l, x) : Push(l, x)[j] = l[i]
        <5>1. \E j \in DOMAIN lists'[Primary(p)][a] : lists'[Primary(p)][a][j].id = p
          <6>1. lists'[Primary(p)][a] = Push(l, x)
            BY Zenon, <2>4, <3>2
          <6>. QED  BY Zenon, <6>1, <4>1, <4>4
        <5>. QED  BY Zenon, <5>1 DEF InList
      <4>. QED  BY Zenon, <4>2, <4>3, <4>4
    <3>3. CASE ~(Primary(p) = Primary(q) /\ a = u)
      <4>1. lists'[Primary(p)][a] = lists[Primary(p)][a]
        BY Zenon, <2>4, <3>0, <3>3
      <4>. QED  BY Zenon, <3>1, <4>1 DEF InList
    <3>. QED  BY Zenon, <3>2, <3>3
  <2>9. ASSUME NEW p \in posts', tpc' # "dead" PROVE Placed(p)'
    <3>1. p \in Post /\ Placed(p)
      BY Zenon, <1>0, <2>3, <2>9 DEF NoOrphan, Placed, StoreTypeOK
    <3>2. CASE p = q
      BY Zenon, <2>7, <3>1, <3>2 DEF Placed
    <3>3. CASE p # q
      BY Zenon, <1>0, <2>3, <2>5, <2>6, <2>8, <3>1, <3>3 DEF Placed
    <3>. QED  BY Zenon, <3>2, <3>3
  <2>. QED  BY Zenon, <2>9 DEF NoOrphan, Placed
<1>8. CASE PushVideo(w)
  <2>1. cur[w] \in Post /\ pc[w] = "video" /\ cur' = cur /\ posts' = posts
    BY Zenon, <1>8 DEF PushVideo
  <2>2. Attr[cur[w]].author \in User /\ "video" \in Kind
    BY Zenon, <2>1, StoreAssumption DEF AttrType, Kind
  <2>3. \A p \in Post : lists'[Primary(p)][Attr[p].author] = lists[Primary(p)][Attr[p].author]
    <3>1. lists' = lists \/ \E n : lists' = [lists EXCEPT !["video"][Attr[cur[w]].author] = n]
      BY Zenon, <1>8 DEF PushVideo, PushTo
    <3>. QED  BY Zenon, <2>2, <3>1, PrimaryKind DEF StoreTypeOK
  <2>4. \A v \in Worker : evicted[v] \subseteq evicted'[v]
    BY Zenon, <1>8 DEF PushVideo, PushTo
  <2>5. \A v \in Worker : pc[v] = "push" => pc'[v] = "push"
    BY Zenon, <1>8 DEF PushVideo
  <2>6. posts \subseteq Post
    BY Zenon DEF StoreTypeOK
  <2>7. ASSUME NEW p \in posts', tpc' # "dead" PROVE Placed(p)'
    <3>1. p \in Post /\ Placed(p)
      BY Zenon, <1>0, <2>1, <2>6, <2>7 DEF NoOrphan, Placed
    <3>2. InList(p, Primary(p)) => InList(p, Primary(p))'
      BY Zenon, <2>3, <3>1 DEF InList
    <3>. QED  BY Zenon, <1>0, <2>1, <2>4, <2>5, <3>1, <3>2 DEF Placed
  <2>. QED  BY Zenon, <2>7 DEF NoOrphan, Placed
<1>9. CASE RemoveEvicted(w)
  <2>1. PICK p \in evicted[w] : /\ posts' = posts \ {p}
                                /\ evicted' = [evicted EXCEPT ![w] = @ \ {p}]
    BY Zenon, <1>9 DEF RemoveEvicted
  <2>2. \A v \in Worker : \A q \in evicted[v] : q # p => q \in evicted'[v]
    BY Zenon, <2>1
  <2>3. UNCHANGED <<lists, cur>> /\ \A v \in Worker : pc[v] = "push" => pc'[v] = "push"
    BY Zenon, <1>9 DEF RemoveEvicted
  <2>. QED  BY Zenon, <1>0, <2>1, <2>2, <2>3 DEF NoOrphan, InList
<1>. QED  BY Zenon, <1>1, <1>2, <1>3, <1>4, <1>5, <1>6, <1>7, <1>8, <1>9 DEF BatchStep

\* The steps of main and the trimmer
LEMMA PlacedMain ==
  ASSUME TypeOK, NoOrphan, Main
  PROVE  NoOrphan'
<1>. USE DEF TypeOK
<1>0. posts' \subseteq posts /\ posts \subseteq Post /\ UNCHANGED <<pc, cur, evicted>>
  BY Zenon, MainFrame DEF StoreTypeOK, workVars
<1>1. CASE SortAll
  <2>1. UNCHANGED <<tpc, tremove>> /\ posts' = posts
    BY Zenon, <1>1 DEF SortAll, trimVars
  <2>2. ASSUME NEW p \in Post, InList(p, Primary(p)) PROVE InList(p, Primary(p))'
    <3>. DEFINE k == Primary(p)
                a == Attr[p].author
    <3>0. k \in Kind /\ a \in User
      BY Zenon, PrimaryKind
    <3>1. PICK i \in DOMAIN lists[k][a] : lists[k][a][i].id = p
      BY Zenon, <2>2 DEF InList
    <3>2. lists[k][a] \in Seq(Tiny) /\ lists'[k][a] \in SortsOf(lists[k][a])
      BY Zenon, <1>1, <3>0 DEF SortAll, StoreTypeOK
    <3>. HIDE DEF k, a
    <3>3. \E j \in DOMAIN lists'[k][a] : lists'[k][a][j] = lists[k][a][i]
      BY Zenon, <3>1, <3>2, SortEntries
    <3>4. \E j \in DOMAIN lists'[k][a] : lists'[k][a][j].id = p
      BY Zenon, <3>1, <3>3
    <3>. QED  BY Zenon, <3>4 DEF InList, k, a
  <2>. QED  BY Zenon, <1>0, <2>1, <2>2 DEF NoOrphan
<1>2. CASE TrimTombs
  <2>1. tpc' = "dead" \/ (tpc # "dead" /\ tremove \subseteq tremove' /\ lists' = lists)
    BY Zenon, <1>2 DEF TrimTombs, TrimPanic
  <2>. QED  BY Zenon, <1>0, <2>1 DEF NoOrphan, InList
<1>3. CASE \E u \in tusers : TrimUser(u)
  <2>1. PICK u \in tusers : TrimUser(u)
    BY Zenon, <1>3
  <2>. DEFINE l == lists[tkind][u]
  <2>2. u \in User /\ tkind \in Kind /\ l \in Seq(Tiny)
    BY Zenon DEF TrimTypeOK, StoreTypeOK
  <2>3. CASE tpc' = "dead"
    BY Zenon, <2>3 DEF NoOrphan
  <2>4. CASE tpc' # "dead"
    <3>1. /\ lists' = [lists EXCEPT ![tkind][u] = Rest(l, MaxList)]
          /\ tremove' = tremove \cup Popped(l, MaxList)
          /\ tpc' = tpc
      BY Zenon, <2>1, <2>4 DEF TrimUser, TrimPanic
    <3>2. /\ lists'[tkind][u] = Rest(l, MaxList)
          /\ \A k \in Kind, a \in User : k # tkind \/ a # u => lists'[k][a] = lists[k][a]
      BY Zenon, <2>2, <3>1 DEF StoreTypeOK
    <3>3. ASSUME NEW p \in Post, InList(p, Primary(p)) PROVE InList(p, Primary(p))' \/ p \in tremove'
      <4>. DEFINE k == Primary(p)
                  a == Attr[p].author
      <4>0. k \in Kind /\ a \in User
        BY Zenon, PrimaryKind
      <4>1. PICK i \in DOMAIN lists[k][a] : lists[k][a][i].id = p
        BY Zenon, <3>3 DEF InList
      <4>. HIDE DEF k, a
      <4>2. CASE k = tkind /\ a = u
        <5>1. i \in DOMAIN l /\ l[i].id = p
          BY Zenon, <4>1, <4>2
        <5>. HIDE DEF l
        <5>2. p \in Popped(l, MaxList) \/ \E j \in DOMAIN Rest(l, MaxList) : Rest(l, MaxList)[j] = l[i]
          BY Zenon, <2>2, <5>1, PoppedOrKept
        <5>3. p \in Popped(l, MaxList) \/ \E j \in DOMAIN lists'[k][a] : lists'[k][a][j].id = p
          BY Zenon, <3>2, <4>2, <5>1, <5>2
        <5>. QED  BY Zenon, <3>1, <5>3 DEF InList, k, a
      <4>3. CASE ~(k = tkind /\ a = u)
        <5>1. lists'[k][a] = lists[k][a]
          BY Zenon, <3>2, <4>0, <4>3
        <5>. QED  BY Zenon, <4>1, <5>1 DEF InList, k, a
      <4>. QED  BY Zenon, <4>2, <4>3
    <3>4. tremove \subseteq tremove'
      BY Zenon, <3>1
    <3>. HIDE DEF l
    <3>. QED  BY Zenon, <1>0, <2>4, <3>1, <3>3, <3>4 DEF NoOrphan
  <2>. QED  BY Zenon, <2>3, <2>4
<1>4. CASE TrimPost
  <2>1. PICK p \in tremove : posts' = posts \ {p} /\ tremove' = tremove \ {p}
    BY Zenon, <1>4 DEF TrimPost
  <2>2. lists' = lists /\ tpc' = tpc
    BY Zenon, <1>4 DEF TrimPost
  <2>. QED  BY Zenon, <1>0, <2>1, <2>2 DEF NoOrphan, InList
<1>5. CASE ~SortAll /\ ~TrimTombs /\ ~(\E u \in tusers : TrimUser(u)) /\ ~TrimPost
  <2>1. lists' = lists /\ tremove' = tremove /\ (tpc' # "dead" => tpc # "dead")
    BY Zenon, <1>5 DEF Main, Recv, StartTrim, TrimStart, TrimStep, TrimTombstone, EndTrim, TrimNext,
       StartPurge, Purge, BecomeReady, storeVars, trimVars
  <2>. QED  BY Zenon, <1>0, <2>1, PlacedStays
<1>. QED  BY Zenon, <1>1, <1>2, <1>3, <1>4, <1>5

\* NoOrphan: every post in posts is in its author's list, where the trimmer will find
\* it, or a thread of insert_posts or the trimmer is about to list or to remove it.
THEOREM NothingOrphaned == Spec => []NoOrphan
<1>1. Init => NoOrphan
  BY Zenon DEF Init, NoOrphan
<1>2. ASSUME TypeOK, NoOrphan, [Next]_vars PROVE NoOrphan'
  <2>1. ASSUME NEW w \in Worker, Listen(w) PROVE NoOrphan'
    <3>1. CASE BatchStep(w)
      BY Zenon, <1>2, <3>1, PlacedBatch
    <3>2. CASE ~BatchStep(w)
      <4>1. /\ UNCHANGED <<posts, lists, cur, evicted, tremove, tpc>>
            /\ \A v \in Worker : pc[v] = "push" => pc'[v] = "push"
        BY Zenon, <1>2, <2>1, <3>2 DEF Listen, Poll, Acquire, StartBatch, EndBatch, Signal, storeVars,
           trimVars, TypeOK, WorkTypeOK
      <4>. QED  BY Zenon, <1>2, <4>1, PlacedStays
    <3>. QED  BY Zenon, <3>1, <3>2
  <2>2. CASE Tick \/ \E w \in Worker : Produce(w)
    BY Zenon, <1>2, <2>2, EnvFrame, PlacedStays DEF storeVars, workVars, trimVars
  <2>3. CASE Main
    BY Zenon, <1>2, <2>3, PlacedMain
  <2>4. CASE UNCHANGED vars
    BY Zenon, <1>2, <2>4, PlacedStays DEF vars, storeVars, workVars, trimVars
  <2>. QED  BY Zenon, <1>2, <2>1, <2>2, <2>3, <2>4 DEF Next
<1>. QED  BY TypeCorrect, <1>1, <1>2, PTL DEF Spec

-----------------------------------------------------------------------------
(* A post leaves posts for its age, for a full list or for a delete *)

\* What insert_posts is about to store and to list was not created in the future.
Past ==
  \A w \in Worker :
    /\ \A c \in creates[w] : Attr[c.id].created <= now
    /\ pc[w] \in {"insert", "push", "video"} => Attr[cur[w]].created <= now

\* No list is longer than MAX_POSTING_LIST_SIZE, so that the trimmer pops for age
\* alone, and each entry bears its post's time of creation.
WellListed(l) ==
  /\ Len(l) <= MaxList
  /\ \A i \in DOMAIN l : l[i].at = Attr[l[i].id].created /\ l[i].at <= now

ListsFit == \A k \in Kind, u \in User : WellListed(lists[k][u])

\* Whoever is about to take a post out of posts has a reason for it on record.
Reasons ==
  /\ ~TrimStalls /\ tpc \in {"tombs", "lists"} => tnow = now
  /\ \A p \in tremove : TooOld(p)
  /\ \A w \in Worker : evicted[w] \subseteq squeezed
  /\ deleted \subseteq applied

HeldInv == Past /\ ListsFit /\ Reasons /\ RecentPostsHeld

LEMMA HeldInit == Init => HeldInv
<1>. SUFFICES ASSUME Init PROVE HeldInv
  BY Zenon
<1>1. Past
  BY Zenon DEF Init, Past
<1>2. ListsFit
  <2>. SUFFICES ASSUME NEW k \in Kind, NEW u \in User PROVE WellListed(lists[k][u])
    BY Zenon DEF ListsFit
  <2>1. lists[k][u] = <<>>
    BY Zenon DEF Init
  <2>. QED  BY <2>1, StoreAssumption DEF WellListed
<1>3. Reasons /\ RecentPostsHeld
  BY Zenon DEF Init, Reasons, RecentPostsHeld
<1>. QED  BY Zenon, <1>1, <1>2, <1>3 DEF HeldInv

\* insert_posts refuses what is not in the past, and time goes on.
LEMMA PastStep ==
  ASSUME TypeOK, Past, [Next]_vars
  PROVE  Past'
<1>. USE DEF TypeOK
<1>0. now \in Nat /\ \A p \in Post : Attr[p].created \in Nat
  BY Zenon, StoreAssumption DEF StoreTypeOK, AttrType
<1>1. ASSUME now' = now, \A v \in Worker : creates'[v] \subseteq creates[v],
             \A v \in Worker : pc'[v] \in {"insert", "push", "video"} =>
                                 pc[v] \in {"insert", "push", "video"} /\ cur'[v] = cur[v]
      PROVE  Past'
  BY Zenon, <1>1 DEF Past
<1>2. ASSUME NEW w \in Worker, Listen(w) PROVE Past'
  <2>0. now' = now
    BY Zenon, <1>2, BatchFrame DEF Listen, Poll, Acquire, StartBatch, EndBatch, Signal
  <2>1. CASE StartBatch(w)
    <3>1. \/ creates' = creates /\ pc' = [pc EXCEPT ![w] = "done"]
          \/ /\ \E cs : creates' = [creates EXCEPT ![w] = Retain(cs)]
             /\ pc' = [pc EXCEPT ![w] = "check"]
      BY Zenon, <2>1 DEF StartBatch
    <3>2. \A v \in Worker : pc'[v] \in {"insert", "push", "video"} => pc'[v] = pc[v]
      BY Zenon, <3>1 DEF WorkTypeOK
    <3>3. cur' = cur
      BY Zenon, <2>1 DEF StartBatch
    <3>4. ASSUME NEW v \in Worker, NEW c \in creates'[v] PROVE Attr[c.id].created <= now
      <4>1. CASE creates'[v] = creates[v]
        BY Zenon, <3>4, <4>1 DEF Past
      <4>2. CASE creates'[v] # creates[v]
        <5>0. PICK cs : creates' = [creates EXCEPT ![w] = Retain(cs)]
          BY Zenon, <3>1, <4>2
        <5>1. creates'[v] = Retain(cs)
          BY Zenon, <4>2, <5>0 DEF WorkTypeOK
        <5>2. Attr[c.id].created < now
          BY Zenon, <3>4, <5>1 DEF Retain, Accepts
        <5>3. c \in Create
          BY Zenon, <1>2, <3>4, TypeListen DEF WorkTypeOK
        <5>4. Attr[c.id].created \in Nat
          BY Zenon, <1>0, <5>3 DEF Create
        <5>. QED  BY <1>0, <5>2, <5>4
      <4>. QED  BY Zenon, <4>1, <4>2
    <3>. QED  BY Zenon, <2>0, <3>2, <3>3, <3>4 DEF Past
  <2>2. CASE CheckDeleted(w)
    <3>1. PICK c \in creates[w] : /\ creates' = [creates EXCEPT ![w] = @ \ {c}]
                                  /\ \/ UNCHANGED <<pc, cur>>
                                     \/ /\ pc'  = [pc EXCEPT ![w] = "insert"]
                                        /\ cur' = [cur EXCEPT ![w] = c.id]
      BY Zenon, <2>2 DEF CheckDeleted
    <3>2. \A v \in Worker : creates'[v] \subseteq creates[v]
      BY Zenon, <3>1 DEF WorkTypeOK
    <3>3. ASSUME NEW v \in Worker, pc'[v] \in {"insert", "push", "video"}
          PROVE  Attr[cur'[v]].created <= now
      <4>1. CASE pc'[v] = pc[v] /\ cur'[v] = cur[v]
        BY Zenon, <3>3, <4>1 DEF Past
      <4>2. CASE v = w /\ cur'[v] = c.id
        BY Zenon, <3>1, <4>2 DEF Past
      <4>. QED  BY Zenon, <3>1, <4>1, <4>2 DEF WorkTypeOK
    <3>. QED  BY Zenon, <2>0, <3>2, <3>3 DEF Past
  <2>3. CASE BatchStep(w) /\ ~CheckDeleted(w)
    <3>1. UNCHANGED <<creates, cur>>
      BY Zenon, <2>3 DEF BatchStep, StorePost, PushPrimary, PushVideo, RemoveEvicted, InsertsDone,
            RemovePost, Bury, PushTomb, DeletesDone
    <3>2. pc'[w] \in {"push", "video", "insert"} => pc[w] \in {"insert", "push", "video"}
      BY Zenon, <2>3 DEF BatchStep, StorePost, PushPrimary, PushVideo, RemoveEvicted, InsertsDone,
            RemovePost, Bury, PushTomb, DeletesDone, WorkTypeOK
    <3>3. \A v \in Worker \ {w} : pc'[v] = pc[v]
      BY Zenon, <2>3, BatchFrame
    <3>. QED  BY Zenon, <1>1, <2>0, <3>1, <3>2, <3>3
  <2>4. CASE ~BatchStep(w) /\ ~StartBatch(w)
    <3>1. UNCHANGED <<creates, cur>>
      BY Zenon, <1>2, <2>4 DEF Listen, Poll, Acquire, EndBatch, Signal
    <3>2. \A v \in Worker : pc'[v] \in {"insert", "push", "video"} => pc'[v] = pc[v]
      BY Zenon, <1>2, <2>4 DEF Listen, Poll, Acquire, EndBatch, Signal, WorkTypeOK, AfterBatch
    <3>. QED  BY Zenon, <1>1, <2>0, <3>1, <3>2
  <2>. QED  BY Zenon, <2>1, <2>2, <2>3, <2>4
<1>3. CASE Tick
  <2>1. now' = now + 1 /\ UNCHANGED <<pc, creates, cur>>
    BY Zenon, <1>3 DEF Tick, workVars
  <2>2. ASSUME NEW x \in Nat, x <= now PROVE x <= now'
    BY <1>0, <2>1, <2>2
  <2>3. \A v \in Worker : /\ \A c \in creates[v] : Attr[c.id].created \in Nat
                          /\ pc[v] \in {"insert", "push", "video"} => Attr[cur[v]].created \in Nat
    <3>1. \A v \in Worker : creates[v] \subseteq Create
      BY Zenon DEF WorkTypeOK
    <3>2. \A v \in Worker : pc[v] \in {"insert", "push", "video"} => cur[v] \in Post
      BY Zenon DEF WorkTypeOK
    <3>. QED  BY Zenon, <1>0, <3>1, <3>2 DEF Create
  <2>. QED  BY Zenon, <2>1, <2>2, <2>3 DEF Past
<1>4. CASE Main
  BY Zenon, <1>1, <1>4, MainFrame DEF workVars
<1>5. CASE \E w \in Worker : Produce(w)
  BY Zenon, <1>1, <1>5 DEF Produce, workVars
<1>6. CASE UNCHANGED vars
  BY Zenon, <1>1, <1>6 DEF vars, workVars
<1>. QED  BY Zenon, <1>2, <1>3, <1>4, <1>5, <1>6 DEF Next

\* A list stays well formed when insert_posts adds to it.
LEMMA PushFits ==
  ASSUME NEW l \in Seq(Tiny), NEW x \in Tiny, WellListed(l), x.at = Attr[x.id].created, x.at <= now
  PROVE  WellListed(Push(l, x))
<1>1. /\ Len(Push(l, x)) <= MaxList
      /\ \A i \in DOMAIN Push(l, x) : Push(l, x)[i] = x \/ \E j \in DOMAIN l : Push(l, x)[i] = l[j]
  BY Zenon, PushEntries
<1>. QED  BY Zenon, <1>1 DEF WellListed

\* So does a list that holds no other entries and is not longer.
LEMMA FewerFit ==
  ASSUME NEW l \in Seq(Tiny), NEW s \in Seq(Tiny), WellListed(l), Len(s) <= Len(l),
         \A i \in DOMAIN s : \E j \in DOMAIN l : s[i] = l[j]
  PROVE  WellListed(s)
<1>1. Len(s) \in Nat /\ Len(l) \in Nat /\ MaxList \in Nat
  BY Zenon, SeqPlaces, StoreAssumption
<1>2. Len(l) <= MaxList
  BY Zenon DEF WellListed
<1>3. Len(s) <= MaxList
  BY <1>1, <1>2
<1>. QED  BY Zenon, <1>3 DEF WellListed

LEMMA TrimFits ==
  ASSUME NEW l \in Seq(Tiny), WellListed(l)
  PROVE  WellListed(Rest(l, MaxList)) /\ WellListed(LeftByPanic(l, MaxList))
<1>1. PICK n : n = MaxList
  BY Zenon
<1>2. /\ Len(Rest(l, n)) <= Len(l) /\ Len(LeftByPanic(l, n)) <= Len(l)
  BY Zenon, PoppedOrKept
<1>3. /\ Rest(l, n) \in Seq(Tiny)
      /\ \A i \in DOMAIN Rest(l, n) : \E j \in DOMAIN l : Rest(l, n)[i] = l[j]
  BY TrimTypes
<1>4. /\ LeftByPanic(l, n) \in Seq(Tiny)
      /\ \A i \in DOMAIN LeftByPanic(l, n) : \E j \in DOMAIN l : LeftByPanic(l, n)[i] = l[j]
  BY TrimTypes
<1>5. WellListed(Rest(l, n))
  BY Zenon, <1>2, <1>3, FewerFit
<1>6. WellListed(LeftByPanic(l, n))
  BY Zenon, <1>2, <1>4, FewerFit
<1>. QED  BY Zenon, <1>1, <1>5, <1>6

LEMMA SortFits ==
  ASSUME NEW l \in Seq(Tiny), WellListed(l), NEW s \in SortsOf(l)
  PROVE  WellListed(s)
<1>1. s \in Seq(Tiny) /\ \A i \in DOMAIN s : \E j \in DOMAIN l : s[i] = l[j]
  BY Zenon, SortTypes
<1>2. Len(s) = Len(l)
  BY Zenon, SortEntries
<1>3. Len(s) <= Len(l)
  BY <1>2, SeqPlaces
<1>. QED  BY Zenon, <1>1, <1>3, FewerFit

LEMMA ListsFitStep ==
  ASSUME TypeOK, Past, ListsFit, [Next]_vars
  PROVE  ListsFit'
<1>. USE DEF TypeOK
<1>0. \A k \in Kind, u \in User : lists[k][u] \in Seq(Tiny) /\ WellListed(lists[k][u])
  BY Zenon DEF StoreTypeOK, ListsFit
<1>1. ASSUME now' = now, \A k \in Kind, u \in User : WellListed(lists'[k][u])
      PROVE  ListsFit'
  BY Zenon, <1>1 DEF ListsFit, WellListed
<1>2. ASSUME now' = now, NEW k \in Kind, NEW u \in User, NEW l, WellListed(l),
             lists' = [lists EXCEPT ![k][u] = l]
      PROVE  ListsFit'
  <2>1. \A j \in Kind, v \in User : lists'[j][v] = l \/ lists'[j][v] = lists[j][v]
    BY Zenon, <1>2 DEF StoreTypeOK
  <2>. QED  BY Zenon, <1>0, <1>1, <1>2, <2>1
<1>3. ASSUME now' = now, lists' = lists PROVE ListsFit'
  BY Zenon, <1>0, <1>1, <1>3
<1>4. ASSUME NEW w \in Worker, NEW k \in Kind, PushTo(w, k), pc[w] \in {"push", "video"}, now' = now
      PROVE  ListsFit'
  <2>. DEFINE q == cur[w]
              u == Attr[q].author
              l == lists[k][u]
              x == TinyPost(q)
  <2>1. q \in Post /\ Attr[q].created <= now
    BY Zenon, <1>4 DEF WorkTypeOK, Past
  <2>2. u \in User /\ x \in Tiny /\ x.at = Attr[x.id].created /\ x.at <= now
    BY Zenon, <2>1, StoreAssumption DEF AttrType, TinyPost, Tiny
  <2>3. lists' = [lists EXCEPT ![k][u] = Push(l, x)]
    BY Zenon, <1>4 DEF PushTo
  <2>4. l \in Seq(Tiny) /\ WellListed(l)
    BY Zenon, <1>0, <2>2
  <2>. HIDE DEF u, l, x
  <2>5. WellListed(Push(l, x))
    BY Zenon, <2>2, <2>4, PushFits
  <2>. QED  BY Zenon, <1>2, <1>4, <2>2, <2>3, <2>5
<1>5. ASSUME NEW w \in Worker, Listen(w) PROVE ListsFit'
  <2>0. now' = now
    BY Zenon, <1>5, BatchFrame DEF Listen, Poll, Acquire, StartBatch, EndBatch, Signal
  <2>1. CASE PushPrimary(w)
    <3>1. Primary(cur[w]) \in Kind /\ PushTo(w, Primary(cur[w])) /\ pc[w] = "push"
      BY Zenon, <2>1 DEF PushPrimary, Primary, Kind
    <3>. QED  BY Zenon, <1>4, <2>0, <3>1
  <2>2. CASE PushVideo(w)
    <3>1. "video" \in Kind /\ (PushTo(w, "video") \/ lists' = lists) /\ pc[w] = "video"
      BY Zenon, <2>2 DEF PushVideo, Kind
    <3>. QED  BY Zenon, <1>3, <1>4, <2>0, <3>1
  <2>3. CASE ~PushPrimary(w) /\ ~PushVideo(w)
    <3>1. lists' = lists
      <4>1. CASE BatchStep(w)
        BY Zenon, <2>3, <4>1 DEF BatchStep, CheckDeleted, StorePost, RemoveEvicted, InsertsDone, RemovePost,
              Bury, PushTomb, DeletesDone, storeVars
      <4>2. CASE ~BatchStep(w)
        BY Zenon, <1>5, <4>2 DEF Listen, Poll, Acquire, StartBatch, EndBatch, Signal, storeVars
      <4>. QED  BY Zenon, <4>1, <4>2
    <3>. QED  BY Zenon, <1>3, <2>0, <3>1
  <2>. QED  BY Zenon, <2>1, <2>2, <2>3
<1>6. CASE Main
  <2>0. now' = now
    BY Zenon, <1>6, MainFrame
  <2>1. CASE SortAll
    <3>1. \A k \in Kind, u \in User : lists'[k][u] \in SortsOf(lists[k][u])
      BY Zenon, <2>1 DEF SortAll
    <3>2. ASSUME NEW k \in Kind, NEW u \in User PROVE WellListed(lists'[k][u])
      BY Zenon, <1>0, <3>1, SortFits
    <3>. QED  BY Zenon, <1>1, <2>0, <3>2
  <2>2. CASE \E u \in tusers : TrimUser(u)
    <3>1. PICK u \in tusers : TrimUser(u)
      BY Zenon, <2>2
    <3>. DEFINE l == lists[tkind][u]
    <3>2. u \in User /\ tkind \in Kind
      BY Zenon DEF TrimTypeOK
    <3>3. \/ lists' = [lists EXCEPT ![tkind][u] = Rest(l, MaxList)]
          \/ lists' = [lists EXCEPT ![tkind][u] = LeftByPanic(l, MaxList)]
      BY Zenon, <3>1 DEF TrimUser
    <3>4. l \in Seq(Tiny) /\ WellListed(l)
      BY Zenon, <1>0, <3>2
    <3>. HIDE DEF l
    <3>5. WellListed(Rest(l, MaxList)) /\ WellListed(LeftByPanic(l, MaxList))
      BY Zenon, <3>4, TrimFits
    <3>. QED  BY Zenon, <1>2, <2>0, <3>2, <3>3, <3>5
  <2>3. CASE ~SortAll /\ ~(\E u \in tusers : TrimUser(u))
    <3>1. lists' = lists
      BY Zenon, <1>6, <2>3 DEF Main, Recv, StartTrim, TrimStart, TrimStep, TrimTombs, TrimPanic, TrimPost,
            TrimTombstone, EndTrim, TrimNext, StartPurge, Purge, BecomeReady, storeVars
    <3>. QED  BY Zenon, <1>3, <2>0, <3>1
  <2>. QED  BY Zenon, <2>1, <2>2, <2>3
<1>7. CASE Tick
  <2>1. now' = now + 1 /\ lists' = lists /\ now \in Nat
    BY Zenon, <1>7 DEF Tick, storeVars, StoreTypeOK
  <2>2. ASSUME NEW x \in Nat, x <= now PROVE x <= now'
    BY <2>1, <2>2
  <2>3. ASSUME NEW k \in Kind, NEW u \in User, NEW i \in DOMAIN lists[k][u]
        PROVE  lists[k][u][i].at \in Nat
    <3>1. lists[k][u] \in Seq(Tiny)
      BY Zenon, <1>0
    <3>2. lists[k][u][i] \in Tiny
      BY Zenon, <2>3, <3>1, SeqPlaces, SeqEntry
    <3>. QED  BY Zenon, <3>2 DEF Tiny
  <2>. QED  BY Zenon, <2>1, <2>2, <2>3 DEF ListsFit, WellListed
<1>8. CASE \E w \in Worker : Produce(w)
  BY Zenon, <1>3, <1>8 DEF Produce, storeVars
<1>9. CASE UNCHANGED vars
  BY Zenon, <1>3, <1>9 DEF vars, storeVars
<1>. QED  BY Zenon, <1>5, <1>6, <1>7, <1>8, <1>9 DEF Next

\* What trim_old_posts takes from a list of the author's is too old by then.
LEMMA PoppedListIsOld ==
  ASSUME NoWrap, TypeOK, Reasons, tpc = "lists", NEW l \in Seq(Tiny), WellListed(l),
         Underflows(l, MaxList) = {}, NEW p \in Popped(l, MaxList)
  PROVE  TooOld(p)
<1>1. now \in Nat /\ tnow \in Nat /\ tnow <= now /\ MaxList \in Nat
  BY Zenon, StoreAssumption DEF TypeOK, StoreTypeOK, TrimTypeOK
<1>2. Len(l) \in Nat /\ DOMAIN l = 1..Len(l) /\ \A i \in 1..Len(l) : l[i] \in Tiny
  BY Zenon, SeqPlaces, SeqEntry
<1>3. PICK i \in Prefix(l, MaxList) : p = l[i].id
  BY Zenon DEF Popped
<1>4. i \in 1..Len(l) /\ (Len(l) - i + 1 > MaxList \/ Stale(l[i]))
  BY <1>2, <1>3 DEF Prefix
<1>5. Len(l) <= MaxList /\ l[i].at = Attr[p].created /\ l[i].at <= now
  BY Zenon, <1>2, <1>3, <1>4 DEF WellListed
<1>6. Len(l) - i + 1 <= MaxList /\ Stale(l[i])
  BY <1>1, <1>2, <1>4, <1>5
<1>7. l[i].at \in Nat
  BY Zenon, <1>2, <1>4 DEF Tiny
<1>8. l[i].at <= tnow
  <2>1. CASE OverflowChecks
    <3>1. i \notin Underflows(l, MaxList)
      BY Zenon
    <3>. QED  BY <1>1, <1>3, <1>6, <1>7, <2>1, <3>1 DEF Underflows
  <2>2. CASE ~TrimStalls
    BY Zenon, <1>5, <2>2 DEF Reasons
  <2>. QED  BY Zenon, <2>1, <2>2 DEF NoWrap
<1>9. tnow - l[i].at > Retention
  BY <1>1, <1>6, <1>7, <1>8 DEF Stale
<1>10. now - l[i].at > Retention
  BY <1>1, <1>7, <1>9, StoreAssumption
<1>. QED  BY Zenon, <1>5, <1>10 DEF TooOld

\* Time only makes a post older.
LEMMA OlderStill ==
  ASSUME TypeOK, Tick, NEW p \in Post, TooOld(p)
  PROVE  TooOld(p)'
<1>1. now \in Nat /\ now' = now + 1 /\ Attr[p].created \in Nat /\ Retention \in Nat
  BY Zenon, StoreAssumption DEF TypeOK, StoreTypeOK, Tick, AttrType
<1>. QED  BY <1>1 DEF TooOld

LEMMA ReasonsStep ==
  ASSUME NoWrap, TypeOK, TombStamps, AgeInv, ListsFit, Reasons, [Next]_vars
  PROVE  Reasons'
<1>. USE DEF TypeOK
<1>1. ASSUME now' = now, tremove' \subseteq tremove, UNCHANGED <<evicted, squeezed>>,
             deleted' \subseteq deleted, applied \subseteq applied',
             tpc' \in {"tombs", "lists"} => tnow' = now \/ (tpc \in {"tombs", "lists"} /\ tnow' = tnow)
      PROVE  Reasons'
  BY Zenon, <1>1 DEF Reasons, TooOld
<1>2. ASSUME NEW w \in Worker, Listen(w) PROVE Reasons'
  <2>0. now' = now /\ UNCHANGED trimVars
    BY Zenon, <1>2, BatchFrame DEF Listen, Poll, Acquire, StartBatch, EndBatch, Signal
  <2>1. CASE Bury(w)
    <3>1. PICK d \in dels[w] : deleted' = deleted \cup {d.id} /\ applied' = applied \cup {d.id}
      BY Zenon, <2>1 DEF Bury
    <3>2. UNCHANGED <<evicted, squeezed>>
      BY Zenon, <2>1 DEF Bury
    <3>. QED  BY Zenon, <2>0, <3>1, <3>2 DEF Reasons, TooOld, trimVars
  <2>2. ASSUME NEW k, PushTo(w, k), UNCHANGED <<deleted, applied>> PROVE Reasons'
    <3>1. PICK l : /\ evicted' = [evicted EXCEPT ![w] = @ \cup PushedOut(l)]
                   /\ squeezed' = squeezed \cup PushedOut(l)
      BY Zenon, <2>2 DEF PushTo, ToRemove
    <3>2. \A v \in Worker : evicted'[v] \subseteq evicted[v] \cup PushedOut(l)
      BY Zenon, <3>1 DEF WorkTypeOK
    <3>3. \A v \in Worker : evicted'[v] \subseteq squeezed'
      BY Zenon, <3>1, <3>2 DEF Reasons
    <3>. QED  BY Zenon, <2>0, <2>2, <3>3 DEF Reasons, TooOld, trimVars
  <2>3. CASE PushPrimary(w)
    BY Zenon, <2>2, <2>3 DEF PushPrimary
  <2>4. ASSUME UNCHANGED <<deleted, applied, squeezed>>, \A v \in Worker : evicted'[v] \subseteq evicted[v]
        PROVE  Reasons'
    BY Zenon, <2>0, <2>4 DEF Reasons, TooOld, trimVars
  <2>5. CASE PushVideo(w)
    <3>1. PushTo(w, "video") \/ UNCHANGED <<evicted, squeezed>>
      BY Zenon, <2>5 DEF PushVideo
    <3>2. UNCHANGED <<deleted, applied>>
      BY Zenon, <2>5 DEF PushVideo
    <3>. QED  BY Zenon, <2>2, <2>4, <3>1, <3>2
  <2>6. CASE RemoveEvicted(w)
    <3>0. \E p \in evicted[w] : evicted' = [evicted EXCEPT ![w] = @ \ {p}]
      BY Zenon, <2>6 DEF RemoveEvicted
    <3>1. \A v \in Worker : evicted'[v] \subseteq evicted[v]
      BY Zenon, <3>0 DEF WorkTypeOK
    <3>. QED  BY Zenon, <2>4, <2>6, <3>1 DEF RemoveEvicted, histVars
  <2>7. CASE ~Bury(w) /\ ~PushPrimary(w) /\ ~PushVideo(w) /\ ~RemoveEvicted(w)
    <3>1. UNCHANGED <<deleted, applied, squeezed, evicted>>
      <4>1. CASE BatchStep(w)
        BY Zenon, <2>7, <4>1 DEF BatchStep, CheckDeleted, StorePost, InsertsDone, RemovePost, PushTomb,
              DeletesDone, storeVars, histVars
      <4>2. CASE ~BatchStep(w)
        BY Zenon, <1>2, <4>2 DEF Listen, Poll, Acquire, StartBatch, EndBatch, Signal, storeVars, histVars
      <4>. QED  BY Zenon, <4>1, <4>2
    <3>. QED  BY Zenon, <2>4, <3>1
  <2>. QED  BY Zenon, <2>1, <2>3, <2>5, <2>6, <2>7
<1>3. CASE Main
  <2>0. /\ now' = now /\ deleted' \subseteq deleted
        /\ UNCHANGED <<applied, squeezed, evicted>>
    BY Zenon, <1>3, MainFrame DEF histVars, workVars
  <2>1. ASSUME NEW P, \A p \in P : TooOld(p), tremove' \subseteq tremove \cup P, tnow' = tnow,
               tpc' \in {"tombs", "lists"} => tpc \in {"tombs", "lists"}
        PROVE  Reasons'
    <3>1. \A p \in tremove' : TooOld(p)'
      BY Zenon, <2>0, <2>1 DEF Reasons, TooOld
    <3>. QED  BY Zenon, <2>0, <2>1, <3>1 DEF Reasons
  <2>2. CASE TrimTombs
    <3>1. CASE Underflows(tombs, Len(tombs)) # {}
      BY Zenon, <1>1, <2>0, <2>2, <3>1 DEF TrimTombs, TrimPanic
    <3>2. CASE Underflows(tombs, Len(tombs)) = {}
      <4>1. \A p \in Popped(tombs, Len(tombs)) : TooOld(p)
        BY Zenon, <2>2, <3>2, PoppedIsOld
      <4>2. /\ tremove' \subseteq tremove \cup Popped(tombs, Len(tombs)) /\ tnow' = tnow
            /\ tpc \in {"tombs", "lists"}
        BY Zenon, <2>2, <3>2 DEF TrimTombs
      <4>. QED  BY Zenon, <2>1, <4>1, <4>2
    <3>. QED  BY Zenon, <3>1, <3>2
  <2>3. CASE \E u \in tusers : TrimUser(u)
    <3>1. PICK u \in tusers : TrimUser(u)
      BY Zenon, <2>3
    <3>. DEFINE l == lists[tkind][u]
    <3>2. l \in Seq(Tiny) /\ WellListed(l) /\ tpc = "lists"
      BY Zenon, <3>1 DEF TrimTypeOK, StoreTypeOK, ListsFit, TrimUser
    <3>3. CASE Underflows(l, MaxList) # {}
      BY Zenon, <1>1, <2>0, <3>1, <3>3 DEF TrimUser, TrimPanic
    <3>4. CASE Underflows(l, MaxList) = {}
      <4>1. tremove' \subseteq tremove \cup Popped(l, MaxList) /\ tnow' = tnow
        BY Zenon, <3>1, <3>4 DEF TrimUser
      <4>. HIDE DEF l
      <4>2. \A p \in Popped(l, MaxList) : TooOld(p)
        BY Zenon, <3>2, <3>4, PoppedListIsOld
      <4>. QED  BY Zenon, <2>1, <3>2, <4>1, <4>2
    <3>. QED  BY Zenon, <3>3, <3>4
  <2>4. CASE ~TrimTombs /\ ~(\E u \in tusers : TrimUser(u))
    <3>1. tremove' \subseteq tremove
      BY Zenon, <1>3, <2>4 DEF Main, Recv, SortAll, StartTrim, TrimStart, TrimStep, TrimPost, TrimTombstone,
            EndTrim, TrimNext, StartPurge, Purge, BecomeReady, trimVars
    <3>2. tpc' \in {"tombs", "lists"} => tnow' = now \/ (tpc \in {"tombs", "lists"} /\ tnow' = tnow)
      BY Zenon, <1>3, <2>4 DEF Main, Recv, SortAll, StartTrim, TrimStart, TrimStep, TrimPost, TrimTombstone,
            EndTrim, TrimNext, StartPurge, Purge, BecomeReady, trimVars
    <3>. QED  BY Zenon, <1>1, <2>0, <3>1, <3>2
  <2>. QED  BY Zenon, <2>2, <2>3, <2>4
<1>4. CASE Tick
  <2>1. /\ UNCHANGED <<tremove, tpc, tnow, evicted, squeezed, applied, deleted>>
        /\ TrimStalls \/ tpc = "idle"
    BY Zenon, <1>4 DEF Tick, storeVars, workVars, trimVars, histVars
  <2>2. \A p \in tremove : TooOld(p)'
    BY Zenon, <1>4, OlderStill DEF Reasons, TrimTypeOK
  <2>. QED  BY Zenon, <2>1, <2>2 DEF Reasons
<1>5. CASE \E w \in Worker : Produce(w)
  BY Zenon, <1>1, <1>5 DEF Produce, storeVars, workVars, trimVars, histVars
<1>6. CASE UNCHANGED vars
  BY Zenon, <1>1, <1>6 DEF vars, storeVars, workVars, trimVars, histVars
<1>. QED  BY Zenon, <1>2, <1>3, <1>4, <1>5, <1>6 DEF Next

\* A delete under way stays under way until it is in deleted_posts.
LEMMA DeletingGoesOn ==
  ASSUME TypeOK, OneNext, [Next]_vars, NEW p \in Post, Deleting(p)
  PROVE  Deleting(p)' \/ p \in applied'
<1>0. PICK v \in Worker : pc[v] = "bury" /\ \E d \in dels[v] : IsNextDelete(v, d) /\ d.id = p
  BY Zenon DEF Deleting
<1>1. PICK d \in dels[v] : IsNextDelete(v, d) /\ d.id = p
  BY Zenon, <1>0
<1>2. CASE pc'[v] = pc[v] /\ dels'[v] = dels[v]
  <2>1. d \in dels'[v] /\ IsNextDelete(v, d)'
    BY Zenon, <1>1, <1>2 DEF IsNextDelete
  <2>. QED  BY Zenon, <1>0, <1>1, <1>2, <2>1 DEF Deleting
<1>3. CASE Bury(v)
  <2>1. PICK e \in dels[v] : IsNextDelete(v, e) /\ applied' = applied \cup {e.id}
    BY Zenon, <1>3 DEF Bury
  <2>2. d.off \in Nat /\ e.off \in Nat /\ d.off <= e.off /\ e.off <= d.off
    <3>1. dels[v] \subseteq Delete
      BY Zenon DEF TypeOK, WorkTypeOK
    <3>2. \A x \in Delete : x.off \in Nat
      BY DEF Delete
    <3>3. d.off <= e.off /\ e.off <= d.off
      BY Zenon, <1>1, <2>1 DEF IsNextDelete
    <3>. QED  BY Zenon, <3>1, <3>2, <3>3
  <2>3. d.off = e.off
    BY <2>2
  <2>4. d = e
    BY Zenon, <1>1, <2>1, <2>3 DEF OneNext
  <2>. QED  BY Zenon, <1>1, <2>1, <2>4
<1>4. CASE ~Bury(v)
  <2>1. ASSUME NEW w \in Worker, Listen(w) PROVE pc'[v] = pc[v] /\ dels'[v] = dels[v]
    <3>1. CASE BatchStep(w)
      <4>1. CASE v = w
        BY Zenon, <1>0, <1>4, <3>1, <4>1 DEF BatchStep, CheckDeleted, StorePost, PushPrimary, PushVideo,
              RemoveEvicted, InsertsDone, RemovePost, PushTomb, DeletesDone
      <4>2. CASE v # w
        BY Zenon, <3>1, <4>2, BatchFrame
      <4>. QED  BY Zenon, <4>1, <4>2
    <3>2. CASE ~BatchStep(w)
      <4>1. pc[w] \in {"poll", "acquire", "start", "done", "signal"}
        BY Zenon, <2>1, <3>2 DEF Listen, Poll, Acquire, StartBatch, EndBatch, Signal
      <4>2. v # w
        BY Zenon, <1>0, <4>1
      <4>3. \E x : pc' = [pc EXCEPT ![w] = x]
        BY Zenon, <2>1, <3>2 DEF Listen, Poll, Acquire, StartBatch, EndBatch, Signal
      <4>4. dels' = dels \/ \E x : dels' = [dels EXCEPT ![w] = x]
        BY Zenon, <2>1, <3>2 DEF Listen, Poll, Acquire, StartBatch, EndBatch, Signal
      <4>. QED  BY Zenon, <4>2, <4>3, <4>4 DEF TypeOK, WorkTypeOK
    <3>. QED  BY Zenon, <3>1, <3>2
  <2>2. CASE \E w \in Worker : Listen(w)
    BY Zenon, <1>2, <2>1, <2>2
  <2>3. CASE ~(\E w \in Worker : Listen(w))
    BY Zenon, <1>2, <2>3, MainFrame, EnvFrame DEF Next, vars, workVars
  <2>. QED  BY Zenon, <2>2, <2>3
<1>. QED  BY Zenon, <1>3, <1>4

\* Why a post that was taken may be missing.
Gone(p) == p \in applied \/ Deleting(p) \/ TooOld(p) \/ p \in squeezed

LEMMA GoneForGood ==
  ASSUME TypeOK, OneNext, [Next]_vars, NEW p \in Post, Gone(p)
  PROVE  Gone(p)'
<1>1. applied \subseteq applied' /\ squeezed \subseteq squeezed'
  <2>1. ASSUME NEW w \in Worker, Listen(w) PROVE applied \subseteq applied' /\ squeezed \subseteq squeezed'
    <3>1. CASE BatchStep(w)
      BY Zenon, <3>1 DEF BatchStep, CheckDeleted, StorePost, PushPrimary, PushVideo, PushTo, RemoveEvicted,
            InsertsDone, RemovePost, Bury, PushTomb, DeletesDone, histVars
    <3>2. CASE ~BatchStep(w)
      BY Zenon, <2>1, <3>2 DEF Listen, Poll, Acquire, StartBatch, EndBatch, Signal, histVars
    <3>. QED  BY Zenon, <3>1, <3>2
  <2>. QED  BY Zenon, <2>1, MainFrame, EnvFrame DEF Next, vars, histVars
<1>2. TooOld(p) => TooOld(p)'
  <2>1. CASE Tick
    BY Zenon, <2>1, OlderStill
  <2>2. CASE ~Tick
    <3>1. now' = now
      <4>1. ASSUME NEW w \in Worker, Listen(w) PROVE now' = now
        BY Zenon, <4>1, BatchFrame DEF Listen, Poll, Acquire, StartBatch, EndBatch, Signal
      <4>2. ASSUME NEW w \in Worker, Produce(w) PROVE now' = now
        BY Zenon, <4>2 DEF Produce
      <4>. QED  BY Zenon, <2>2, <4>1, <4>2, MainFrame DEF Next, vars
    <3>. QED  BY Zenon, <3>1 DEF TooOld
  <2>. QED  BY Zenon, <2>1, <2>2
<1>3. Deleting(p) => Deleting(p)' \/ p \in applied'
  BY Zenon, DeletingGoesOn
<1>. QED  BY Zenon, <1>1, <1>2, <1>3 DEF Gone

\* Whoever takes a post out of posts has a reason.
LEMMA RemovedIsGone ==
  ASSUME TypeOK, Reasons, [Next]_vars, NEW p \in posts \ posts'
  PROVE  Gone(p) \/ Gone(p)'
<1>. USE DEF TypeOK
<1>1. ASSUME NEW w \in Worker, Listen(w) PROVE Gone(p) \/ Gone(p)'
  <2>1. CASE RemoveEvicted(w)
    <3>1. p \in evicted[w]
      BY Zenon, <2>1 DEF RemoveEvicted
    <3>. QED  BY Zenon, <3>1 DEF Reasons, Gone
  <2>2. CASE RemovePost(w)
    <3>1. PICK d \in dels[w] : IsNextDelete(w, d) /\ posts' = posts \ {d.id}
      BY Zenon, <2>2 DEF RemovePost
    <3>2. d.id = p /\ pc'[w] = "bury" /\ dels' = dels
      BY Zenon, <2>2, <3>1 DEF RemovePost, WorkTypeOK
    <3>3. d \in dels'[w] /\ IsNextDelete(w, d)'
      BY Zenon, <3>1, <3>2 DEF IsNextDelete
    <3>4. Deleting(p)'
      BY Zenon, <3>2, <3>3 DEF Deleting
    <3>. QED  BY Zenon, <3>4 DEF Gone
  <2>3. CASE ~RemoveEvicted(w) /\ ~RemovePost(w)
    <3>1. CASE BatchStep(w)
      BY Zenon, <2>3, <3>1 DEF BatchStep, CheckDeleted, StorePost, PushPrimary, PushVideo, InsertsDone, Bury,
            PushTomb, DeletesDone, storeVars
    <3>2. CASE ~BatchStep(w)
      BY Zenon, <1>1, <3>2 DEF Listen, Poll, Acquire, StartBatch, EndBatch, Signal, storeVars
    <3>. QED  BY Zenon, <3>1, <3>2
  <2>. QED  BY Zenon, <2>1, <2>2, <2>3
<1>2. CASE Main
  <2>1. CASE TrimPost
    <3>1. p \in tremove
      BY Zenon, <2>1 DEF TrimPost
    <3>. QED  BY Zenon, <3>1 DEF Reasons, Gone
  <2>2. CASE Purge
    <3>1. p \in deleted
      BY Zenon, <2>2 DEF Purge
    <3>. QED  BY Zenon, <3>1 DEF Reasons, Gone
  <2>3. CASE ~TrimPost /\ ~Purge
    BY Zenon, <1>2, <2>3 DEF Main, Recv, SortAll, StartTrim, TrimStart, TrimStep, TrimTombs, TrimUser, TrimPanic,
          TrimTombstone, EndTrim, TrimNext, StartPurge, BecomeReady, storeVars
  <2>. QED  BY Zenon, <2>1, <2>2, <2>3
<1>3. CASE Tick \/ (\E w \in Worker : Produce(w)) \/ UNCHANGED vars
  BY Zenon, <1>3, EnvFrame DEF vars, storeVars
<1>. QED  BY Zenon, <1>1, <1>2, <1>3 DEF Next

LEMMA RecentStep ==
  ASSUME TypeOK, OneNext, Reasons, RecentPostsHeld, [Next]_vars
  PROVE  RecentPostsHeld'
<1>1. accepted' \subseteq accepted \cup posts' /\ accepted \subseteq Post /\ posts \subseteq Post
  <2>1. ASSUME NEW w \in Worker, Listen(w) PROVE accepted' \subseteq accepted \cup posts'
    <3>1. CASE BatchStep(w)
      BY Zenon, <3>1 DEF BatchStep, CheckDeleted, StorePost, PushPrimary, PushVideo, RemoveEvicted, InsertsDone,
            RemovePost, Bury, PushTomb, DeletesDone, histVars
    <3>2. CASE ~BatchStep(w)
      BY Zenon, <2>1, <3>2 DEF Listen, Poll, Acquire, StartBatch, EndBatch, Signal, histVars
    <3>. QED  BY Zenon, <3>1, <3>2
  <2>2. accepted' \subseteq accepted \cup posts'
    BY Zenon, <2>1, MainFrame, EnvFrame DEF Next, vars, histVars
  <2>. QED  BY Zenon, <2>2 DEF TypeOK, StoreTypeOK
<1>2. ASSUME NEW p \in accepted' \ posts' PROVE Gone(p)'
  <2>1. p \in accepted /\ p \in Post
    BY Zenon, <1>1, <1>2
  <2>2. CASE p \in posts
    BY Zenon, <1>2, <2>1, <2>2, RemovedIsGone, GoneForGood
  <2>3. CASE p \notin posts
    <3>1. Gone(p)
      BY Zenon, <2>1, <2>3 DEF RecentPostsHeld, Gone
    <3>. QED  BY Zenon, <2>1, <3>1, GoneForGood
  <2>. QED  BY Zenon, <2>2, <2>3
<1>. QED  BY Zenon, <1>2 DEF RecentPostsHeld, Gone

\* RecentPostsHeld: what insert_posts took is in posts unless a mark_as_deleted has
\* it, it is past its retention, or a full list of its author's pushed it out; the
\* trimmer, the purge and the threads' evictions never take a post for another
\* reason, however they interleave.
THEOREM RecentHeld == ASSUME NoWrap PROVE Spec => []RecentPostsHeld
<1>1. TypeOK /\ RaceInv /\ (EventStamps /\ TombStamps /\ AgeInv) /\ HeldInv /\ [Next]_vars => HeldInv'
  <2>. SUFFICES ASSUME TypeOK, OneNext, TombStamps, AgeInv, HeldInv, [Next]_vars PROVE HeldInv'
    BY Zenon DEF RaceInv
  <2>. USE DEF HeldInv
  <2>1. Past'
    BY Zenon, PastStep
  <2>2. ListsFit'
    BY Zenon, ListsFitStep
  <2>3. Reasons'
    BY Zenon, ReasonsStep
  <2>4. RecentPostsHeld'
    BY Zenon, RecentStep
  <2>. QED  BY Zenon, <2>1, <2>2, <2>3, <2>4
<1>2. HeldInv => RecentPostsHeld
  BY Zenon DEF HeldInv
<1>. QED  BY TypeCorrect, RaceHolds, AgeHolds, HeldInit, <1>1, <1>2, PTL DEF Spec
=============================================================================
