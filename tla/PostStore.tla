------------------------------ MODULE PostStore ------------------------------
(***************************************************************************)
(* Thunder's in-memory post store (thunder/posts/post_store.rs).           *)
(*                                                                         *)
(* The store is a handful of concurrent maps that are locked one key at a  *)
(* time, so a call such as insert_posts is a sequence of small atomic      *)
(* steps and the calls of several threads interleave between them.  Each   *)
(* action below is one such step.  A worker is a thread that applies one   *)
(* batch: insert_posts on its creates, then mark_as_deleted on its         *)
(* deletes.  One more process, the trimmer, runs trim_old_posts.           *)
(*                                                                         *)
(* A post is its id; its immutable attributes are the constant Attr.       *)
(***************************************************************************)
EXTENDS Integers, Sequences, FiniteSets

CONSTANTS Worker,         \* the threads that apply batches
          Post,           \* post ids
          User,           \* author ids (numbers: the trimmer takes them mod TrimFraction)
          Attr,           \* what a create event says about each post
          NoPost,         \* "no source post"
          Retention,      \* retention_seconds
          MaxList,        \* MAX_POSTING_LIST_SIZE
          TrimFraction,   \* TRIM_FRACTION
          OverflowChecks, \* build profile: does u64 subtraction panic or wrap?
          Now0            \* the clock when the process starts

AttrType == [author: User, created: Nat, is_reply: BOOLEAN,
             is_retweet: BOOLEAN, has_video: BOOLEAN, source: Post \cup {NoPost}]

ASSUME StoreAssumption ==
  /\ User \subseteq Nat \ {0}      \* 0 is DELETE_EVENT_KEY, never an author
  /\ Attr \in [Post -> AttrType]
  /\ NoPost \notin Post
  /\ Retention \in Nat
  /\ MaxList \in Nat \ {0}
  /\ TrimFraction \in Nat \ {0}
  /\ OverflowChecks \in BOOLEAN
  /\ Now0 \in Nat

Kind == {"original", "secondary", "video"}

Tiny == [id: Post, at: Nat]                     \* TinyPost

\* An element of insert_posts' and of mark_as_deleted's argument; off is its
\* position in the argument.  A post is deleted no earlier than it is created.
Create == [off: Nat, id: Post]
Delete == {d \in [off: Nat, id: Post, at: Nat] : d.at >= Attr[d.id].created}

\* Where a worker can be while it applies a batch.
InBatch == {"start", "check", "insert", "push", "video", "evict",
            "remove", "bury", "tomb", "done"}

VARIABLES
  now,        \* the wall clock, in seconds
  posts,      \* the keys of posts
  deleted,    \* the keys of deleted_posts
  lists,      \* original_, secondary_ and video_posts_by_user
  tombs,      \* original_posts_by_user[DELETE_EVENT_KEY]
  pc,         \* where each worker is
  creates,    \* creates of the batch not yet looked at
  dels,       \* deletes of the batch not yet applied
  cur,        \* the post being inserted
  evicted,    \* posts_to_remove of the post being inserted
  tpc,        \* where the trimmer is
  tkind,      \* the map trim_map is working on
  tnow,       \* current_time of this trim
  tusers,     \* users trim_map has still to visit
  tremove,    \* posts_to_remove of trim_map
  tdel,       \* deleted_posts_to_remove of trim_map
  applied,    \* history: posts some mark_as_deleted has entered in deleted_posts
  accepted,   \* history: posts some insert_posts has entered in posts
  squeezed    \* history: posts pushed out of a full list

StoreTypeOK ==
  /\ now \in Nat
  /\ posts \subseteq Post /\ deleted \subseteq Post
  /\ lists \in [Kind -> [User -> Seq(Tiny)]] /\ tombs \in Seq(Tiny)
  /\ applied \subseteq Post /\ accepted \subseteq Post /\ squeezed \subseteq Post

WorkTypeOK ==
  /\ pc \in [Worker -> InBatch \cup {"poll", "acquire", "signal"}]
  /\ creates \in [Worker -> SUBSET Create] /\ dels \in [Worker -> SUBSET Delete]
  /\ cur \in [Worker -> Post \cup {NoPost}]
  /\ \A w \in Worker : pc[w] \in {"insert", "push", "video"} => cur[w] \in Post
  /\ evicted \in [Worker -> SUBSET Post]

TrimTypeOK ==
  /\ tpc \in {"idle", "tombs", "lists", "dead"}
  /\ tkind \in Kind
  /\ tnow \in Nat /\ tnow <= now
  /\ tusers \subseteq User /\ tremove \subseteq Post /\ tdel \subseteq Post

storeVars == <<posts, deleted, lists, tombs>>
workVars  == <<pc, creates, dels, cur, evicted>>
trimVars  == <<tpc, tkind, tnow, tusers, tremove, tdel>>
histVars  == <<applied, accepted, squeezed>>

-----------------------------------------------------------------------------
(* insert_posts *)

TooOld(p)  == now - Attr[p].created > Retention
Accepts(p) == Attr[p].created < now /\ ~TooOld(p)

\* The list a post goes to, besides the video list.
Primary(p) == IF Attr[p].is_reply \/ Attr[p].is_retweet THEN "secondary" ELSE "original"

TinyPost(p) == [id |-> p, at |-> Attr[p].created]

\* A list is cut to MaxList - 1 from the front before the push.
Overflow(l) == IF Len(l) >= MaxList THEN Len(l) - MaxList + 1 ELSE 0
Push(l, x)  == Append(SubSeq(l, Overflow(l) + 1, Len(l)), x)
PushedOut(l) == {l[i].id : i \in 1..Overflow(l)}

\* Mutant: what is pushed out of a list stays in posts.
KeepAll(l) == {}

\* posts_to_remove
ToRemove(l) == PushedOut(l)

VideoEligible(p) ==
  LET src == Attr[p].source
  IN /\ ~Attr[p].is_reply
     /\ \/ Attr[p].has_video
        \/ /\ Attr[p].is_retweet
           /\ src \in posts
           /\ ~Attr[src].is_reply /\ Attr[src].has_video

\* insert_posts: what is in the future or too old is dropped first.
Retain(cs) == {c \in cs : Accepts(c.id)}

\* Mutant: tombstones are not looked at.
NoTombstone(p) == FALSE

HasTombstone(p) == p \in deleted

\* Mutant: the previous turn's post is kept.
CheckKeepsPost(w) ==
  /\ pc[w] = "check"
  /\ \E c \in creates[w] :
       /\ creates' = [creates EXCEPT ![w] = @ \ {c}]
       /\ pc'  = [pc EXCEPT ![w] = "insert"]
  /\ UNCHANGED <<now, storeVars, cur, dels, evicted, trimVars, histVars>>

\* One turn of the loop, oldest post first: a post with a tombstone is skipped.
CheckDeleted(w) ==
  /\ pc[w] = "check"
  /\ \E c \in creates[w] :
       /\ \A d \in creates[w] : Attr[c.id].created <= Attr[d.id].created
       /\ creates' = [creates EXCEPT ![w] = @ \ {c}]
       /\ IF HasTombstone(c.id)
          THEN UNCHANGED <<pc, cur>>
          ELSE /\ pc'  = [pc EXCEPT ![w] = "insert"]
               /\ cur' = [cur EXCEPT ![w] = c.id]
  /\ UNCHANGED <<now, storeVars, dels, evicted, trimVars, histVars>>

\* posts.insert: a post that was there already is not listed again.
StorePost(w) ==
  /\ pc[w] = "insert"
  /\ posts' = posts \cup {cur[w]}
  /\ pc' = [pc EXCEPT ![w] = IF cur[w] \in posts THEN "check" ELSE "push"]
  /\ accepted' = accepted \cup {cur[w]}
  /\ UNCHANGED <<now, deleted, lists, tombs, creates, dels, cur, evicted,
                 trimVars, applied, squeezed>>

\* Append to a list of the author's, remembering what that pushes out.
PushTo(w, k) ==
  LET l == lists[k][Attr[cur[w]].author]
  IN /\ lists' = [lists EXCEPT ![k][Attr[cur[w]].author] = Push(l, TinyPost(cur[w]))]
     /\ evicted' = [evicted EXCEPT ![w] = @ \cup ToRemove(l)]
     /\ squeezed' = squeezed \cup PushedOut(l)

PushPrimary(w) ==
  /\ pc[w] = "push"
  /\ PushTo(w, Primary(cur[w]))
  /\ pc' = [pc EXCEPT ![w] = "video"]
  /\ UNCHANGED <<now, posts, deleted, tombs, creates, dels, cur, trimVars,
                 applied, accepted>>

PushVideo(w) ==
  /\ pc[w] = "video"
  /\ IF VideoEligible(cur[w]) THEN PushTo(w, "video")
                              ELSE UNCHANGED <<lists, evicted, squeezed>>
  /\ pc' = [pc EXCEPT ![w] = IF evicted'[w] = {} THEN "check" ELSE "evict"]
  /\ UNCHANGED <<now, posts, deleted, tombs, creates, dels, cur, trimVars,
                 applied, accepted>>

RemoveEvicted(w) ==
  /\ pc[w] = "evict"
  /\ \E p \in evicted[w] :
       /\ posts' = posts \ {p}
       /\ evicted' = [evicted EXCEPT ![w] = @ \ {p}]
       /\ pc' = [pc EXCEPT ![w] = IF evicted[w] = {p} THEN "check" ELSE "evict"]
  /\ UNCHANGED <<now, deleted, lists, tombs, creates, dels, cur, trimVars, histVars>>

\* insert_posts has returned.
InsertsDone(w) ==
  /\ pc[w] = "check" /\ creates[w] = {}
  /\ pc' = [pc EXCEPT ![w] = "remove"]
  /\ UNCHANGED <<now, storeVars, creates, dels, cur, evicted, trimVars, histVars>>

-----------------------------------------------------------------------------
(* mark_as_deleted: three maps, three steps per event, in the batch's order *)

IsNextDelete(w, d) == d \in dels[w] /\ \A e \in dels[w] : d.off <= e.off

RemovePost(w) ==
  /\ pc[w] = "remove"
  /\ \E d \in dels[w] : IsNextDelete(w, d) /\ posts' = posts \ {d.id}
  /\ pc' = [pc EXCEPT ![w] = "bury"]
  /\ UNCHANGED <<now, deleted, lists, tombs, creates, dels, cur, evicted,
                 trimVars, histVars>>

Bury(w) ==
  /\ pc[w] = "bury"
  /\ \E d \in dels[w] : /\ IsNextDelete(w, d)
                        /\ deleted' = deleted \cup {d.id}
                        /\ applied' = applied \cup {d.id}
  /\ pc' = [pc EXCEPT ![w] = "tomb"]
  /\ UNCHANGED <<now, posts, lists, tombs, creates, dels, cur, evicted,
                 trimVars, accepted, squeezed>>

PushTomb(w) ==
  /\ pc[w] = "tomb"
  /\ \E d \in dels[w] : /\ IsNextDelete(w, d)
                        /\ tombs' = Append(tombs, [id |-> d.id, at |-> d.at])
                        /\ dels' = [dels EXCEPT ![w] = @ \ {d}]
  /\ pc' = [pc EXCEPT ![w] = "remove"]
  /\ UNCHANGED <<now, posts, deleted, lists, creates, cur, evicted,
                 trimVars, histVars>>

DeletesDone(w) ==
  /\ pc[w] = "remove" /\ dels[w] = {}
  /\ pc' = [pc EXCEPT ![w] = "done"]
  /\ UNCHANGED <<now, storeVars, creates, dels, cur, evicted, trimVars, histVars>>

BatchStep(w) ==
  \/ CheckDeleted(w) \/ StorePost(w) \/ PushPrimary(w) \/ PushVideo(w)
  \/ RemoveEvicted(w) \/ InsertsDone(w)
  \/ RemovePost(w) \/ Bury(w) \/ PushTomb(w) \/ DeletesDone(w)

-----------------------------------------------------------------------------
(* trim_old_posts *)

\* Mutant: off by one.
StaleEarly(x) == x.at > tnow \/ tnow - x.at >= Retention

\* current_time - (created_at as u64) > retention_seconds.  The difference is
\* unsigned: when the entry is younger than the trimmer's clock it wraps to a
\* number far above any retention.
Stale(x) == x.at > tnow \/ tnow - x.at > Retention

\* The entries the while loop pops: the front goes while the list is too long
\* or the front is stale.
Prefix(l, limit) ==
  {i \in DOMAIN l : \A j \in 1..i : Len(l) - j + 1 > limit \/ Stale(l[j])}

\* With overflow checks the loop panics at the first entry from the future
\* that it looks at; what it popped before that is gone.
Underflows(l, limit) ==
  {i \in Prefix(l, limit) :
     OverflowChecks /\ Len(l) - i + 1 <= limit /\ l[i].at > tnow}
BeforePanic(l, limit) ==
  {i \in Prefix(l, limit) : \A j \in 1..i : j \notin Underflows(l, limit)}

Popped(l, limit)      == {l[i].id : i \in Prefix(l, limit)}
Rest(l, limit)        == SubSeq(l, Cardinality(Prefix(l, limit)) + 1, Len(l))
LeftByPanic(l, limit) == SubSeq(l, Cardinality(BeforePanic(l, limit)) + 1, Len(l))

UsersOf(iter) == {u \in User : u % TrimFraction = iter % TrimFraction}

\* The call reads its clock once, for all three maps.
TrimStart(iter) ==
  /\ tpc = "idle"
  /\ tpc' = "tombs" /\ tkind' = "original" /\ tnow' = now
  /\ tusers' = UsersOf(iter)
  /\ UNCHANGED <<now, storeVars, workVars, tremove, tdel, histVars>>

\* The panic drops the lists of work collected so far.
TrimPanic ==
  /\ tpc' = "dead"
  /\ tusers' = {} /\ tremove' = {} /\ tdel' = {}
  /\ UNCHANGED <<now, posts, deleted, workVars, tkind, tnow, histVars>>

\* Only the original map has a DELETE_EVENT_KEY list.
TrimTombs ==
  /\ tpc = "tombs"
  /\ IF Underflows(tombs, Len(tombs)) # {}
     THEN TrimPanic /\ tombs' = LeftByPanic(tombs, Len(tombs)) /\ UNCHANGED lists
     ELSE /\ tombs' = Rest(tombs, Len(tombs))
          /\ tremove' = tremove \cup Popped(tombs, Len(tombs))
          /\ tdel' = tdel \cup Popped(tombs, Len(tombs))
          /\ tpc' = "lists"
          /\ UNCHANGED <<now, posts, deleted, lists, workVars, tkind, tnow,
                         tusers, histVars>>

TrimUser(u) ==
  LET l == lists[tkind][u]
  IN /\ tpc = "lists" /\ u \in tusers
     /\ IF Underflows(l, MaxList) # {}
        THEN /\ TrimPanic
             /\ lists' = [lists EXCEPT ![tkind][u] = LeftByPanic(l, MaxList)]
             /\ UNCHANGED tombs
        ELSE /\ lists' = [lists EXCEPT ![tkind][u] = Rest(l, MaxList)]
             /\ tremove' = tremove \cup Popped(l, MaxList)
             /\ tusers' = tusers \ {u}
             /\ UNCHANGED <<now, posts, deleted, tombs, workVars, tpc, tkind,
                            tnow, tdel, histVars>>

TrimPost ==
  /\ tpc = "lists" /\ tusers = {}
  /\ \E p \in tremove : posts' = posts \ {p} /\ tremove' = tremove \ {p}
  /\ UNCHANGED <<now, deleted, lists, tombs, workVars, tpc, tkind, tnow,
                 tusers, tdel, histVars>>

TrimTombstone ==
  /\ tpc = "lists" /\ tusers = {} /\ tremove = {}
  /\ \E p \in tdel : deleted' = deleted \ {p} /\ tdel' = tdel \ {p}
  /\ UNCHANGED <<now, posts, lists, tombs, workVars, tpc, tkind, tnow,
                 tusers, tremove, histVars>>

\* original, then secondary, then video; then the call returns.
TrimNext(iter) ==
  /\ tpc = "lists" /\ tusers = {} /\ tremove = {} /\ tdel = {}
  /\ IF tkind = "video"
     THEN tpc' = "idle" /\ UNCHANGED <<tkind, tusers>>
     ELSE /\ tkind' = IF tkind = "original" THEN "secondary" ELSE "video"
          /\ tusers' = UsersOf(iter)
          /\ UNCHANGED tpc
  /\ UNCHANGED <<now, storeVars, workVars, tnow, tremove, tdel, histVars>>
=============================================================================
