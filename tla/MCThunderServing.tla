--------------------------- MODULE MCThunderServing ---------------------------
(***************************************************************************)
(* Small instances of ThunderServing.                                      *)
(***************************************************************************)
EXTENDS ThunderServing

CONSTANTS w1, w2, none

Plain(author, created) ==
  [author |-> author, created |-> created, is_reply |-> FALSE,
   is_retweet |-> FALSE, has_video |-> FALSE, source |-> none]
VideoPost(author, created) == [Plain(author, created) EXCEPT !.has_video = TRUE]
RetweetOf(p, author, created) ==
  [Plain(author, created) EXCEPT !.is_retweet = TRUE, !.source = p]

OnePost == <<Plain(1, 1)>>

C(p) == [kind |-> "create", id |-> p, at |-> Attr[p].created]
D(p, t) == [kind |-> "delete", id |-> p, at |-> t]

\* Slow trim: one author, two posts, two seconds apart.
TwoPosts == <<Plain(1, 1), Plain(1, 3)>>
AgeLogs == [{w1} -> {<<>>, <<C(1)>>, <<D(1, 2)>>}]

\* Trim: an original video and a retweet of it, by the same author, and a
\* plain original.
VideoPosts == <<VideoPost(1, 1), RetweetOf(1, 1, 1), Plain(1, 2)>>
TrimLogs == [{w1} -> {<<>>, <<C(1)>>, <<D(3, 2)>>, <<C(2), C(1), C(2)>>,
                     <<C(1), C(2), C(3), C(1)>>, <<C(3), C(1), D(3, 3), C(2)>>}]

\* Race: creates and deletes of one post on both threads, in any order.
\* With batches of one, all but a thread's last backlog event is applied unlocked.
RaceLogs == [{w1, w2} -> {<<C(1)>>, <<D(1, 2)>>, <<C(1), D(1, 2)>>, <<D(1, 2), C(1)>>,
                          <<C(1), D(1, 2), C(1)>>}]
=============================================================================
