----------------------- MODULE CandidatePipelineProofs -----------------------
(***************************************************************************)
(* Theorems about CandidatePipeline, for any configuration of components,  *)
(* any sizes and any scores.                                               *)
(*                                                                         *)
(* The three lists are written with one operator, InOrder: the first part  *)
(* shows that a finite set has the list InOrder promises.  The second part *)
(* says what the model's operators do to the uids, the data and the order  *)
(* of a list.  The third proves the inductive invariant PipelineInv action *)
(* by action and concludes TypeOK, OwnData, Conserved and ServesBest.      *)
(***************************************************************************)
EXTENDS CandidatePipeline, FiniteSetTheorems, TLAPS

-----------------------------------------------------------------------------
(* The inductive invariant. *)

StageName == {"query_hydrators", "dependent_query_hydrators", "sources", "hydrators",
              "filters", "scorers", "selector", "post_selection_hydrators",
              "post_selection_filters", "truncate", "answered"}

BeforeFetch == QueryStages \cup {"sources"}
BeforeSelection == BeforeFetch \cup {"hydrators", "filters", "scorers", "selector"}

Uid == UNION {{s} \X (1..Fetches[s]) : s \in Range(Components["sources"])}

Cand == [uid : Uid, data : SUBSET (Component \X Uid), score : 0..MaxScore]

Types ==
  /\ stage \in StageName
  /\ query \subseteq UNION {Range(Components[st]) : st \in QueryStages}
  /\ pos \in Nat
  /\ candidates \in Seq(Cand) /\ filtered \in Seq(Cand) /\ nonSelected \in Seq(Cand)
  /\ effects \subseteq Enabled("side_effects")
  /\ stage # "answered" => effects = {}

\* The answers of a stage are those of its enabled components, about the
\* candidates as they still are.
Replied ==
  /\ DOMAIN answers \subseteq IF stage \in Concurrent THEN Enabled(stage) ELSE {}
  /\ \A c \in DOMAIN answers : answers[c] \in Replies(c)

\* Every entry of the list is about its own candidate.
Own(list) == \A i \in DOMAIN list : \A d \in list[i].data : d[2] = list[i].uid

Distinct(list) == \A i, j \in DOMAIN list : list[i].uid = list[j].uid => i = j

\* The three lists share no candidate and have all that was fetched.
Shared ==
  /\ Distinct(candidates) /\ Distinct(filtered) /\ Distinct(nonSelected)
  /\ Uids(candidates) \cap Uids(filtered) = {}
  /\ Uids(candidates) \cap Uids(nonSelected) = {}
  /\ Uids(filtered) \cap Uids(nonSelected) = {}
  /\ fetched = Uids(candidates) \cup Uids(filtered) \cup Uids(nonSelected)

\* The list is in the order of the sources and of their lists.
InSourceOrder(list) == \A i, j \in DOMAIN list : i < j => Earlier(list[i], list[j])

Ranked(list) == \A i, j \in DOMAIN list : i < j => Outranks(list[i], list[j])

Above(top, rest) == \A i \in DOMAIN top, j \in DOMAIN rest : Outranks(top[i], rest[j])

Order ==
  /\ stage \in BeforeFetch => candidates = <<>> /\ filtered = <<>>
  /\ stage \in BeforeSelection => InSourceOrder(candidates) /\ nonSelected = <<>>
  /\ stage \notin BeforeSelection => Ranked(candidates) /\ Above(candidates, nonSelected)
  /\ stage = "answered" => Len(candidates) <= ResultSize

PipelineInv ==
  /\ Types /\ Replied
  /\ Own(candidates) /\ Own(filtered) /\ Own(nonSelected)
  /\ Shared /\ Order

-----------------------------------------------------------------------------
(* Lists of finite sets. *)

StrictOrder(S, R) ==
  /\ \A x \in S : <<x, x>> \notin R
  /\ \A x, y, z \in S : <<x, y>> \in R /\ <<y, z>> \in R => <<x, z>> \in R
  /\ \A x, y \in S : x # y => <<x, y>> \in R \/ <<y, x>> \in R

LastMember(S, R) == \E m \in S : \A x \in S : x # m => <<x, m>> \in R

Listing(S, R, s) ==
  /\ s \in [1..Cardinality(S) -> S]
  /\ Range(s) = S
  /\ \A i, j \in DOMAIN s : i < j => <<s[i], s[j]>> \in R

\* A set of finite sets that is not empty has a member without a proper
\* subset in it.
LEMMA SmallestSet ==
  ASSUME NEW S, IsFiniteSet(S), NEW Bad \in SUBSET SUBSET S, Bad # {}
  PROVE  \E T \in Bad : /\ IsFiniteSet(T)
                        /\ \A x \in T : T \ {x} \notin Bad
<1>1. \A T \in SUBSET S : IsFiniteSet(T)
  BY FS_Subset
<1>2. Bad \subseteq FiniteSubsetsOf(S)
  BY <1>1 DEF FiniteSubsetsOf
<1>3. PICK T \in Bad : \A U \in Bad : <<U, T>> \notin StrictSubsetOrdering(S)
  BY <1>2, FS_StrictSubsetOrderingWellFounded, WFMin
<1>4. ASSUME NEW x \in T, T \ {x} \in Bad
      PROVE  FALSE
  <2>1. T \ {x} \subseteq T /\ T \ {x} # T
    OBVIOUS
  <2>2. <<T \ {x}, T>> \in StrictSubsetOrdering(S)
    BY <2>1 DEF StrictSubsetOrdering
  <2> QED
    BY Zenon, <1>3, <1>4, <2>2
<1> QED
  BY <1>1, <1>3, <1>4

\* A finite set that is not empty has a last member.
LEMMA HasLast ==
  ASSUME NEW S, IsFiniteSet(S), S # {}, NEW R, StrictOrder(S, R)
  PROVE  LastMember(S, R)
<1> DEFINE Bad == {T \in SUBSET S : T # {} /\ ~LastMember(T, R)}
<1> SUFFICES ASSUME ~LastMember(S, R) PROVE FALSE
  OBVIOUS
<1>1. S \in Bad
  OBVIOUS
<1>2. PICK T \in Bad : \A x \in T : T \ {x} \notin Bad
  <2> HIDE DEF Bad
  <2>1. Bad \in SUBSET SUBSET S
    BY DEF Bad
  <2> QED
    BY Zenon, <1>1, <2>1, SmallestSet
<1>3. PICK x \in T : TRUE
  OBVIOUS
<1>4. CASE T \ {x} = {}
  BY <1>3, <1>4 DEF LastMember
<1>5. CASE T \ {x} # {}
  <2>1. LastMember(T \ {x}, R)
    BY <1>2, <1>3, <1>5
  <2>2. PICK m \in T \ {x} : \A y \in T \ {x} : y # m => <<y, m>> \in R
    BY <2>1 DEF LastMember
  <2>3. T \subseteq S /\ m \in S /\ x \in S
    BY <1>2, <1>3, <2>2
  <2>4. CASE <<x, m>> \in R
    <3>1. \A y \in T : y # m => <<y, m>> \in R
      BY <2>2, <2>4
    <3> QED
      BY <1>2, <2>2, <3>1 DEF LastMember
  <2>5. CASE <<m, x>> \in R
    <3>1. \A y \in T : y # x => <<y, x>> \in R
      BY Zenon, <2>2, <2>3, <2>5 DEF StrictOrder
    <3> QED
      BY <1>2, <1>3, <3>1 DEF LastMember
  <2> QED
    BY <2>2, <2>3, <2>4, <2>5 DEF StrictOrder
<1> QED
  BY <1>4, <1>5

\* A list of all but the last member, followed by the last member, is a list
\* of the set.
LEMMA ListingExtends ==
  ASSUME NEW S, IsFiniteSet(S), NEW R, NEW m \in S,
         \A x \in S : x # m => <<x, m>> \in R,
         NEW s, Listing(S \ {m}, R, s)
  PROVE  \E t : Listing(S, R, t)
<1> DEFINE n == Cardinality(S)
           t == [i \in 1..n |-> IF i = n THEN m ELSE s[i]]
<1>1. n \in Nat /\ n # 0 /\ Cardinality(S \ {m}) = n - 1
  BY FS_CardinalityType, FS_EmptySet, FS_RemoveElement
<1>2. s \in [1..(n - 1) -> S \ {m}] /\ Range(s) = S \ {m}
  BY Zenon, <1>1 DEF Listing
<1>3. \A i, j \in 1..(n - 1) : i < j => <<s[i], s[j]>> \in R
  BY Zenon, <1>1 DEF Listing
<1> HIDE DEF n
<1>4. t \in [1..n -> S]
  BY <1>1, <1>2
<1>5. Range(t) = S
  <2>1. \A x \in S : \E i \in 1..n : t[i] = x
    <3> TAKE x \in S
    <3>1. CASE x = m
      BY <1>1, <3>1
    <3>2. CASE x # m
      <4>1. PICK i \in 1..(n - 1) : s[i] = x
        BY <1>2, <3>2 DEF Range
      <4>2. i \in 1..n /\ i # n
        BY <1>1, <4>1
      <4> QED
        BY <4>1, <4>2
    <3> QED
      BY <3>1, <3>2
  <2> QED
    BY <1>4, <2>1 DEF Range
<1>6. \A i, j \in 1..n : i < j => <<t[i], t[j]>> \in R
  <2> TAKE i, j \in 1..n
  <2> HAVE i < j
  <2>1. i \in 1..(n - 1) /\ i # n
    BY <1>1
  <2>2. t[i] = s[i] /\ s[i] \in S /\ s[i] # m
    BY <1>2, <2>1
  <2>3. CASE j = n
    BY <2>2, <2>3
  <2>4. CASE j # n
    <3>1. j \in 1..(n - 1) /\ t[j] = s[j]
      BY <1>1, <2>4
    <3> QED
      BY <1>3, <2>1, <2>2, <3>1
  <2> QED
    BY <2>3, <2>4
<1>7. Listing(S, R, t)
  <2> HIDE DEF t
  <2>1. DOMAIN t = 1..n
    BY <1>4
  <2> QED
    BY <1>4, <1>5, <1>6, <2>1 DEF Listing, n
<1> QED
  BY <1>7

\* Every finite, strictly ordered set has a list.
LEMMA HasListing ==
  ASSUME NEW S, IsFiniteSet(S), NEW R, StrictOrder(S, R)
  PROVE  \E s : Listing(S, R, s)
<1> DEFINE Bad == {T \in SUBSET S : ~ \E s : Listing(T, R, s)}
<1> SUFFICES ASSUME ~ \E s : Listing(S, R, s) PROVE FALSE
  OBVIOUS
<1>1. S \in Bad
  OBVIOUS
<1>2. PICK T \in Bad : IsFiniteSet(T) /\ \A x \in T : T \ {x} \notin Bad
  <2> HIDE DEF Bad
  <2>1. Bad \in SUBSET SUBSET S
    BY DEF Bad
  <2> QED
    BY <1>1, <2>1, SmallestSet
<1>3. CASE T = {}
  <2>1. Cardinality(T) = 0
    BY <1>3, FS_EmptySet
  <2>2. <<>> \in [1..0 -> {}] /\ Range(<<>>) = {}
    BY DEF Range
  <2>3. Listing(T, R, <<>>)
    BY <1>3, <2>1, <2>2 DEF Listing
  <2> QED
    BY <1>2, <2>3
<1>4. CASE T # {}
  <2>1. StrictOrder(T, R)
    BY <1>2 DEF StrictOrder
  <2>2. PICK m \in T : \A x \in T : x # m => <<x, m>> \in R
    BY <1>2, <1>4, <2>1, HasLast DEF LastMember
  <2>3. PICK s : Listing(T \ {m}, R, s)
    BY <1>2, <2>2
  <2>4. \E t : Listing(T, R, t)
    BY <1>2, <2>2, <2>3, ListingExtends
  <2> QED
    BY <1>2, <2>4
<1> QED
  BY <1>3, <1>4

\* InOrder lists the set, in its order.
LEMMA InOrderLists ==
  ASSUME NEW S, IsFiniteSet(S), NEW R, StrictOrder(S, R)
  PROVE  Listing(S, R, InOrder(S, R))
<1>1. PICK s : Listing(S, R, s)
  BY HasListing
<1> QED
  BY Zenon, <1>1 DEF Listing, InOrder

\* Its length is a natural number, and no member is listed twice.
LEMMA InOrderOnce ==
  ASSUME NEW S, IsFiniteSet(S), NEW R, StrictOrder(S, R)
  PROVE  LET at == InOrder(S, R) IN
         /\ Cardinality(S) \in Nat
         /\ at \in [1..Cardinality(S) -> S]
         /\ \A x \in S : \E k \in 1..Cardinality(S) : at[k] = x
         /\ \A k, l \in 1..Cardinality(S) : k < l => <<at[k], at[l]>> \in R
         /\ \A k, l \in 1..Cardinality(S) : at[k] = at[l] => k = l
<1> DEFINE at == InOrder(S, R)
<1>1. Cardinality(S) \in Nat
  BY FS_CardinalityType
<1>2. at \in [1..Cardinality(S) -> S] /\ Range(at) = S
  BY InOrderLists DEF Listing
<1>3. \A k, l \in 1..Cardinality(S) : k < l => <<at[k], at[l]>> \in R
  BY Zenon, <1>2, InOrderLists DEF Listing
<1>4. \A x \in S : \E k \in 1..Cardinality(S) : at[k] = x
  BY <1>2 DEF Range
<1> HIDE DEF at
<1>5. ASSUME NEW k \in 1..Cardinality(S), NEW l \in 1..Cardinality(S), at[k] = at[l], k # l
      PROVE  FALSE
  <2>1. k < l \/ l < k
    BY <1>1, <1>5
  <2> QED
    BY Zenon, <1>2, <1>3, <1>5, <2>1 DEF StrictOrder
<1> QED
  BY <1>1, <1>2, <1>3, <1>4, <1>5 DEF at

-----------------------------------------------------------------------------
(* What the operators do to a list. *)

\* The list p has the entries of list at the positions S, at[k] being the
\* position of its k-th entry.
Draws(p, list, S, at) ==
  /\ Len(p) \in Nat /\ DOMAIN p = 1..Len(p)
  /\ at \in [DOMAIN p -> S]
  /\ \A i \in S : \E k \in DOMAIN p : at[k] = i
  /\ \A k, l \in DOMAIN p : at[k] = at[l] => k = l
  /\ \A k \in DOMAIN p : p[k] = list[at[k]]
  /\ p = [k \in 1..Len(p) |-> p[k]]

\* A list drawn by the listing of a set of positions.
LEMMA DrawnInOrder ==
  ASSUME NEW list, NEW S, IsFiniteSet(S), NEW R, StrictOrder(S, R)
  PROVE  LET at == InOrder(S, R)
             p  == [k \in DOMAIN at |-> list[at[k]]]
         IN  /\ Draws(p, list, S, at)
             /\ \A k, l \in DOMAIN p : k < l => <<at[k], at[l]>> \in R
<1> DEFINE at == InOrder(S, R)
           p == [k \in DOMAIN at |-> list[at[k]]]
           n == Cardinality(S)
<1>1. /\ n \in Nat
      /\ at \in [1..n -> S]
      /\ \A x \in S : \E k \in 1..n : at[k] = x
      /\ \A k, l \in 1..n : k < l => <<at[k], at[l]>> \in R
      /\ \A k, l \in 1..n : at[k] = at[l] => k = l
  BY InOrderOnce
<1> HIDE DEF at, n
<1>2. DOMAIN p = 1..n /\ Len(p) = n
  BY <1>1
<1>3. /\ \A k \in DOMAIN p : p[k] = list[at[k]]
      /\ p = [k \in DOMAIN p |-> p[k]]
  OBVIOUS
<1> HIDE DEF p
<1>4. Draws(p, list, S, at)
  BY <1>1, <1>2, <1>3 DEF Draws
<1>5. \A k, l \in DOMAIN p : k < l => <<at[k], at[l]>> \in R
  BY <1>1, <1>2
<1> QED
  BY <1>4, <1>5 DEF at, p

LEMMA PositionsFinite ==
  ASSUME NEW T, NEW list \in Seq(T), NEW S \in SUBSET DOMAIN list
  PROVE  /\ IsFiniteSet(S)
         /\ StrictOrder(S, IndexPairs(list))
<1>1. Len(list) \in Nat /\ DOMAIN list = 1..Len(list)
  OBVIOUS
<1>2. IsFiniteSet(S)
  <2>1. IsFiniteSet(1..Len(list))
    BY <1>1, FS_Interval
  <2> QED
    BY <1>1, <2>1, FS_Subset
<1>3. \A x, y \in S : <<x, y>> \in IndexPairs(list) <=> x < y
  BY <1>1 DEF IndexPairs
<1>4. S \subseteq Nat
  BY <1>1
<1>5. StrictOrder(S, IndexPairs(list))
  BY <1>3, <1>4 DEF StrictOrder
<1> QED
  BY <1>2, <1>5

\* Pick draws the positions, in their order.
LEMMA PickDraws ==
  ASSUME NEW T, NEW list \in Seq(T), NEW S \in SUBSET DOMAIN list
  PROVE  \E at : /\ Draws(Pick(list, S), list, S, at)
                 /\ \A k, l \in DOMAIN Pick(list, S) : k < l => at[k] < at[l]
<1> DEFINE at == InOrder(S, IndexPairs(list))
<1>1. /\ Draws(Pick(list, S), list, S, at)
      /\ \A k, l \in DOMAIN Pick(list, S) : k < l => <<at[k], at[l]>> \in IndexPairs(list)
  BY PositionsFinite, DrawnInOrder DEF Pick
<1> HIDE DEF at
<1>2. \A x, y : <<x, y>> \in IndexPairs(list) => x < y
  BY DEF IndexPairs
<1> QED
  BY Zenon, <1>1, <1>2

ByScore(list) ==
  {p \in (DOMAIN list) \X (DOMAIN list) :
     \/ list[p[1]].score > list[p[2]].score
     \/ list[p[1]].score = list[p[2]].score /\ p[1] < p[2]}

\* The order of Selector::sort is total.
LEMMA ByScoreOrders ==
  ASSUME NEW list \in Seq(Cand)
  PROVE  StrictOrder(DOMAIN list, ByScore(list))
<1>1. DOMAIN list \subseteq Nat
  OBVIOUS
<1>2. \A i \in DOMAIN list : list[i].score \in Nat
  <2>1. \A c \in Cand : c.score \in Nat
    BY PipelineAssumption DEF Cand, PipelineAssumption
  <2>2. \A i \in DOMAIN list : list[i] \in Cand
    OBVIOUS
  <2> QED
    BY <2>1, <2>2
<1>3. \A x, y \in DOMAIN list :
        <<x, y>> \in ByScore(list)
          <=> \/ list[x].score > list[y].score
              \/ list[x].score = list[y].score /\ x < y
  BY DEF ByScore
<1> HIDE DEF ByScore
<1>4. \A x \in DOMAIN list : <<x, x>> \notin ByScore(list)
  BY <1>1, <1>2, <1>3
<1>5. ASSUME NEW x \in DOMAIN list, NEW y \in DOMAIN list, NEW z \in DOMAIN list,
             <<x, y>> \in ByScore(list), <<y, z>> \in ByScore(list)
      PROVE  <<x, z>> \in ByScore(list)
  <2> DEFINE a == list[x].score
             b == list[y].score
             c == list[z].score
  <2>1. a > b \/ (a = b /\ x < y)
    BY <1>3, <1>5
  <2>2. b > c \/ (b = c /\ y < z)
    BY <1>3, <1>5
  <2>3. a \in Nat /\ b \in Nat /\ c \in Nat /\ x \in Nat /\ y \in Nat /\ z \in Nat
    BY <1>1, <1>2
  <2>4. (a > c \/ (a = c /\ x < z)) => <<x, z>> \in ByScore(list)
    BY <1>3
  <2> HIDE DEF a, b, c
  <2> QED
    BY <2>1, <2>2, <2>3, <2>4
<1>6. \A x, y \in DOMAIN list :
        x # y => <<x, y>> \in ByScore(list) \/ <<y, x>> \in ByScore(list)
  BY <1>1, <1>2, <1>3
<1> QED
  BY <1>4, <1>5, <1>6 DEF StrictOrder

\* Selector::sort draws the whole list by descending score, equal scores in
\* the order they had.
LEMMA SortDraws ==
  ASSUME NEW list \in Seq(Cand)
  PROVE  \E at : /\ Draws(StableSort(list), list, DOMAIN list, at)
                 /\ \A k, l \in DOMAIN StableSort(list) : k < l =>
                      \/ list[at[k]].score > list[at[l]].score
                      \/ list[at[k]].score = list[at[l]].score /\ at[k] < at[l]
<1> DEFINE S == DOMAIN list
           R == ByScore(list)
           at == InOrder(S, R)
           p == [k \in DOMAIN at |-> list[at[k]]]
<1>1. IsFiniteSet(S)
  BY PositionsFinite
<1>2. StrictOrder(S, R)
  BY ByScoreOrders
<1>3. StableSort(list) = p
  BY DEF StableSort, ByScore
<1> HIDE DEF S, R
<1>4. /\ Draws(p, list, S, at)
      /\ \A k, l \in DOMAIN p : k < l => <<at[k], at[l]>> \in R
  BY Zenon, <1>1, <1>2, DrawnInOrder
<1> HIDE DEF at, p
<1>5. \A x, y : <<x, y>> \in R =>
        \/ list[x].score > list[y].score
        \/ list[x].score = list[y].score /\ x < y
  BY DEF R, ByScore
<1>6. Draws(StableSort(list), list, DOMAIN list, at)
  BY <1>3, <1>4 DEF S
<1> QED
  BY Zenon, <1>3, <1>4, <1>5, <1>6

LEMMA SliceLength ==
  ASSUME NEW list, NEW a \in Int, NEW b \in Int
  PROVE  Len(SubSeq(list, a, b)) = IF a <= b THEN b - a + 1 ELSE 0
  OBVIOUS

\* Vec::split_off draws the first positions and the other ones.
LEMMA SplitDraws ==
  ASSUME NEW T, NEW list \in Seq(T), NEW n \in Nat
  PROVE  \E m \in 0..Len(list) :
           LET p == Taken(list, n) q == Surplus(list, n) IN
           /\ m <= n
           /\ Draws(p, list, 1..m, [k \in 1..m |-> k])
           /\ Draws(q, list, DOMAIN list \ (1..m), [k \in 1..(Len(list) - m) |-> k + m])
           /\ Len(p) = m /\ Len(q) = Len(list) - m
<1> DEFINE len == Len(list)
           m == IF n < len THEN n ELSE len
           p == SubSeq(list, 1, m)
           q == SubSeq(list, m + 1, len)
           at == [k \in 1..m |-> k]
           bt == [k \in 1..(len - m) |-> k + m]
<1>1. len \in Nat /\ DOMAIN list = 1..len
  OBVIOUS
<1>2. m \in 0..len /\ m <= n /\ m \in Nat /\ len - m \in Nat
  BY <1>1
<1>3. p = Taken(list, n) /\ q = Surplus(list, n)
  BY DEF Taken, Surplus
<1> HIDE DEF m
<1>4. /\ DOMAIN p = 1..m /\ Len(p) = m /\ p = [k \in 1..m |-> p[k]]
      /\ \A k \in 1..m : p[k] = list[k]
  BY <1>1, <1>2
<1>5. /\ DOMAIN q = 1..(len - m) /\ Len(q) = len - m
      /\ q = [k \in 1..(len - m) |-> q[k]]
      /\ \A k \in 1..(len - m) : q[k] = list[k + m]
  <2>1. m + 1 \in 1..(len + 1) /\ len \in 0..len
    BY <1>1, <1>2
  <2>2. q \in Seq(T)
    BY <1>1, <1>2, <2>1
  <2>3. Len(q) = len - m
    <3> HIDE DEF len
    <3>1. m + 1 \in Int /\ len \in Int
      BY <1>1, <1>2
    <3>2. Len(q) = IF m + 1 <= len THEN len - (m + 1) + 1 ELSE 0
      BY <3>1, SliceLength
    <3> HIDE DEF q
    <3> QED
      BY <1>1, <1>2, <3>2
  <2>4. \A k \in 1..(len - m) : q[k] = list[k + m]
    BY <1>1, <1>2, <2>1
  <2> HIDE DEF q, len
  <2> QED
    BY <2>2, <2>3, <2>4
<1> HIDE DEF p, q, len
<1>6. Draws(p, list, 1..m, at)
  BY <1>2, <1>4 DEF Draws
<1>7. Draws(q, list, DOMAIN list \ (1..m), bt)
  <2>1. bt \in [1..(len - m) -> DOMAIN list \ (1..m)]
    BY <1>1, <1>2
  <2>2. \A i \in DOMAIN list \ (1..m) : i - m \in 1..(len - m) /\ bt[i - m] = i
    BY <1>1, <1>2
  <2>3. \A k, l \in 1..(len - m) : bt[k] = bt[l] => k = l
    BY <1>1, <1>2
  <2>4. \A k \in 1..(len - m) : q[k] = list[bt[k]]
    BY <1>5
  <2> HIDE DEF bt
  <2> QED
    BY <1>2, <1>5, <2>1, <2>2, <2>3, <2>4 DEF Draws
<1> QED
  BY Zenon, <1>2, <1>3, <1>4, <1>5, <1>6, <1>7 DEF len

\* What is drawn from a list of candidates is one, with the same data.
LEMMA DrawnOwn ==
  ASSUME NEW list \in Seq(Cand), NEW S \in SUBSET DOMAIN list, NEW p, NEW at,
         Draws(p, list, S, at)
  PROVE  /\ p \in Seq(Cand)
         /\ Own(list) => Own(p)
         /\ Distinct(list) => Distinct(p)
         /\ Uids(p) = {list[i].uid : i \in S}
<1>1. /\ Len(p) \in Nat /\ DOMAIN p = 1..Len(p)
      /\ at \in [DOMAIN p -> S]
      /\ \A i \in S : \E k \in DOMAIN p : at[k] = i
      /\ \A k, l \in DOMAIN p : at[k] = at[l] => k = l
      /\ \A k \in DOMAIN p : p[k] = list[at[k]]
      /\ p = [k \in 1..Len(p) |-> p[k]]
  BY DEF Draws
<1>2. \A k \in DOMAIN p : at[k] \in S /\ at[k] \in DOMAIN list
  BY <1>1
<1>3. \A i \in DOMAIN list : list[i] \in Cand
  OBVIOUS
<1>4. p \in Seq(Cand)
  <2>1. \A k \in 1..Len(p) : p[k] \in Cand
    BY <1>1, <1>2, <1>3
  <2> QED
    BY <1>1, <2>1
<1>5. Own(list) => Own(p)
  BY <1>1, <1>2 DEF Own
<1>6. Distinct(list) => Distinct(p)
  BY <1>1, <1>2 DEF Distinct
<1>7. Uids(p) = {list[i].uid : i \in S}
  BY <1>1, <1>2 DEF Uids
<1> QED
  BY <1>4, <1>5, <1>6, <1>7

\* Two lists drawn from the two parts of a list have all its candidates, and
\* none in common.
LEMMA DrawnApart ==
  ASSUME NEW list \in Seq(Cand), NEW S \in SUBSET DOMAIN list, Distinct(list),
         NEW p, NEW at, Draws(p, list, S, at),
         NEW q, NEW bt, Draws(q, list, DOMAIN list \ S, bt)
  PROVE  /\ Uids(p) \cap Uids(q) = {}
         /\ Uids(p) \cup Uids(q) = Uids(list)
<1>1. Uids(p) = {list[i].uid : i \in S}
  BY DrawnOwn
<1>2. Uids(q) = {list[i].uid : i \in DOMAIN list \ S}
  BY Zenon, DrawnOwn
<1>3. Uids(p) \cap Uids(q) = {}
  <2> SUFFICES ASSUME NEW u \in Uids(p), u \in Uids(q) PROVE FALSE
    OBVIOUS
  <2>1. PICK i \in S : u = list[i].uid
    BY <1>1
  <2>2. PICK j \in DOMAIN list \ S : u = list[j].uid
    BY <1>2
  <2> QED
    BY Zenon, <2>1, <2>2 DEF Distinct
<1>4. Uids(p) \cup Uids(q) = Uids(list)
  BY Zenon, <1>1, <1>2 DEF Uids
<1> QED
  BY <1>3, <1>4

\* Appending one list to another.
LEMMA Appended ==
  ASSUME NEW s \in Seq(Cand), NEW t \in Seq(Cand)
  PROVE  /\ s \o t \in Seq(Cand)
         /\ Own(s) /\ Own(t) => Own(s \o t)
         /\ Uids(s \o t) = Uids(s) \cup Uids(t)
         /\ Distinct(s) /\ Distinct(t) /\ Uids(s) \cap Uids(t) = {} => Distinct(s \o t)
<1> DEFINE m == Len(s)
           n == Len(t)
           u == s \o t
<1>1. m \in Nat /\ n \in Nat /\ DOMAIN s = 1..m /\ DOMAIN t = 1..n
  OBVIOUS
<1>2. u \in Seq(Cand) /\ Len(u) = m + n /\ DOMAIN u = 1..(m + n)
  OBVIOUS
<1>3. \A i \in 1..(m + n) : u[i] = IF i <= m THEN s[i] ELSE t[i - m]
  OBVIOUS
<1> HIDE DEF m, n, u
<1>4. \A i \in DOMAIN s : i \in DOMAIN u /\ u[i] = s[i]
  BY <1>1, <1>2, <1>3
<1>5. \A i \in DOMAIN t : i + m \in DOMAIN u /\ u[i + m] = t[i]
  <2> TAKE i \in DOMAIN t
  <2>1. i + m \in 1..(m + n) /\ ~(i + m <= m) /\ (i + m) - m = i
    BY <1>1
  <2> QED
    BY <1>2, <1>3, <2>1
<1>6. \A i \in DOMAIN u : \/ i \in DOMAIN s /\ u[i] = s[i]
                          \/ i - m \in DOMAIN t /\ i \notin DOMAIN s /\ u[i] = t[i - m]
  BY <1>1, <1>2, <1>3
<1>7. Own(s) /\ Own(t) => Own(u)
  BY <1>6 DEF Own
<1>8. Uids(u) = Uids(s) \cup Uids(t)
  <2>1. Uids(u) \subseteq Uids(s) \cup Uids(t)
    BY <1>6 DEF Uids
  <2>2. Uids(s) \subseteq Uids(u)
    BY <1>4 DEF Uids
  <2>3. Uids(t) \subseteq Uids(u)
    BY <1>5 DEF Uids
  <2> QED
    BY <2>1, <2>2, <2>3
<1>9. ASSUME Distinct(s), Distinct(t), Uids(s) \cap Uids(t) = {}
      PROVE  Distinct(u)
  <2> SUFFICES ASSUME NEW i \in DOMAIN u, NEW j \in DOMAIN u, u[i].uid = u[j].uid
               PROVE  i = j
    BY DEF Distinct
  <2>1. \A k \in DOMAIN s : s[k].uid \in Uids(s)
    BY DEF Uids
  <2>2. \A k \in DOMAIN t : t[k].uid \in Uids(t)
    BY DEF Uids
  <2>3. CASE i \in DOMAIN s /\ j \in DOMAIN s
    BY <1>6, <1>9, <2>3 DEF Distinct
  <2>4. CASE i \notin DOMAIN s /\ j \notin DOMAIN s
    <3>1. i - m = j - m
      BY <1>6, <1>9, <2>4 DEF Distinct
    <3> QED
      BY <1>1, <1>2, <3>1
  <2>5. CASE i \in DOMAIN s /\ j \notin DOMAIN s
    BY <1>6, <1>9, <2>1, <2>2, <2>5
  <2>6. CASE i \notin DOMAIN s /\ j \in DOMAIN s
    BY <1>6, <1>9, <2>1, <2>2, <2>6
  <2> QED
    BY <2>3, <2>4, <2>5, <2>6
<1> QED
  BY <1>2, <1>7, <1>8, <1>9 DEF u

LEMMA AppendedAbove ==
  ASSUME NEW s \in Seq(Cand), NEW t \in Seq(Cand), NEW p, Above(p, s), Above(p, t)
  PROVE  Above(p, s \o t)
<1> DEFINE u == s \o t
<1>1. \A j \in DOMAIN u : \/ j \in DOMAIN s /\ u[j] = s[j]
                          \/ j - Len(s) \in DOMAIN t /\ u[j] = t[j - Len(s)]
  OBVIOUS
<1> HIDE DEF u
<1>2. Above(p, u)
  BY <1>1 DEF Above
<1> QED
  BY <1>2 DEF u

LEMMA EmptyList ==
  /\ <<>> \in Seq(Cand) /\ Own(<<>>) /\ Distinct(<<>>) /\ Uids(<<>>) = {}
  /\ InSourceOrder(<<>>) /\ Ranked(<<>>)
  BY DEF Own, Distinct, Uids, InSourceOrder, Ranked

\* A list without repetitions is as long as its set of uids.
LEMMA DistinctLength ==
  ASSUME NEW list \in Seq(Cand), Distinct(list)
  PROVE  Len(list) = Cardinality(Uids(list))
<1> DEFINE n == Len(list)
           f == [i \in 1..n |-> list[i].uid]
<1>1. n \in Nat /\ DOMAIN list = 1..n
  OBVIOUS
<1> HIDE DEF n
<1>2. f \in Bijection(1..n, Uids(list))
  <2>1. f \in [1..n -> Uids(list)]
    BY <1>1 DEF Uids
  <2>2. \A i, j \in 1..n : f[i] = f[j] => i = j
    BY <1>1 DEF Distinct
  <2>3. \A u \in Uids(list) : \E i \in 1..n : f[i] = u
    BY <1>1 DEF Uids
  <2> HIDE DEF f
  <2> QED
    BY <2>1, <2>2, <2>3 DEF Bijection, Injection, Surjection, IsInjective
<1>3. IsFiniteSet(1..n) /\ Cardinality(1..n) = n
  <2>1. IsFiniteSet(1..n) /\ Cardinality(1..n) = IF 1 > n THEN 0 ELSE n - 1 + 1
    BY <1>1, FS_Interval
  <2> QED
    BY <1>1, <2>1
<1>4. ExistsBijection(1..n, Uids(list))
  BY <1>2 DEF ExistsBijection
<1> QED
  BY <1>3, <1>4, FS_Bijection DEF n

-----------------------------------------------------------------------------
(* The order of a list. *)

\* A filter keeps the order of what it keeps.
LEMMA PickOrdered ==
  ASSUME NEW list \in Seq(Cand), NEW S \in SUBSET DOMAIN list
  PROVE  /\ InSourceOrder(list) => InSourceOrder(Pick(list, S))
         /\ Ranked(list) => Ranked(Pick(list, S))
         /\ \A rest : Above(list, rest) => Above(Pick(list, S), rest)
<1> DEFINE p == Pick(list, S)
<1>1. PICK at : /\ Draws(p, list, S, at)
                /\ \A k, l \in DOMAIN p : k < l => at[k] < at[l]
  BY PickDraws
<1> HIDE DEF p
<1>2. \A k \in DOMAIN p : at[k] \in DOMAIN list /\ p[k] = list[at[k]]
  BY <1>1 DEF Draws
<1>3. InSourceOrder(list) => InSourceOrder(p)
  BY <1>1, <1>2 DEF InSourceOrder
<1>4. Ranked(list) => Ranked(p)
  BY <1>1, <1>2 DEF Ranked
<1>5. \A rest : Above(list, rest) => Above(p, rest)
  BY <1>2 DEF Above
<1> QED
  BY <1>3, <1>4, <1>5 DEF p

\* Sorting a list that is in source order ranks it.
LEMMA SortRanks ==
  ASSUME NEW list \in Seq(Cand), InSourceOrder(list), SelectorEnabled
  PROVE  Ranked(StableSort(list))
<1> DEFINE p == StableSort(list)
<1>1. PICK at : /\ Draws(p, list, DOMAIN list, at)
                /\ \A k, l \in DOMAIN p : k < l =>
                     \/ list[at[k]].score > list[at[l]].score
                     \/ list[at[k]].score = list[at[l]].score /\ at[k] < at[l]
  BY SortDraws
<1> HIDE DEF p
<1>2. \A k \in DOMAIN p : at[k] \in DOMAIN list /\ p[k] = list[at[k]]
  BY <1>1 DEF Draws
<1>3. ASSUME NEW k \in DOMAIN p, NEW l \in DOMAIN p, k < l
      PROVE  Outranks(p[k], p[l])
  <2>1. CASE p[k].score > p[l].score
    BY <2>1 DEF Outranks
  <2>2. CASE p[k].score = p[l].score /\ at[k] < at[l]
    <3>1. Earlier(p[k], p[l])
      BY <1>2, <2>2 DEF InSourceOrder
    <3> QED
      BY <2>2, <3>1 DEF Outranks
  <2> QED
    BY <1>1, <1>2, <1>3, <2>1, <2>2
<1> QED
  BY <1>3 DEF Ranked, p

\* Cutting a ranked list leaves nothing better behind.
LEMMA CutRanked ==
  ASSUME NEW list \in Seq(Cand), NEW n \in Nat, Ranked(list)
  PROVE  /\ Ranked(Taken(list, n)) /\ Above(Taken(list, n), Surplus(list, n))
         /\ \A rest : Above(list, rest) => Above(Taken(list, n), rest)
         /\ Len(Taken(list, n)) <= n
<1> DEFINE p == Taken(list, n)
           q == Surplus(list, n)
           len == Len(list)
<1>1. len \in Nat /\ DOMAIN list = 1..len
  OBVIOUS
<1>2. PICK m \in 0..len :
        /\ m <= n
        /\ Draws(p, list, 1..m, [k \in 1..m |-> k])
        /\ Draws(q, list, DOMAIN list \ (1..m), [k \in 1..(len - m) |-> k + m])
        /\ Len(p) = m /\ Len(q) = len - m
  BY Zenon, SplitDraws
<1> HIDE DEF p, q, len
<1>3. DOMAIN p = 1..m /\ \A k \in 1..m : k \in DOMAIN list /\ p[k] = list[k]
  BY <1>1, <1>2 DEF Draws
<1>4. /\ DOMAIN q = 1..(len - m)
      /\ \A k \in 1..(len - m) : k + m \in DOMAIN list /\ q[k] = list[k + m]
  BY <1>1, <1>2 DEF Draws
<1>5. Ranked(p)
  BY <1>3 DEF Ranked
<1>6. Above(p, q)
  <2> SUFFICES ASSUME NEW i \in 1..m, NEW j \in 1..(len - m)
               PROVE  Outranks(list[i], list[j + m])
    BY <1>3, <1>4 DEF Above
  <2>1. i < j + m
    BY <1>1, <1>2
  <2> QED
    BY <1>3, <1>4, <2>1 DEF Ranked
<1>7. \A rest : Above(list, rest) => Above(p, rest)
  BY <1>3 DEF Above
<1> QED
  BY <1>2, <1>5, <1>6, <1>7 DEF p, q

\* Every entry of q is for the same candidate as that of p.
SameUids(p, q) == DOMAIN p = DOMAIN q /\ \A i \in DOMAIN p : q[i].uid = p[i].uid

LEMMA SameUidsSame ==
  ASSUME NEW p, NEW q, SameUids(p, q)
  PROVE  /\ Uids(q) = Uids(p)
         /\ Distinct(p) => Distinct(q)
         /\ InSourceOrder(p) => InSourceOrder(q)
<1>1. Uids(q) = Uids(p)
  BY DEF SameUids, Uids
<1>2. Distinct(p) => Distinct(q)
  BY DEF SameUids, Distinct
<1>3. InSourceOrder(p) => InSourceOrder(q)
  BY DEF SameUids, InSourceOrder, Earlier
<1> QED
  BY <1>1, <1>2, <1>3

LEMMA SameScoresSame ==
  ASSUME NEW p, NEW q, SameUids(p, q), \A i \in DOMAIN p : q[i].score = p[i].score
  PROVE  /\ Ranked(p) => Ranked(q)
         /\ \A rest : Above(p, rest) => Above(q, rest)
<1>1. Ranked(p) => Ranked(q)
  BY DEF SameUids, Ranked, Outranks, Earlier
<1>2. \A rest : Above(p, rest) => Above(q, rest)
  BY DEF SameUids, Above, Outranks, Earlier
<1> QED
  BY <1>1, <1>2

\* A disabled selector ranks by the order of the sources.
LEMMA UnsortedRanked ==
  ASSUME NEW list, InSourceOrder(list), ~SelectorEnabled
  PROVE  Ranked(list)
  BY DEF Ranked, InSourceOrder, Outranks

-----------------------------------------------------------------------------
(* Candidates and answers. *)

LEMMA AssumptionParts ==
  /\ DOMAIN Components = Stages
  /\ \A st \in Stages : Components[st] \in Seq(Component)
  /\ \A k, l \in DOMAIN Components["sources"] :
       Components["sources"][k] = Components["sources"][l] => k = l
  /\ \A s \in Range(Components["sources"]) : Fetches[s] \in Nat
  /\ SelectorSize \in Nat /\ ResultSize \in Nat /\ MaxScore \in Nat
  BY PipelineAssumption DEF PipelineAssumption, IsInjective

\* A candidate as a source returns it, and what a component's entry makes of
\* a candidate.
LEMMA FreshCandidate ==
  ASSUME NEW s \in Range(Components["sources"]), NEW i \in 1..Fetches[s]
  PROVE  /\ Candidate(s, i) \in Cand
         /\ Candidate(s, i).uid = <<s, i>>
         /\ Candidate(s, i).data = {}
<1>1. <<s, i>> \in Uid
  BY DEF Uid
<1>2. 0 \in 0..MaxScore
  BY AssumptionParts
<1> QED
  BY <1>1, <1>2, Zenon DEF Candidate, Cand

LEMMA EntryTaken ==
  ASSUME NEW c \in Cand, NEW D \in SUBSET (Component \X Uid)
  PROVE  /\ [c EXCEPT !.data = @ \cup D] \in Cand
         /\ [c EXCEPT !.data = @ \cup D].uid = c.uid
         /\ [c EXCEPT !.data = @ \cup D].score = c.score
         /\ [c EXCEPT !.data = @ \cup D].data = c.data \cup D
  BY DEF Cand

\* The entries of a reply of the right length are about their candidates;
\* CheckLength turns one of the wrong length into errors.
LEMMA CheckedEntries ==
  ASSUME NEW list \in Seq(Cand), NEW values, NEW r \in PerCandidate(list, values),
         NEW i \in DOMAIN list, CheckLength(r, list)[i].ok
  PROVE  /\ CheckLength(r, list)[i].about = list[i].uid
         /\ CheckLength(r, list)[i].score \in values
<1> DEFINE n == Len(list)
           entries(f) == [j \in 1..n |-> IF f[j] = -1 THEN Err ELSE Ok(list[j].uid, f[j])]
           without(j, v) == [k \in 1..(n - 1) |-> Ok(list[IF k < j THEN k ELSE k + 1].uid, v)]
<1>1. n \in Nat /\ DOMAIN list = 1..n
  OBVIOUS
<1>2. Err.ok = FALSE
  BY DEF Err
<1>3. Len(r) = n
  <2> SUFFICES ASSUME Len(r) # n PROVE FALSE
    OBVIOUS
  <2>1. CheckLength(r, list)[i] = Err
    BY DEF CheckLength
  <2> QED
    BY <1>2, <2>1
<1>4. CheckLength(r, list) = r
  BY <1>3 DEF CheckLength
<1>5. CASE \E f \in [1..n -> {-1} \cup values] : r = entries(f)
  <2>1. PICK f \in [1..n -> {-1} \cup values] : r = entries(f)
    BY <1>5
  <2>2. r[i] = IF f[i] = -1 THEN Err ELSE Ok(list[i].uid, f[i])
    BY <1>1, <2>1
  <2>3. f[i] # -1
    BY <1>2, <1>4, <2>2
  <2>4. f[i] \in values
    BY <1>1, <2>1, <2>3
  <2>5. r[i] = Ok(list[i].uid, f[i])
    BY <2>2, <2>3
  <2> QED
    BY <1>4, <2>4, <2>5 DEF Ok
<1>6. CASE \E j \in 1..n, v \in values : r = without(j, v)
  <2>1. PICK j \in 1..n, v \in values : r = without(j, v)
    BY <1>6
  <2>2. n - 1 \in Nat
    BY <1>1
  <2>3. Len(r) = n - 1
    BY <2>1, <2>2
  <2> QED
    BY <1>1, <1>3, <2>3
<1> QED
  BY <1>5, <1>6 DEF PerCandidate

\* update_all of a scorer leaves every candidate in its place and gives it
\* data about itself only.
LEMMA ScoredSame ==
  ASSUME NEW list \in Seq(Cand), NEW c \in Component,
         NEW r \in PerCandidate(list, 1..MaxScore)
  PROVE  /\ ScoreAll(c, list, r) \in Seq(Cand)
         /\ SameUids(list, ScoreAll(c, list, r))
         /\ Own(list) => Own(ScoreAll(c, list, r))
<1> DEFINE rs == CheckLength(r, list)
           q == ScoreAll(c, list, r)
<1>1. Len(list) \in Nat /\ DOMAIN list = 1..Len(list) /\ \A i \in DOMAIN list : list[i] \in Cand
  OBVIOUS
<1>2. q = [i \in DOMAIN list |-> Scored(c, list[i], rs[i])]
  BY DEF ScoreAll
<1>3. ASSUME NEW i \in DOMAIN list
      PROVE  /\ q[i] \in Cand /\ q[i].uid = list[i].uid
             /\ q[i].data = list[i].data \/ q[i].data = list[i].data \cup {<<c, list[i].uid>>}
  <2>1. q[i] = Scored(c, list[i], rs[i])
    BY <1>2
  <2>2. CASE ~rs[i].ok
    BY <1>1, <2>1, <2>2 DEF Scored
  <2>3. CASE rs[i].ok
    <3>1. rs[i].about = list[i].uid /\ rs[i].score \in 1..MaxScore
      BY Zenon, <2>3, CheckedEntries
    <3> DEFINE D == {<<c, list[i].uid>>}
    <3>2. q[i] = [list[i] EXCEPT !.data = @ \cup D, !.score = rs[i].score]
      BY <2>1, <2>3, <3>1 DEF Scored
    <3>3. D \in SUBSET (Component \X Uid)
      BY <1>1 DEF Cand
    <3>4. rs[i].score \in 0..MaxScore
      BY <3>1, AssumptionParts
    <3> DEFINE a == list[i]
               v == rs[i].score
    <3>5. a \in Cand /\ v \in 0..MaxScore /\ q[i] = [a EXCEPT !.data = @ \cup D, !.score = v]
      BY <1>1, <3>2, <3>4
    <3> HIDE DEF a, v, D
    <3>6. /\ [a EXCEPT !.data = @ \cup D, !.score = v] \in Cand
          /\ [a EXCEPT !.data = @ \cup D, !.score = v].uid = a.uid
          /\ [a EXCEPT !.data = @ \cup D, !.score = v].data = a.data \cup D
      BY Zenon, <3>3, <3>5 DEF Cand
    <3>7. q[i] \in Cand /\ q[i].uid = list[i].uid /\ q[i].data = list[i].data \cup D
      BY <3>5, <3>6 DEF a
    <3> QED
      BY <3>7 DEF D
  <2> QED
    BY <2>2, <2>3
<1> HIDE DEF rs
<1>4. q \in Seq(Cand)
  BY <1>1, <1>2, <1>3
<1>5. SameUids(list, q)
  BY <1>2, <1>3 DEF SameUids
<1>6. Own(list) => Own(q)
  BY <1>2, <1>3 DEF Own
<1> QED
  BY <1>4, <1>5, <1>6

\* The same for run_hydrators, which leaves the scores alone as well.
LEMMA HydratedSame ==
  ASSUME NEW list \in Seq(Cand), DOMAIN answers \subseteq Component,
         \A c \in DOMAIN answers : answers[c] \in PerCandidate(list, {0})
  PROVE  /\ ApplyHydrators(list) \in Seq(Cand)
         /\ SameUids(list, ApplyHydrators(list))
         /\ \A i \in DOMAIN list : ApplyHydrators(list)[i].score = list[i].score
         /\ Own(list) => Own(ApplyHydrators(list))
<1> DEFINE q == ApplyHydrators(list)
           entry(c, i) == CheckLength(answers[c], list)[i]
           D(i) == {<<c, entry(c, i).about>> : c \in {d \in DOMAIN answers : entry(d, i).ok}}
<1>1. Len(list) \in Nat /\ DOMAIN list = 1..Len(list) /\ \A i \in DOMAIN list : list[i] \in Cand
  OBVIOUS
<1>2. q = [i \in DOMAIN list |-> Hydrated(list, i)]
  BY DEF ApplyHydrators
<1>3. ASSUME NEW i \in DOMAIN list
      PROVE  /\ q[i] \in Cand /\ q[i].uid = list[i].uid /\ q[i].score = list[i].score
             /\ \A d \in q[i].data : d \in list[i].data \/ d[2] = list[i].uid
  <2>1. q[i] = [list[i] EXCEPT !.data = @ \cup D(i)]
    BY <1>2 DEF Hydrated
  <2>2. \A c \in DOMAIN answers : entry(c, i).ok => entry(c, i).about = list[i].uid
    BY CheckedEntries
  <2>3. \A d \in D(i) : d \in Component \X Uid /\ d[2] = list[i].uid
    <3> HIDE DEF entry
    <3>1. list[i].uid \in Uid
      BY <1>1 DEF Cand
    <3> QED
      BY <2>2, <3>1
  <2> HIDE DEF D, q
  <2>5. D(i) \in SUBSET (Component \X Uid)
    BY <2>3
  <2>6. /\ q[i] \in Cand /\ q[i].uid = list[i].uid /\ q[i].score = list[i].score
        /\ q[i].data = list[i].data \cup D(i)
    <3> DEFINE a == list[i]
               E == D(i)
    <3>1. a \in Cand /\ E \in SUBSET (Component \X Uid) /\ q[i] = [a EXCEPT !.data = @ \cup E]
      BY <1>1, <2>1, <2>5
    <3> HIDE DEF a, E
    <3>2. /\ [a EXCEPT !.data = @ \cup E] \in Cand
          /\ [a EXCEPT !.data = @ \cup E].uid = a.uid
          /\ [a EXCEPT !.data = @ \cup E].score = a.score
          /\ [a EXCEPT !.data = @ \cup E].data = a.data \cup E
      BY Zenon, <3>1, EntryTaken
    <3> QED
      BY <3>1, <3>2 DEF a, E
  <2> QED
    BY <2>3, <2>6
<1>4. q \in Seq(Cand)
  BY <1>1, <1>2, <1>3
<1>5. SameUids(list, q)
  BY <1>2, <1>3 DEF SameUids
<1>6. Own(list) => Own(q)
  BY <1>2, <1>3 DEF Own
<1> QED
  BY <1>3, <1>4, <1>5, <1>6

-----------------------------------------------------------------------------
(* fetch_candidates *)

SourceReplies(c) ==
  {Err} \cup {[ok |-> TRUE, list |-> [i \in 1..n |-> Candidate(c, i)]] : n \in 0..Fetches[c]}

LEMMA RepliesAre ==
  ASSUME NEW c
  PROVE  /\ stage = "sources" => Replies(c) = SourceReplies(c)
         /\ stage \in HydratorStages => Replies(c) = PerCandidate(candidates, {0})
         /\ stage = "scorers" => Replies(c) = PerCandidate(candidates, 1..MaxScore)
<1>1. ASSUME stage = "sources"
      PROVE  Replies(c) = SourceReplies(c)
  <2>1. stage \notin QueryStages /\ stage \notin HydratorStages /\ stage # "scorers"
    BY <1>1 DEF QueryStages, HydratorStages
  <2> QED
    BY <1>1, <2>1 DEF Replies, SourceReplies
<1>2. ASSUME stage \in HydratorStages
      PROVE  Replies(c) = PerCandidate(candidates, {0})
  <2>1. stage \notin QueryStages /\ stage # "sources" /\ stage # "scorers"
    BY <1>2 DEF QueryStages, HydratorStages
  <2> QED
    BY <1>2, <2>1 DEF Replies
<1>3. ASSUME stage = "scorers"
      PROVE  Replies(c) = PerCandidate(candidates, 1..MaxScore)
  <2>1. stage \notin QueryStages /\ stage \notin HydratorStages /\ stage # "sources"
    BY <1>3 DEF QueryStages, HydratorStages
  <2> QED
    BY <1>3, <2>1 DEF Replies
<1> QED
  BY <1>1, <1>2, <1>3

\* A source that answered returned its first candidates, in order.
LEMMA SourceLists ==
  ASSUME stage = "sources", Replied, NEW c \in DOMAIN answers, answers[c].ok
  PROVE  /\ c \in Range(Components["sources"])
         /\ \E n \in 0..Fetches[c] : answers[c].list = [i \in 1..n |-> Candidate(c, i)]
<1>1. stage \in Concurrent /\ stage \notin QueryStages
  BY DEF Concurrent, QueryStages
<1>2. c \in Range(Components["sources"])
  BY <1>1 DEF Replied, Enabled
<1>3. answers[c] \in SourceReplies(c)
  BY RepliesAre DEF Replied
<1>4. answers[c] # Err
  BY DEF Err
<1>5. PICK n \in 0..Fetches[c] :
        answers[c] = [ok |-> TRUE, list |-> [i \in 1..n |-> Candidate(c, i)]]
  BY <1>3, <1>4 DEF SourceReplies
<1> QED
  BY <1>2, <1>5

\* What a pair of Returned stands for.
Entry(x) == answers[Components["sources"][x[1]]].list[x[2]]

LEMMA ReturnedEntry ==
  ASSUME stage = "sources", Replied, NEW k \in Answered
  PROVE  LET c == Components["sources"][k] IN
         /\ c \in Range(Components["sources"]) /\ k \in Nat
         /\ IsFiniteSet(DOMAIN answers[c].list)
         /\ DOMAIN answers[c].list \subseteq 1..Fetches[c]
         /\ \A i \in DOMAIN answers[c].list : answers[c].list[i] = Candidate(c, i)
<1> DEFINE c == Components["sources"][k]
<1>1. c \in DOMAIN answers /\ answers[c].ok /\ k \in DOMAIN Components["sources"]
  BY DEF Answered
<1>2. k \in Nat
  <2>1. Components["sources"] \in Seq(Component)
    BY AssumptionParts DEF Stages
  <2> QED
    BY <1>1, <2>1
<1> HIDE DEF c
<1>3. c \in Range(Components["sources"])
  BY <1>1, SourceLists
<1>4. PICK n \in 0..Fetches[c] : answers[c].list = [i \in 1..n |-> Candidate(c, i)]
  BY <1>1, SourceLists
<1>5. Fetches[c] \in Nat
  BY <1>3, AssumptionParts
<1>6. n \in Nat /\ 1..n \subseteq 1..Fetches[c]
  BY <1>4, <1>5
<1>7. IsFiniteSet(1..n)
  BY <1>6, FS_Interval
<1>8. DOMAIN answers[c].list = 1..n /\ \A i \in 1..n : answers[c].list[i] = Candidate(c, i)
  BY <1>4
<1> QED
  BY <1>2, <1>3, <1>6, <1>7, <1>8 DEF c

LEMMA ReturnedPairs ==
  ASSUME NEW x
  PROVE  x \in Returned <=> \E k \in Answered :
           \E i \in DOMAIN answers[Components["sources"][k]].list : x = <<k, i>>
  BY DEF Returned

\* Every pair stands for a candidate with a uid of its own.
LEMMA ReturnedCandidates ==
  ASSUME stage = "sources", Replied, NEW x \in Returned
  PROVE  /\ x = <<x[1], x[2]>> /\ x[1] \in Answered /\ x[1] \in Nat /\ x[2] \in Nat
         /\ x[2] \in DOMAIN answers[Components["sources"][x[1]]].list
         /\ Entry(x) \in Cand
         /\ Entry(x).uid = <<Components["sources"][x[1]], x[2]>>
         /\ Entry(x).data = {}
<1>0. PICK k \in Answered :
        \E i \in DOMAIN answers[Components["sources"][k]].list : x = <<k, i>>
  BY ReturnedPairs
<1> DEFINE c == Components["sources"][k]
<1>1. PICK i \in DOMAIN answers[c].list : x = <<k, i>>
  BY <1>0
<1>2. /\ c \in Range(Components["sources"]) /\ k \in Nat
      /\ i \in 1..Fetches[c] /\ answers[c].list[i] = Candidate(c, i)
  BY <1>1, ReturnedEntry
<1>3. x[1] = k /\ x[2] = i /\ x = <<x[1], x[2]>>
  BY <1>1
<1>4. i \in Nat
  BY <1>2, AssumptionParts
<1> HIDE DEF c
<1>5. Candidate(c, i) \in Cand /\ Candidate(c, i).uid = <<c, i>> /\ Candidate(c, i).data = {}
  BY <1>2, FreshCandidate
<1>6. Entry(x) = Candidate(c, i)
  BY <1>2, <1>3 DEF Entry, c
<1> QED
  BY <1>1, <1>2, <1>3, <1>4, <1>5, <1>6 DEF c

LEMMA ReturnedFinite ==
  ASSUME stage = "sources", Replied
  PROVE  IsFiniteSet(Returned)
<1> DEFINE G(k) == {k} \X DOMAIN answers[Components["sources"][k]].list
           f == [k \in Answered |-> G(k)]
           I == {G(k) : k \in Answered}
<1>1. IsFiniteSet(Answered)
  <2>1. Components["sources"] \in Seq(Component)
    BY AssumptionParts DEF Stages
  <2>2. Answered \in SUBSET DOMAIN Components["sources"]
    BY DEF Answered
  <2> QED
    BY <2>1, <2>2, PositionsFinite
<1>2. \A k \in Answered : IsFiniteSet(G(k))
  BY Zenon, ReturnedEntry, FS_Singleton, FS_Product
<1> HIDE DEF G
<1>3. f \in Surjection(Answered, I)
  BY DEF Surjection
<1>4. IsFiniteSet(I)
  BY <1>1, <1>3, FS_Surjection
<1>5. \A T \in I : IsFiniteSet(T)
  BY <1>2
<1>6. Returned = UNION I
  BY DEF Returned, G
<1> QED
  BY <1>4, <1>5, <1>6, FS_UNION

BySource ==
  {p \in Returned \X Returned :
     \/ p[1][1] < p[2][1]
     \/ p[1][1] = p[2][1] /\ p[1][2] < p[2][2]}

LEMMA BySourceOrders ==
  ASSUME stage = "sources", Replied
  PROVE  StrictOrder(Returned, BySource)
<1>1. \A x, y \in Returned :
        <<x, y>> \in BySource <=> x[1] < y[1] \/ (x[1] = y[1] /\ x[2] < y[2])
  BY DEF BySource
<1>2. \A x \in Returned : x = <<x[1], x[2]>> /\ x[1] \in Nat /\ x[2] \in Nat
  BY ReturnedCandidates
<1>3. \A x \in Returned : <<x, x>> \notin BySource
  BY <1>1, <1>2
<1>4. \A x, y, z \in Returned :
        <<x, y>> \in BySource /\ <<y, z>> \in BySource => <<x, z>> \in BySource
  BY <1>1, <1>2
<1>5. ASSUME NEW x \in Returned, NEW y \in Returned, x # y
      PROVE  <<x, y>> \in BySource \/ <<y, x>> \in BySource
  <2>1. x[1] # y[1] \/ x[2] # y[2]
    BY <1>2, <1>5
  <2> QED
    BY <1>1, <1>2, <2>1
<1> QED
  BY <1>3, <1>4, <1>5 DEF StrictOrder

\* Collect draws every returned candidate once, by source.
LEMMA CollectDraws ==
  ASSUME stage = "sources", Replied
  PROVE  \E at, E :
           /\ E = [x \in Returned |-> Entry(x)]
           /\ Draws(Collect, E, Returned, at)
           /\ \A k, l \in DOMAIN Collect : k < l =>
                at[k][1] < at[l][1] \/ (at[k][1] = at[l][1] /\ at[k][2] < at[l][2])
<1> DEFINE E == [x \in Returned |-> Entry(x)]
           R == BySource
           at == InOrder(Returned, R)
           p == [k \in DOMAIN at |-> E[at[k]]]
<1>1. IsFiniteSet(Returned) /\ StrictOrder(Returned, R)
  BY ReturnedFinite, BySourceOrders
<1>2. Collect = [k \in DOMAIN at |-> Entry(at[k])]
  BY DEF Collect, BySource, Entry
<1>3. \A x, y : <<x, y>> \in R => x[1] < y[1] \/ (x[1] = y[1] /\ x[2] < y[2])
  BY DEF BySource
<1> HIDE DEF R, E
<1>4. /\ Draws(p, E, Returned, at)
      /\ \A k, l \in DOMAIN p : k < l => <<at[k], at[l]>> \in R
  BY <1>1, DrawnInOrder
<1>5. \A k \in DOMAIN at : at[k] \in Returned
  BY <1>4 DEF Draws
<1> HIDE DEF at
<1>6. Collect = p
  BY <1>2, <1>5 DEF E
<1> HIDE DEF p
<1> QED
  BY Zenon, <1>3, <1>4, <1>6 DEF E

LEMMA SourceIndexIs ==
  ASSUME NEW k \in DOMAIN Components["sources"]
  PROVE  SourceIndex(Components["sources"][k]) = k
  BY AssumptionParts DEF SourceIndex

\* fetch_candidates returns what every source that answered returned, once,
\* in the order of the sources.
LEMMA Collected ==
  ASSUME stage = "sources", Replied
  PROVE  /\ Collect \in Seq(Cand)
         /\ Own(Collect) /\ Distinct(Collect) /\ InSourceOrder(Collect)
         /\ Uids(Collect) = UNION {Uids(answers[c].list) : c \in {d \in DOMAIN answers : answers[d].ok}}
<1> DEFINE p == Collect
           src == Components["sources"]
<1>1. PICK at, E : /\ E = [x \in Returned |-> Entry(x)]
                   /\ Draws(p, E, Returned, at)
                   /\ \A k, l \in DOMAIN p : k < l =>
                        at[k][1] < at[l][1] \/ (at[k][1] = at[l][1] /\ at[k][2] < at[l][2])
  BY CollectDraws
<1> HIDE DEF p
<1>2. /\ Len(p) \in Nat /\ DOMAIN p = 1..Len(p) /\ p = [k \in 1..Len(p) |-> p[k]]
      /\ \A x \in Returned : \E k \in DOMAIN p : at[k] = x
      /\ \A k, l \in DOMAIN p : at[k] = at[l] => k = l
      /\ \A k \in DOMAIN p : at[k] \in Returned /\ p[k] = Entry(at[k])
  BY <1>1 DEF Draws
<1>3. ASSUME NEW k \in DOMAIN p
      PROVE  /\ p[k] \in Cand /\ p[k].data = {} /\ p[k].uid = <<src[at[k][1]], at[k][2]>>
             /\ at[k] = <<at[k][1], at[k][2]>>
             /\ at[k][1] \in DOMAIN src /\ SourceIndex(src[at[k][1]]) = at[k][1]
  <2>1. at[k] \in Returned /\ p[k] = Entry(at[k])
    BY <1>2
  <2>2. at[k][1] \in Answered /\ at[k] = <<at[k][1], at[k][2]>>
    BY <2>1, ReturnedCandidates
  <2>3. at[k][1] \in DOMAIN src
    BY <2>2 DEF Answered
  <2> QED
    BY <2>1, <2>2, <2>3, ReturnedCandidates, SourceIndexIs
<1>4. p \in Seq(Cand)
  BY <1>2, <1>3
<1>5. Own(p)
  BY <1>3 DEF Own
<1>6. Distinct(p)
  <2> SUFFICES ASSUME NEW k \in DOMAIN p, NEW l \in DOMAIN p, p[k].uid = p[l].uid
               PROVE  k = l
    BY DEF Distinct
  <2>1. src[at[k][1]] = src[at[l][1]] /\ at[k][2] = at[l][2]
    BY <1>3
  <2>2. at[k][1] = at[l][1]
    BY <1>3, <2>1
  <2>3. at[k] = at[l]
    BY <1>3, <2>1, <2>2, Zenon
  <2> QED
    BY <1>2, <2>3
<1>7. InSourceOrder(p)
  <2> SUFFICES ASSUME NEW k \in DOMAIN p, NEW l \in DOMAIN p, k < l
               PROVE  Earlier(p[k], p[l])
    BY DEF InSourceOrder
  <2>1. /\ SourceIndex(p[k].uid[1]) = at[k][1] /\ p[k].uid[2] = at[k][2]
        /\ SourceIndex(p[l].uid[1]) = at[l][1] /\ p[l].uid[2] = at[l][2]
    BY <1>3
  <2> QED
    BY <1>1, <2>1 DEF Earlier
<1>8. Uids(p) = {Entry(x).uid : x \in Returned}
  BY <1>2 DEF Uids
<1> DEFINE all == UNION {Uids(answers[c].list) : c \in {d \in DOMAIN answers : answers[d].ok}}
<1>9. \A x \in Returned : Entry(x).uid \in all
  <2> TAKE x \in Returned
  <2>1. x[1] \in Answered /\ x[2] \in DOMAIN answers[src[x[1]]].list
    BY ReturnedCandidates
  <2>2. src[x[1]] \in DOMAIN answers /\ answers[src[x[1]]].ok
    BY <2>1 DEF Answered
  <2>3. Entry(x).uid \in Uids(answers[src[x[1]]].list)
    BY Zenon, <2>1 DEF Entry, Uids
  <2> QED
    BY <2>2, <2>3
<1>10. \A u \in all : \E x \in Returned : u = Entry(x).uid
  <2> TAKE u \in all
  <2>1. PICK c \in DOMAIN answers : answers[c].ok /\ u \in Uids(answers[c].list)
    OBVIOUS
  <2>2. PICK i \in DOMAIN answers[c].list : u = answers[c].list[i].uid
    BY <2>1 DEF Uids
  <2>3. c \in Range(src)
    BY <2>1, SourceLists
  <2>4. PICK k \in DOMAIN src : src[k] = c
    BY <2>3 DEF Range
  <2>5. k \in Answered
    BY <2>1, <2>4 DEF Answered
  <2>6. <<k, i>> \in Returned
    BY <2>2, <2>4, <2>5, ReturnedPairs
  <2>7. Entry(<<k, i>>) = answers[c].list[i]
    BY <2>4 DEF Entry
  <2> QED
    BY <2>2, <2>6, <2>7
<1> HIDE DEF all
<1>11. Uids(p) = all
  BY <1>8, <1>9, <1>10
<1> QED
  BY <1>4, <1>5, <1>6, <1>7, <1>11 DEF p, all

-----------------------------------------------------------------------------
(* The invariant holds initially and every action preserves it. *)

LEMMA StagesFollow ==
  /\ After["query_hydrators"] = "dependent_query_hydrators"
  /\ After["dependent_query_hydrators"] = "sources"
  /\ After["sources"] = "hydrators"
  /\ After["hydrators"] = "filters"
  /\ After["filters"] = "scorers"
  /\ After["scorers"] = "selector"
  /\ After["selector"] = "post_selection_hydrators"
  /\ After["post_selection_hydrators"] = "post_selection_filters"
  /\ After["post_selection_filters"] = "truncate"
  /\ After["truncate"] = "answered"
  /\ DOMAIN After = StageName \ {"answered"}
  BY DEF After, StageName

LEMMA InitInv == Init => PipelineInv
<1> SUFFICES ASSUME Init PROVE PipelineInv
  OBVIOUS
<1> USE DEF Init
<1>1. Types
  BY EmptyList DEF Types, StageName
<1>2. Replied
  BY DEF Replied
<1>3. Shared
  BY EmptyList DEF Shared
<1>4. Order
  BY EmptyList DEF Order, BeforeFetch, BeforeSelection, QueryStages
<1> QED
  BY <1>1, <1>2, <1>3, <1>4, EmptyList DEF PipelineInv

\* An action that moves no candidate leaves what is said of the lists alone.
LEMMA ListsKept ==
  ASSUME PipelineInv, UNCHANGED <<candidates, fetched, filtered, nonSelected>>
  PROVE  /\ candidates' \in Seq(Cand) /\ filtered' \in Seq(Cand) /\ nonSelected' \in Seq(Cand)
         /\ Own(candidates)' /\ Own(filtered)' /\ Own(nonSelected)'
         /\ Shared'
  BY DEF PipelineInv, Types, Shared

\* A stage begins without answers.
LEMMA AdvanceReplied ==
  ASSUME Advance
  PROVE  Replied' /\ pos' \in Nat
  BY DEF Advance, Replied

\* The ranking is that of the query, which has its fields once the query
\* stages are over.
LEMMA RankKept ==
  ASSUME query' = query, NEW p, NEW q
  PROVE  /\ Ranked(p) /\ candidates' = p => Ranked(candidates)'
         /\ Above(p, q) /\ candidates' = p /\ nonSelected' = q => Above(candidates, nonSelected)'
         /\ InSourceOrder(p) /\ candidates' = p => InSourceOrder(candidates)'
<1>1. Ranked(p) /\ candidates' = p => Ranked(candidates)'
  BY DEF Ranked, Outranks, Earlier, SelectorEnabled
<1>2. Above(p, q) /\ candidates' = p /\ nonSelected' = q => Above(candidates, nonSelected)'
  BY DEF Above, Outranks, Earlier, SelectorEnabled
<1>3. InSourceOrder(p) /\ candidates' = p => InSourceOrder(candidates)'
  BY DEF InSourceOrder, Earlier
<1> QED
  BY <1>1, <1>2, <1>3

LEMMA AnswerInv ==
  ASSUME PipelineInv, NEW c \in Component, Answer(c)
  PROVE  PipelineInv'
<1> USE DEF Answer
<1>1. PICK r \in Replies(c) :
        answers' = [d \in DOMAIN answers \cup {c} |-> IF d = c THEN r ELSE answers[d]]
  OBVIOUS
<1>2. Types'
  BY DEF PipelineInv, Types, Enabled
<1>3. Replied'
  <2>1. \A d : Replies(d)' = Replies(d)
    BY DEF Replies
  <2>2. Enabled(stage)' = Enabled(stage)
    BY DEF Enabled
  <2>3. DOMAIN answers' = DOMAIN answers \cup {c}
    BY <1>1
  <2>4. \A d \in DOMAIN answers' : answers'[d] \in Replies(d)
    BY <1>1 DEF PipelineInv, Replied
  <2>5. DOMAIN answers' \subseteq IF stage \in Concurrent THEN Enabled(stage) ELSE {}
    BY <2>3 DEF PipelineInv, Replied
  <2> QED
    BY <2>1, <2>2, <2>4, <2>5 DEF Replied
<1>4. Order'
  BY RankKept DEF PipelineInv, Order
<1> QED
  BY <1>2, <1>3, <1>4, ListsKept DEF PipelineInv

LEMMA SideEffectInv ==
  ASSUME PipelineInv, NEW c \in Component, RunSideEffect(c)
  PROVE  PipelineInv'
<1> USE DEF RunSideEffect
<1>1. Types'
  BY DEF PipelineInv, Types, Enabled
<1>2. Replied'
  BY DEF PipelineInv, Replied, Enabled, Concurrent, QueryStages, HydratorStages
<1>3. Order'
  BY RankKept DEF PipelineInv, Order
<1> QED
  BY <1>1, <1>2, <1>3, ListsKept DEF PipelineInv

LEMMA JoinQueryInv ==
  ASSUME PipelineInv, JoinQuery
  PROVE  PipelineInv'
<1> USE DEF JoinQuery
<1>1. stage' \in BeforeFetch /\ stage' \in BeforeSelection /\ stage' # "answered"
      /\ stage' \in StageName
  BY StagesFollow DEF Advance, QueryStages, BeforeFetch, BeforeSelection, StageName
<1>2. stage \in BeforeFetch /\ stage \in BeforeSelection /\ stage # "answered"
      /\ stage \in Concurrent
  BY DEF QueryStages, BeforeFetch, BeforeSelection, Concurrent
<1>3. Types'
  <2>1. DOMAIN answers \subseteq Range(Components[stage])
    BY <1>2 DEF PipelineInv, Replied, Enabled
  <2>2. query' \subseteq UNION {Range(Components[st]) : st \in QueryStages}
    BY <2>1 DEF PipelineInv, Types
  <2>3. effects' = {}
    BY <1>2 DEF PipelineInv, Types
  <2> QED
    BY <1>1, <2>2, <2>3, ListsKept, AdvanceReplied DEF Types
<1>4. Order'
  <2>1. candidates' = <<>> /\ filtered' = <<>> /\ nonSelected' = <<>>
    BY <1>2 DEF PipelineInv, Order
  <2>2. InSourceOrder(candidates)'
    BY <2>1 DEF InSourceOrder
  <2> QED
    BY <1>1, <2>1, <2>2 DEF Order
<1> QED
  BY <1>3, <1>4, ListsKept, AdvanceReplied DEF PipelineInv

LEMMA JoinSourcesInv ==
  ASSUME PipelineInv, JoinSources
  PROVE  PipelineInv'
<1> USE DEF JoinSources
<1> DEFINE p == Collect
<1>1. stage' = "hydrators"
  BY StagesFollow DEF Advance
<1>2. stage \in BeforeFetch /\ stage \in BeforeSelection /\ stage # "answered"
  BY DEF BeforeFetch, BeforeSelection
<1>3. filtered' = <<>> /\ nonSelected' = <<>> /\ effects' = {}
  BY <1>2 DEF PipelineInv, Order, Types
<1>4. /\ p \in Seq(Cand) /\ Own(p) /\ Distinct(p) /\ InSourceOrder(p)
      /\ fetched' = Uids(p) /\ candidates' = p
  BY Collected DEF PipelineInv
<1> HIDE DEF p
<1>5. Types'
  BY <1>1, <1>3, <1>4, EmptyList, AdvanceReplied DEF PipelineInv, Types, StageName
<1>6. Own(candidates)' /\ Own(filtered)' /\ Own(nonSelected)'
  BY <1>3, <1>4 DEF Own
<1>7. Shared'
  BY <1>3, <1>4, EmptyList DEF Shared
<1>8. Order'
  <2>1. InSourceOrder(candidates)'
    BY <1>4, RankKept
  <2> QED
    BY <1>1, <1>3, <2>1 DEF Order, BeforeFetch, BeforeSelection, QueryStages
<1> QED
  BY <1>5, <1>6, <1>7, <1>8, AdvanceReplied DEF PipelineInv

\* A step that leaves every candidate where it is.
LEMMA InPlaceShared ==
  ASSUME PipelineInv, SameUids(candidates, candidates'), UNCHANGED <<fetched, filtered, nonSelected>>
  PROVE  Shared'
<1>1. Uids(candidates') = Uids(candidates) /\ Distinct(candidates')
  BY SameUidsSame DEF PipelineInv, Shared
<1> QED
  BY <1>1 DEF PipelineInv, Shared

LEMMA JoinHydratorsInv ==
  ASSUME PipelineInv, JoinHydrators
  PROVE  PipelineInv'
<1> USE DEF JoinHydrators
<1> DEFINE q == ApplyHydrators(candidates)
<1>1. candidates \in Seq(Cand) /\ Own(candidates)
  BY DEF PipelineInv, Types
<1>2. stage \in Concurrent /\ stage # "answered"
  BY DEF Concurrent, HydratorStages
<1>3. \A c \in DOMAIN answers : answers[c] \in PerCandidate(candidates, {0})
  BY RepliesAre DEF PipelineInv, Replied
<1>4. DOMAIN answers \subseteq Component
  <2>1. stage \in Stages
    BY DEF HydratorStages, Stages
  <2> QED
    BY <1>2, <2>1, AssumptionParts DEF PipelineInv, Replied, Enabled, Component
<1>5. /\ q \in Seq(Cand) /\ SameUids(candidates, q) /\ Own(q)
      /\ \A i \in DOMAIN candidates : q[i].score = candidates[i].score
  BY <1>1, <1>3, <1>4, HydratedSame
<1> HIDE DEF q
<1>6. candidates' = q
  BY DEF q
<1>7. effects' = {}
  BY <1>2 DEF PipelineInv, Types
<1>8. stage' \in StageName /\ stage' # "answered" /\ stage' \notin BeforeFetch
  BY StagesFollow DEF Advance, HydratorStages, StageName, BeforeFetch, QueryStages
<1>9. stage' \in BeforeSelection <=> stage \in BeforeSelection
  BY StagesFollow DEF Advance, HydratorStages, BeforeFetch, BeforeSelection, QueryStages
<1>10. Types'
  BY <1>5, <1>6, <1>7, <1>8, AdvanceReplied DEF PipelineInv, Types
<1>11. Own(candidates)' /\ Own(filtered)' /\ Own(nonSelected)'
  BY <1>5, <1>6 DEF PipelineInv, Own
<1>12. Shared'
  BY <1>5, <1>6, InPlaceShared
<1>13. Order'
  <2>1. stage' \in BeforeSelection => InSourceOrder(candidates)' /\ nonSelected' = <<>>
    BY <1>5, <1>6, <1>9, SameUidsSame, RankKept DEF PipelineInv, Order
  <2>2. stage' \notin BeforeSelection => Ranked(candidates)' /\ Above(candidates, nonSelected)'
    BY <1>5, <1>6, <1>9, SameScoresSame, RankKept DEF PipelineInv, Order
  <2> QED
    BY <1>8, <2>1, <2>2 DEF Order
<1> QED
  BY <1>10, <1>11, <1>12, <1>13, AdvanceReplied DEF PipelineInv

LEMMA ToRunNat ==
  ASSUME stage \in FilterStages \cup {"scorers"}, ToRun # {}
  PROVE  NextToRun \in ToRun /\ NextToRun \in Nat
         /\ Components[stage][NextToRun] \in Component
<1> DEFINE list == Components[stage]
           S == ToRun
<1>1. list \in Seq(Component)
  BY AssumptionParts DEF Stages, FilterStages
<1>2. S \in SUBSET DOMAIN list
  BY DEF ToRun
<1> HIDE DEF list, S
<1>3. DOMAIN list \subseteq Nat /\ S # {}
  BY <1>1 DEF S
<1>4. PICK x \in S : \A y \in S : x <= y
  <2> DEFINE R == {p \in Nat \X Nat : p[1] < p[2]}
  <2>1. IsWellFoundedOn(R, Nat)
    BY Zenon, NatLessThanWellFounded DEF OpToRel
  <2>2. S \subseteq Nat
    BY <1>2, <1>3
  <2> HIDE DEF R
  <2>3. PICK x \in S : \A y \in S : <<y, x>> \notin R
    BY Zenon, <1>3, <2>1, <2>2, WFMin
  <2>4. \A y \in S : ~(y < x)
    BY Zenon, <2>2, <2>3 DEF R
  <2> QED
    BY <2>2, <2>3, <2>4
<1>5. NextToRun \in S
  BY <1>4 DEF NextToRun, S
<1> QED
  BY <1>1, <1>2, <1>3, <1>5 DEF S, list

\* FilterResult::partition moves candidates and loses none.
LEMMA PartitionShared ==
  ASSUME NEW list \in Seq(Cand), NEW S \in SUBSET DOMAIN list, Own(list), Distinct(list)
  PROVE  LET p == Pick(list, S) q == Pick(list, DOMAIN list \ S) IN
         /\ p \in Seq(Cand) /\ Own(p) /\ Distinct(p)
         /\ q \in Seq(Cand) /\ Own(q) /\ Distinct(q)
         /\ Uids(p) \cap Uids(q) = {} /\ Uids(p) \cup Uids(q) = Uids(list)
<1> DEFINE U == DOMAIN list \ S
           p == Pick(list, S)
           q == Pick(list, U)
<1>1. U \in SUBSET DOMAIN list
  OBVIOUS
<1>2. PICK at : Draws(p, list, S, at)
  BY PickDraws
<1>3. PICK bt : Draws(q, list, U, bt)
  BY <1>1, PickDraws
<1> HIDE DEF p, q
<1>4. Uids(p) \cap Uids(q) = {} /\ Uids(p) \cup Uids(q) = Uids(list)
  BY <1>2, <1>3, DrawnApart
<1> HIDE DEF U
<1>5. /\ p \in Seq(Cand) /\ Own(p) /\ Distinct(p)
      /\ q \in Seq(Cand) /\ Own(q) /\ Distinct(q)
  BY Zenon, <1>1, <1>2, <1>3, DrawnOwn
<1> QED
  BY Zenon, <1>4, <1>5 DEF p, q, U

LEMMA RunFilterInv ==
  ASSUME PipelineInv, RunFilter
  PROVE  PipelineInv'
<1> USE DEF RunFilter
<1>1. candidates \in Seq(Cand) /\ filtered \in Seq(Cand) /\ nonSelected \in Seq(Cand)
  BY DEF PipelineInv, Types
<1>2. PICK S \in SUBSET DOMAIN candidates :
        /\ candidates' = Pick(candidates, S)
        /\ filtered' = filtered \o Pick(candidates, DOMAIN candidates \ S)
  BY Zenon DEF Partition
<1> DEFINE p == Pick(candidates, S)
           q == Pick(candidates, DOMAIN candidates \ S)
<1>3. Own(candidates) /\ Distinct(candidates)
  BY DEF PipelineInv, Shared
<1>4. /\ p \in Seq(Cand) /\ Own(p) /\ Distinct(p)
      /\ q \in Seq(Cand) /\ Own(q) /\ Distinct(q)
      /\ Uids(p) \cap Uids(q) = {} /\ Uids(p) \cup Uids(q) = Uids(candidates)
  BY Zenon, <1>1, <1>3, PartitionShared
<1>5. /\ InSourceOrder(candidates) => InSourceOrder(p)
      /\ Ranked(candidates) => Ranked(p)
      /\ Above(candidates, nonSelected) => Above(p, nonSelected)
  BY <1>1, PickOrdered
<1> HIDE DEF p, q
<1>6. candidates' = p /\ filtered' = filtered \o q
  BY <1>2 DEF p, q
<1>7. Uids(filtered) \cap Uids(q) = {}
  BY <1>4 DEF PipelineInv, Shared
<1>8. /\ filtered' \in Seq(Cand) /\ Own(filtered') /\ Distinct(filtered')
       /\ Uids(filtered') = Uids(filtered) \cup Uids(q)
  BY Zenon, <1>1, <1>4, <1>6, <1>7, Appended DEF PipelineInv, Shared
<1>9. stage # "answered" /\ stage \notin Concurrent
  BY DEF FilterStages, Concurrent, QueryStages, HydratorStages
<1>10. Types'
  <2>1. pos' \in Nat
    <3>1. stage \in FilterStages \cup {"scorers"} /\ ToRun # {} /\ pos' = NextToRun + 1
      OBVIOUS
    <3>2. NextToRun \in Nat
      BY <3>1, ToRunNat
    <3> QED
      BY <3>1, <3>2
  <2>2. effects' = {}
    BY <1>9 DEF PipelineInv, Types
  <2> QED
    BY Zenon, <1>4, <1>6, <1>8, <2>1, <2>2 DEF PipelineInv, Types
<1>11. Replied'
  BY <1>9 DEF PipelineInv, Replied
<1>12. Own(candidates)' /\ Own(filtered)' /\ Own(nonSelected)'
  BY <1>4, <1>6, <1>8 DEF PipelineInv
<1>13. Shared'
  BY Zenon, <1>4, <1>6, <1>8 DEF PipelineInv, Shared
<1>14. Order'
  <2>1. stage \notin BeforeFetch
    BY DEF FilterStages, BeforeFetch, QueryStages
  <2>2. stage \in BeforeSelection => InSourceOrder(candidates)' /\ nonSelected' = <<>>
    BY Zenon, <1>5, <1>6, RankKept DEF PipelineInv, Order
  <2>3. stage \notin BeforeSelection => Ranked(candidates)' /\ Above(candidates, nonSelected)'
    BY <1>5, <1>6, RankKept DEF PipelineInv, Order
  <2> QED
    BY <1>9, <2>1, <2>2, <2>3 DEF Order
<1> QED
  BY <1>10, <1>11, <1>12, <1>13, <1>14 DEF PipelineInv

LEMMA RunScorerInv ==
  ASSUME PipelineInv, RunScorer
  PROVE  PipelineInv'
<1> USE DEF RunScorer
<1>1. candidates \in Seq(Cand) /\ Own(candidates)
  BY DEF PipelineInv, Types
<1> DEFINE c == Components[stage][NextToRun]
<1>2. c \in Component /\ pos' \in Nat
  <2>1. stage \in FilterStages \cup {"scorers"} /\ ToRun # {} /\ pos' = NextToRun + 1
    OBVIOUS
  <2>2. c \in Component /\ NextToRun \in Nat
    BY <2>1, ToRunNat
  <2> QED
    BY <2>1, <2>2
<1>3. PICK r \in PerCandidate(candidates, 1..MaxScore) : candidates' = ScoreAll(c, candidates, r)
  BY RepliesAre
<1> HIDE DEF c
<1>4. candidates' \in Seq(Cand) /\ SameUids(candidates, candidates') /\ Own(candidates')
  BY <1>1, <1>2, <1>3, ScoredSame
<1>5. /\ stage # "answered" /\ stage \notin Concurrent
      /\ stage \notin BeforeFetch /\ stage \in BeforeSelection
  BY DEF Concurrent, QueryStages, HydratorStages, BeforeFetch, BeforeSelection
<1>6. Types'
  <2>1. effects' = {}
    BY Zenon, <1>5 DEF PipelineInv, Types
  <2> QED
    BY Zenon, <1>2, <1>4, <2>1 DEF PipelineInv, Types
<1>7. Replied'
  BY <1>5 DEF PipelineInv, Replied
<1>8. Own(candidates)' /\ Own(filtered)' /\ Own(nonSelected)'
  BY <1>4 DEF PipelineInv
<1>9. Shared'
  BY <1>4, InPlaceShared
<1>10. Order'
  <2>1. InSourceOrder(candidates')
    BY <1>4, <1>5, SameUidsSame DEF PipelineInv, Order
  <2> QED
    BY <1>5, <2>1 DEF PipelineInv, Order
<1> QED
  BY <1>6, <1>7, <1>8, <1>9, <1>10 DEF PipelineInv

LEMMA StageDoneInv ==
  ASSUME PipelineInv, StageDone
  PROVE  PipelineInv'
<1> USE DEF StageDone
<1>1. /\ stage' \in StageName /\ stage # "answered" /\ stage' # "answered"
      /\ stage' \notin BeforeFetch
      /\ stage' \in BeforeSelection <=> stage \in BeforeSelection
  BY StagesFollow DEF Advance, FilterStages, StageName, BeforeFetch, BeforeSelection, QueryStages
<1>2. Types'
  <2>1. effects' = {}
    BY <1>1 DEF PipelineInv, Types
  <2> QED
    BY <1>1, <2>1, AdvanceReplied DEF PipelineInv, Types
<1>3. Order'
  <2>1. stage' \in BeforeSelection => InSourceOrder(candidates)' /\ nonSelected' = <<>>
    BY <1>1 DEF PipelineInv, Order
  <2>2. stage' \notin BeforeSelection => Ranked(candidates)' /\ Above(candidates, nonSelected)'
    BY <1>1, RankKept DEF PipelineInv, Order
  <2> QED
    BY <1>1, <2>1, <2>2 DEF Order
<1> QED
  BY <1>2, <1>3, ListsKept, AdvanceReplied DEF PipelineInv

\* Cutting a list in two moves candidates and loses none.
LEMMA CutShared ==
  ASSUME NEW list \in Seq(Cand), NEW n \in Nat, Own(list), Distinct(list)
  PROVE  LET p == Taken(list, n) q == Surplus(list, n) IN
         /\ p \in Seq(Cand) /\ Own(p) /\ Distinct(p)
         /\ q \in Seq(Cand) /\ Own(q) /\ Distinct(q)
         /\ Uids(p) \cap Uids(q) = {} /\ Uids(p) \cup Uids(q) = Uids(list)
<1> DEFINE p == Taken(list, n)
           q == Surplus(list, n)
<1>1. PICK m \in 0..Len(list) :
        /\ Draws(p, list, 1..m, [k \in 1..m |-> k])
        /\ Draws(q, list, DOMAIN list \ (1..m), [k \in 1..(Len(list) - m) |-> k + m])
  BY Zenon, SplitDraws
<1> HIDE DEF p, q
<1> DEFINE S == 1..m
           at == [k \in 1..m |-> k]
           bt == [k \in 1..(Len(list) - m) |-> k + m]
<1>2. S \in SUBSET DOMAIN list /\ Draws(p, list, S, at) /\ Draws(q, list, DOMAIN list \ S, bt)
  BY <1>1
<1> HIDE DEF S, at, bt
<1>3. /\ p \in Seq(Cand) /\ Own(p) /\ Distinct(p)
      /\ q \in Seq(Cand) /\ Own(q) /\ Distinct(q)
  BY Zenon, <1>2, DrawnOwn
<1>4. Uids(p) \cap Uids(q) = {} /\ Uids(p) \cup Uids(q) = Uids(list)
  BY Zenon, <1>2, DrawnApart
<1> QED
  BY <1>3, <1>4 DEF p, q

LEMMA SortShared ==
  ASSUME NEW list \in Seq(Cand), Own(list), Distinct(list)
  PROVE  LET p == StableSort(list) IN
         p \in Seq(Cand) /\ Own(p) /\ Distinct(p) /\ Uids(p) = Uids(list)
<1> DEFINE p == StableSort(list)
           S == DOMAIN list
<1>1. PICK at : Draws(p, list, S, at)
  BY SortDraws
<1>2. S \in SUBSET DOMAIN list /\ Uids(list) = {list[i].uid : i \in S}
  BY DEF Uids
<1> HIDE DEF p, S
<1>3. p \in Seq(Cand) /\ Own(p) /\ Distinct(p) /\ Uids(p) = {list[i].uid : i \in S}
  BY <1>1, <1>2, DrawnOwn
<1> QED
  BY <1>2, <1>3 DEF p

LEMMA SelectInv ==
  ASSUME PipelineInv, Select
  PROVE  PipelineInv'
<1> USE DEF Select
<1>1. /\ candidates \in Seq(Cand) /\ Own(candidates) /\ Distinct(candidates)
      /\ SelectorSize \in Nat
  BY Zenon, AssumptionParts DEF PipelineInv, Types, Shared
<1>2. /\ stage \in BeforeSelection /\ stage # "answered"
      /\ InSourceOrder(candidates) /\ nonSelected = <<>>
  BY DEF BeforeSelection, PipelineInv, Order
<1>3. stage' = "post_selection_hydrators"
  BY StagesFollow DEF Advance
<1>4. /\ stage' \in StageName /\ stage' \notin BeforeSelection /\ stage' \notin BeforeFetch
      /\ stage' # "answered"
  BY <1>3 DEF StageName, BeforeFetch, BeforeSelection, QueryStages
<1> DEFINE s == StableSort(candidates)
           p == Taken(s, SelectorSize)
           q == Surplus(s, SelectorSize)
<1>5. /\ s \in Seq(Cand) /\ Own(s) /\ Distinct(s) /\ Uids(s) = Uids(candidates)
      /\ SelectorEnabled => Ranked(s)
  BY <1>1, <1>2, SortShared, SortRanks
<1> HIDE DEF s
<1>6. /\ p \in Seq(Cand) /\ Own(p) /\ Distinct(p)
      /\ q \in Seq(Cand) /\ Own(q) /\ Distinct(q)
      /\ Uids(p) \cap Uids(q) = {} /\ Uids(p) \cup Uids(q) = Uids(s)
  BY Zenon, <1>1, <1>5, CutShared
<1>7. SelectorEnabled => Ranked(p) /\ Above(p, q)
  BY <1>1, <1>5, CutRanked
<1> HIDE DEF p, q
<1>8. SelectorEnabled => candidates' = p /\ nonSelected' = q
  BY DEF p, q, s
<1>9. ~SelectorEnabled => candidates' = candidates /\ nonSelected' = <<>>
  BY <1>2
<1>10. effects' = {}
  BY <1>2 DEF PipelineInv, Types
<1>11. /\ candidates' \in Seq(Cand) /\ Own(candidates') /\ Distinct(candidates')
       /\ nonSelected' \in Seq(Cand) /\ Own(nonSelected') /\ Distinct(nonSelected')
       /\ Uids(candidates') \cap Uids(nonSelected') = {}
       /\ Uids(candidates') \cup Uids(nonSelected') = Uids(candidates)
  <2>1. CASE SelectorEnabled
    BY <1>5, <1>6, <1>8, <2>1
  <2>2. CASE ~SelectorEnabled
    BY <1>1, <1>9, <2>2, EmptyList
  <2> QED
    BY <2>1, <2>2
<1>12. Types'
  BY <1>4, <1>10, <1>11, AdvanceReplied DEF PipelineInv, Types
<1>13. Shared'
  BY <1>2, <1>11, EmptyList DEF PipelineInv, Shared
<1>14. Order'
  <2>1. Ranked(candidates)'
    <3>1. CASE SelectorEnabled
      BY <1>7, <1>8, <3>1, RankKept
    <3>2. CASE ~SelectorEnabled
      BY <1>2, <1>9, <3>2, UnsortedRanked, RankKept
    <3> QED
      BY <3>1, <3>2
  <2>2. Above(candidates, nonSelected)'
    <3>1. CASE SelectorEnabled
      BY <1>7, <1>8, <3>1, RankKept
    <3>2. CASE ~SelectorEnabled
      BY <1>9, <3>2 DEF Above
    <3> QED
      BY <3>1, <3>2
  <2> QED
    BY <1>4, <2>1, <2>2 DEF Order
<1> QED
  BY <1>11, <1>12, <1>13, <1>14, AdvanceReplied DEF PipelineInv

LEMMA TruncateInv ==
  ASSUME PipelineInv, Truncate
  PROVE  PipelineInv'
<1> USE DEF Truncate
<1> DEFINE p == Taken(candidates, ResultSize)
           q == Surplus(candidates, ResultSize)
<1>1. /\ candidates \in Seq(Cand) /\ Own(candidates) /\ Distinct(candidates)
      /\ nonSelected \in Seq(Cand) /\ Own(nonSelected) /\ Distinct(nonSelected)
      /\ ResultSize \in Nat
  BY Zenon, AssumptionParts DEF PipelineInv, Types, Shared
<1>2. stage \notin BeforeSelection /\ stage # "answered" /\ stage' = "answered"
  BY StagesFollow DEF BeforeSelection, BeforeFetch, QueryStages, Advance
<1>3. Ranked(candidates) /\ Above(candidates, nonSelected)
  BY <1>2 DEF PipelineInv, Order
<1>4. /\ p \in Seq(Cand) /\ Own(p) /\ Distinct(p)
      /\ q \in Seq(Cand) /\ Own(q) /\ Distinct(q)
      /\ Uids(p) \cap Uids(q) = {} /\ Uids(p) \cup Uids(q) = Uids(candidates)
  BY Zenon, <1>1, CutShared
<1>5. Ranked(p) /\ Above(p, q) /\ Above(p, nonSelected) /\ Len(p) <= ResultSize
  BY <1>1, <1>3, CutRanked
<1> HIDE DEF p, q
<1>6. candidates' = p /\ nonSelected' = nonSelected \o q
  BY DEF p, q
<1>7. Uids(nonSelected) \cap Uids(q) = {}
  BY <1>4 DEF PipelineInv, Shared
<1>8. /\ nonSelected' \in Seq(Cand) /\ Own(nonSelected') /\ Distinct(nonSelected')
      /\ Uids(nonSelected') = Uids(nonSelected) \cup Uids(q)
  BY <1>1, <1>4, <1>6, <1>7, Appended
<1>9. Types'
  <2>1. effects' = {}
    BY <1>2 DEF PipelineInv, Types
  <2> QED
    BY <1>2, <1>4, <1>6, <1>8, <2>1, AdvanceReplied DEF PipelineInv, Types, StageName
<1>10. Own(candidates)' /\ Own(filtered)' /\ Own(nonSelected)'
  BY <1>4, <1>6, <1>8 DEF PipelineInv
<1>11. Shared'
  BY <1>4, <1>6, <1>8 DEF PipelineInv, Shared
<1>12. Order'
  <2>1. Above(p, nonSelected')
    BY <1>1, <1>4, <1>5, <1>6, AppendedAbove
  <2>2. Ranked(candidates)' /\ Above(candidates, nonSelected)'
    BY Zenon, <1>5, <1>6, <2>1, RankKept
  <2>3. stage' \notin BeforeSelection /\ stage' \notin BeforeFetch
    BY <1>2 DEF BeforeSelection, BeforeFetch, QueryStages
  <2> QED
    BY <1>5, <1>6, <2>2, <2>3 DEF Order
<1> QED
  BY <1>9, <1>10, <1>11, <1>12, AdvanceReplied DEF PipelineInv

LEMMA NextInv ==
  ASSUME PipelineInv, [Next]_vars
  PROVE  PipelineInv'
<1>1. ASSUME NEW c \in Component, Answer(c)
      PROVE  PipelineInv'
  BY <1>1, AnswerInv
<1>2. ASSUME NEW c \in Component, RunSideEffect(c)
      PROVE  PipelineInv'
  BY <1>2, SideEffectInv
<1>3. CASE JoinQuery
  BY <1>3, JoinQueryInv
<1>4. CASE JoinSources
  BY <1>4, JoinSourcesInv
<1>5. CASE JoinHydrators
  BY <1>5, JoinHydratorsInv
<1>6. CASE RunFilter
  BY <1>6, RunFilterInv
<1>7. CASE RunScorer
  BY <1>7, RunScorerInv
<1>8. CASE StageDone
  BY <1>8, StageDoneInv
<1>9. CASE Select
  BY <1>9, SelectInv
<1>10. CASE Truncate
  BY <1>10, TruncateInv
<1>11. CASE UNCHANGED vars
  <2> USE <1>11 DEF vars
  <2>1. Types'
    BY DEF PipelineInv, Types, Enabled
  <2>2. Replied'
    <3>1. \A c : Replies(c)' = Replies(c)
      BY DEF Replies
    <3>2. Enabled(stage)' = Enabled(stage)
      BY DEF Enabled
    <3> QED
      BY <3>1, <3>2 DEF PipelineInv, Replied
  <2>3. Order'
    BY RankKept DEF PipelineInv, Order
  <2> QED
    BY <2>1, <2>2, <2>3, ListsKept DEF PipelineInv
<1> QED
  BY <1>1, <1>2, <1>3, <1>4, <1>5, <1>6, <1>7, <1>8, <1>9, <1>10, <1>11 DEF Next

-----------------------------------------------------------------------------
(* The theorems. *)

\* In every stage the lists hold candidates with data of their own, share
\* none, have all that was fetched and are in the order execute_stages
\* promises at that stage.
THEOREM PipelineInvariant == Spec => []PipelineInv
<1>1. Init => PipelineInv
  BY InitInv
<1>2. PipelineInv /\ [Next]_vars => PipelineInv'
  BY NextInv
<1> QED
  BY <1>1, <1>2, PTL DEF Spec

\* The lists of execute_stages hold candidates of the configured sources, and
\* only enabled components have run.
THEOREM TypeCorrect == Spec => []TypeOK
<1>1. PipelineInv => TypeOK
  <2> SUFFICES ASSUME PipelineInv PROVE TypeOK
    OBVIOUS
  <2>1. stage \in DOMAIN After \cup {"answered"}
    BY StagesFollow DEF PipelineInv, Types
  <2>2. DOMAIN answers \subseteq Component
    <3>1. stage \in Concurrent => stage \in Stages
      BY DEF Concurrent, QueryStages, HydratorStages, Stages
    <3> QED
      BY <3>1, AssumptionParts DEF PipelineInv, Replied, Enabled, Component
  <2>3. \A c \in Cand : CandidateOK(c)
    BY DEF Cand, Uid, CandidateOK
  <2>4. \A list \in {candidates, filtered, nonSelected} :
          \A i \in DOMAIN list : CandidateOK(list[i])
    <3>1. \A list \in Seq(Cand) : \A i \in DOMAIN list : list[i] \in Cand
      OBVIOUS
    <3> QED
      BY <2>3, <3>1 DEF PipelineInv, Types
  <2> QED
    BY <2>1, <2>2, <2>4 DEF PipelineInv, Types, TypeOK
<1> QED
  BY <1>1, PipelineInvariant, PTL

\* Hydrator::run and Scorer::run never let an answer reach another candidate
\* than the one it is about, however many entries are missing.
THEOREM DataStaysOwn == Spec => []OwnData
<1>1. PipelineInv => OwnData
  <2> SUFFICES ASSUME PipelineInv PROVE OwnData
    OBVIOUS
  <2>1. candidates \in Seq(Cand) /\ filtered \in Seq(Cand) /\ nonSelected \in Seq(Cand)
    BY DEF PipelineInv, Types
  <2>2. candidates \o filtered \in Seq(Cand) /\ Own(candidates \o filtered)
    BY <2>1, Appended DEF PipelineInv
  <2>3. Own((candidates \o filtered) \o nonSelected)
    BY Zenon, <2>1, <2>2, Appended DEF PipelineInv
  <2> QED
    BY <2>3 DEF OwnData, Own
<1> QED
  BY <1>1, PipelineInvariant, PTL

\* execute_stages loses no candidate of a source that answered and has none
\* twice.
THEOREM NothingLost == Spec => []Conserved
<1>1. PipelineInv => Conserved
  <2> SUFFICES ASSUME PipelineInv PROVE Conserved
    OBVIOUS
  <2> DEFINE s == candidates \o filtered
             all == s \o nonSelected
  <2>1. candidates \in Seq(Cand) /\ filtered \in Seq(Cand) /\ nonSelected \in Seq(Cand)
    BY DEF PipelineInv, Types
  <2>2. s \in Seq(Cand) /\ Distinct(s) /\ Uids(s) = Uids(candidates) \cup Uids(filtered)
    BY <2>1, Appended DEF PipelineInv, Shared
  <2> HIDE DEF s
  <2>3. Uids(s) \cap Uids(nonSelected) = {}
    BY <2>2 DEF PipelineInv, Shared
  <2>4. all \in Seq(Cand) /\ Distinct(all) /\ Uids(all) = Uids(s) \cup Uids(nonSelected)
    BY <2>1, <2>2, <2>3, Appended DEF PipelineInv, Shared
  <2> HIDE DEF all
  <2>5. Uids(all) = fetched
    BY <2>2, <2>4 DEF PipelineInv, Shared
  <2>6. Len(all) = Cardinality(fetched)
    BY <2>4, <2>5, DistinctLength
  <2> QED
    BY <2>5, <2>6 DEF Conserved, all, s
<1> QED
  BY <1>1, PipelineInvariant, PTL

\* The answer of execute_stages is ranked, within ResultSize, and nothing the
\* selector or the truncation left out outranks it.
THEOREM BestServed == Spec => []ServesBest
<1>1. PipelineInv => ServesBest
  BY DEF PipelineInv, Order, ServesBest, Ranked, Above, BeforeSelection, BeforeFetch, QueryStages
<1> QED
  BY <1>1, PipelineInvariant, PTL
=============================================================================
