-------------------------- MODULE CandidatePipeline --------------------------
(***************************************************************************)
(* One request through the candidate pipeline framework                    *)
(* (src/candidate-pipeline): CandidatePipeline::execute_stages.            *)
(*                                                                         *)
(* The components of the query, source and hydrator stages run             *)
(* concurrently and are joined; filters and scorers run one after another. *)
(* What a component answers is its own business and nondeterministic here: *)
(* it may fail, fail for some of the candidates, or answer with the wrong  *)
(* number of entries.  What the framework makes of the answers is the      *)
(* subject of the model.                                                   *)
(*                                                                         *)
(* A candidate is known by its uid <<source, position>>.  The fields that  *)
(* hydrators and scorers write are abstracted to "data", the set of pairs  *)
(* <<component, uid the answer was about>>, and "score".                   *)
(***************************************************************************)
EXTENDS Integers, Sequences, FiniteSets, Functions

CONSTANTS
  Components,     \* stage -> the components configured for it, in order
  Needs,          \* component -> the query fields its enable() asks for
  Fetches,        \* source -> the most candidates it returns (bound)
  SelectorNeeds,  \* the query fields the selector's enable() asks for
  SelectorSize,   \* Selector::size
  ResultSize,     \* CandidatePipeline::result_size_for
  MaxScore        \* scores are 0..MaxScore, 0 standing for "no score" (bound)

VARIABLES
  stage,       \* the stage the request is in
  query,       \* the fields of the query hydrated so far
  answers,     \* the answers of the current stage's concurrent components
  pos,         \* where a sequential stage goes on in its list of components
  candidates,  \* the candidate list handed from stage to stage
  fetched,     \* history: the uids of the sources that answered Ok
  filtered,    \* filtered_candidates
  nonSelected, \* non_selected_candidates
  effects      \* the side effects that have run

Stages == {"query_hydrators", "dependent_query_hydrators", "sources", "hydrators",
           "filters", "scorers", "post_selection_hydrators",
           "post_selection_filters", "side_effects"}

Component == UNION {Range(Components[st]) : st \in DOMAIN Components}

\* Every stage has its list of components, no source is configured twice, and
\* a source returns finitely many candidates.
ASSUME PipelineAssumption ==
  /\ DOMAIN Components = Stages
  /\ \A st \in Stages : Components[st] \in Seq(Component)
  /\ IsInjective(Components["sources"])
  /\ Fetches \in [Range(Components["sources"]) -> Nat]
  /\ SelectorSize \in Nat /\ ResultSize \in Nat /\ MaxScore \in Nat

vars == <<stage, query, answers, pos, candidates, fetched, filtered,
          nonSelected, effects>>

QueryStages == {"query_hydrators", "dependent_query_hydrators"}
HydratorStages == {"hydrators", "post_selection_hydrators"}
FilterStages == {"filters", "post_selection_filters"}
Concurrent == QueryStages \cup {"sources"} \cup HydratorStages

After ==
  [query_hydrators |-> "dependent_query_hydrators",
   dependent_query_hydrators |-> "sources",
   sources |-> "hydrators",
   hydrators |-> "filters",
   filters |-> "scorers",
   scorers |-> "selector",
   selector |-> "post_selection_hydrators",
   post_selection_hydrators |-> "post_selection_filters",
   post_selection_filters |-> "truncate",
   truncate |-> "answered"]

\* The components that take part in stage st: enable() is asked of the query
\* as it was when the stage began.
Enabled(st) == {c \in Range(Components[st]) : Needs[c] \subseteq query}

\* The positions of the enabled components that a sequential stage has yet to run.
ToRun ==
  {k \in DOMAIN Components[stage] : k >= pos /\ Components[stage][k] \in Enabled(stage)}

NextToRun == CHOOSE k \in ToRun : \A l \in ToRun : k <= l

SourceIndex(s) == CHOOSE i \in DOMAIN Components["sources"] : Components["sources"][i] = s

Candidate(s, i) == [uid |-> <<s, i>>, data |-> {}, score |-> 0]

Uids(list) == {list[i].uid : i \in DOMAIN list}

-----------------------------------------------------------------------------
(* What components may answer. *)

Err == [ok |-> FALSE]

Ok(uid, v) == [ok |-> TRUE, about |-> uid, score |-> v]

\* A per-candidate answer is aligned with the candidates it was asked about,
\* with any of its entries failed, or it lost an entry.
PerCandidate(list, values) ==
  LET n == Len(list)
      without(j, v) == [i \in 1..(n - 1) |-> Ok(list[IF i < j THEN i ELSE i + 1].uid, v)]
  IN  {[i \in 1..n |-> IF f[i] = -1 THEN Err ELSE Ok(list[i].uid, f[i])] :
          f \in [1..n -> {-1} \cup values]}
        \cup {without(j, v) : j \in 1..n, v \in values}

Replies(c) ==
  CASE stage \in QueryStages    -> {Err, [ok |-> TRUE]}
    [] stage = "sources"        ->
         {Err} \cup {[ok |-> TRUE, list |-> [i \in 1..n |-> Candidate(c, i)]] :
                        n \in 0..Fetches[c]}
    [] stage \in HydratorStages -> PerCandidate(candidates, {0})
    [] stage = "scorers"        -> PerCandidate(candidates, 1..MaxScore)

-----------------------------------------------------------------------------
(* What the framework makes of the answers. *)

\* The members of S as a list in the order R, a set of pairs.
InOrder(S, R) ==
  CHOOSE s \in [1..Cardinality(S) -> S] :
    /\ Range(s) = S
    /\ \A i, j \in DOMAIN s : i < j => <<s[i], s[j]>> \in R

IndexPairs(list) == {p \in (DOMAIN list) \X (DOMAIN list) : p[1] < p[2]}

\* The entries of list at the positions in S, in the order they have in list.
Pick(list, S) ==
  LET at == InOrder(S, IndexPairs(list)) IN [k \in DOMAIN at |-> list[at[k]]]

\* a zip without the length check
ZipShort(reply, list) ==
  [i \in DOMAIN list |-> IF i \in DOMAIN reply THEN reply[i] ELSE Err]

\* Hydrator::run and Scorer::run: an answer of the wrong length fails for all.
CheckLength(reply, list) ==
  IF Len(reply) = Len(list) THEN reply ELSE [i \in DOMAIN list |-> Err]

\* Hydrator::update_all, for the candidate at position i: it takes what the
\* checked answers have for that position.
Hydrated(list, i) ==
  LET entry(c) == CheckLength(answers[c], list)[i]
  IN  [list[i] EXCEPT !.data =
         @ \cup {<<c, entry(c).about>> : c \in {d \in DOMAIN answers : entry(d).ok}}]

Scored(c, cand, r) ==
  IF r.ok THEN [cand EXCEPT !.data = @ \cup {<<c, r.about>>}, !.score = r.score]
          ELSE cand

\* Scorer::update_all
ScoreAll(c, list, reply) ==
  LET rs == CheckLength(reply, list)
  IN  [i \in DOMAIN list |-> Scored(c, list[i], rs[i])]

\* run_hydrators
ApplyHydrators(list) == [i \in DOMAIN list |-> Hydrated(list, i)]

\* The sources that answered, by their positions, and what they returned, as
\* pairs of a source's position and a position in its list.
Answered ==
  {k \in DOMAIN Components["sources"] :
     LET c == Components["sources"][k] IN c \in DOMAIN answers /\ answers[c].ok}

Returned == UNION {{k} \X DOMAIN answers[Components["sources"][k]].list : k \in Answered}

\* fetch_candidates: the lists of the sources that answered, in source order.
Collect ==
  LET at == InOrder(Returned,
              {p \in Returned \X Returned :
                 \/ p[1][1] < p[2][1]
                 \/ p[1][1] = p[2][1] /\ p[1][2] < p[2][2]})
  IN  [k \in DOMAIN at |-> answers[Components["sources"][at[k][1]]].list[at[k][2]]]

\* FilterResult::partition keeps the order of both parts.
Partition(list, S) == [kept |-> Pick(list, S), removed |-> Pick(list, DOMAIN list \ S)]

\* an unstable sort: equal scores come out reversed
UnstableSort(list) ==
  LET at == InOrder(DOMAIN list,
              {p \in (DOMAIN list) \X (DOMAIN list) :
                 \/ list[p[1]].score > list[p[2]].score
                 \/ list[p[1]].score = list[p[2]].score /\ p[1] > p[2]})
  IN  [k \in DOMAIN at |-> list[at[k]]]

\* Selector::sort is a stable sort by descending score.
StableSort(list) ==
  LET at == InOrder(DOMAIN list,
              {p \in (DOMAIN list) \X (DOMAIN list) :
                 \/ list[p[1]].score > list[p[2]].score
                 \/ list[p[1]].score = list[p[2]].score /\ p[1] < p[2]})
  IN  [k \in DOMAIN at |-> list[at[k]]]

\* Vec::split_off at no more than the length
Taken(list, n) == SubSeq(list, 1, IF n < Len(list) THEN n ELSE Len(list))
Surplus(list, n) == SubSeq(list, (IF n < Len(list) THEN n ELSE Len(list)) + 1, Len(list))

-----------------------------------------------------------------------------
Init ==
  /\ stage = "query_hydrators"
  /\ query = {}
  /\ answers = <<>>
  /\ pos = 1
  /\ candidates = <<>>
  /\ fetched = {}
  /\ filtered = <<>>
  /\ nonSelected = <<>>
  /\ effects = {}

\* A concurrent component's future completes; in any order.
Answer(c) ==
  /\ stage \in Concurrent
  /\ c \in Enabled(stage) \ DOMAIN answers
  /\ \E r \in Replies(c) :
       answers' = [d \in DOMAIN answers \cup {c} |-> IF d = c THEN r ELSE answers[d]]
  /\ UNCHANGED <<stage, query, pos, candidates, fetched, filtered, nonSelected, effects>>

\* waiting for the disabled components too
JoinedAll ==
  /\ stage \in Concurrent
  /\ Range(Components[stage]) = DOMAIN answers

\* join_all: every enabled component has answered.
Joined ==
  /\ stage \in Concurrent
  /\ Enabled(stage) = DOMAIN answers

Advance == stage' = After[stage] /\ answers' = <<>> /\ pos' = 1

\* hydrate_query, hydrate_dependent_query
JoinQuery ==
  /\ stage \in QueryStages /\ Joined
  /\ query' = query \cup {c \in DOMAIN answers : answers[c].ok}
  /\ Advance
  /\ UNCHANGED <<candidates, fetched, filtered, nonSelected, effects>>

\* fetch_candidates
JoinSources ==
  /\ stage = "sources" /\ Joined
  /\ candidates' = Collect
  /\ fetched' = UNION {Uids(answers[c].list) : c \in {d \in DOMAIN answers : answers[d].ok}}
  /\ Advance
  /\ UNCHANGED <<query, filtered, nonSelected, effects>>

\* hydrate, hydrate_post_selection
JoinHydrators ==
  /\ stage \in HydratorStages /\ Joined
  /\ candidates' = ApplyHydrators(candidates)
  /\ Advance
  /\ UNCHANGED <<query, fetched, filtered, nonSelected, effects>>

\* run_filters: one filter splits what the one before it kept.
RunFilter ==
  /\ stage \in FilterStages /\ ToRun # {}
  /\ \E S \in SUBSET DOMAIN candidates :
       LET split == Partition(candidates, S) IN
       /\ candidates' = split.kept
       /\ filtered' = filtered \o split.removed
  /\ pos' = NextToRun + 1
  /\ UNCHANGED <<stage, query, answers, fetched, nonSelected, effects>>

\* score: one scorer sees the scores of the one before it.
RunScorer ==
  /\ stage = "scorers" /\ ToRun # {}
  /\ LET c == Components[stage][NextToRun] IN
     \E r \in Replies(c) : candidates' = ScoreAll(c, candidates, r)
  /\ pos' = NextToRun + 1
  /\ UNCHANGED <<stage, query, answers, fetched, filtered, nonSelected, effects>>

StageDone ==
  /\ stage \in FilterStages \cup {"scorers"} /\ ToRun = {}
  /\ Advance
  /\ UNCHANGED <<query, candidates, fetched, filtered, nonSelected, effects>>

SelectorEnabled == SelectorNeeds \subseteq query

\* select: a disabled selector selects everything, unsorted.
Select ==
  /\ stage = "selector"
  /\ LET sorted == StableSort(candidates) IN
     IF SelectorEnabled
     THEN /\ candidates' = Taken(sorted, SelectorSize)
          /\ nonSelected' = Surplus(sorted, SelectorSize)
     ELSE UNCHANGED <<candidates, nonSelected>>
  /\ Advance
  /\ UNCHANGED <<query, fetched, filtered, effects>>

\* forgetting the surplus
TruncateForgets ==
  /\ stage = "truncate"
  /\ candidates' = Taken(candidates, ResultSize)
  /\ Advance
  /\ UNCHANGED <<query, fetched, filtered, nonSelected, effects>>

\* The end of execute_stages: the surplus joins the non-selected, the side
\* effects are spawned and the result is returned.
Truncate ==
  /\ stage = "truncate"
  /\ candidates' = Taken(candidates, ResultSize)
  /\ nonSelected' = nonSelected \o Surplus(candidates, ResultSize)
  /\ Advance
  /\ UNCHANGED <<query, fetched, filtered, effects>>

\* running the disabled side effects too
RunAnySideEffect(c) ==
  /\ stage = "answered"
  /\ c \in Range(Components["side_effects"]) \ effects
  /\ effects' = effects \cup {c}
  /\ UNCHANGED <<stage, query, answers, pos, candidates, fetched, filtered, nonSelected>>

\* run_side_effects: a spawned side effect runs, whatever comes of it.
RunSideEffect(c) ==
  /\ stage = "answered"
  /\ c \in Enabled("side_effects") \ effects
  /\ effects' = effects \cup {c}
  /\ UNCHANGED <<stage, query, answers, pos, candidates, fetched, filtered, nonSelected>>

Next ==
  \/ \E c \in Component : Answer(c) \/ RunSideEffect(c)
  \/ JoinQuery \/ JoinSources \/ JoinHydrators
  \/ RunFilter \/ RunScorer \/ StageDone
  \/ Select \/ Truncate

Spec == Init /\ [][Next]_vars

\* Every component's future completes in the end: the framework itself has no
\* timeout, each component bounds its own calls.
FairSpec == Spec /\ WF_vars(Next)

-----------------------------------------------------------------------------
(* Properties *)

CandidateOK(c) ==
  /\ c.uid[1] \in Range(Components["sources"]) /\ c.uid[2] \in 1..Fetches[c.uid[1]]
  /\ c.score \in 0..MaxScore

\* The lists hold candidates of the configured sources, and only components
\* that were enabled have run.
TypeOK ==
  /\ stage \in DOMAIN After \cup {"answered"}
  /\ query \subseteq UNION {Range(Components[st]) : st \in QueryStages}
  /\ DOMAIN answers \subseteq Component
  /\ \A list \in {candidates, filtered, nonSelected} :
       \A i \in DOMAIN list : CandidateOK(list[i])
  /\ effects \subseteq Enabled("side_effects")

\* execute_stages loses and duplicates nothing: from the fetch on, every
\* candidate of every source that answered, whatever the other sources did, is
\* exactly once in the working list, the filtered or the non-selected ones.
Conserved ==
  LET all == candidates \o filtered \o nonSelected
  IN  Uids(all) = fetched /\ Len(all) = Cardinality(fetched)

\* A hydrator's or scorer's answer is only ever applied to the candidate it is
\* about, also when it answers with too few entries (the length checks of
\* Hydrator::run and Scorer::run).
OwnData ==
  LET all == candidates \o filtered \o nonSelected
  IN  \A i \in DOMAIN all : \A d \in all[i].data : d[2] = all[i].uid

Earlier(a, b) ==
  LET ia == SourceIndex(a.uid[1]) ib == SourceIndex(b.uid[1])
  IN  ia < ib \/ (ia = ib /\ a.uid[2] < b.uid[2])

Outranks(a, b) ==
  IF SelectorEnabled THEN a.score > b.score \/ (a.score = b.score /\ Earlier(a, b))
                     ELSE Earlier(a, b)

\* The answer is at most ResultSize long, ordered by score and, for equal
\* scores, by the order of the sources and of their lists however the sources'
\* answers interleaved; and nothing that selection or truncation cut off
\* outranks what is served.
ServesBest ==
  stage = "answered" =>
    /\ Len(candidates) <= ResultSize
    /\ \A i, j \in DOMAIN candidates : i < j => Outranks(candidates[i], candidates[j])
    /\ \A i \in DOMAIN candidates, j \in DOMAIN nonSelected :
         Outranks(candidates[i], nonSelected[j])

\* Whatever fails, the request is answered and every enabled side effect runs.
Completes == <>(stage = "answered" /\ effects = Enabled("side_effects"))
=============================================================================
