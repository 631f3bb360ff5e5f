---------------------------- MODULE CachedHydrator ----------------------------
(***************************************************************************)
(* The blanket Hydrator implementation of the candidate pipeline           *)
(* (src/candidate-pipeline/hydrator.rs): concurrent requests hydrate their *)
(* candidates through one shared cache.  Every await of hydrate_for_stage  *)
(* is a step: each cache get, the client call and each cache insert.       *)
(*                                                                         *)
(* A candidate is abstracted to its cache key and whether it is already    *)
(* hydrated; a hydrated value to the key it is about.                      *)
(***************************************************************************)
EXTENDS Integers, Sequences, FiniteSets, SequencesExt

CONSTANTS
  Request,        \* the requests in flight
  Key,            \* cache keys
  MaxCandidates   \* candidates per request (bound)

ASSUME HydratorAssumption == MaxCandidates \in Nat

VARIABLES
  cache,    \* the keys in the cache, with the key their value is about
  pc,       \* where each request is: get, client, insert, done
  cands,    \* the candidates slice of each request
  results,  \* results: empty until the first candidate needs no client
  missing,  \* missing_indices (missing_keys are their keys)
  pos,      \* the loop index of the get and of the insert loop
  reply     \* hydrated_missing

vars == <<cache, pc, cands, results, missing, pos, reply>>

Cand == [key : Key, own : BOOLEAN]

\* the Option<Result<C, String>> entries of results, and None in the cache
None == [is |-> "none"]
Err == [is |-> "err"]
Ok(k) == [is |-> "ok", about |-> k]
Entry == {None, Err} \cup {Ok(k) : k \in Key}

-----------------------------------------------------------------------------
Init ==
  /\ cache = [k \in Key |-> None]
  /\ pc = [r \in Request |-> "get"]
  /\ cands \in [Request -> UNION {[1..n -> Cand] : n \in 0..MaxCandidates}]
  /\ results = [r \in Request |-> <<>>]
  /\ missing = [r \in Request |-> <<>>]
  /\ pos = [r \in Request |-> 1]
  /\ reply = [r \in Request |-> <<>>]

\* results.resize_with(candidates.len(), || None) on the first entry
Resized(r) == IF results[r] = <<>> THEN [i \in DOMAIN cands[r] |-> None] ELSE results[r]

\* One turn of the lookup loop.
Get(r) ==
  /\ pc[r] = "get" /\ pos[r] <= Len(cands[r])
  /\ LET i == pos[r]
         c == cands[r][i]
         hit == IF c.own THEN Ok(c.key) ELSE cache[c.key]
     IN  IF hit = None
         THEN /\ missing' = [missing EXCEPT ![r] = Append(@, i)]
              /\ UNCHANGED results
         ELSE /\ results' = [results EXCEPT ![r] = [Resized(r) EXCEPT ![i] = hit]]
              /\ UNCHANGED missing
  /\ pos' = [pos EXCEPT ![r] = @ + 1]
  /\ UNCHANGED <<cache, pc, cands, reply>>

GetsDone(r) ==
  /\ pc[r] = "get" /\ pos[r] > Len(cands[r])
  /\ pc' = [pc EXCEPT ![r] = IF missing[r] = <<>> THEN "done" ELSE "client"]
  /\ UNCHANGED <<cache, cands, results, missing, pos, reply>>

\* always asking about every candidate
AskedAll(r) == cands[r]

\* missing_candidates: the whole slice when nothing was found.
Asked(r) ==
  IF results[r] = <<>> THEN cands[r]
  ELSE [j \in DOMAIN missing[r] |-> cands[r][missing[r][j]]]

\* hydrate_from_client answers about the candidates it was asked about; each
\* entry may be an error, and entries may be missing.
ClientReplies(asked) ==
  LET full == [j \in DOMAIN asked |-> Ok(asked[j].key)]
  IN  {[j \in DOMAIN asked |-> IF j \in S THEN full[j] ELSE Err] :
          S \in SUBSET DOMAIN asked}
        \cup {RemoveAt(full, j) : j \in DOMAIN asked}

\* a client that answered too little is believed
FitsLoose(r, a) == Len(a) <= Len(missing[r])

\* hydrated_missing.len() == missing_indices.len()
Fits(r, a) == Len(a) = Len(missing[r])

\* A reply of the wrong length fails every candidate, the cache hits too.
CallClient(r) ==
  /\ pc[r] = "client"
  /\ \E a \in ClientReplies(Asked(r)) :
       IF Fits(r, a)
       THEN /\ reply' = [reply EXCEPT ![r] = a]
            /\ pos' = [pos EXCEPT ![r] = 1]
            /\ pc' = [pc EXCEPT ![r] = "insert"]
            /\ UNCHANGED results
       ELSE /\ results' = [results EXCEPT ![r] = [i \in DOMAIN cands[r] |-> Err]]
            /\ pc' = [pc EXCEPT ![r] = "done"]
            /\ UNCHANGED <<pos, reply>>
  /\ UNCHANGED <<cache, cands, missing>>

\* the reply's own index instead of the candidate's
PlacedInOrder(r, j) == j

\* the index in results of the j-th reply
Placed(r, j) == missing[r][j]

\* One turn of either insert loop: cache an Ok entry and, when results were
\* allocated, put the entry where its candidate is.
Insert(r) ==
  /\ pc[r] = "insert" /\ pos[r] <= Len(reply[r])
  /\ LET j == pos[r]
         i == missing[r][j]
         e == reply[r][j]
     IN  /\ cache' = IF e = Err THEN cache
                     ELSE [cache EXCEPT ![cands[r][i].key] = e]
         /\ results' = IF results[r] = <<>> THEN results
                       ELSE [results EXCEPT ![r][Placed(r, j)] = e]
  /\ pos' = [pos EXCEPT ![r] = @ + 1]
  /\ UNCHANGED <<pc, cands, missing, reply>>

\* With nothing found the client's reply is returned as it is.
InsertsDone(r) ==
  /\ pc[r] = "insert" /\ pos[r] > Len(reply[r])
  /\ results' = IF results[r] = <<>> THEN [results EXCEPT ![r] = reply[r]] ELSE results
  /\ pc' = [pc EXCEPT ![r] = "done"]
  /\ UNCHANGED <<cache, cands, missing, pos, reply>>

\* The cache store drops an entry, for age or for room.
Evict(k) ==
  /\ cache[k] # None
  /\ cache' = [cache EXCEPT ![k] = None]
  /\ UNCHANGED <<pc, cands, results, missing, pos, reply>>

Hydrate(r) == Get(r) \/ GetsDone(r) \/ CallClient(r) \/ Insert(r) \/ InsertsDone(r)

Next == (\E r \in Request : Hydrate(r)) \/ (\E k \in Key : Evict(k))

Spec == Init /\ [][Next]_vars

-----------------------------------------------------------------------------
(* Properties *)

\* The state's types: the results, once allocated, have one entry per
\* candidate, and the loop index stays within its list.
TypeOK ==
  /\ cache \in [Key -> Entry \ {Err}]
  /\ pc \in [Request -> {"get", "client", "insert", "done"}]
  /\ cands \in [Request -> Seq(Cand)]
  /\ results \in [Request -> Seq(Entry)]
  /\ missing \in [Request -> Seq(Nat)]
  /\ pos \in [Request -> Nat]
  /\ reply \in [Request -> Seq(Entry)]
  /\ \A r \in Request :
       /\ results[r] = <<>> \/ Len(results[r]) = Len(cands[r])
       /\ \A j \in DOMAIN missing[r] : missing[r][j] \in DOMAIN cands[r]
       /\ pos[r] \in 1..(Len(cands[r]) + 1)

\* No candidate is given another candidate's value, from the cache or from the
\* client, whatever the other requests put into the cache meanwhile.
Aligned ==
  /\ \A k \in Key : cache[k] \in {None, Ok(k)}
  /\ \A r \in Request : \A i \in DOMAIN results[r] :
       results[r][i] \in {None, Err, Ok(cands[r][i].key)}

\* A finished request has one entry per candidate, and the fallback "Missing
\* hydration result for candidate" is never needed: each entry was a hit or a
\* reply of the client.
NoHole ==
  \A r \in Request : pc[r] = "done" =>
    /\ Len(results[r]) = Len(cands[r])
    /\ \A i \in DOMAIN results[r] : results[r][i] # None
=============================================================================
