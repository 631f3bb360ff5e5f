------------------------- MODULE CachedHydratorProofs -------------------------
(***************************************************************************)
(* Proofs about CachedHydrator, for any number of requests, keys and       *)
(* candidates: the values a request hands out are its candidates' own, and *)
(* every candidate gets an entry.                                          *)
(***************************************************************************)
EXTENDS CachedHydrator, TLAPS

\* Of the first n candidates each one has an entry or is among the missing ones
\* from the p-th on; while nothing was found, all of them are missing, in order.
Pending(res, mis, n, p) ==
  /\ Len(mis) <= n
  /\ res = <<>> => Len(mis) = n /\ \A j \in DOMAIN mis : mis[j] = j
  /\ res # <<>> => \A i \in 1..n :
       res[i] # None \/ \E j \in DOMAIN mis : mis[j] = i /\ j >= p

\* The client's reply is about the missing candidates.
Replied(rep, mis, cs) ==
  /\ Len(rep) = Len(mis)
  /\ \A j \in DOMAIN rep : rep[j] \in {Err, Ok(cs[mis[j]].key)}

Complete(res, cs) == Len(res) = Len(cs) /\ \A i \in DOMAIN res : res[i] # None

\* What a request knows of its candidates in each of its phases.
Accounted(r) ==
  /\ pc[r] = "get" => Pending(results[r], missing[r], pos[r] - 1, 1)
  /\ pc[r] = "client" => Pending(results[r], missing[r], Len(cands[r]), 1)
  /\ pc[r] = "insert" => /\ Pending(results[r], missing[r], Len(cands[r]), pos[r])
                         /\ Replied(reply[r], missing[r], cands[r])
  /\ pc[r] = "done" => Complete(results[r], cands[r])

Inv == TypeOK /\ Aligned /\ \A r \in Request : Accounted(r)

-----------------------------------------------------------------------------
LEMMA EntryFacts ==
  /\ None \in Entry /\ Err \in Entry /\ None # Err
  /\ \A k \in Key : Ok(k) \in Entry /\ Ok(k) # None /\ Ok(k) # Err
BY Zenon DEF Entry, None, Err, Ok

LEMMA CandFields == \A c \in Cand : c.key \in Key /\ c.own \in BOOLEAN
BY Zenon DEF Cand

LEMMA InvInit == Init => Inv
<1> SUFFICES ASSUME Init PROVE Inv BY Zenon
<1>1. \A r \in Request : cands[r] \in Seq(Cand)
  <2> TAKE r \in Request
  <2>1. PICK n \in 0..MaxCandidates : cands[r] \in [1..n -> Cand] BY DEF Init
  <2>2. n \in Nat BY HydratorAssumption
  <2> QED BY <2>1, <2>2
<1>2. cands \in [Request -> Seq(Cand)] BY Zenon, <1>1 DEF Init
<1>3. TypeOK BY <1>2, EntryFacts DEF Init, TypeOK
<1>4. Aligned BY DEF Init, Aligned
<1>5. \A r \in Request : Accounted(r)
  <2>1. Pending(<<>>, <<>>, 0, 1) BY DEF Pending
  <2> QED BY <2>1 DEF Init, Accounted
<1> QED BY Zenon, <1>3, <1>4, <1>5 DEF Inv

\* The invariant, at one request.
LEMMA AtRequest ==
  ASSUME Inv, NEW r \in Request
  PROVE  /\ pc[r] \in {"get", "client", "insert", "done"}
         /\ cands[r] \in Seq(Cand) /\ Len(cands[r]) \in Nat
         /\ DOMAIN cands[r] = 1..Len(cands[r])
         /\ results[r] \in Seq(Entry) /\ Len(results[r]) \in Nat
         /\ DOMAIN results[r] = 1..Len(results[r])
         /\ (results[r] = <<>> \/ Len(results[r]) = Len(cands[r]))
         /\ missing[r] \in Seq(Nat) /\ Len(missing[r]) \in Nat
         /\ DOMAIN missing[r] = 1..Len(missing[r])
         /\ \A j \in DOMAIN missing[r] : missing[r][j] \in DOMAIN cands[r]
         /\ pos[r] \in Nat /\ pos[r] \in 1..(Len(cands[r]) + 1)
         /\ reply[r] \in Seq(Entry) /\ Len(reply[r]) \in Nat
         /\ DOMAIN reply[r] = 1..Len(reply[r])
         /\ \A i \in DOMAIN results[r] :
              results[r][i] \in {None, Err, Ok(cands[r][i].key)}
         /\ Accounted(r)
BY DEF Inv, TypeOK, Aligned

\* A step of request r leaves what the other requests know alone.
LEMMA OthersKeep ==
  ASSUME Inv, NEW r \in Request, Hydrate(r), NEW u \in Request, u # r
  PROVE  /\ pc'[u] = pc[u] /\ cands'[u] = cands[u] /\ results'[u] = results[u]
         /\ missing'[u] = missing[u] /\ pos'[u] = pos[u] /\ reply'[u] = reply[u]
<1> USE DEF Inv, TypeOK
<1>1. CASE Get(r) BY Zenon, <1>1 DEF Get
<1>2. CASE GetsDone(r) BY Zenon, <1>2 DEF GetsDone
<1>3. CASE CallClient(r) BY <1>3 DEF CallClient
<1>4. CASE Insert(r)
  <2>1. results' = results \/ \E i, e : results' = [results EXCEPT ![r][i] = e]
    BY Zenon, <1>4 DEF Insert
  <2>2. results'[u] = results[u] BY Zenon, <2>1
  <2> QED BY Zenon, <1>4, <2>2 DEF Insert
<1>5. CASE InsertsDone(r) BY Zenon, <1>5 DEF InsertsDone
<1> QED BY Zenon, <1>1, <1>2, <1>3, <1>4, <1>5 DEF Hydrate

\* A reply of the right length is aligned with what the client was asked.
LEMMA ReplyAligned ==
  ASSUME NEW asked \in Seq(Cand), NEW a \in ClientReplies(asked), Len(a) = Len(asked)
  PROVE  a \in Seq(Entry) /\ \A j \in 1..Len(a) : a[j] \in {Err, Ok(asked[j].key)}
<1> DEFINE full == [j \in DOMAIN asked |-> Ok(asked[j].key)]
<1>1. full \in Seq(Entry) /\ Len(full) = Len(asked)
  <2>1. \A j \in 1..Len(asked) : Ok(asked[j].key) \in Entry BY EntryFacts, CandFields
  <2> QED BY <2>1
<1>2. ASSUME NEW j \in DOMAIN asked, a = RemoveAt(full, j) PROVE FALSE
  <2> HIDE DEF full
  <2>1. j \in 1..Len(full) BY <1>1
  <2>2. Len(SubSeq(full, 1, j-1)) = j - 1 BY <1>1, <2>1
  <2>3. Len(SubSeq(full, j+1, Len(full))) = Len(full) - j BY <1>1, <2>1
  <2>4. SubSeq(full, 1, j-1) \in Seq(Entry) /\ SubSeq(full, j+1, Len(full)) \in Seq(Entry)
    BY <1>1, <2>1
  <2>5. Len(a) = Len(full) - 1 BY <1>1, <1>2, <2>1, <2>2, <2>3, <2>4 DEF RemoveAt
  <2> QED BY <2>5, <1>1
<1>3. PICK S \in SUBSET DOMAIN asked :
        a = [j \in DOMAIN asked |-> IF j \in S THEN full[j] ELSE Err]
  BY Zenon, <1>2 DEF ClientReplies
<1>4. \A j \in DOMAIN asked : a[j] \in {Err, Ok(asked[j].key)} BY Zenon, <1>3
<1>5. \A j \in DOMAIN asked : a[j] \in Entry BY <1>4, EntryFacts, CandFields
<1>6. DOMAIN asked = 1..Len(asked) /\ Len(asked) \in Nat OBVIOUS
<1>7. a \in [1..Len(asked) -> Entry] BY Zenon, <1>3, <1>5, <1>6
<1> QED BY <1>4, <1>6, <1>7

-----------------------------------------------------------------------------
(* One lemma per step of a request. *)

LEMMA GetKeeps ==
  ASSUME Inv, NEW r \in Request, Get(r)
  PROVE  TypeOK' /\ Aligned' /\ Accounted(r)'
<1> DEFINE i == pos[r]
           c == cands[r][i]
           hit == IF c.own THEN Ok(c.key) ELSE cache[c.key]
<1>1. i \in 1..Len(cands[r]) /\ pc[r] = "get" /\ Len(cands[r]) \in Nat BY AtRequest DEF Get
<1>2. c \in Cand /\ c.key \in Key BY <1>1, CandFields DEF Inv, TypeOK
<1>3. hit \in {None, Ok(c.key)} /\ hit \in Entry
  BY Zenon, <1>2, EntryFacts DEF Inv, TypeOK, Aligned
<1>4. Resized(r) \in Seq(Entry) /\ Len(Resized(r)) = Len(cands[r])
  <2>1. CASE results[r] = <<>>
    <3>1. Resized(r) = [n \in 1..Len(cands[r]) |-> None] BY Zenon, <2>1, AtRequest DEF Resized
    <3>2. Resized(r) \in Seq(Entry) BY <3>1, <1>1, EntryFacts
    <3> QED BY <3>1, <3>2, <1>1
  <2>2. CASE results[r] # <<>> BY Zenon, <2>2, AtRequest DEF Resized
  <2> QED BY Zenon, <2>1, <2>2
<1>5. /\ pos' = [pos EXCEPT ![r] = @ + 1]
      /\ UNCHANGED <<cache, pc, cands, reply>>
  BY Zenon DEF Get
<1> HIDE DEF hit, c
<1>6. CASE hit = None
  <2>1. missing' = [missing EXCEPT ![r] = Append(@, i)] /\ results' = results
    BY Zenon, <1>6 DEF Get, hit, c
  <2>2. TypeOK'
    <3>1. missing[r] \in Seq(Nat) /\ Len(missing[r]) \in Nat /\ i \in Nat /\ i + 1 \in Nat
      BY <1>1, AtRequest
    <3>2. missing' \in [Request -> Seq(Nat)] /\ pos' \in [Request -> Nat]
      BY <1>5, <2>1, <3>1 DEF Inv, TypeOK
    <3>3. missing'[r] = Append(missing[r], i) /\ pos'[r] = i + 1
      BY Zenon, <1>5, <2>1 DEF Inv, TypeOK
    <3>4. ASSUME NEW u \in Request
          PROVE  /\ results[u] = <<>> \/ Len(results[u]) = Len(cands[u])
                 /\ \A j \in DOMAIN missing'[u] : missing'[u][j] \in DOMAIN cands[u]
                 /\ pos'[u] \in 1..(Len(cands[u]) + 1)
      <4>1. CASE u = r
        <5>1. i \in DOMAIN cands[r] /\ \A j \in 1..Len(missing[r]) : missing[r][j] \in DOMAIN cands[r]
          BY Zenon, <1>1, AtRequest
        <5>2. ASSUME NEW j \in DOMAIN missing'[r] PROVE missing'[r][j] \in DOMAIN cands[r]
          <6>1. DOMAIN missing'[r] = 1..(Len(missing[r]) + 1) BY <3>1, <3>3
          <6>2. CASE j = Len(missing[r]) + 1 BY <3>1, <3>3, <5>1, <6>2
          <6>3. CASE j # Len(missing[r]) + 1
            <7>1. j \in 1..Len(missing[r]) BY <3>1, <6>1, <6>3
            <7> QED BY <3>1, <3>3, <5>1, <7>1
          <6> QED BY Zenon, <6>2, <6>3
        <5>3. i + 1 \in 1..(Len(cands[r]) + 1) BY <1>1
        <5>4. results[r] = <<>> \/ Len(results[r]) = Len(cands[r]) BY Zenon, AtRequest
        <5> QED BY Zenon, <3>3, <4>1, <5>2, <5>3, <5>4
      <4>2. CASE u # r
        <5>1. missing'[u] = missing[u] /\ pos'[u] = pos[u]
          BY Zenon, <1>5, <2>1, <4>2 DEF Inv, TypeOK
        <5> QED BY Zenon, <5>1 DEF Inv, TypeOK
      <4> QED BY Zenon, <4>1, <4>2
    <3> QED BY Zenon, <1>5, <2>1, <3>2, <3>4 DEF Inv, TypeOK
  <2>3. Aligned' BY Zenon, <1>5, <2>1 DEF Inv, Aligned
  <2>4. Accounted(r)'
    <3>1. /\ missing'[r] = Append(missing[r], i) /\ pos'[r] = i + 1 /\ pc'[r] = "get"
          /\ results'[r] = results[r]
      BY Zenon, <1>1, <1>5, <2>1 DEF Inv, TypeOK
    <3> DEFINE mis == Append(missing[r], i)
    <3>2. Pending(results[r], missing[r], i - 1, 1) BY Zenon, <1>1, AtRequest DEF Accounted
    <3>3. missing[r] \in Seq(Nat) /\ Len(missing[r]) \in Nat /\ i \in Nat
      BY Zenon, <1>1, AtRequest
    <3>4. Len(mis) = Len(missing[r]) + 1 /\ DOMAIN mis = 1..(Len(missing[r]) + 1)
      BY <3>3
    <3>5. /\ mis[Len(missing[r]) + 1] = i
          /\ \A j \in 1..Len(missing[r]) : mis[j] = missing[r][j]
      BY <3>3
    <3>6. DOMAIN missing[r] = 1..Len(missing[r]) BY <3>3
    <3> HIDE DEF mis
    <3>7. Len(mis) <= i BY <3>2, <3>3, <3>4 DEF Pending
    <3>8. ASSUME results[r] = <<>>
          PROVE  Len(mis) = i /\ \A j \in DOMAIN mis : mis[j] = j
      <4>1. Len(missing[r]) = i - 1 /\ \A j \in 1..Len(missing[r]) : missing[r][j] = j
        BY Zenon, <3>2, <3>6, <3>8 DEF Pending
      <4>2. Len(mis) = i /\ Len(missing[r]) + 1 = i BY <3>3, <3>4, <4>1
      <4>3. ASSUME NEW j \in DOMAIN mis PROVE mis[j] = j
        <5>1. j = i \/ j \in 1..Len(missing[r]) BY <3>3, <3>4, <4>2
        <5> QED BY Zenon, <3>5, <4>1, <4>2, <5>1
      <4> QED BY Zenon, <4>2, <4>3
    <3>9. ASSUME results[r] # <<>>, NEW n \in 1..i
          PROVE  results[r][n] # None \/ \E j \in DOMAIN mis : mis[j] = n /\ j >= 1
      <4>1. CASE n = i
        <5>1. Len(missing[r]) + 1 \in DOMAIN mis /\ Len(missing[r]) + 1 >= 1 BY <3>3, <3>4
        <5> QED BY Zenon, <4>1, <5>1, <3>5
      <4>2. CASE n # i
        <5>1. n \in 1..(i - 1) BY <4>2, <3>3
        <5>2. \/ results[r][n] # None
              \/ \E j \in 1..Len(missing[r]) : missing[r][j] = n /\ j >= 1
          BY Zenon, <3>2, <3>6, <3>9, <5>1 DEF Pending
        <5>3. \A j \in 1..Len(missing[r]) : j \in DOMAIN mis BY <3>3, <3>4
        <5> QED BY Zenon, <5>2, <5>3, <3>5
      <4> QED BY Zenon, <4>1, <4>2
    <3>10. Pending(results[r], mis, i, 1) BY Zenon, <3>7, <3>8, <3>9 DEF Pending
    <3>11. (i + 1) - 1 = i BY <3>3
    <3> QED BY Zenon, <3>1, <3>10, <3>11 DEF Accounted, mis
  <2> QED BY Zenon, <2>2, <2>3, <2>4
<1>7. CASE hit # None
  <2>1. results' = [results EXCEPT ![r] = [Resized(r) EXCEPT ![i] = hit]] /\ missing' = missing
    BY Zenon, <1>7 DEF Get, hit, c
  <2>2. /\ results'[r] \in Seq(Entry) /\ Len(results'[r]) = Len(cands[r])
        /\ \A n \in 1..Len(cands[r]) :
             results'[r][n] = IF n = i THEN hit ELSE Resized(r)[n]
    BY <1>1, <1>3, <1>4, <2>1 DEF Inv, TypeOK
  <2>3. TypeOK' BY <1>1, <1>5, <2>1, <2>2 DEF Inv, TypeOK
  <2>4. Aligned'
    <3>1. \A n \in DOMAIN cands[r] : Resized(r)[n] \in {None, Err, Ok(cands[r][n].key)}
      BY DEF Resized, Inv, TypeOK, Aligned
    <3>2. ASSUME NEW u \in Request, NEW n \in DOMAIN results'[u]
          PROVE  results'[u][n] \in {None, Err, Ok(cands'[u][n].key)}
      <4>1. CASE u = r
        <5>1. n \in 1..Len(cands[r]) BY <3>2, <4>1, <2>2
        <5> QED BY Zenon, <3>1, <4>1, <5>1, <2>2, <1>1, <1>3, <1>5, AtRequest DEF c
      <4>2. CASE u # r
        <5>1. results'[u] = results[u] /\ cands'[u] = cands[u]
          BY Zenon, <4>2, <2>1, <1>5 DEF Inv, TypeOK
        <5> QED BY Zenon, <5>1, <3>2, AtRequest
      <4> QED BY Zenon, <4>1, <4>2
    <3> QED BY Zenon, <3>2, <1>5 DEF Inv, Aligned
  <2>5. results'[r] # <<>> BY <2>2, <1>1
  <2>6. Pending(results[r], missing[r], i - 1, 1) BY Zenon, <1>1, AtRequest DEF Accounted
  <2>7. /\ Len(missing[r]) \in Nat /\ DOMAIN missing[r] = 1..Len(missing[r])
        /\ Len(missing[r]) <= i
    BY <1>1, <2>6, AtRequest DEF Pending
  <2>8. ASSUME NEW n \in 1..i
        PROVE  results'[r][n] # None \/ \E j \in DOMAIN missing[r] : missing[r][j] = n /\ j >= 1
    <3>1. CASE n = i BY Zenon, <3>1, <2>2, <1>1, <1>7
    <3>2. CASE n # i
      <4>1. n \in 1..(i - 1) /\ n \in 1..Len(cands[r]) BY <3>2, <1>1
      <4>2. CASE results[r] = <<>>
        <5>1. n \in DOMAIN missing[r] /\ missing[r][n] = n /\ n >= 1
          BY <2>6, <2>7, <4>1, <4>2 DEF Pending
        <5> QED BY Zenon, <5>1
      <4>3. CASE results[r] # <<>>
        <5>1. results'[r][n] = results[r][n] BY Zenon, <3>2, <4>1, <4>3, <2>2 DEF Resized
        <5> QED BY Zenon, <5>1, <4>1, <4>3, <2>6 DEF Pending
      <4> QED BY Zenon, <4>2, <4>3
    <3> QED BY Zenon, <3>1, <3>2
  <2>9. Pending(results'[r], missing[r], i, 1) BY Zenon, <2>5, <2>7, <2>8 DEF Pending
  <2>10. Accounted(r)'
    <3>1. missing'[r] = missing[r] /\ pos'[r] = i + 1 /\ pc'[r] = "get"
      BY Zenon, <1>1, <1>5, <2>1 DEF Inv, TypeOK
    <3>2. (i + 1) - 1 = i BY <1>1
    <3> QED BY Zenon, <3>1, <3>2, <2>9 DEF Accounted
  <2> QED BY Zenon, <2>3, <2>4, <2>10
<1> QED BY Zenon, <1>6, <1>7

LEMMA GetsDoneKeeps ==
  ASSUME Inv, NEW r \in Request, GetsDone(r)
  PROVE  TypeOK' /\ Aligned' /\ Accounted(r)'
<1>1. pc[r] = "get" /\ pos[r] = Len(cands[r]) + 1 /\ Len(cands[r]) \in Nat
  BY AtRequest DEF GetsDone
<1>2. /\ pc' = [pc EXCEPT ![r] = IF missing[r] = <<>> THEN "done" ELSE "client"]
      /\ UNCHANGED <<cache, cands, results, missing, pos, reply>>
  BY Zenon DEF GetsDone
<1>3. TypeOK' /\ Aligned'
  <2>1. TypeOK' BY Zenon, <1>2 DEF Inv, TypeOK
  <2>2. Aligned' BY Zenon, <1>2 DEF Inv, Aligned
  <2> QED BY Zenon, <2>1, <2>2
<1> SUFFICES Accounted(r)' BY Zenon, <1>3
<1>4. Pending(results[r], missing[r], Len(cands[r]), 1)
  <2>1. pos[r] - 1 = Len(cands[r]) BY <1>1
  <2> QED BY Zenon, <1>1, <2>1, AtRequest DEF Accounted
<1>5. CASE missing[r] = <<>>
  <2>1. pc'[r] = "done" BY Zenon, <1>2, <1>5 DEF Inv, TypeOK
  <2>2. Len(missing[r]) = 0 /\ DOMAIN missing[r] = {} BY <1>5
  <2>3. Complete(results[r], cands[r])
    <3>1. CASE results[r] = <<>>
      <4>1. Len(cands[r]) = 0 BY Zenon, <1>4, <2>2, <3>1 DEF Pending
      <4> QED BY <3>1, <4>1 DEF Complete
    <3>2. CASE results[r] # <<>>
      <4>1. DOMAIN results[r] = 1..Len(cands[r]) /\ Len(results[r]) = Len(cands[r])
        BY Zenon, <3>2, AtRequest
      <4> QED BY Zenon, <1>4, <2>2, <3>2, <4>1 DEF Pending, Complete
    <3> QED BY Zenon, <3>1, <3>2
  <2> QED BY Zenon, <1>2, <2>1, <2>3 DEF Accounted
<1>6. CASE missing[r] # <<>>
  <2>1. pc'[r] = "client" BY Zenon, <1>2, <1>6 DEF Inv, TypeOK
  <2> QED BY Zenon, <1>2, <1>4, <2>1 DEF Accounted
<1> QED BY Zenon, <1>5, <1>6

LEMMA CallClientKeeps ==
  ASSUME Inv, NEW r \in Request, CallClient(r)
  PROVE  TypeOK' /\ Aligned' /\ Accounted(r)'
<1>1. /\ pc[r] = "client"
      /\ cache' = cache /\ cands' = cands /\ missing' = missing
  BY Zenon DEF CallClient
<1>2. PICK a \in ClientReplies(Asked(r)) :
        IF Fits(r, a)
        THEN /\ reply' = [reply EXCEPT ![r] = a]
             /\ pos' = [pos EXCEPT ![r] = 1]
             /\ pc' = [pc EXCEPT ![r] = "insert"]
             /\ UNCHANGED results
        ELSE /\ results' = [results EXCEPT ![r] = [i \in DOMAIN cands[r] |-> Err]]
             /\ pc' = [pc EXCEPT ![r] = "done"]
             /\ UNCHANGED <<pos, reply>>
  BY Zenon DEF CallClient
<1>3. CASE Fits(r, a)
  <2>1. /\ reply' = [reply EXCEPT ![r] = a] /\ pos' = [pos EXCEPT ![r] = 1]
        /\ pc' = [pc EXCEPT ![r] = "insert"] /\ results' = results
    BY Zenon, <1>2, <1>3
  <2>2. /\ Asked(r) \in Seq(Cand) /\ Len(Asked(r)) = Len(missing[r])
        /\ \A j \in DOMAIN missing[r] : Asked(r)[j] = cands[r][missing[r][j]]
    <3>1. CASE results[r] = <<>>
      <4>1. Pending(results[r], missing[r], Len(cands[r]), 1) BY Zenon, <1>1, AtRequest DEF Accounted
      <4> QED BY Zenon, <3>1, <4>1, AtRequest DEF Asked, Pending
    <3>2. CASE results[r] # <<>>
      <4>1. Asked(r) = [j \in 1..Len(missing[r]) |-> cands[r][missing[r][j]]]
        BY Zenon, <3>2, AtRequest DEF Asked
      <4>2. \A j \in 1..Len(missing[r]) : cands[r][missing[r][j]] \in Cand
        BY AtRequest
      <4>3. Asked(r) \in Seq(Cand) BY <4>1, <4>2, AtRequest
      <4> QED BY <4>1, <4>3, AtRequest
    <3> QED BY Zenon, <3>1, <3>2
  <2>3. Len(a) = Len(missing[r]) BY Zenon, <1>3 DEF Fits
  <2>4. a \in Seq(Entry) /\ \A j \in 1..Len(a) : a[j] \in {Err, Ok(Asked(r)[j].key)}
    BY Zenon, <2>2, <2>3, ReplyAligned
  <2>5. \A j \in 1..Len(a) : a[j] \in {Err, Ok(cands[r][missing[r][j]].key)}
    BY Zenon, <2>2, <2>3, <2>4, AtRequest
  <2>6. reply'[r] = a /\ pos'[r] = 1 /\ pc'[r] = "insert" /\ results'[r] = results[r]
    BY Zenon, <2>1 DEF Inv, TypeOK
  <2>7. TypeOK' BY <1>1, <2>1, <2>4, <2>6 DEF Inv, TypeOK
  <2>8. Aligned' BY Zenon, <1>1, <2>1 DEF Inv, Aligned
  <2>9. Accounted(r)'
    <3>1. DOMAIN a = 1..Len(a) BY <2>4
    <3>2. Replied(a, missing[r], cands[r]) BY Zenon, <2>3, <2>5, <3>1 DEF Replied
    <3>3. Pending(results[r], missing[r], Len(cands[r]), 1) BY Zenon, <1>1, AtRequest DEF Accounted
    <3> QED BY Zenon, <1>1, <2>6, <3>2, <3>3 DEF Accounted
  <2> QED BY Zenon, <2>7, <2>8, <2>9
<1>4. CASE ~Fits(r, a)
  <2>1. /\ results' = [results EXCEPT ![r] = [i \in DOMAIN cands[r] |-> Err]]
        /\ pc' = [pc EXCEPT ![r] = "done"] /\ pos' = pos /\ reply' = reply
    BY Zenon, <1>2, <1>4
  <2>2. results'[r] = [i \in 1..Len(cands[r]) |-> Err] /\ pc'[r] = "done"
    BY Zenon, <2>1, AtRequest DEF Inv, TypeOK
  <2>3. results'[r] \in Seq(Entry) /\ Len(results'[r]) = Len(cands[r])
    BY <2>2, EntryFacts, AtRequest
  <2>4. TypeOK' BY Zenon, <1>1, <2>1, <2>3 DEF Inv, TypeOK
  <2>5. Aligned'
    <3>1. ASSUME NEW u \in Request, NEW n \in DOMAIN results'[u]
          PROVE  results'[u][n] \in {None, Err, Ok(cands[u][n].key)}
      <4>1. CASE u = r BY Zenon, <3>1, <4>1, <2>2
      <4>2. CASE u # r BY Zenon, <3>1, <4>2, <2>1, AtRequest DEF Inv, TypeOK
      <4> QED BY Zenon, <4>1, <4>2
    <3> QED BY Zenon, <3>1, <1>1 DEF Inv, Aligned
  <2>6. Complete(results'[r], cands[r])
    <3>1. \A n \in DOMAIN results'[r] : results'[r][n] = Err BY Zenon, <2>2
    <3> QED BY Zenon, <2>3, <3>1, EntryFacts DEF Complete
  <2>7. Accounted(r)' BY Zenon, <1>1, <2>2, <2>6 DEF Accounted
  <2> QED BY Zenon, <2>4, <2>5, <2>7
<1> QED BY Zenon, <1>3, <1>4

LEMMA InsertKeeps ==
  ASSUME Inv, NEW r \in Request, Insert(r)
  PROVE  TypeOK' /\ Aligned' /\ Accounted(r)'
<1> DEFINE j == pos[r]
           i == missing[r][j]
           e == reply[r][j]
<1>0. /\ pc[r] = "insert" /\ j <= Len(reply[r])
      /\ pos' = [pos EXCEPT ![r] = @ + 1]
      /\ pc' = pc /\ cands' = cands /\ missing' = missing /\ reply' = reply
  BY Zenon DEF Insert
<1>a. /\ Pending(results[r], missing[r], Len(cands[r]), j)
      /\ Replied(reply[r], missing[r], cands[r])
  BY Zenon, <1>0, AtRequest DEF Accounted
<1>1. /\ pc[r] = "insert" /\ j \in 1..Len(reply[r]) /\ Len(reply[r]) = Len(missing[r])
      /\ pos' = [pos EXCEPT ![r] = @ + 1]
      /\ pc' = pc /\ cands' = cands /\ missing' = missing /\ reply' = reply
  BY <1>0, <1>a, AtRequest DEF Replied
<1>2. i \in DOMAIN cands[r] /\ cands[r][i].key \in Key BY <1>1, AtRequest, CandFields
<1>3. e \in {Err, Ok(cands[r][i].key)} /\ e \in Entry /\ e # None
  <2>1. j \in DOMAIN reply[r] BY Zenon, <1>1, AtRequest
  <2>2. e \in {Err, Ok(cands[r][i].key)} BY Zenon, <1>a, <2>1 DEF Replied
  <2> QED BY Zenon, <2>2, <1>2, EntryFacts
<1>4. cache' = IF e = Err THEN cache ELSE [cache EXCEPT ![cands[r][i].key] = e]
  BY Zenon DEF Insert
<1>5. results' = IF results[r] = <<>> THEN results ELSE [results EXCEPT ![r][i] = e]
  BY Zenon DEF Insert, Placed
<1>6. pos'[r] = j + 1 BY Zenon, <1>1 DEF Inv, TypeOK
<1> HIDE DEF e, i
<1>7. /\ cache' \in [Key -> Entry \ {Err}]
      /\ \A k \in Key : cache'[k] \in {None, Ok(k)}
  BY Zenon, <1>2, <1>3, <1>4 DEF Inv, TypeOK, Aligned
<1>8. /\ results' \in [Request -> Seq(Entry)]
      /\ \A u \in Request : u # r => results'[u] = results[u]
      /\ results[r] = <<>> => results'[r] = results[r]
      /\ results[r] # <<>> =>
           /\ Len(results'[r]) = Len(cands[r])
           /\ \A n \in 1..Len(cands[r]) : results'[r][n] = IF n = i THEN e ELSE results[r][n]
  <2>1. CASE results[r] = <<>> BY Zenon, <2>1, <1>5 DEF Inv, TypeOK
  <2>2. CASE results[r] # <<>>
    <3>1. i \in 1..Len(results[r]) BY Zenon, <2>2, <1>2, AtRequest
    <3>2. [results[r] EXCEPT ![i] = e] \in Seq(Entry) BY <3>1, <1>3, AtRequest
    <3>3. results' = [results EXCEPT ![r] = [results[r] EXCEPT ![i] = e]]
      BY Zenon, <2>2, <1>5 DEF Inv, TypeOK
    <3>4. results'[r] = [results[r] EXCEPT ![i] = e] BY Zenon, <3>3 DEF Inv, TypeOK
    <3>5. results' \in [Request -> Seq(Entry)] BY Zenon, <3>2, <3>3 DEF Inv, TypeOK
    <3>6. \A u \in Request : u # r => results'[u] = results[u] BY Zenon, <3>3 DEF Inv, TypeOK
    <3>7. DOMAIN results[r] = 1..Len(cands[r]) /\ Len(cands[r]) \in Nat BY Zenon, <2>2, AtRequest
    <3>8. DOMAIN results'[r] = 1..Len(cands[r]) /\ Len(results'[r]) = Len(cands[r])
      BY <3>4, <3>7
    <3>9. \A n \in 1..Len(cands[r]) : results'[r][n] = IF n = i THEN e ELSE results[r][n]
      BY Zenon, <3>4, <3>7
    <3> QED BY Zenon, <2>2, <3>5, <3>6, <3>8, <3>9
  <2> QED BY Zenon, <2>1, <2>2
<1>9. TypeOK'
  <2>1. j + 1 \in 1..(Len(cands[r]) + 1)
    <3>1. Len(missing[r]) <= Len(cands[r]) BY Zenon, <1>a DEF Pending
    <3>2. Len(missing[r]) \in Nat /\ Len(cands[r]) \in Nat /\ j \in 1..Len(missing[r])
      BY Zenon, <1>1, AtRequest
    <3> QED BY <3>1, <3>2
  <2>2. ASSUME NEW u \in Request
        PROVE  /\ results'[u] = <<>> \/ Len(results'[u]) = Len(cands[u])
               /\ pos'[u] \in 1..(Len(cands[u]) + 1)
    <3>1. CASE u = r BY Zenon, <3>1, <2>1, <1>6, <1>8
    <3>2. CASE u # r BY Zenon, <3>2, <1>1, <1>8, AtRequest DEF Inv, TypeOK
    <3> QED BY Zenon, <3>1, <3>2
  <2>3. pos' \in [Request -> Nat] BY <1>1 DEF Inv, TypeOK
  <2> QED BY Zenon, <2>2, <2>3, <1>1, <1>7, <1>8 DEF Inv, TypeOK
<1>10. Aligned'
  <2>1. ASSUME NEW u \in Request, NEW n \in DOMAIN results'[u]
        PROVE  results'[u][n] \in {None, Err, Ok(cands[u][n].key)}
    <3>1. CASE u # r \/ results[r] = <<>>
      <4>1. results'[u] = results[u] BY Zenon, <3>1, <1>8
      <4> QED BY Zenon, <4>1, <2>1, AtRequest
    <3>2. CASE u = r /\ results[r] # <<>>
      <4>1. n \in 1..Len(cands[r])
        <5>1. results'[r] \in Seq(Entry) BY Zenon, <1>8
        <5> QED BY <5>1, <3>2, <2>1, <1>8
      <4> QED BY Zenon, <4>1, <3>2, <1>3, <1>8, AtRequest
    <3> QED BY Zenon, <3>1, <3>2
  <2> QED BY Zenon, <2>1, <1>1, <1>7 DEF Aligned
<1>11. Pending(results'[r], missing[r], Len(cands[r]), j + 1)
  <2>1. CASE results[r] = <<>> BY Zenon, <2>1, <1>a, <1>8 DEF Pending
  <2>2. CASE results[r] # <<>>
    <3>1. results'[r] # <<>>
      <4>1. Len(cands[r]) > 0 BY <1>2, AtRequest
      <4> QED BY <4>1, <2>2, <1>8
    <3>2. ASSUME NEW n \in 1..Len(cands[r])
          PROVE  \/ results'[r][n] # None
                 \/ \E k \in DOMAIN missing[r] : missing[r][k] = n /\ k >= j + 1
      <4>1. CASE n = i BY Zenon, <4>1, <2>2, <1>3, <1>8
      <4>2. CASE n # i /\ results[r][n] # None BY Zenon, <4>2, <2>2, <1>8
      <4>3. CASE n # i /\ results[r][n] = None
        <5>1. PICK k \in DOMAIN missing[r] : missing[r][k] = n /\ k >= j
          BY Zenon, <4>3, <2>2, <1>a DEF Pending
        <5>2. k # j BY Zenon, <5>1, <4>3 DEF i
        <5>3. k \in Nat /\ j \in Nat BY <5>1, <1>1, AtRequest
        <5>4. k >= j + 1 BY <5>1, <5>2, <5>3
        <5> QED BY Zenon, <5>1, <5>4
      <4> QED BY Zenon, <4>1, <4>2, <4>3
    <3>3. Len(missing[r]) <= Len(cands[r]) BY Zenon, <1>a DEF Pending
    <3> QED BY Zenon, <3>1, <3>2, <3>3 DEF Pending
  <2> QED BY Zenon, <2>1, <2>2
<1>12. Accounted(r)' BY Zenon, <1>1, <1>6, <1>a, <1>11 DEF Accounted
<1> QED BY Zenon, <1>9, <1>10, <1>12

LEMMA InsertsDoneKeeps ==
  ASSUME Inv, NEW r \in Request, InsertsDone(r)
  PROVE  TypeOK' /\ Aligned' /\ Accounted(r)'
<1>1. /\ pc[r] = "insert" /\ pos[r] > Len(reply[r])
      /\ results' = IF results[r] = <<>> THEN [results EXCEPT ![r] = reply[r]] ELSE results
      /\ pc' = [pc EXCEPT ![r] = "done"]
      /\ cache' = cache /\ cands' = cands /\ missing' = missing
      /\ pos' = pos /\ reply' = reply
  BY Zenon DEF InsertsDone
<1>2. pc'[r] = "done" BY Zenon, <1>1 DEF Inv, TypeOK
<1>3. /\ Len(reply[r]) = Len(missing[r])
      /\ \A k \in DOMAIN reply[r] :
           reply[r][k] \in {Err, Ok(cands[r][missing[r][k]].key)} /\ reply[r][k] # None
  <2>1. \A k \in DOMAIN missing[r] : cands[r][missing[r][k]].key \in Key
    BY AtRequest, CandFields
  <2>2. Replied(reply[r], missing[r], cands[r]) BY Zenon, <1>1, AtRequest DEF Accounted
  <2>3. DOMAIN reply[r] = DOMAIN missing[r] BY Zenon, <2>2, AtRequest DEF Replied
  <2> QED BY Zenon, <2>1, <2>2, <2>3, EntryFacts DEF Replied
<1>p. Pending(results[r], missing[r], Len(cands[r]), pos[r]) BY Zenon, <1>1, AtRequest DEF Accounted
<1>4. CASE results[r] = <<>>
  <2>1. results' = [results EXCEPT ![r] = reply[r]] BY Zenon, <1>1, <1>4
  <2>2. results'[r] = reply[r] BY Zenon, <2>1 DEF Inv, TypeOK
  <2>3. /\ Len(reply[r]) = Len(cands[r])
        /\ \A k \in DOMAIN reply[r] : missing[r][k] = k
    <3>1. DOMAIN reply[r] = DOMAIN missing[r] BY Zenon, <1>3, AtRequest
    <3> QED BY Zenon, <1>3, <1>4, <1>p, <3>1 DEF Pending
  <2>4. TypeOK' BY Zenon, <1>1, <2>1, <2>2, <2>3, AtRequest DEF Inv, TypeOK
  <2>5. Aligned'
    <3>1. ASSUME NEW u \in Request, NEW n \in DOMAIN results'[u]
          PROVE  results'[u][n] \in {None, Err, Ok(cands[u][n].key)}
      <4>1. CASE u = r BY Zenon, <3>1, <4>1, <2>2, <2>3, <1>3
      <4>2. CASE u # r BY Zenon, <3>1, <4>2, <2>1, AtRequest DEF Inv, TypeOK
      <4> QED BY Zenon, <4>1, <4>2
    <3> QED BY Zenon, <3>1, <1>1 DEF Inv, Aligned
  <2>6. Accounted(r)'
    <3>1. Complete(reply[r], cands[r]) BY Zenon, <1>3, <2>3 DEF Complete
    <3> QED BY Zenon, <1>1, <1>2, <2>2, <3>1 DEF Accounted
  <2> QED BY Zenon, <2>4, <2>5, <2>6
<1>5. CASE results[r] # <<>>
  <2>1. results' = results BY Zenon, <1>1, <1>5
  <2>2. TypeOK' BY Zenon, <1>1, <2>1 DEF Inv, TypeOK
  <2>3. Aligned' BY Zenon, <1>1, <2>1 DEF Inv, Aligned
  <2>4. ASSUME NEW n \in DOMAIN cands[r] PROVE results[r][n] # None
    <3>1. n \in 1..Len(cands[r]) BY Zenon, <2>4, AtRequest
    <3>2. ASSUME NEW k \in DOMAIN missing[r] PROVE ~(k >= pos[r])
      BY <1>1, <1>3, <3>2, AtRequest
    <3> QED BY Zenon, <1>5, <1>p, <3>1, <3>2 DEF Pending
  <2>5. Complete(results[r], cands[r])
    <3>1. DOMAIN results[r] = DOMAIN cands[r] /\ Len(results[r]) = Len(cands[r])
      BY Zenon, <1>5, AtRequest
    <3> QED BY Zenon, <2>4, <3>1 DEF Complete
  <2>6. Accounted(r)' BY Zenon, <1>1, <1>2, <2>1, <2>5 DEF Accounted
  <2> QED BY Zenon, <2>2, <2>3, <2>6
<1> QED BY Zenon, <1>4, <1>5

-----------------------------------------------------------------------------
\* The inductive invariant: types, alignment and the account of each request's
\* candidates hold together in every reachable state.
THEOREM Invariance == Spec => []Inv
<1>1. ASSUME Inv, [Next]_vars PROVE Inv'
  <2>1. ASSUME NEW r \in Request, Hydrate(r) PROVE Inv'
    <3>1. TypeOK' /\ Aligned' /\ Accounted(r)'
      BY Zenon, <1>1, <2>1, GetKeeps, GetsDoneKeeps, CallClientKeeps, InsertKeeps, InsertsDoneKeeps
         DEF Hydrate
    <3>2. ASSUME NEW u \in Request, u # r PROVE Accounted(u)'
      <4>1. Accounted(u) BY Zenon, <1>1 DEF Inv
      <4> QED BY Zenon, <1>1, <2>1, <3>2, <4>1, OthersKeep DEF Accounted
    <3> QED BY Zenon, <3>1, <3>2 DEF Inv
  <2>2. ASSUME NEW k \in Key, Evict(k) PROVE Inv'
    <3>1. TypeOK' BY Zenon, <1>1, <2>2, EntryFacts DEF Inv, TypeOK, Evict
    <3>2. Aligned' BY Zenon, <1>1, <2>2 DEF Inv, TypeOK, Aligned, Evict
    <3>3. \A r \in Request : Accounted(r)' BY Zenon, <1>1, <2>2 DEF Inv, Accounted, Evict
    <3> QED BY Zenon, <3>1, <3>2, <3>3 DEF Inv
  <2>3. CASE UNCHANGED vars
    <3>1. /\ cache' = cache /\ pc' = pc /\ cands' = cands /\ results' = results
          /\ missing' = missing /\ pos' = pos /\ reply' = reply
      BY Zenon, <2>3 DEF vars
    <3>2. TypeOK' BY Zenon, <1>1, <3>1 DEF Inv, TypeOK
    <3>3. Aligned' BY Zenon, <1>1, <3>1 DEF Inv, Aligned
    <3>4. \A r \in Request : Accounted(r)' BY Zenon, <1>1, <3>1 DEF Inv, Accounted
    <3> QED BY Zenon, <3>2, <3>3, <3>4 DEF Inv
  <2> QED BY Zenon, <1>1, <2>1, <2>2, <2>3 DEF Next
<1> QED BY InvInit, <1>1, PTL DEF Spec

\* The state of the cache and of every request is well typed, and results are
\* allocated with one entry per candidate.
THEOREM TypeCorrect == Spec => []TypeOK
<1>1. Inv => TypeOK BY Zenon DEF Inv
<1> QED BY Invariance, <1>1, PTL

\* Nobody is given another candidate's value, through the cache or not.
THEOREM ValuesAligned == Spec => []Aligned
<1>1. Inv => Aligned BY Zenon DEF Inv
<1> QED BY Invariance, <1>1, PTL

\* Every candidate of a finished request has an entry: the fallback of
\* hydrate_for_stage is dead code.
THEOREM NothingMissing == Spec => []NoHole
<1>1. Inv => NoHole BY Zenon DEF Inv, Accounted, Complete, NoHole
<1> QED BY Invariance, <1>1, PTL
=============================================================================
