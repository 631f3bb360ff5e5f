------------------------ MODULE BackfillClaimsProofs ------------------------
(***************************************************************************)
(* Proofs about BackfillClaims, for every set of items and decisions, every *)
(* number of pods, STALE_AFTER, budget and number of retries: a young claim *)
(* holds its row, an item is acted on again only for a reason, the tickets  *)
(* are counted exactly, and a stopped run lets no decision pass.            *)
(***************************************************************************)
EXTENDS BackfillClaims, FiniteSetTheorems, TLAPS

-----------------------------------------------------------------------------
(* What a step does.  Every action of a decision is one of three kinds: the  *)
(* decision moves on (and perhaps acts), takes its row, or ends.             *)

\* A decision goes from x to y without touching its row: it keeps what it took,
\* and a check that saw the action done does not lead it to a stale claim.
Moved(x, y) ==
    /\ y.pc # "act"
    /\ y.took = x.took
    /\ x.took => y.item = x.item /\ y.pc \notin {"idle", "admit", "arrive"}
    /\ y.pc # "finish" => x.pc # "finish" /\ (x.took => y.over = x.over)
    /\ y.pc = "take" => ~y.seen \/ y.late

Moves(d) ==
    /\ \E y \in DecisionState : Moved(dec[d], y) /\ dec' = [dec EXCEPT ![d] = y]
    /\ UNCHANGED <<row, tickets>>
    /\ \/ UNCHANGED <<acted, unexplained>>
       \/ At(d, "act") /\ Reaches(d, dec[d].item)

\* y: the decision after it took its row
Taken(d, y) ==
    LET i == dec[d].item IN
    /\ y.pc \in {"act", "lock"} /\ y.item = i /\ y.took /\ y.age = 0
    /\ y.pc = "act" => ~y.seen \/ y.late
    /\ y.over = (HandedToOther(i, d) \/ (Own(i, d) /\ dec[d].over))

TakesRow(d) ==
    LET i == dec[d].item IN
    /\ At(d, "take")
    /\ i \in Listed
    /\ Own(i, d) \/ (Open(i, d) /\ tickets < DayBudget)
    /\ row' = [row EXCEPT ![i] = Handed(d)]
    /\ tickets' = Tickets(i, d)
    /\ \E y \in DecisionState : Taken(d, y) /\ dec' = [dec EXCEPT ![d] = y]
    /\ UNCHANGED <<acted, unexplained>>

Marked(d) ==
    LET i == dec[d].item IN
    IF i \in Listed /\ Marks(i, d) THEN [row EXCEPT ![i].state = "finished"] ELSE row

Ends(d) ==
    /\ Over(d, row) \/ Over(d, Marked(d))
    /\ acted' = [i \in Item |-> Forget(acted[i], d)]
    /\ UNCHANGED <<tickets, unexplained>>

\* Only a decision that has been received can have taken a row.
TookLate == \A d \in Decision : dec[d].took => dec[d].pc \notin {"idle", "admit", "arrive"}

\* The last check of a claim leaves a decision that knows of the action only a
\* claim that is not stale.
Checked == \A d \in Decision : dec[d].pc \in {"take", "act"} => ~dec[d].seen \/ dec[d].late

LEMMA ZeroTypes ==
    ASSUME ClaimsAssumption
    PROVE  0 \in 0..AgeCap /\ 0 \in 0..MaxRetries
BY DEF AgeCap, ClaimsAssumption

LEMMA FreshType ==
    ASSUME ClaimsAssumption, NEW i \in Item
    PROVE  Fresh(i) \in DecisionState /\ [Fresh(i) EXCEPT !.pc = "idle"] \in DecisionState
BY Zenon, ZeroTypes DEF Fresh, DecisionState, Locked

LEMMA AgainType ==
    ASSUME ClaimsAssumption, TypeOK, NEW d \in Decision, dec[d].tries < MaxRetries
    PROVE  Again(d) \in DecisionState
<1>1. dec[d] \in DecisionState
  BY DEF TypeOK
<1>2. dec[d].tries + 1 \in 0..MaxRetries
  BY <1>1 DEF DecisionState, ClaimsAssumption
<1> QED BY Zenon, <1>1, <1>2, ZeroTypes DEF Again, DecisionState, Locked

\* A decision that only changes its pc
LEMMA GotoMoves ==
    ASSUME TypeOK, NEW d \in Decision, NEW pc \in {"arrive", "lock", "facts", "check"},
           Goto(d, pc), pc = "arrive" => ~dec[d].took, dec[d].pc # "finish",
           UNCHANGED <<row, tickets, acted, unexplained>>
    PROVE  Moves(d)
<1> DEFINE y == [dec[d] EXCEPT !.pc = pc]
<1>1. dec[d] \in DecisionState
  BY DEF TypeOK
<1>2. y \in DecisionState /\ Moved(dec[d], y)
  <2>1. CASE dec[d].took
    BY <1>1, <2>1 DEF DecisionState, Locked, Moved, TookLate
  <2>2. CASE ~dec[d].took
    BY <1>1, <2>2 DEF DecisionState, Locked, Moved
  <2> QED BY <2>1, <2>2
<1>3. dec' = [dec EXCEPT ![d] = y]
  BY <1>1 DEF Goto, TypeOK
<1> QED BY Zenon, <1>2, <1>3 DEF Moves

LEMMA FinishMoves ==
    ASSUME ClaimsAssumption, TypeOK, NEW d \in Decision, ToFinish(d),
           UNCHANGED <<row, tickets>>,
           UNCHANGED <<acted, unexplained>> \/ (At(d, "act") /\ Reaches(d, dec[d].item))
    PROVE  Moves(d)
<1> DEFINE y == [Fresh(dec[d].item) EXCEPT !.pc = "finish", !.took = dec[d].took]
<1>1. dec[d] \in DecisionState
  BY DEF TypeOK
<1>2. y.pc = "finish" /\ y.item = dec[d].item /\ y.took = dec[d].took
  BY DEF Fresh
<1>3. y \in DecisionState
  BY Zenon, <1>1, ZeroTypes DEF DecisionState, Locked, Fresh
<1>4. Moved(dec[d], y)
  BY <1>2 DEF Moved
<1>5. dec' = [dec EXCEPT ![d] = y]
  BY DEF ToFinish
<1> QED BY Zenon, <1>3, <1>4, <1>5 DEF Moves

LEMMA AgainMoves ==
    ASSUME ClaimsAssumption, TypeOK, NEW d \in Decision, dec[d].tries < MaxRetries,
           dec' = [dec EXCEPT ![d] = Again(d)], dec[d].pc # "finish",
           UNCHANGED <<row, tickets>>,
           UNCHANGED <<acted, unexplained>> \/ (At(d, "act") /\ Reaches(d, dec[d].item))
    PROVE  Moves(d)
<1>1. dec[d] \in DecisionState
  BY DEF TypeOK
<1>2. Again(d) \in DecisionState /\ Moved(dec[d], Again(d))
  BY <1>1, AgainType DEF Again, Moved, DecisionState
<1> QED BY Zenon, <1>2 DEF Moves

LEMMA TakesShape ==
    ASSUME TypeOK, NEW d \in Decision, NEW z \in DecisionState, At(d, "take"), Takes(d, z),
           z.pc \in {"act", "lock"}, z.item = dec[d].item, z.over = dec[d].over,
           z.pc = "act" => ~z.seen \/ z.late, ClaimsAssumption
    PROVE  TakesRow(d)
<1> DEFINE i == dec[d].item
           y == [z EXCEPT !.took = TRUE, !.age = 0,
                          !.over = HandedToOther(i, d) \/ (Own(i, d) /\ @)]
<1>1. dec' = [dec EXCEPT ![d] = y]
  BY Zenon DEF Takes
<1>2. /\ y.pc = z.pc /\ y.item = z.item /\ y.took = TRUE /\ y.age = 0 /\ y.seen = z.seen
      /\ y.late = z.late
      /\ y.over = (HandedToOther(i, d) \/ (Own(i, d) /\ z.over))
  BY DEF DecisionState
<1>3. y.over \in BOOLEAN
  BY Zenon DEF HandedToOther, Own, DecisionState
<1>4. y \in DecisionState
  BY Zenon, <1>3, ZeroTypes DEF DecisionState
<1>5. Taken(d, y)
  <2> HIDE DEF y
  <2>1. y.over = (HandedToOther(i, d) \/ (Own(i, d) /\ dec[d].over))
    BY Zenon, <1>2
  <2>2. y.pc \in {"act", "lock"} /\ y.item = i /\ y.took /\ y.age = 0
    BY Zenon, <1>2
  <2>3. y.pc = "act" => ~y.seen \/ y.late
    BY Zenon, <1>2
  <2> QED BY Zenon, <2>1, <2>2, <2>3 DEF Taken
<1> QED BY Zenon, <1>1, <1>4, <1>5 DEF TakesRow, Takes

LEMMA EndsQuietly ==
    ASSUME NEW d \in Decision, EndQuietly(d)
    PROVE  Ends(d)
BY Zenon DEF EndQuietly, Ends

\* Every action of a decision is of one of the three kinds.
LEMMA Shape ==
    ASSUME ClaimsAssumption, TypeOK, TookLate, Checked, NEW d \in Decision,
           Process(d) \/ Enforce(d) \/ Faulty(d)
    PROVE  Moves(d) \/ TakesRow(d) \/ Ends(d)
<1> DEFINE i == dec[d].item
<1>0. dec[d] \in DecisionState
  BY Zenon DEF TypeOK
<1>1. CASE Receive(d)
  <2>1. PICK j \in Item : dec' = [dec EXCEPT ![d] = Fresh(j)]
    BY Zenon, <1>1 DEF Receive
  <2>2. ~dec[d].took
    BY <1>1 DEF Receive, At, TookLate
  <2>3. Fresh(j) \in DecisionState /\ Moved(dec[d], Fresh(j))
    BY <1>1, <2>2, <1>0, FreshType DEF Fresh, Moved, Receive, At, DecisionState
  <2> QED BY Zenon, <1>1, <2>1, <2>3 DEF Moves, Receive
<1>2. CASE AdmitRun(d)
  <2>1. ~dec[d].took /\ dec[d].pc # "finish"
    BY <1>2 DEF AdmitRun, At, TookLate
  <2> QED BY Zenon, <1>2, <2>1, GotoMoves DEF AdmitRun
<1>3. CASE Refuse(d)
  BY Zenon, <1>3, EndsQuietly DEF Refuse
<1>4. CASE AdmitClaim(d)
  <2>1. dec[d].pc # "finish"
    BY <1>4 DEF AdmitClaim, At
  <2> QED BY Zenon, <1>4, <2>1, EndsQuietly, GotoMoves DEF AdmitClaim
<1>5. CASE ArriveUnread(d)
  <2>1. dec[d].pc # "finish"
    BY <1>5 DEF ArriveUnread, At
  <2> QED BY Zenon, <1>5, <2>1, GotoMoves DEF ArriveUnread
<1>6. CASE Lock(d)
  <2>1. dec[d].pc # "finish"
    BY <1>6 DEF Lock, At
  <2> QED BY Zenon, <1>6, <2>1, GotoMoves DEF Lock
<1>7. CASE ReadFacts(d)
  <2>1. PICK seen \in {FALSE, acted[i] # {}} :
             dec' = [dec EXCEPT ![d].pc = "gate", ![d].seen = seen]
    BY Zenon, <1>7 DEF ReadFacts
  <2> DEFINE y == [dec[d] EXCEPT !.pc = "gate", !.seen = seen]
  <2>2. y \in DecisionState
    BY Zenon, <1>0 DEF DecisionState, Locked
  <2>3. Moved(dec[d], y)
    BY <1>0, <1>7 DEF ReadFacts, At, Moved, DecisionState
  <2>4. dec' = [dec EXCEPT ![d] = y]
    BY <2>1, <1>0
  <2> QED BY Zenon, <1>7, <2>2, <2>3, <2>4 DEF Moves, ReadFacts
<1>8. CASE SkipLeaves(d)
  BY Zenon, <1>8, EndsQuietly DEF SkipLeaves
<1>9. CASE SkipFinishes(d)
  BY Zenon, <1>9, FinishMoves DEF SkipFinishes
<1>10. CASE GateRun(d)
  <2>1. dec[d].pc # "finish"
    BY <1>10 DEF GateRun, At
  <2> QED BY Zenon, <1>10, <2>1, EndsQuietly, GotoMoves DEF GateRun
<1>11. CASE CheckClaim(d)
  <2> DEFINE stale == i \in Listed /\ HandedToOther(i, d) /\ IsStale(i)
             y == [dec[d] EXCEPT !.pc = "take", !.late = ~stale]
  <2>1. CASE EndQuietly(d)
    BY Zenon, <2>1, EndsQuietly
  <2>2. CASE ToFinish(d) /\ UNCHANGED <<row, tickets, acted, unexplained>>
    BY Zenon, <2>2, FinishMoves
  <2>3. CASE /\ ~(stale /\ dec[d].seen)
             /\ dec' = [dec EXCEPT ![d].pc = "take", ![d].late = ~stale]
             /\ UNCHANGED <<row, tickets, acted, unexplained>>
    <3>1. stale \in BOOLEAN
      BY Zenon
    <3> HIDE DEF stale
    <3>2. y \in DecisionState
      BY Zenon, <1>0, <3>1 DEF DecisionState, Locked
    <3>3. y.pc = "take" /\ y.late = ~stale /\ y.seen = dec[d].seen /\ y.took = dec[d].took
             /\ y.item = dec[d].item /\ y.over = dec[d].over
      BY <1>0 DEF DecisionState
    <3>4. ~y.seen \/ y.late
      BY Zenon, <2>3, <3>3
    <3>5. dec[d].pc = "check"
      BY Zenon, <1>11 DEF CheckClaim, At
    <3>6. Moved(dec[d], y)
      BY <3>3, <3>4, <3>5 DEF Moved
    <3>7. dec' = [dec EXCEPT ![d] = y]
      BY <2>3, <1>0
    <3> QED BY Zenon, <2>3, <3>2, <3>6, <3>7 DEF Moves
  <2> QED BY Zenon, <1>11, <2>1, <2>2, <2>3 DEF CheckClaim
<1>12. CASE Take(d)
  <2> DEFINE z == [dec[d] EXCEPT !.pc = "act"]
  <2>1. z \in DecisionState
    BY Zenon, <1>0 DEF DecisionState, Locked
  <2>2. z.pc = "act" /\ z.item = i /\ z.over = dec[d].over /\ (~z.seen \/ z.late)
    BY <1>0, <1>12 DEF DecisionState, Take, At, Checked
  <2> QED BY <1>12, <2>1, <2>2, TakesShape DEF Take
<1>13. CASE TakeRefused(d)
  BY Zenon, <1>13, EndsQuietly, FinishMoves DEF TakeRefused
<1>14. CASE Act(d)
  BY Zenon, <1>14, FinishMoves DEF Act
<1>15. CASE Rejected(d)
  BY Zenon, <1>15, FinishMoves DEF Rejected
<1>16. CASE Finish(d)
  BY Zenon, <1>16 DEF Finish, Ends, Marked
<1>17. CASE CallFails(d)
  <2>1. dec[d].pc # "finish"
    BY <1>17 DEF CallFails
  <2> QED BY Zenon, <1>17, <2>1, AgainMoves DEF CallFails
<1>18. CASE TakeLost(d)
  <2>1. Again(d) \in DecisionState
    BY Zenon, <1>18, AgainType DEF TakeLost
  <2>2. Again(d).pc = "lock" /\ Again(d).item = i /\ Again(d).over = dec[d].over
    BY <1>0 DEF Again, DecisionState
  <2> QED BY <1>18, <2>1, <2>2, TakesShape DEF TakeLost
<1>19. CASE ActFails(d)
  <2>1. dec[d].pc # "finish"
    BY <1>19 DEF ActFails, At
  <2> QED BY Zenon, <1>19, <2>1, AgainMoves DEF ActFails
<1>20. CASE Lose(d)
  BY Zenon, <1>20, EndsQuietly DEF Lose
<1> QED BY Zenon, <1>1, <1>2, <1>3, <1>4, <1>5, <1>6, <1>7, <1>8, <1>9, <1>10, <1>11, <1>12,
           <1>13, <1>14, <1>15, <1>16, <1>17, <1>18, <1>19, <1>20 DEF Process, Enforce, Faulty

-----------------------------------------------------------------------------
(* The inductive invariant *)

\* A claim belongs to the decision that took it for its item.
Holder == \A i \in Listed, d \in Decision : Own(i, d) => dec[d].took /\ dec[d].item = i

\* Nobody has taken, and so nobody acted on, the item of a free row.
Untouched ==
    \A i \in Listed : row[i].state = "free" =>
        acted[i] = {} /\ \A d \in Decision : dec[d].item = i => ~dec[d].took

\* A decision about to act has taken a row, which is as old as it thinks.
Acting ==
    \A d \in Decision : At(d, "act") =>
        /\ dec[d].took /\ dec[d].item \in Listed
        /\ Own(dec[d].item, d) => row[dec[d].item].age = dec[d].age

\* While a decision that took over from nobody holds the row, nobody else has acted
\* on the item or is about to.
Sole ==
    \A i \in Listed, d \in Decision :
        Own(i, d) /\ ~dec[d].over /\ dec[d].pc # "finish" =>
            /\ acted[i] \subseteq {d}
            /\ \A e \in Decision \ {d} : At(e, "act") => dec[e].item # i

ClaimsInv ==
    /\ TypeOK /\ TookLate /\ Checked /\ Holder /\ Untouched /\ Acting /\ Sole
    /\ ClaimHeld /\ RepeatsExplained

LEMMA MovesType ==
    ASSUME TypeOK, NEW d \in Decision, Moves(d)
    PROVE  TypeOK'
<1>1. PICK y \in DecisionState : dec' = [dec EXCEPT ![d] = y]
  BY Zenon DEF Moves
<1>2. dec' \in [Decision -> DecisionState]
  BY Zenon, <1>1 DEF TypeOK
<1>3. dec[d].item \in Item
  BY DEF TypeOK, DecisionState
<1>4. acted' \in [Item -> SUBSET Nonce] /\ unexplained' \subseteq Item
  <2>1. CASE UNCHANGED <<acted, unexplained>>
    BY Zenon, <2>1 DEF TypeOK
  <2>2. CASE Reaches(d, dec[d].item)
    BY <2>2, <1>3 DEF Reaches, TypeOK, Nonce
  <2> QED BY Zenon, <2>1, <2>2 DEF Moves
<1> QED BY Zenon, <1>2, <1>4 DEF TypeOK, Moves

\* A decision that acts has a reason, or is the first.
LEMMA ActsForAReason ==
    ASSUME ClaimsInv, NEW d \in Decision, At(d, "act"), Reaches(d, dec[d].item)
    PROVE  unexplained' = {}
<1> DEFINE i == dec[d].item
<1>1. i \in Listed /\ (~dec[d].seen \/ dec[d].late)
  BY Zenon DEF ClaimsInv, Acting, Checked, At
<1>2. CASE dec[d].age >= StaleAfter \/ dec[d].over
  BY Zenon, <1>1, <1>2 DEF Reaches, ClaimsInv, RepeatsExplained
<1>3. CASE dec[d].age < StaleAfter /\ ~dec[d].over
  <2>1. Own(i, d)
    BY Zenon, <1>3 DEF ClaimsInv, ClaimHeld
  <2>2. dec[d].pc # "finish"
    BY DEF At
  <2>3. acted[i] \subseteq {d}
    BY Zenon, <1>1, <1>3, <2>1, <2>2 DEF ClaimsInv, Sole
  <2> QED BY Zenon, <2>3 DEF Reaches, ClaimsInv, RepeatsExplained
<1>4. dec[d].age \in Int
  BY DEF ClaimsInv, TypeOK, DecisionState
<1> QED BY <1>2, <1>3, <1>4, ClaimsAssumption DEF ClaimsAssumption

LEMMA MovesInv ==
    ASSUME ClaimsInv, NEW d \in Decision, Moves(d)
    PROVE  ClaimsInv'
<1>1. PICK y \in DecisionState : Moved(dec[d], y) /\ dec' = [dec EXCEPT ![d] = y]
  BY Zenon DEF Moves
<1>2. \A e \in Decision : dec'[e] = IF e = d THEN y ELSE dec[e]
  BY Zenon, <1>1 DEF ClaimsInv, TypeOK
<1>3. row' = row /\ tickets' = tickets
  BY Zenon DEF Moves
<1>4. \A j \in Listed, e \in Decision : Own(j, e)' <=> Own(j, e)
  BY Zenon, <1>3 DEF Own
<1>5. \/ acted' = acted /\ unexplained' = unexplained
      \/ /\ At(d, "act") /\ Reaches(d, dec[d].item)
         /\ acted' = [acted EXCEPT ![dec[d].item] = @ \cup {d}]
  BY Zenon DEF Moves, Reaches
<1>6. dec[d].item \in Item /\ acted \in [Item -> SUBSET Nonce] /\ Listed \subseteq Item
  BY ClaimsAssumption DEF ClaimsInv, TypeOK, DecisionState, ClaimsAssumption
<1>7. TypeOK'
  BY Zenon, MovesType DEF ClaimsInv
<1>8. TookLate'
  BY <1>1, <1>2 DEF ClaimsInv, TookLate, Moved
<1>9. Checked'
  BY <1>1, <1>2 DEF ClaimsInv, Checked, Moved
<1>10. Holder'
  BY <1>1, <1>2, <1>4 DEF ClaimsInv, Holder, Moved
<1>11. Untouched'
  <2> SUFFICES ASSUME NEW j \in Listed, row[j].state = "free"
               PROVE  /\ acted'[j] = {}
                      /\ \A e \in Decision : dec'[e].item = j => ~dec'[e].took
    BY Zenon, <1>3 DEF Untouched
  <2>1. acted[j] = {} /\ \A e \in Decision : dec[e].item = j => ~dec[e].took
    BY Zenon DEF ClaimsInv, Untouched
  <2>2. \A e \in Decision : dec'[e].item = j => ~dec'[e].took
    BY <1>1, <1>2, <2>1 DEF Moved
  <2>3. At(d, "act") => dec[d].item # j
    BY Zenon, <2>1 DEF ClaimsInv, Acting
  <2> QED BY <1>5, <1>6, <2>1, <2>2, <2>3
<1>12. Acting'
  BY <1>1, <1>2, <1>3, <1>4 DEF ClaimsInv, Acting, Moved, At
<1>13. ClaimHeld'
  <2> SUFFICES ASSUME NEW e \in Decision, At(e, "act")', dec'[e].age < StaleAfter
               PROVE  Own(dec[e].item, e)' /\ dec'[e].item = dec[e].item
    BY Zenon DEF ClaimHeld
  <2>1. e # d
    BY <1>1, <1>2 DEF At, Moved
  <2>2. dec'[e] = dec[e]
    BY Zenon, <2>1, <1>2
  <2>3. At(e, "act") /\ dec[e].age < StaleAfter
    BY Zenon, <2>2 DEF At
  <2>4. Own(dec[e].item, e)
    BY Zenon, <2>3 DEF ClaimsInv, ClaimHeld
  <2> QED BY Zenon, <2>2, <2>4, <1>3 DEF Own
<1>14. Sole'
  <2> SUFFICES ASSUME NEW j \in Listed, NEW c \in Decision, Own(j, c)',
                      ~dec'[c].over, dec'[c].pc # "finish"
               PROVE  /\ acted'[j] \subseteq {c}
                      /\ \A e \in Decision \ {c} : At(e, "act")' => dec'[e].item # j
    BY Zenon DEF Sole
  <2>1. Own(j, c)
    BY Zenon, <1>4
  <2>2. dec[c].took /\ dec[c].item = j
    BY Zenon, <2>1 DEF ClaimsInv, Holder
  <2>3. ~dec[c].over /\ dec[c].pc # "finish"
    BY <1>1, <1>2, <2>2 DEF Moved
  <2>4. /\ acted[j] \subseteq {c}
        /\ \A e \in Decision \ {c} : At(e, "act") => dec[e].item # j
    BY Zenon, <2>1, <2>3 DEF ClaimsInv, Sole
  <2>5. \A e \in Decision \ {c} : At(e, "act")' => dec'[e].item # j
    BY <1>1, <1>2, <2>4 DEF Moved, At
  <2>6. CASE At(d, "act") /\ dec[d].item = j
    BY <1>5, <1>6, <2>4, <2>5, <2>6
  <2>7. CASE ~(At(d, "act") /\ dec[d].item = j)
    BY <1>5, <1>6, <2>4, <2>5, <2>7
  <2> QED BY Zenon, <2>6, <2>7
<1>15. RepeatsExplained'
  BY Zenon, <1>5, ActsForAReason DEF ClaimsInv, RepeatsExplained
<1> QED BY Zenon, <1>7, <1>8, <1>9, <1>10, <1>11, <1>12, <1>13, <1>14, <1>15 DEF ClaimsInv

LEMMA TakesInv ==
    ASSUME ClaimsInv, NEW d \in Decision, TakesRow(d)
    PROVE  ClaimsInv'
<1> DEFINE i == dec[d].item
<1>1. PICK y \in DecisionState : Taken(d, y) /\ dec' = [dec EXCEPT ![d] = y]
  BY Zenon DEF TakesRow
<1>2. \A e \in Decision : dec'[e] = IF e = d THEN y ELSE dec[e]
  BY Zenon, <1>1 DEF ClaimsInv, TypeOK
<1>3. i \in Listed /\ acted' = acted /\ unexplained' = unexplained
  BY Zenon DEF TakesRow
<1>4. \A j \in Listed : row'[j] = IF j = i THEN Handed(d) ELSE row[j]
  BY Zenon DEF TakesRow, ClaimsInv, TypeOK
<1>5. Handed(d) \in Row
  BY Zenon, ZeroTypes, ClaimsAssumption DEF Handed, Row, Nonce
<1>6. \A j \in Listed, e \in Decision : Own(j, e)' <=> IF j = i THEN e = d ELSE Own(j, e)
  BY <1>4 DEF Own, Handed
<1>7. tickets \in Nat
  BY Zenon DEF ClaimsInv, TypeOK
<1>8. TypeOK'
  <2>1. dec' \in [Decision -> DecisionState]
    BY Zenon, <1>1 DEF ClaimsInv, TypeOK
  <2>2. row' \in [Listed -> Row]
    BY Zenon, <1>5 DEF ClaimsInv, TypeOK, TakesRow
  <2>3. tickets' \in Nat
    BY <1>7 DEF TakesRow, Tickets
  <2> QED BY Zenon, <1>3, <2>1, <2>2, <2>3 DEF ClaimsInv, TypeOK
<1>9. TookLate'
  BY <1>1, <1>2 DEF ClaimsInv, TookLate, Taken
<1>10. Checked'
  BY <1>1, <1>2 DEF ClaimsInv, Checked, Taken
<1>11. Holder'
  BY <1>1, <1>2, <1>6 DEF ClaimsInv, Holder, Taken
<1>12. Untouched'
  <2> SUFFICES ASSUME NEW j \in Listed, row'[j].state = "free"
               PROVE  /\ acted[j] = {}
                      /\ \A e \in Decision : dec'[e].item = j => ~dec'[e].took
    BY Zenon, <1>3 DEF Untouched
  <2>1. j # i /\ row[j].state = "free"
    BY <1>4 DEF Handed
  <2>2. acted[j] = {} /\ \A e \in Decision : dec[e].item = j => ~dec[e].took
    BY Zenon, <2>1 DEF ClaimsInv, Untouched
  <2> QED BY <1>1, <1>2, <2>1, <2>2 DEF Taken
<1>13. Acting'
  <2> SUFFICES ASSUME NEW e \in Decision, At(e, "act")'
               PROVE  /\ dec'[e].took /\ dec'[e].item \in Listed
                      /\ Own(dec[e].item, e)' => row'[dec'[e].item].age = dec'[e].age
    BY Zenon DEF Acting
  <2>1. CASE e = d
    BY <1>1, <1>2, <1>3, <1>4, <2>1 DEF Taken, Handed
  <2>2. CASE e # d
    <3>1. dec'[e] = dec[e] /\ At(e, "act")
      BY Zenon, <1>2, <2>2 DEF At
    <3>2. /\ dec[e].took /\ dec[e].item \in Listed
          /\ Own(dec[e].item, e) => row[dec[e].item].age = dec[e].age
      BY Zenon, <3>1 DEF ClaimsInv, Acting
    <3>3. Own(dec[e].item, e)' => dec[e].item # i
      BY <3>1, <3>2, <1>4, <2>2 DEF Own, Handed
    <3>4. dec[e].item # i => row'[dec[e].item] = row[dec[e].item]
      BY Zenon, <1>4, <3>2
    <3> QED BY Zenon, <3>1, <3>2, <3>3, <3>4 DEF Own
  <2> QED BY Zenon, <2>1, <2>2
\* The claim that is taken over is stale, and so is its holder.
<1>14. ClaimHeld'
  <2> SUFFICES ASSUME NEW e \in Decision, At(e, "act")', dec'[e].age < StaleAfter
               PROVE  Own(dec[e].item, e)'
    BY Zenon DEF ClaimHeld
  <2>1. CASE e = d
    BY <1>1, <1>2, <1>3, <1>4, <2>1 DEF Taken, Handed, Own
  <2>2. CASE e # d
    <3>1. dec'[e] = dec[e] /\ At(e, "act")
      BY Zenon, <1>2, <2>2 DEF At
    <3>2. Own(dec[e].item, e) /\ dec[e].item \in Listed
      BY Zenon, <3>1 DEF ClaimsInv, ClaimHeld, Acting
    <3>3. row[dec[e].item].age < StaleAfter
      BY Zenon, <3>1, <3>2 DEF ClaimsInv, Acting
    <3>4. dec[e].item # i
      <4>1. SUFFICES ASSUME dec[e].item = i
                     PROVE  FALSE
        OBVIOUS
      <4>2. row[i].state = "handed" /\ row[i].nonce = e
        BY Zenon, <3>2, <4>1 DEF Own
      <4>3. ~Own(i, d)
        BY Zenon, <4>2, <2>2 DEF Own
      <4>4. row[i].age >= StaleAfter
        BY <4>2, <4>3 DEF TakesRow, Open, IsStale
      <4>5. row[i].age \in Int
        BY <1>3 DEF ClaimsInv, TypeOK, Row
      <4> QED BY <4>1, <4>4, <4>5, <3>3, ClaimsAssumption DEF ClaimsAssumption
    <3> QED BY Zenon, <3>1, <3>2, <3>4, <1>4 DEF Own
  <2> QED BY Zenon, <2>1, <2>2
\* The first to take the row finds the item untouched; every other one takes over.
<1>15. Sole'
  <2> SUFFICES ASSUME NEW j \in Listed, NEW c \in Decision, Own(j, c)',
                      ~dec'[c].over, dec'[c].pc # "finish"
               PROVE  /\ acted[j] \subseteq {c}
                      /\ \A e \in Decision \ {c} : At(e, "act")' => dec'[e].item # j
    BY Zenon, <1>3 DEF Sole
  <2>1. CASE j # i
    <3>1. Own(j, c)
      BY Zenon, <1>6, <2>1
    <3>2. c # d
      BY Zenon, <3>1, <2>1 DEF ClaimsInv, Holder
    <3>3. dec'[c] = dec[c]
      BY Zenon, <1>2, <3>2
    <3>4. /\ acted[j] \subseteq {c}
          /\ \A e \in Decision \ {c} : At(e, "act") => dec[e].item # j
      BY Zenon, <3>1, <3>3 DEF ClaimsInv, Sole
    <3> QED BY <1>1, <1>2, <2>1, <3>4 DEF Taken, At
  <2>2. CASE j = i
    <3>1. c = d
      BY Zenon, <1>6, <2>2
    <3>2. ~HandedToOther(i, d) /\ (Own(i, d) => ~dec[d].over)
      BY Zenon, <1>1, <1>2, <3>1 DEF Taken
    <3>3. CASE Own(i, d)
      <4>1. dec[d].pc # "finish"
        BY DEF TakesRow, At
      <4>2. /\ acted[i] \subseteq {d}
            /\ \A e \in Decision \ {d} : At(e, "act") => dec[e].item # i
        BY Zenon, <3>2, <3>3, <4>1, <1>3 DEF ClaimsInv, Sole
      <4> QED BY Zenon, <1>2, <2>2, <3>1, <4>2 DEF At
    <3>4. CASE row[i].state = "free"
      <4>1. acted[i] = {} /\ \A e \in Decision : dec[e].item = i => ~dec[e].took
        BY Zenon, <3>4, <1>3 DEF ClaimsInv, Untouched
      <4>2. \A e \in Decision : At(e, "act") => dec[e].item # i
        BY Zenon, <4>1 DEF ClaimsInv, Acting
      <4> QED BY Zenon, <1>2, <2>2, <3>1, <4>1, <4>2 DEF At
    <3> QED BY Zenon, <3>2, <3>3, <3>4 DEF TakesRow, Open
  <2> QED BY Zenon, <2>1, <2>2
<1>16. RepeatsExplained'
  BY Zenon, <1>3 DEF ClaimsInv, RepeatsExplained
<1> QED BY Zenon, <1>8, <1>9, <1>10, <1>11, <1>12, <1>13, <1>14, <1>15, <1>16 DEF ClaimsInv

\* The rows after a decision has ended: its claims are nobody's, and at most the row
\* of its item is marked finished, if it was free, its own or stale.
LEMMA EndsRows ==
    ASSUME ClaimsInv, NEW d \in Decision, Ends(d)
    PROVE  /\ row' \in [Listed -> Row]
           /\ \A j \in Listed : row'[j].state = "free" => row[j].state = "free"
           /\ \A j \in Listed, e \in Decision : Own(j, e)' =>
                 e # d /\ Own(j, e) /\ row'[j].age = row[j].age
           /\ \A j \in Listed, e \in Decision \ {d} :
                 Own(j, e) /\ row[j].age < StaleAfter => Own(j, e)'
<1> DEFINE i == dec[d].item
           Tidy(rows) == [j \in Listed |->
              IF rows[j].nonce = d THEN [rows[j] EXCEPT !.nonce = Gone] ELSE rows[j]]
<1>1. row \in [Listed -> Row]
  BY Zenon DEF ClaimsInv, TypeOK
<1>2. PICK rows : /\ row' = Tidy(rows)
                  /\ rows = row \/ rows = Marked(d)
  BY Zenon DEF Ends, Over
<1>3. \A j \in Listed :
         /\ rows[j] \in Row
         /\ rows[j].nonce = row[j].nonce /\ rows[j].age = row[j].age
         /\ \/ rows[j].state = row[j].state
            \/ rows[j].state = "finished" /\ j = i /\ Marks(i, d)
  BY <1>1, <1>2 DEF Marked, Row
<1>4. \A j \in Listed : row'[j] = IF rows[j].nonce = d THEN [rows[j] EXCEPT !.nonce = Gone]
                                  ELSE rows[j]
  BY Zenon, <1>2
<1>5. \A j \in Listed :
         /\ row'[j] \in Row
         /\ row'[j].state = rows[j].state /\ row'[j].age = rows[j].age
         /\ row'[j].nonce = IF rows[j].nonce = d THEN Gone ELSE rows[j].nonce
  <2> SUFFICES ASSUME NEW j \in Listed
               PROVE  /\ row'[j] \in Row
                      /\ row'[j].state = rows[j].state /\ row'[j].age = rows[j].age
                      /\ row'[j].nonce = IF rows[j].nonce = d THEN Gone ELSE rows[j].nonce
    BY Zenon
  <2>1. rows[j] \in Row
    BY Zenon, <1>3
  <2>2. row'[j] = IF rows[j].nonce = d THEN [rows[j] EXCEPT !.nonce = Gone] ELSE rows[j]
    BY Zenon, <1>4
  <2>3. row'[j] \in Row
    BY Zenon, <2>1, <2>2 DEF Row, Nonce
  <2> QED BY <2>1, <2>2, <2>3 DEF Row
<1>6. row' \in [Listed -> Row]
  BY Zenon, <1>2, <1>5
<1>7. \A j \in Listed : row'[j].state = "free" => row[j].state = "free"
  BY <1>3, <1>5
<1>8. \A j \in Listed, e \in Decision : Own(j, e)' =>
         e # d /\ Own(j, e) /\ row'[j].age = row[j].age
  BY <1>3, <1>5, ClaimsAssumption DEF Own, ClaimsAssumption
<1>9. ASSUME NEW j \in Listed, NEW e \in Decision \ {d}, Own(j, e), row[j].age < StaleAfter
      PROVE  Own(j, e)'
  <2>1. row[j].age \in Int
    BY <1>1 DEF Row
  <2>2. ~(j = i /\ Marks(i, d))
    BY <1>9, <2>1, ClaimsAssumption DEF Marks, Own, ClaimsAssumption
  <2> QED BY <1>3, <1>5, <1>9, <2>2 DEF Own
<1> QED BY Zenon, <1>6, <1>7, <1>8, <1>9

LEMMA EndsInv ==
    ASSUME ClaimsInv, NEW d \in Decision, Ends(d)
    PROVE  ClaimsInv'
<1> DEFINE y == [Fresh(dec[d].item) EXCEPT !.pc = "idle"]
<1>1. dec' = [dec EXCEPT ![d] = y]
  BY Zenon DEF Ends, Over
<1>2. dec[d].item \in Item /\ y \in DecisionState
  BY Zenon, FreshType, ClaimsAssumption DEF ClaimsInv, TypeOK, DecisionState
<1>3. y.pc = "idle" /\ ~y.took
  BY DEF Fresh
<1> HIDE DEF y
<1>4. \A e \in Decision : dec'[e] = IF e = d THEN y ELSE dec[e]
  BY Zenon, <1>1 DEF ClaimsInv, TypeOK
<1>5. acted' = [j \in Item |-> Forget(acted[j], d)] /\ UNCHANGED <<tickets, unexplained>>
  BY Zenon DEF Ends
<1>6. acted \in [Item -> SUBSET Nonce] /\ Listed \subseteq Item
  BY Zenon, ClaimsAssumption DEF ClaimsInv, TypeOK, ClaimsAssumption
<1>7. \A e \in Decision : At(e, "act")' => e # d /\ At(e, "act") /\ dec'[e] = dec[e]
  BY <1>3, <1>4 DEF At
<1>8. TypeOK'
  <2>1. dec' \in [Decision -> DecisionState]
    BY Zenon, <1>1, <1>2 DEF ClaimsInv, TypeOK
  <2>2. acted' \in [Item -> SUBSET Nonce]
    BY <1>5, <1>6 DEF Forget, Nonce
  <2> QED BY Zenon, <1>5, <2>1, <2>2, EndsRows DEF ClaimsInv, TypeOK
<1>9. TookLate' /\ Checked'
  BY <1>3, <1>4 DEF ClaimsInv, TookLate, Checked
<1>10. Holder'
  BY Zenon, <1>4, EndsRows DEF ClaimsInv, Holder
<1>11. Untouched'
  <2> SUFFICES ASSUME NEW j \in Listed, row'[j].state = "free"
               PROVE  /\ acted'[j] = {}
                      /\ \A e \in Decision : dec'[e].item = j => ~dec'[e].took
    BY Zenon DEF Untouched
  <2>1. acted[j] = {} /\ \A e \in Decision : dec[e].item = j => ~dec[e].took
    BY Zenon, EndsRows DEF ClaimsInv, Untouched
  <2>2. acted'[j] = {}
    BY <1>5, <1>6, <2>1 DEF Forget
  <2> QED BY <1>3, <1>4, <2>1, <2>2
<1>12. Acting'
  <2> SUFFICES ASSUME NEW e \in Decision, At(e, "act")'
               PROVE  /\ dec'[e].took /\ dec'[e].item \in Listed
                      /\ Own(dec[e].item, e)' => row'[dec'[e].item].age = dec'[e].age
    BY Zenon DEF Acting
  <2>1. e # d /\ At(e, "act") /\ dec'[e] = dec[e]
    BY Zenon, <1>7
  <2>2. /\ dec[e].took /\ dec[e].item \in Listed
        /\ Own(dec[e].item, e) => row[dec[e].item].age = dec[e].age
    BY Zenon, <2>1 DEF ClaimsInv, Acting
  <2>3. row'[dec[e].item].state = "handed" /\ row'[dec[e].item].nonce = e =>
           Own(dec[e].item, e) /\ row'[dec[e].item].age = row[dec[e].item].age
    BY <2>2, EndsRows DEF Own
  <2> QED BY Zenon, <2>1, <2>2, <2>3 DEF Own
<1>13. ClaimHeld'
  <2> SUFFICES ASSUME NEW e \in Decision, At(e, "act")', dec'[e].age < StaleAfter
               PROVE  Own(dec[e].item, e)'
    BY Zenon DEF ClaimHeld
  <2>1. e # d /\ At(e, "act") /\ dec'[e] = dec[e]
    BY Zenon, <1>7
  <2>2. Own(dec[e].item, e) /\ dec[e].item \in Listed /\ row[dec[e].item].age < StaleAfter
    BY Zenon, <2>1 DEF ClaimsInv, ClaimHeld, Acting
  <2>3. row'[dec[e].item].state = "handed" /\ row'[dec[e].item].nonce = e
    <3> DEFINE k == dec[e].item
    <3>1. k \in Listed /\ Own(k, e) /\ row[k].age < StaleAfter
      BY Zenon, <2>2
    <3>2. \A j \in Listed : Own(j, e) /\ row[j].age < StaleAfter => Own(j, e)'
      BY Zenon, <2>1, EndsRows
    <3>3. \A j \in Listed : Own(j, e) /\ row[j].age < StaleAfter =>
             row'[j].state = "handed" /\ row'[j].nonce = e
      BY Zenon, <3>2 DEF Own
    <3> QED BY Zenon, <3>1, <3>3
  <2> QED BY Zenon, <2>1, <2>3 DEF Own
<1>14. Sole'
  <2> SUFFICES ASSUME NEW j \in Listed, NEW c \in Decision, Own(j, c)',
                      ~dec'[c].over, dec'[c].pc # "finish"
               PROVE  /\ acted'[j] \subseteq {c}
                      /\ \A e \in Decision \ {c} : At(e, "act")' => dec'[e].item # j
    BY Zenon DEF Sole
  <2>1. c # d /\ Own(j, c)
    BY Zenon, EndsRows
  <2>2. dec'[c] = dec[c]
    BY Zenon, <2>1, <1>4
  <2>3. /\ acted[j] \subseteq {c}
        /\ \A e \in Decision \ {c} : At(e, "act") => dec[e].item # j
    BY Zenon, <2>1, <2>2 DEF ClaimsInv, Sole
  <2>4. acted'[j] \subseteq {c}
    BY <1>5, <1>6, <2>1, <2>3 DEF Forget
  <2> QED BY Zenon, <2>3, <2>4, <1>7
<1>15. RepeatsExplained'
  BY Zenon, <1>5 DEF ClaimsInv, RepeatsExplained
<1> QED BY Zenon, <1>8, <1>9, <1>10, <1>11, <1>12, <1>13, <1>14, <1>15 DEF ClaimsInv

LEMMA OlderFacts ==
    ASSUME NEW n \in 0..AgeCap
    PROVE  Older(n) \in 0..AgeCap /\ (Older(n) < StaleAfter => n < StaleAfter)
BY ClaimsAssumption DEF Older, AgeCap, ClaimsAssumption

LEMMA TickInv ==
    ASSUME ClaimsInv, Tick
    PROVE  ClaimsInv'
<1>1. /\ row \in [Listed -> Row] /\ dec \in [Decision -> DecisionState]
      /\ UNCHANGED <<tickets, acted, unexplained>>
  BY Zenon DEF ClaimsInv, TypeOK, Tick
<1>2. \A j \in Listed :
         /\ row'[j] \in Row /\ row'[j].state = row[j].state /\ row'[j].nonce = row[j].nonce
         /\ row'[j].age = IF row[j].state = "handed" THEN Older(row[j].age) ELSE row[j].age
  BY <1>1, OlderFacts DEF Tick, Row
<1>3. \A e \in Decision : dec'[e] = IF dec[e].pc = "act" THEN [dec[e] EXCEPT !.age = Older(@)]
                                    ELSE dec[e]
  BY Zenon DEF Tick
<1>4. \A e \in Decision :
         /\ dec'[e].pc = dec[e].pc /\ dec'[e].item = dec[e].item
         /\ dec'[e].seen = dec[e].seen /\ dec'[e].took = dec[e].took
         /\ dec'[e].over = dec[e].over /\ dec'[e].late = dec[e].late
         /\ dec'[e].age = IF dec[e].pc = "act" THEN Older(dec[e].age) ELSE dec[e].age
  BY <1>1, <1>3 DEF DecisionState
<1>5. \A e \in Decision : dec'[e] \in DecisionState
  <2> SUFFICES ASSUME NEW e \in Decision
               PROVE  dec'[e] \in DecisionState
    BY Zenon
  <2>1. dec[e] \in DecisionState
    BY Zenon, <1>1
  <2>2. Older(dec[e].age) \in 0..AgeCap
    BY Zenon, <2>1, OlderFacts DEF DecisionState
  <2> QED BY Zenon, <1>3, <2>1, <2>2 DEF DecisionState
<1>6. TypeOK'
  <2>1. row' \in [Listed -> Row]
    BY Zenon, <1>2 DEF Tick
  <2>2. dec' \in [Decision -> DecisionState]
    BY Zenon, <1>5 DEF Tick
  <2> QED BY Zenon, <1>1, <2>1, <2>2 DEF ClaimsInv, TypeOK
<1>7. \A j \in Listed, e \in Decision : Own(j, e)' <=> Own(j, e)
  BY Zenon, <1>2 DEF Own
<1>8. TookLate' /\ Checked' /\ Holder'
  BY Zenon, <1>4, <1>7 DEF ClaimsInv, TookLate, Checked, Holder
<1>9. Untouched'
  BY <1>1, <1>2, <1>4 DEF ClaimsInv, Untouched
<1>10. Sole'
  <2> SUFFICES ASSUME NEW j \in Listed, NEW c \in Decision, Own(j, c)',
                      ~dec'[c].over, dec'[c].pc # "finish"
               PROVE  /\ acted'[j] \subseteq {c}
                      /\ \A e \in Decision \ {c} : At(e, "act")' => dec'[e].item # j
    BY Zenon DEF Sole
  <2>1. /\ acted[j] \subseteq {c}
        /\ \A e \in Decision \ {c} : At(e, "act") => dec[e].item # j
    BY Zenon, <1>4, <1>7 DEF ClaimsInv, Sole
  <2> QED BY <1>1, <1>4, <2>1 DEF At
<1>11. Acting'
  <2> SUFFICES ASSUME NEW e \in Decision, At(e, "act")'
               PROVE  /\ dec'[e].took /\ dec'[e].item \in Listed
                      /\ Own(dec[e].item, e)' => row'[dec'[e].item].age = dec'[e].age
    BY Zenon DEF Acting
  <2>1. /\ At(e, "act") /\ dec[e].took /\ dec[e].item \in Listed
        /\ Own(dec[e].item, e) => row[dec[e].item].age = dec[e].age
    BY Zenon, <1>4 DEF ClaimsInv, Acting, At
  <2> QED BY <2>1, <1>2, <1>4 DEF Own, At
<1>12. ClaimHeld'
  <2> SUFFICES ASSUME NEW e \in Decision, At(e, "act")', dec'[e].age < StaleAfter
               PROVE  Own(dec[e].item, e)'
    BY Zenon DEF ClaimHeld
  <2>1. At(e, "act") /\ dec[e].age < StaleAfter
    BY <1>1, <1>4, OlderFacts DEF At, DecisionState
  <2>2. Own(dec[e].item, e) /\ dec[e].item \in Listed
    BY Zenon, <2>1 DEF ClaimsInv, ClaimHeld, Acting
  <2> QED BY Zenon, <2>2, <1>2, <1>4 DEF Own
<1>13. RepeatsExplained'
  BY Zenon, <1>1 DEF ClaimsInv, RepeatsExplained
<1> QED BY Zenon, <1>6, <1>8, <1>9, <1>10, <1>11, <1>12, <1>13 DEF ClaimsInv

LEMMA InitInv ==
    ASSUME Init
    PROVE  ClaimsInv
<1> DEFINE idle(j) == [Fresh(j) EXCEPT !.pc = "idle"]
<1>1. \A d \in Decision : \E j \in Item : dec[d] = idle(j)
  BY Zenon DEF Init
<1>2. \A j \in Item : idle(j) \in DecisionState
  BY Zenon, FreshType, ClaimsAssumption
<1>3. \A j \in Item : idle(j).pc = "idle" /\ ~idle(j).took
  BY DEF Fresh
<1> HIDE DEF idle
<1>4. \A d \in Decision : dec[d].pc = "idle" /\ ~dec[d].took
  BY Zenon, <1>1, <1>3
<1>5. \A d \in Decision : ~At(d, "act") /\ dec[d].pc # "take"
  BY <1>4 DEF At
<1>6. TypeOK
  <2>1. dec \in [Decision -> DecisionState]
    <3>1. dec = [d \in Decision |-> dec[d]]
      BY Zenon DEF Init
    <3>2. \A d \in Decision : dec[d] \in DecisionState
      BY Zenon, <1>1, <1>2
    <3> QED BY Zenon, <3>1, <3>2
  <2>2. [state |-> "free", nonce |-> Gone, age |-> 0] \in Row
    BY Zenon, ZeroTypes, ClaimsAssumption DEF Row, Nonce
  <2>3. row \in [Listed -> Row]
    BY Zenon, <2>2 DEF Init
  <2>4. tickets \in Nat /\ acted \in [Item -> SUBSET Nonce] /\ unexplained \subseteq Item
    BY DEF Init
  <2> QED BY Zenon, <2>1, <2>3, <2>4 DEF TypeOK
<1>7. \A j \in Listed, d \in Decision : ~Own(j, d)
  BY DEF Init, Own
<1>8. TookLate /\ Checked /\ Acting /\ ClaimHeld
  BY <1>4, <1>5 DEF TookLate, Checked, Acting, ClaimHeld
<1>9. Holder /\ Sole
  BY Zenon, <1>7 DEF Holder, Sole
<1>10. Untouched /\ RepeatsExplained
  BY <1>4, ClaimsAssumption DEF Untouched, RepeatsExplained, Init, ClaimsAssumption
<1> QED BY Zenon, <1>6, <1>8, <1>9, <1>10 DEF ClaimsInv

LEMMA StillInv ==
    ASSUME ClaimsInv, UNCHANGED <<row, dec, tickets, acted, unexplained>>
    PROVE  ClaimsInv'
<1>1. row' = row /\ dec' = dec /\ tickets' = tickets /\ acted' = acted
         /\ unexplained' = unexplained
  BY Zenon
<1>2. TypeOK' /\ TookLate' /\ Checked' /\ RepeatsExplained'
  BY Zenon, <1>1 DEF ClaimsInv, TypeOK, TookLate, Checked, RepeatsExplained
<1>3. Holder' /\ Untouched'
  BY Zenon, <1>1 DEF ClaimsInv, Holder, Untouched, Own
<1>4. Acting' /\ ClaimHeld'
  BY Zenon, <1>1 DEF ClaimsInv, Acting, ClaimHeld, At, Own
<1>5. Sole'
  BY <1>1 DEF ClaimsInv, Sole, At, Own
<1> QED BY Zenon, <1>2, <1>3, <1>4, <1>5 DEF ClaimsInv

LEMMA NextInv ==
    ASSUME ClaimsInv, [Next]_vars
    PROVE  ClaimsInv'
<1>1. CASE UNCHANGED vars
  BY Zenon, <1>1, StillInv DEF vars
<1>2. CASE RunChanges
  BY Zenon, <1>2, StillInv DEF RunChanges
<1>3. CASE Tick
  BY Zenon, <1>3, TickInv
<1>4. CASE \E d \in Decision : Process(d) \/ Enforce(d) \/ Faulty(d)
  <2>1. PICK d \in Decision : Process(d) \/ Enforce(d) \/ Faulty(d)
    BY Zenon, <1>4
  <2>2. Moves(d) \/ TakesRow(d) \/ Ends(d)
    BY Zenon, <2>1, Shape, ClaimsAssumption DEF ClaimsInv
  <2> QED BY Zenon, <2>2, MovesInv, TakesInv, EndsInv
<1> QED BY Zenon, <1>1, <1>2, <1>3, <1>4 DEF Next

\* The inductive invariant: who holds a row has taken it and is as old as it thinks,
\* and a holder that took over from nobody is alone.
THEOREM ClaimsInvariant == Spec => []ClaimsInv
<1>1. Init => ClaimsInv
  BY InitInv
<1>2. ClaimsInv /\ [Next]_vars => ClaimsInv'
  BY NextInv
<1> QED BY <1>1, <1>2, PTL DEF Spec

\* Rows, decisions and counters stay well formed.
THEOREM TypeCorrect == Spec => []TypeOK
<1>1. ClaimsInv => TypeOK
  BY Zenon DEF ClaimsInv
<1> QED BY <1>1, ClaimsInvariant, PTL

\* A decision about to act whose claim is younger than STALE_AFTER holds its row,
\* whatever other decisions take, mark or retry (PgClaimStore::take and `finish`).
THEOREM YoungClaimsHold == Spec => []ClaimHeld
<1>1. ClaimsInv => ClaimHeld
  BY Zenon DEF ClaimsInv
<1> QED BY <1>1, ClaimsInvariant, PTL

\* Whoever acts on an item after another decision did, has been slow past
\* STALE_AFTER or took over a claim that was, without a check that could tell.
THEOREM RepeatsHaveReasons == Spec => []RepeatsExplained
<1>1. ClaimsInv => RepeatsExplained
  BY Zenon DEF ClaimsInv
<1> QED BY <1>1, ClaimsInvariant, PTL

-----------------------------------------------------------------------------
(* The budget *)

Took == {d \in Decision : dec[d].took}

LEMMA TookFinite ==
    ASSUME NEW S \in SUBSET Decision
    PROVE  IsFiniteSet(S) /\ Cardinality(S) \in Nat
BY FS_Subset, FS_CardinalityType, ClaimsAssumption DEF ClaimsAssumption

LEMMA BudgetStep ==
    ASSUME ClaimsInv, BudgetExact, [Next]_vars
    PROVE  BudgetExact'
<1> SUFFICES tickets' <= DayBudget /\ Cardinality(Took') <= tickets'
  BY Zenon DEF BudgetExact, Took
<1>1. /\ tickets \in Nat /\ tickets <= DayBudget /\ DayBudget \in Nat
      /\ Cardinality(Took) <= tickets
  BY ClaimsAssumption DEF ClaimsInv, TypeOK, BudgetExact, Took, ClaimsAssumption
<1>2. dec \in [Decision -> DecisionState]
  BY Zenon DEF ClaimsInv, TypeOK
<1>3. IsFiniteSet(Took) /\ Cardinality(Took) \in Nat
  BY Zenon, TookFinite DEF Took
<1>4. CASE UNCHANGED <<dec, tickets>>
  BY Zenon, <1>1, <1>4 DEF Took
<1>5. CASE Tick
  <2>1. \A e \in Decision : dec'[e].took = dec[e].took
    BY <1>2, <1>5 DEF Tick, DecisionState
  <2>2. Took' = Took
    BY Zenon, <2>1 DEF Took
  <2> QED BY Zenon, <1>1, <1>5, <2>2 DEF Tick
<1>6. ASSUME NEW d \in Decision, Moves(d)
      PROVE  tickets' <= DayBudget /\ Cardinality(Took') <= tickets'
  <2>1. PICK y \in DecisionState : Moved(dec[d], y) /\ dec' = [dec EXCEPT ![d] = y]
    BY Zenon, <1>6 DEF Moves
  <2>2. \A e \in Decision : dec'[e].took = dec[e].took
    BY <1>2, <2>1 DEF Moved
  <2>3. Took' = Took
    BY Zenon, <2>2 DEF Took
  <2> QED BY Zenon, <1>1, <1>6, <2>3 DEF Moves
<1>7. ASSUME NEW d \in Decision, Ends(d)
      PROVE  tickets' <= DayBudget /\ Cardinality(Took') <= tickets'
  <2>1. dec' = [dec EXCEPT ![d] = [Fresh(dec[d].item) EXCEPT !.pc = "idle"]]
    BY Zenon, <1>7 DEF Ends, Over
  <2>2. Took' \subseteq Took
    BY <1>2, <2>1 DEF Took, Fresh
  <2>3. Cardinality(Took') <= Cardinality(Took) /\ Cardinality(Took') \in Nat
    BY Zenon, <1>3, <2>2, FS_Subset, FS_CardinalityType
  <2> QED BY <1>1, <1>3, <1>7, <2>3 DEF Ends
\* A decision that takes a row it does not hold pays for it.
<1>8. ASSUME NEW d \in Decision, TakesRow(d)
      PROVE  tickets' <= DayBudget /\ Cardinality(Took') <= tickets'
  <2>1. PICK y \in DecisionState : Taken(d, y) /\ dec' = [dec EXCEPT ![d] = y]
    BY Zenon, <1>8 DEF TakesRow
  <2>2. Took' = Took \cup {d}
    BY <1>2, <2>1 DEF Took, Taken
  <2>3. /\ d \in Took => Cardinality(Took') = Cardinality(Took)
        /\ d \notin Took => Cardinality(Took') = Cardinality(Took) + 1
    BY Zenon, <1>3, <2>2, FS_AddElement
  <2>4. Own(dec[d].item, d) => d \in Took
    BY Zenon, <1>8 DEF TakesRow, ClaimsInv, Holder, Took
  <2>5. /\ Own(dec[d].item, d) => tickets' = tickets
        /\ ~Own(dec[d].item, d) => tickets' = tickets + 1 /\ tickets < DayBudget
    BY Zenon, <1>8 DEF TakesRow, Tickets
  <2> QED BY <1>1, <1>3, <2>3, <2>4, <2>5
<1>9. CASE \E d \in Decision : Process(d) \/ Enforce(d) \/ Faulty(d)
  <2>1. PICK d \in Decision : Process(d) \/ Enforce(d) \/ Faulty(d)
    BY Zenon, <1>9
  <2>2. Moves(d) \/ TakesRow(d) \/ Ends(d)
    BY Zenon, <2>1, Shape, ClaimsAssumption DEF ClaimsInv
  <2> QED BY Zenon, <2>2, <1>6, <1>7, <1>8
<1> QED BY Zenon, <1>4, <1>5, <1>9 DEF Next, RunChanges, vars

\* No more tickets are handed out than the day has, and every decision that took a
\* row has used one up, also through a `take` whose answer was lost.
THEOREM BudgetKept == Spec => []BudgetExact
<1>1. Init => BudgetExact
  <2> SUFFICES ASSUME Init
               PROVE  BudgetExact
    OBVIOUS
  <2>1. \A d \in Decision : ~dec[d].took
    <3>1. \A d \in Decision : \E j \in Item : dec[d] = [Fresh(j) EXCEPT !.pc = "idle"]
      BY Zenon DEF Init
    <3> QED BY <3>1 DEF Fresh
  <2>2. {d \in Decision : dec[d].took} = {}
    BY Zenon, <2>1
  <2>3. Cardinality({d \in Decision : dec[d].took}) = 0
    BY Zenon, <2>2, FS_EmptySet
  <2> QED BY <2>3, ClaimsAssumption DEF Init, BudgetExact, ClaimsAssumption
<1>2. ClaimsInv /\ BudgetExact /\ [Next]_vars => BudgetExact'
  BY BudgetStep
<1> QED BY <1>1, <1>2, ClaimsInvariant, PTL DEF Spec

-----------------------------------------------------------------------------
(* A stop *)

\* A decision that has not passed the gate of a stopped run does not pass it: the
\* gate is read again by every retry, and nothing else leads to an action.
THEOREM StopBarsDecisions == Spec => StopBars
<1>1. ASSUME TypeOK, [Next]_vars, IsStopped, NEW d \in Decision, ~PastGate(d)
      PROVE  ~PastGate(d)'
  <2>1. dec[d] \in DecisionState
    BY Zenon, <1>1 DEF TypeOK
  <2>2. SUFFICES ASSUME dec'[d] # dec[d]
                 PROVE  dec'[d].pc \notin {"check", "take", "act"}
    BY Zenon, <1>1 DEF PastGate
  <2>3. ASSUME Tick
        PROVE  FALSE
    BY <1>1, <2>2, <2>3 DEF Tick, PastGate
  <2>4. ~MayPass
    BY <1>1 DEF MayPass, IsStopped
  <2>5. PICK c \in Decision : Process(c) \/ Enforce(c) \/ Faulty(c)
    BY Zenon, <1>1, <2>2, <2>3 DEF Next, RunChanges, vars
  <2>6. CASE c = d
    <3>0. dec[d].pc \notin {"check", "take", "act"} /\ dec \in [Decision -> DecisionState]
      BY Zenon, <1>1 DEF PastGate, TypeOK
    <3>1. CASE Receive(d)
      BY <2>1, <2>4, <3>0, <3>1 DEF Receive, Fresh
    <3>2. CASE AdmitRun(d)
      BY <2>1, <2>4, <3>0, <3>2 DEF AdmitRun, Goto
    <3>3. CASE Refuse(d)
      BY <2>1, <2>4, <3>0, <3>3 DEF Refuse, EndQuietly, Over, Fresh
    <3>4. CASE AdmitClaim(d)
      <4>1. CASE Goto(d, "lock")
        BY <2>1, <3>0, <4>1 DEF Goto
      <4>2. CASE EndQuietly(d)
        BY <2>1, <3>0, <4>2 DEF EndQuietly, Over, Fresh
      <4> QED BY Zenon, <3>4, <4>1, <4>2 DEF AdmitClaim
    <3>5. CASE ArriveUnread(d)
      BY <2>1, <2>4, <3>0, <3>5 DEF ArriveUnread, Goto
    <3>6. CASE Lock(d)
      BY <2>1, <2>4, <3>0, <3>6 DEF Lock, Goto
    <3>7. CASE ReadFacts(d)
      BY <2>1, <2>4, <3>0, <3>7 DEF ReadFacts
    <3>8. CASE SkipLeaves(d)
      BY <2>1, <2>4, <3>0, <3>8 DEF SkipLeaves, EndQuietly, Over, Fresh
    <3>9. CASE SkipFinishes(d)
      BY <2>1, <2>4, <3>0, <3>9 DEF SkipFinishes, ToFinish, Fresh
    <3>10. CASE GateRun(d)
      BY <2>1, <2>4, <3>0, <3>10 DEF GateRun, Goto, EndQuietly, Over, Fresh
    <3>11. CASE CheckClaim(d)
      BY <2>1, <2>4, <3>0, <3>11 DEF CheckClaim, At
    <3>12. CASE Take(d)
      BY <2>1, <2>4, <3>0, <3>12 DEF Take, At
    <3>13. CASE TakeRefused(d)
      BY <2>1, <2>4, <3>0, <3>13 DEF TakeRefused, At
    <3>14. CASE Act(d)
      BY <2>1, <2>4, <3>0, <3>14 DEF Act, At
    <3>15. CASE Rejected(d)
      BY <2>1, <2>4, <3>0, <3>15 DEF Rejected, At
    <3>16. CASE Finish(d)
      BY <2>1, <2>4, <3>0, <3>16 DEF Finish, Over, Fresh
    <3>17. CASE CallFails(d)
      BY <2>1, <2>4, <3>0, <3>17 DEF CallFails, Again, DecisionState
    <3>18. CASE TakeLost(d)
      BY <2>1, <2>4, <3>0, <3>18 DEF TakeLost, At
    <3>19. CASE ActFails(d)
      BY <2>1, <2>4, <3>0, <3>19 DEF ActFails, At
    <3>20. CASE Lose(d)
      BY <2>1, <2>4, <3>0, <3>20 DEF Lose, EndQuietly, Over, Fresh
    <3> QED BY Zenon, <2>5, <2>6, <3>1, <3>2, <3>3, <3>4, <3>5, <3>6, <3>7, <3>8, <3>9, <3>10, <3>11, <3>12, <3>13, <3>14, <3>15, <3>16, <3>17, <3>18, <3>19, <3>20
           DEF Process, Enforce, Faulty
  <2>7. CASE c # d
    <3>1. \E y : dec' = [dec EXCEPT ![c] = y]
      <4>1. ASSUME NEW pc, Goto(c, pc)
            PROVE  \E y : dec' = [dec EXCEPT ![c] = y]
        <5>1. dec' = [dec EXCEPT ![c] = [dec[c] EXCEPT !.pc = pc]]
          BY Zenon, <4>1 DEF Goto
        <5> QED BY Zenon, <5>1
      <4>2. EndQuietly(c) => \E y : dec' = [dec EXCEPT ![c] = y]
        BY Zenon DEF EndQuietly, Over
      <4>3. ToFinish(c) => \E y : dec' = [dec EXCEPT ![c] = y]
        BY Zenon DEF ToFinish
      <4>4. CASE ReadFacts(c)
        <5>1. PICK seen : dec' = [dec EXCEPT ![c] = [dec[c] EXCEPT !.pc = "gate", !.seen = seen]]
          BY Zenon, <4>4 DEF ReadFacts
        <5> QED BY Zenon, <5>1
      <4>5. CASE CheckClaim(c)
        <5>1. \/ EndQuietly(c) \/ ToFinish(c)
              \/ \E b : dec' = [dec EXCEPT ![c] = [dec[c] EXCEPT !.pc = "take", !.late = b]]
          BY Zenon, <4>5 DEF CheckClaim
        <5> QED BY Zenon, <5>1, <4>2, <4>3
      <4>6. CASE Process(c)
        BY Zenon, <4>1, <4>2, <4>6 DEF Process, Receive, AdmitRun, Refuse, AdmitClaim, ArriveUnread
      <4>7. CASE Enforce(c)
        BY Zenon, <4>1, <4>2, <4>3, <4>4, <4>5, <4>7 DEF Enforce, Lock, SkipLeaves, SkipFinishes,
           GateRun, Take, Takes, TakeRefused, Act, Rejected, Finish, Over
      <4>8. CASE Faulty(c)
        BY Zenon, <4>2, <4>8 DEF Faulty, CallFails, TakeLost, Takes, ActFails, Lose
      <4> QED BY Zenon, <2>5, <4>6, <4>7, <4>8
    <3>2. dec'[d] = dec[d]
      BY Zenon, <1>1, <2>7, <3>1 DEF TypeOK
    <3> QED BY Zenon, <2>2, <3>2
  <2> QED BY Zenon, <2>6, <2>7
<1>2. TypeOK /\ [Next]_vars =>
        [\A d \in Decision : IsStopped /\ ~PastGate(d) => ~PastGate(d)']_vars
  BY Zenon, <1>1
<1> QED BY <1>2, TypeCorrect, PTL DEF Spec, StopBars

=============================================================================
