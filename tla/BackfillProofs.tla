--------------------------- MODULE BackfillProofs ---------------------------
(***************************************************************************)
(* Type correctness of BackfillRuns, the finality of a stop, that the store *)
(* protocol implements RunLifecycle, that at most one run acts on a model   *)
(* unless a stale write brings one back that was done, and how long a hold  *)
(* lasts: for every set of runs and callers, every clock and every number   *)
(* of operations.                                                           *)
(***************************************************************************)
EXTENDS BackfillRuns, TLAPS

LEMMA AtPending ==
    ASSUME TypeOK, NEW c \in Caller, NEW pc \in PCs, NEW ks, At(c, pc, ks)
    PROVE  op[c] \in Operation /\ op[c].pc = pc /\ op[c].kind \in ks
BY DEF TypeOK, At, Idle, PCs

LEMMA NextVersionType ==
    ASSUME NEW s \in Record, NEW st \in States, NEW b \in BOOLEAN, NEW c \in Caller
    PROVE  NextVersion(s, st, b, c) \in Record
BY DEF NextVersion, Record

LEMMA Types ==
    ASSUME BackfillAssumption, TypeOK, Next
    PROVE  TypeOK'
<1> USE BackfillAssumption
<1>1. PICK c \in Caller : Begin(c) \/ Step(c) \/ Abandon(c)
  BY Zenon DEF Next
<1>2. CASE Begin(c)
  <2>1. PICK k \in Kinds, r \in Run :
            /\ left[k] > 0
            /\ left' = [left EXCEPT ![k] = @ - 1]
            /\ op' = [op EXCEPT ![c] = Begun(k, r)]
    BY Zenon, <1>2 DEF Begin
  <2>2. Absent \in Record
    BY Zenon DEF Absent, Record, States, None
  <2>3. Begun(k, r) \in Operation \cup {Idle}
    BY <2>2 DEF Begun, Operation, TypeOK, PCs, BackfillAssumption, Kinds
  <2> QED BY <1>2, <2>1, <2>3 DEF Begin, TypeOK
<1>3. CASE Abandon(c)
  BY Zenon, <1>3 DEF Abandon, End, TypeOK
<1>4. CASE Put(c)
  <2>1. op[c] \in Operation
    BY Zenon, <1>4, AtPending DEF Put, PCs
  <2> QED BY Zenon, <1>4, <2>1 DEF Put, Goto, TypeOK, Operation, PCs
<1>5. CASE ReadBack(c)
  <2>1. op[c] \in Operation
    BY Zenon, <1>5, AtPending DEF ReadBack, PCs
  <2> QED BY Zenon, <1>5, <2>1 DEF ReadBack, TypeOK, Operation, PCs
<1>6. CASE MarkStop(c)
  <2>1. op[c] \in Operation
    BY Zenon, <1>6, AtPending DEF MarkStop, PCs
  <2> QED BY Zenon, <1>6, <2>1 DEF MarkStop, Goto, TypeOK, Operation, PCs
<1>7. CASE ScanStops(c)
  <2>1. op[c] \in Operation
    BY Zenon, <1>7, AtPending DEF ScanStops, PCs
  <2> QED BY Zenon, <1>7, <2>1 DEF ScanStops, TypeOK, Operation, PCs
<1>8. CASE StartAgain(c)
  <2>1. op[c] \in Operation
    BY Zenon, <1>8, AtPending DEF StartAgain, PCs
  <2> QED BY <1>8, <2>1 DEF StartAgain, Goto, End, TypeOK, Operation, PCs
<1>9. CASE StartNew(c)
  <2>1. op[c] \in Operation
    BY Zenon, <1>9, AtPending DEF StartNew, PCs
  <2>2. \A t \in Clocks : [state |-> "Paused", version |-> 0, created |-> t,
                           started |-> FALSE, nonce |-> c] \in Record
    BY Zenon DEF Record, States, BackfillAssumption
  <2> QED BY <1>9, <2>1, <2>2 DEF StartNew, End, TypeOK, Operation, PCs
<1>10. CASE FinishStart(c)
  <2>1. op[c] \in Operation
    BY Zenon, <1>10, AtPending DEF FinishStart, PCs
  <2>2. op[c].seen \in Record
    BY Zenon, <2>1 DEF Operation
  <2>3. \A st \in States, b \in BOOLEAN :
           NextVersion(op[c].seen, st, b, c) \in Record
    BY Zenon, <2>2, NextVersionType
  <2>4. CASE End(c)
    BY Zenon, <1>10, <2>4 DEF FinishStart, End, TypeOK
  <2>5. CASE \E st \in {"Running", "Stopped"}, b \in BOOLEAN, pc \in {"put", "mark"} :
               op' = [op EXCEPT ![c].pc = pc,
                                ![c].next = NextVersion(op[c].seen, st, b, c)]
    <3>1. PICK st \in {"Running", "Stopped"}, b \in BOOLEAN, pc \in {"put", "mark"} :
               op' = [op EXCEPT ![c].pc = pc,
                                ![c].next = NextVersion(op[c].seen, st, b, c)]
      BY Zenon, <2>5
    <3>2. NextVersion(op[c].seen, st, b, c) \in Record
      BY Zenon, <2>3, <3>1 DEF States
    <3> QED BY Zenon, <1>10, <2>1, <3>1, <3>2 DEF FinishStart, TypeOK, Operation, PCs
  <2>6. CASE /\ Rivals(c) # {} /\ Holders(c) = {}
             /\ op' = [op EXCEPT ![c].waits = @ + 1, ![c].pc = "scanStops"]
    <3>1. op[c].waits < SettleWaits
      BY <2>1, <2>6 DEF Holders, Operation, BackfillAssumption
    <3> QED BY <1>10, <2>1, <2>6, <3>1 DEF FinishStart, TypeOK, Operation, PCs, BackfillAssumption
  <2> QED BY Zenon, <1>10, <2>4, <2>5, <2>6 DEF FinishStart
<1>11. CASE ChangeReadHold(c)
  <2>1. op[c] \in Operation
    BY Zenon, <1>11, AtPending DEF ChangeReadHold, PCs
  <2> QED BY Zenon, <1>11, <2>1 DEF ChangeReadHold, TypeOK, Operation, PCs
<1>12. CASE ChangeDecide(c)
  <2>1. op[c] \in Operation /\ op[c].kind \in Changes
    BY Zenon, <1>12, AtPending DEF ChangeDecide, PCs
  <2>2. AfterDecide(op[c].kind) \in PCs
    BY Zenon DEF AfterDecide, PCs
  <2>3. Target[op[c].kind] \in States
    BY <2>1 DEF Target, Changes, States
  <2>4. NextVersion(op[c].seen, Target[op[c].kind], op[c].seen.started, c) \in Record
    <3>1. op[c].seen \in Record /\ op[c].seen.started \in BOOLEAN
      BY Zenon, <2>1 DEF Operation, Record
    <3> QED BY Zenon, <2>3, <3>1, NextVersionType
  <2> QED BY <1>12, <2>1, <2>2, <2>4 DEF ChangeDecide, End, TypeOK, Operation
<1>13. CASE ResumeCheck(c)
  <2>1. op[c] \in Operation
    BY Zenon, <1>13, AtPending DEF ResumeCheck, PCs
  <2> QED BY <1>13, <2>1 DEF ResumeCheck, Goto, End, TypeOK, Operation, PCs
<1>14. CASE Unhold(c)
  <2>1. op[c] \in Operation
    BY Zenon, <1>14, AtPending DEF Unhold, PCs
  <2> QED BY Zenon, <1>14, <2>1 DEF Unhold, End, TypeOK, Operation
<1>15. CASE GateStop(c)
  <2>1. op[c] \in Operation
    BY Zenon, <1>15, AtPending DEF GateStop, PCs
  <2> QED BY <1>15, <2>1 DEF GateStop, Goto, End, TypeOK, Operation, PCs
<1>16. CASE GateHold(c)
  <2>1. op[c] \in Operation
    BY Zenon, <1>16, AtPending DEF GateHold, PCs
  <2>2. End(c) \/ Goto(c, "putHold")
    BY Zenon, <1>16 DEF GateHold
  <2>3. UNCHANGED <<rec, hold, stop, left, lostUpdate>>
    BY Zenon, <1>16 DEF GateHold
  <2> QED BY <2>1, <2>2, <2>3 DEF Goto, End, TypeOK, Operation, PCs
<1>17. CASE HoldForOffSwitch(c)
  <2>1. op[c] \in Operation
    BY Zenon, <1>17, AtPending DEF HoldForOffSwitch, PCs
  <2>2. op[c].seen.version \in Nat
    BY Zenon, <2>1 DEF Operation, Record
  <2> QED BY Zenon, <1>17, <2>1, <2>2 DEF HoldForOffSwitch, End, TypeOK, Operation
<1> QED
  BY Zenon, <1>1, <1>2, <1>3, <1>4, <1>5, <1>6, <1>7, <1>8, <1>9, <1>10, <1>11, <1>12,
     <1>13, <1>14, <1>15, <1>16, <1>17 DEF Step

LEMMA TypesInit ==
    ASSUME BackfillAssumption, Init
    PROVE  TypeOK
BY Zenon DEF BackfillAssumption, Init, TypeOK, Absent, Record, States, None

\* Type correctness: every record, marker and pending call stays well formed,
\* and a starting run waits at most START_SETTLE_WAITS times.
THEOREM TypeCorrect == Spec => []TypeOK
<1>1. TypeOK /\ UNCHANGED vars => TypeOK'
  BY Zenon DEF TypeOK, vars
<1> QED BY <1>1, TypesInit, Types, BackfillAssumption, PTL DEF Spec

-----------------------------------------------------------------------------
(* A stop is final.  A marker is put before the record that says Stopped, and is
   never deleted.  A call that is about to write Stopped has its marker; a resume
   that is still listing will write Running; and no call writes a record away. *)

Ready(c) ==
    /\ op[c].pc = "mark" => op[c].next.state # "Absent"
    /\ op[c].pc = "put" => /\ op[c].next.state # "Absent"
                           /\ op[c].next.state = "Stopped" => stop[op[c].run] # "none"
    /\ op[c].pc \in {"scanStops", "scanRuns"} /\ op[c].kind = "resume" =>
          op[c].next.state = "Running"

Marked == \A r \in Run : rec[r].state = "Stopped" => stop[r] # "none"

Inv == TypeOK /\ Marked /\ \A c \in Caller : Ready(c)

\* No call takes a stop marker away.
LEMMA MarkersStay ==
    ASSUME TypeOK, NEW c \in Caller, Begin(c) \/ Step(c) \/ Abandon(c)
    PROVE  \A r \in Run : stop[r] # "none" => stop'[r] # "none"
<1>1. CASE MarkStop(c)
  BY Zenon, <1>1 DEF MarkStop, TypeOK
<1>2. CASE ~MarkStop(c)
  BY Zenon, <1>2 DEF Begin, Step, Abandon, Put, ReadBack, ScanStops, StartAgain, StartNew,
     FinishStart, ChangeReadHold, ChangeDecide, ResumeCheck, Unhold, GateStop,
     GateHold, HoldForOffSwitch
<1> QED BY Zenon, <1>1, <1>2

\* A call changes its own entry of op alone.
LEMMA OthersWait ==
    ASSUME TypeOK, NEW c \in Caller, Begin(c) \/ Step(c) \/ Abandon(c)
    PROVE  \A d \in Caller \ {c} : op'[d] = op[d]
<1>1. CASE Begin(c) \/ Abandon(c)
  BY Zenon, <1>1 DEF Begin, Abandon, End, TypeOK
<1>2. CASE Put(c) \/ ReadBack(c) \/ MarkStop(c) \/ ScanStops(c)
  BY Zenon, <1>2 DEF Put, ReadBack, MarkStop, ScanStops, Goto, TypeOK
<1>3. CASE StartAgain(c) \/ StartNew(c) \/ FinishStart(c)
  BY Zenon, <1>3 DEF StartAgain, StartNew, FinishStart, Goto, End, TypeOK
<1>4. CASE ChangeReadHold(c) \/ ChangeDecide(c) \/ ResumeCheck(c) \/ Unhold(c)
  BY Zenon, <1>4 DEF ChangeReadHold, ChangeDecide, ResumeCheck, Unhold, Goto, End, TypeOK
<1>5. CASE GateStop(c) \/ GateHold(c) \/ HoldForOffSwitch(c)
  BY Zenon, <1>5 DEF GateStop, GateHold, HoldForOffSwitch, Goto, End, TypeOK
<1> QED BY Zenon, <1>1, <1>2, <1>3, <1>4, <1>5 DEF Step

LEMMA Idles ==
    ASSUME TypeOK, NEW c \in Caller, op' = [op EXCEPT ![c] = Idle]
    PROVE  Ready(c)'
BY Zenon DEF TypeOK, Ready, Idle

\* The acting call's own part of the invariant, one step per action
LEMMA ReadyKept ==
    ASSUME Inv, TypeOK', NEW c \in Caller, Begin(c) \/ Step(c) \/ Abandon(c)
    PROVE  Ready(c)'
<1>1. TypeOK /\ Ready(c)
  BY Zenon DEF Inv
<1>2. CASE Begin(c)
  <2>1. PICK k \in Kinds, r \in Run : op' = [op EXCEPT ![c] = Begun(k, r)]
    BY Zenon, <1>2 DEF Begin
  <2>2. op'[c] = Begun(k, r)
    BY Zenon, <1>1, <2>1 DEF TypeOK
  <2>3. Begun(k, r).pc \notin {"mark", "put", "scanRuns"}
        /\ (Begun(k, r).pc = "scanStops" => Begun(k, r).kind # "resume")
    BY Zenon DEF Begun, Idle, Kinds
  <2> QED BY Zenon, <2>2, <2>3 DEF Ready
<1>3. CASE Abandon(c) \/ Unhold(c) \/ HoldForOffSwitch(c)
  BY Zenon, <1>1, <1>3, Idles DEF Abandon, Unhold, HoldForOffSwitch, End
<1>4. CASE Put(c)
  <2>1. op[c] \in Operation
    BY Zenon, <1>1, <1>4, AtPending DEF Put, PCs
  <2>2. op'[c].pc = "back"
    BY Zenon, <1>1, <1>4, <2>1 DEF Put, Goto, TypeOK, Operation
  <2> QED BY Zenon, <2>2 DEF Ready
<1>5. CASE ReadBack(c)
  <2>1. op[c] \in Operation
    BY Zenon, <1>1, <1>5, AtPending DEF ReadBack, PCs
  <2>2. \/ op' = [op EXCEPT ![c] = Idle]
        \/ op'[c].pc = "unhold"
        \/ op'[c].pc = "scanStops" /\ op'[c].kind = "start"
    BY Zenon, <1>1, <1>5, <2>1 DEF ReadBack, TypeOK, Operation
  <2> QED BY Zenon, <1>1, <2>2, Idles DEF Ready
<1>6. CASE MarkStop(c)
  <2>1. op[c] \in Operation /\ op[c].pc = "mark"
    BY Zenon, <1>1, <1>6, AtPending DEF MarkStop, PCs
  <2>2. op'[c].pc = "put" /\ op'[c].next = op[c].next /\ op'[c].run = op[c].run
    BY Zenon, <1>1, <1>6, <2>1 DEF MarkStop, Goto, TypeOK, Operation
  <2>3. stop'[op[c].run] # "none"
    BY Zenon, <1>1, <1>6, <2>1 DEF MarkStop, TypeOK, Operation
  <2> QED BY Zenon, <1>1, <2>1, <2>2, <2>3 DEF Ready
<1>7. CASE ScanStops(c)
  <2>1. op[c] \in Operation /\ op[c].pc = "scanStops"
    BY Zenon, <1>1, <1>7, AtPending DEF ScanStops, PCs
  <2>2. op'[c].pc = "scanRuns" /\ op'[c].next = op[c].next /\ op'[c].kind = op[c].kind
    BY Zenon, <1>1, <1>7, <2>1 DEF ScanStops, TypeOK, Operation
  <2> QED BY Zenon, <1>1, <2>1, <2>2 DEF Ready
<1>8. CASE StartAgain(c)
  <2>1. op[c] \in Operation /\ op[c].kind = "start"
    BY <1>1, <1>8, AtPending DEF StartAgain, PCs
  <2>2. End(c) \/ Goto(c, "scanStops")
    BY Zenon, <1>8 DEF StartAgain
  <2>3. op' = [op EXCEPT ![c] = Idle] \/ (op'[c].pc = "scanStops" /\ op'[c].kind = "start")
    BY <1>1, <2>1, <2>2 DEF End, Goto, TypeOK, Operation
  <2> QED BY Zenon, <1>1, <2>3, Idles DEF Ready
<1>9. CASE StartNew(c)
  <2>1. op[c] \in Operation
    BY Zenon, <1>1, <1>9, AtPending DEF StartNew, PCs
  <2>2. op' = [op EXCEPT ![c] = Idle] \/ (op'[c].pc = "put" /\ op'[c].next.state = "Paused")
    BY <1>1, <1>9, <2>1 DEF StartNew, End, TypeOK, Operation
  <2> QED BY Zenon, <1>1, <2>2, Idles DEF Ready
<1>10. CASE FinishStart(c)
  <2>1. op[c] \in Operation /\ op[c].kind = "start"
    BY <1>1, <1>10, AtPending DEF FinishStart, PCs
  <2>2. \/ op' = [op EXCEPT ![c] = Idle]
        \/ op'[c].pc = "put" /\ op'[c].next.state = "Running"
        \/ op'[c].pc = "mark" /\ op'[c].next.state = "Stopped"
        \/ op'[c].pc = "scanStops" /\ op'[c].kind = "start"
    BY <1>1, <1>10, <2>1 DEF FinishStart, End, NextVersion, TypeOK, Operation
  <2> QED BY Zenon, <1>1, <2>2, Idles DEF Ready
<1>11. CASE ChangeReadHold(c)
  <2>1. op[c] \in Operation
    BY Zenon, <1>1, <1>11, AtPending DEF ChangeReadHold, PCs
  <2>2. op'[c].pc = "readStop"
    BY Zenon, <1>1, <1>11, <2>1 DEF ChangeReadHold, TypeOK, Operation
  <2> QED BY Zenon, <2>2 DEF Ready
<1>12. CASE ChangeDecide(c)
  <2>1. op[c] \in Operation /\ op[c].kind \in Changes
    BY Zenon, <1>1, <1>12, AtPending DEF ChangeDecide, PCs
  <2>2. \/ op' = [op EXCEPT ![c] = Idle]
        \/ /\ op'[c].pc = AfterDecide(op[c].kind) /\ op'[c].kind = op[c].kind
           /\ op'[c].next.state = Target[op[c].kind]
    BY <1>1, <1>12, <2>1 DEF ChangeDecide, End, NextVersion, TypeOK, Operation
  <2> QED BY <1>1, <2>1, <2>2, Idles DEF Ready, AfterDecide, Target, Changes
<1>13. CASE ResumeCheck(c)
  <2>1. op[c] \in Operation /\ op[c].pc = "scanRuns" /\ op[c].kind = "resume"
    BY <1>1, <1>13, AtPending DEF ResumeCheck, PCs
  <2>2. op' = [op EXCEPT ![c] = Idle] \/ (op'[c].pc = "put" /\ op'[c].next = op[c].next)
    BY <1>1, <1>13, <2>1 DEF ResumeCheck, End, Goto, TypeOK, Operation
  <2> QED BY Zenon, <1>1, <2>1, <2>2, Idles DEF Ready
<1>14. CASE GateStop(c) \/ GateHold(c)
  <2>1. op[c] \in Operation
    BY Zenon, <1>1, <1>14, AtPending DEF GateStop, GateHold, PCs
  <2>2. End(c) \/ Goto(c, "gateHold") \/ Goto(c, "putHold")
    BY Zenon, <1>14 DEF GateStop, GateHold
  <2>3. op' = [op EXCEPT ![c] = Idle] \/ op'[c].pc \in {"gateHold", "putHold"}
    BY <1>1, <2>1, <2>2 DEF End, Goto, TypeOK, Operation
  <2> QED BY Zenon, <1>1, <2>3, Idles DEF Ready
<1> QED
  BY Zenon, <1>2, <1>3, <1>4, <1>5, <1>6, <1>7, <1>8, <1>9, <1>10, <1>11, <1>12, <1>13, <1>14
  DEF Step

\* A record is written by Put alone, from a call that is ready to write.
LEMMA RecordWritten ==
    ASSUME Inv, NEW c \in Caller, Begin(c) \/ Step(c) \/ Abandon(c), NEW r \in Run
    PROVE  \/ rec'[r] = rec[r]
           \/ /\ rec'[r].state # "Absent"
              /\ rec'[r].state = "Stopped" => stop[r] # "none"
<1>1. CASE Put(c)
  <2>1. op[c] \in Operation /\ op[c].pc = "put"
    BY Zenon, <1>1, AtPending DEF Put, PCs, Inv
  <2>2. rec' = [rec EXCEPT ![op[c].run] = op[c].next] /\ op[c].run \in Run
    BY Zenon, <1>1, <2>1 DEF Put, Operation
  <2>3. Ready(c)
    BY Zenon DEF Inv
  <2> QED BY Zenon, <2>1, <2>2, <2>3 DEF Inv, TypeOK, Ready
<1>2. CASE ~Put(c)
  BY Zenon, <1>2 DEF Begin, Step, Abandon, MarkStop, ReadBack, ScanStops, StartAgain, StartNew,
     FinishStart, ChangeReadHold, ChangeDecide, ResumeCheck, Unhold, GateStop,
     GateHold, HoldForOffSwitch
<1> QED BY Zenon, <1>1, <1>2

LEMMA InvStep ==
    ASSUME BackfillAssumption, Inv, Next
    PROVE  Inv'
<1>1. PICK c \in Caller : Begin(c) \/ Step(c) \/ Abandon(c)
  BY Zenon DEF Next
<1>2. TypeOK /\ TypeOK'
  BY Zenon, Types DEF Inv
<1>3. Marked'
  BY Zenon, <1>1, <1>2, RecordWritten, MarkersStay DEF Inv, Marked
<1>4. ASSUME NEW d \in Caller PROVE Ready(d)'
  <2>1. CASE d = c
    BY Zenon, <1>1, <1>2, <2>1, ReadyKept
  <2>2. CASE d # c
    <3>1. op'[d] = op[d]
      BY Zenon, <1>1, <1>2, <2>2, OthersWait
    <3>2. Ready(d)
      BY Zenon DEF Inv
    <3>3. op[d].pc = "put" => op[d].run \in Run
      BY <1>2 DEF TypeOK, Operation, Idle
    <3>4. op[d].pc = "put" /\ stop[op[d].run] # "none" => stop'[op[d].run] # "none"
      BY Zenon, <1>1, <1>2, <3>3, MarkersStay
    <3> QED BY Zenon, <3>1, <3>2, <3>4 DEF Ready
  <2> QED BY Zenon, <2>1, <2>2
<1> QED BY Zenon, <1>2, <1>3, <1>4 DEF Inv

\* The inductive invariant behind the finality of a stop: records, markers and
\* pending writes agree at every step of start, finish_start, lose_start, change.
THEOREM Invariance == Spec => []Inv
<1>1. Init => Inv
  <2>1. Init => Marked /\ \A c \in Caller : Ready(c)
    BY DEF Init, Marked, Ready, Absent, Idle
  <2> QED BY Zenon, <2>1, TypesInit, BackfillAssumption DEF Inv
<1>2. Inv /\ UNCHANGED vars => Inv'
  BY Zenon DEF Inv, TypeOK, Marked, Ready, vars
<1> QED BY <1>1, <1>2, InvStep, BackfillAssumption, PTL DEF Spec

\* A stop is final: whatever a start, a change or a hold that read the run before
\* the stop writes after it, the run stays stopped.
THEOREM StopIsFinal == Spec => StopFinal
<1>1. ASSUME Inv, [Next]_vars, NEW r \in Run, Now(r) = "Stopped"
      PROVE  Now(r)' = "Stopped"
  <2>1. rec[r] \in Record
    BY Zenon, <1>1 DEF Inv, TypeOK
  <2>2. stop[r] # "none" /\ rec[r].state # "Absent"
    BY Zenon, <1>1, <2>1 DEF Inv, Marked, Now, Effective, Record
  <2>3. CASE UNCHANGED vars
    BY Zenon, <1>1, <2>3 DEF vars, Now
  <2>4. CASE Next
    <3>1. PICK c \in Caller : Begin(c) \/ Step(c) \/ Abandon(c)
      BY Zenon, <2>4 DEF Next
    <3>2. stop'[r] # "none"
      BY Zenon, <1>1, <2>2, <3>1, MarkersStay DEF Inv
    <3>3. rec'[r].state # "Absent"
      BY Zenon, <1>1, <2>2, <3>1, RecordWritten
    <3>4. rec'[r] \in Record
      BY Zenon, <1>1, <2>4, Types, BackfillAssumption DEF Inv, TypeOK
    <3> QED BY Zenon, <3>2, <3>3, <3>4 DEF Now, Effective, Record
  <2> QED BY Zenon, <1>1, <2>3, <2>4
<1>2. Inv /\ [Next]_vars => \A r \in Run : Now(r) = "Stopped" => Now(r)' = "Stopped"
  BY Zenon, <1>1
<1> QED BY <1>2, Invariance, PTL DEF Spec, StopFinal

-----------------------------------------------------------------------------
(* The refinement.  A run first appears by the write of a start that read no
   record, and this write is Paused; every other call holds a record, so the run
   it is about is there, and only such a call puts a marker. *)

Founded(c) ==
    op[c] # Idle =>
      /\ op[c].seen.state # "Absent" \/ op[c].pc = "back" => rec[op[c].run].state # "Absent"
      /\ op[c].pc = "back" => op[c].next.state # "Absent"
      /\ op[c].seen.state = "Absent" =>
            /\ op[c].seen = Absent /\ op[c].kind = "start"
            /\ op[c].pc \in {"scanStops", "scanRuns", "put", "back"}
            /\ op[c].pc = "put" => op[c].next.state = "Paused"

Known(r) ==
    /\ rec[r].state = "Absent" => rec[r] = Absent
    /\ stop[r] # "none" => rec[r].state # "Absent"

Grounds == (\A r \in Run : Known(r)) /\ \A c \in Caller : Founded(c)

\* A call that ends, or that goes on with what it has read, stays founded.
LEMMA FoundedKept ==
    ASSUME Inv, Grounds, NEW c \in Caller, Begin(c) \/ Step(c) \/ Abandon(c)
    PROVE  Founded(c)'
<1>0. TypeOK /\ Founded(c) /\ Ready(c) /\ op \in [Caller -> Operation \cup {Idle}]
  BY Zenon DEF Inv, Grounds, TypeOK
<1>a. ASSUME op' = [op EXCEPT ![c] = Idle] PROVE Founded(c)'
  BY Zenon, <1>0, <1>a DEF Founded
<1>b. ASSUME op[c] \in Operation, op[c].seen.state # "Absent", rec' = rec,
             op'[c].seen = op[c].seen, op'[c].run = op[c].run, op'[c].pc # "back"
      PROVE  Founded(c)'
  <2>1. op[c] # Idle
    BY <1>b DEF Operation, Idle, PCs
  <2> QED BY Zenon, <1>0, <1>b, <2>1 DEF Founded
<1>c. ASSUME NEW pc \in PCs, op[c].pc = pc, op[c] \in Operation,
             pc \notin {"scanStops", "scanRuns", "put", "back"} \/ op[c].kind # "start"
      PROVE  op[c].seen.state # "Absent"
  <2>1. op[c] # Idle
    BY <1>c DEF Idle, PCs
  <2> QED BY Zenon, <1>0, <1>c, <2>1 DEF Founded
<1>1. CASE Begin(c)
  <2>1. PICK k \in Kinds, r \in Run : op' = [op EXCEPT ![c] = Begun(k, r)]
    BY Zenon, <1>1 DEF Begin
  <2>2. op'[c] = Begun(k, r) /\ rec' = rec
    BY Zenon, <1>0, <1>1, <2>1 DEF Begin
  <2>3. \/ Begun(k, r) = Idle
        \/ /\ Begun(k, r).seen = rec[r] /\ Begun(k, r).run = r
           /\ Begun(k, r).pc \in {"scanStops", "startAgain", "gateStop", "readHold"}
           /\ rec[r] = Absent => Begun(k, r).kind = "start" /\ Begun(k, r).pc = "scanStops"
    BY DEF Begun, Absent
  <2>4. Known(r)
    BY Zenon DEF Grounds
  <2>5. CASE Begun(k, r) = Idle
    BY Zenon, <2>2, <2>5 DEF Founded
  <2>6. CASE Begun(k, r) # Idle
    BY Zenon, <2>2, <2>3, <2>4, <2>6 DEF Founded, Known
  <2> QED BY Zenon, <2>5, <2>6
<1>2. CASE Abandon(c) \/ Unhold(c) \/ HoldForOffSwitch(c)
  BY Zenon, <1>2, <1>a DEF Abandon, Unhold, HoldForOffSwitch, End
<1>3. CASE Put(c)
  <2>1. op[c] \in Operation /\ op[c].pc = "put"
    BY Zenon, <1>0, <1>3, AtPending DEF Put, PCs
  <2>2. /\ op'[c].seen = op[c].seen /\ op'[c].kind = op[c].kind /\ op'[c].run = op[c].run
        /\ op'[c].pc = "back"
    BY Zenon, <1>0, <1>3, <2>1 DEF Put, Goto, Operation
  <2>3. rec'[op[c].run] = op[c].next /\ op[c].next.state # "Absent"
    BY Zenon, <1>0, <1>3, <2>1 DEF Put, Ready, Operation, TypeOK
  <2>4. op[c] # Idle
    BY <2>1 DEF Idle
  <2>5. op'[c].next = op[c].next
    BY Zenon, <1>0, <1>3, <2>1 DEF Put, Goto, Operation
  <2> QED BY Zenon, <1>0, <2>1, <2>2, <2>3, <2>4, <2>5 DEF Founded
<1>4. CASE ReadBack(c)
  <2>1. op[c] \in Operation /\ op[c].pc = "back" /\ rec' = rec
    BY Zenon, <1>0, <1>4, AtPending DEF ReadBack, PCs
  <2>2. op[c] # Idle
    BY <2>1 DEF Idle
  <2>3. rec[op[c].run].state # "Absent"
    BY Zenon, <1>0, <2>1, <2>2 DEF Founded
  <2>4. \/ op'[c] = Idle
        \/ op'[c].run = op[c].run /\ op'[c].seen = op[c].next /\ op'[c].pc = "scanStops"
        \/ /\ op'[c].run = op[c].run /\ op'[c].seen = op[c].seen /\ op'[c].pc = "unhold"
           /\ op[c].kind = "resume"
    BY Zenon, <1>0, <1>4, <2>1 DEF ReadBack, Operation
  <2>5. op[c].next.state # "Absent" /\ (op[c].kind = "resume" => op[c].seen.state # "Absent")
    BY Zenon, <1>0, <2>1, <2>2 DEF Founded
  <2> QED BY Zenon, <2>1, <2>3, <2>4, <2>5 DEF Founded
<1>5. CASE ScanStops(c)
  <2>1. op[c] \in Operation /\ op[c].pc = "scanStops" /\ rec' = rec
    BY Zenon, <1>0, <1>5, AtPending DEF ScanStops, PCs
  <2>2. /\ op'[c].pc = "scanRuns" /\ op'[c].seen = op[c].seen /\ op'[c].kind = op[c].kind
        /\ op'[c].run = op[c].run
    BY Zenon, <1>0, <1>5, <2>1 DEF ScanStops, Operation
  <2>3. op[c] # Idle
    BY <2>1 DEF Idle
  <2> QED BY Zenon, <1>0, <2>1, <2>2, <2>3 DEF Founded
<1>6. CASE StartNew(c)
  <2>1. op[c] \in Operation /\ op[c].kind = "start" /\ rec' = rec /\ op[c].seen = Absent
    BY <1>0, <1>6, AtPending DEF StartNew, PCs
  <2>2. \/ op'[c] = Idle
        \/ /\ op'[c].seen = op[c].seen /\ op'[c].kind = op[c].kind /\ op'[c].run = op[c].run
           /\ op'[c].pc = "put" /\ op'[c].next.state = "Paused"
    BY <1>0, <1>6, <2>1 DEF StartNew, End, Operation
  <2> QED BY <2>1, <2>2 DEF Founded, Absent
<1>7. CASE MarkStop(c)
  <2>1. op[c] \in Operation /\ op[c].pc = "mark" /\ rec' = rec
    BY Zenon, <1>0, <1>7, AtPending DEF MarkStop, PCs
  <2>2. op'[c].seen = op[c].seen /\ op'[c].run = op[c].run /\ op'[c].pc = "put"
    BY Zenon, <1>0, <1>7, <2>1 DEF MarkStop, Goto, Operation
  <2> QED BY Zenon, <1>b, <1>c, <2>1, <2>2 DEF PCs
<1>8. CASE StartAgain(c) \/ ResumeCheck(c) \/ GateStop(c) \/ GateHold(c)
  <2>1. /\ op[c] \in Operation /\ rec' = rec
        /\ op[c].pc \in {"startAgain", "gateStop", "gateHold"} \/ op[c].kind = "resume"
    <3>1. CASE StartAgain(c)
      BY Zenon, <1>0, <3>1, AtPending DEF StartAgain, PCs
    <3>2. CASE ResumeCheck(c)
      <4>1. op[c] \in Operation /\ op[c].kind \in {"resume"} /\ rec' = rec
        BY Zenon, <1>0, <3>2, AtPending DEF ResumeCheck, PCs
      <4> QED BY Zenon, <4>1
    <3>3. CASE GateStop(c) \/ GateHold(c)
      BY Zenon, <1>0, <3>3, AtPending DEF GateStop, GateHold, PCs
    <3> QED BY Zenon, <1>8, <3>1, <3>2, <3>3
  <2>2. PICK pc \in {"scanStops", "put", "gateHold", "putHold"} : End(c) \/ Goto(c, pc)
    BY Zenon, <1>8 DEF StartAgain, ResumeCheck, GateStop, GateHold
  <2>3. op[c].seen.state # "Absent"
    BY Zenon, <1>c, <2>1 DEF Operation
  <2>4. CASE End(c)
    BY Zenon, <1>a, <2>4 DEF End
  <2>5. CASE Goto(c, pc)
    <3>1. op'[c].seen = op[c].seen /\ op'[c].run = op[c].run /\ op'[c].pc # "back"
      BY <1>0, <2>1, <2>5 DEF Goto, Operation
    <3> QED BY Zenon, <1>b, <2>1, <2>3, <3>1
  <2> QED BY Zenon, <2>2, <2>4, <2>5
<1>9. CASE FinishStart(c)
  <2>1. op[c] \in Operation /\ rec' = rec /\ op[c].seen # Absent
    BY <1>0, <1>9, AtPending DEF FinishStart, PCs
  <2>2. op[c] # Idle
    BY <2>1 DEF Idle, Operation, PCs
  <2>3. op[c].seen.state # "Absent"
    BY Zenon, <1>0, <2>1, <2>2 DEF Founded
  <2>4. \/ op' = [op EXCEPT ![c] = Idle]
        \/ op'[c].seen = op[c].seen /\ op'[c].run = op[c].run /\ op'[c].pc # "back"
    <3>1. \/ op' = [op EXCEPT ![c] = Idle]
          \/ \E pc \in {"put", "mark"} : \E n : op' = [op EXCEPT ![c].pc = pc, ![c].next = n]
          \/ op' = [op EXCEPT ![c].waits = @ + 1, ![c].pc = "scanStops"]
      BY Zenon, <1>9 DEF FinishStart, End
    <3>2. ASSUME NEW pc \in {"put", "mark"}, NEW n, op' = [op EXCEPT ![c].pc = pc, ![c].next = n]
          PROVE  op'[c].seen = op[c].seen /\ op'[c].run = op[c].run /\ op'[c].pc # "back"
      BY <1>0, <2>1, <3>2 DEF Operation
    <3>3. ASSUME op' = [op EXCEPT ![c].waits = @ + 1, ![c].pc = "scanStops"]
          PROVE  op'[c].seen = op[c].seen /\ op'[c].run = op[c].run /\ op'[c].pc # "back"
      BY <1>0, <2>1, <3>3 DEF Operation
    <3> QED BY Zenon, <3>1, <3>2, <3>3
  <2> QED BY Zenon, <1>a, <1>b, <2>1, <2>3, <2>4
<1>10. CASE ChangeReadHold(c) \/ ChangeDecide(c)
  <2>1. op[c] \in Operation /\ rec' = rec /\ op[c].pc \in {"readHold", "readStop"}
    BY <1>0, <1>10, AtPending DEF ChangeReadHold, ChangeDecide, PCs
  <2>2. op[c].seen.state # "Absent"
    BY Zenon, <1>c, <2>1 DEF PCs
  <2>3. \/ op' = [op EXCEPT ![c] = Idle]
        \/ op'[c].seen = op[c].seen /\ op'[c].run = op[c].run /\ op'[c].pc # "back"
    BY <1>0, <1>10, <2>1 DEF ChangeReadHold, ChangeDecide, AfterDecide, End, Operation
  <2> QED BY Zenon, <1>a, <1>b, <2>1, <2>2, <2>3
<1> QED
  BY Zenon, <1>1, <1>2, <1>3, <1>4, <1>5, <1>6, <1>7, <1>8, <1>9, <1>10 DEF Step

LEMMA GroundsStep ==
    ASSUME Inv, Grounds, Inv', NEW c \in Caller, Begin(c) \/ Step(c) \/ Abandon(c)
    PROVE  Grounds'
<1>1. TypeOK /\ TypeOK'
  BY Zenon DEF Inv
<1>2. ASSUME NEW r \in Run PROVE Known(r)'
  <2>1. Known(r) /\ (rec[r].state # "Absent" => rec'[r].state # "Absent")
    BY Zenon, RecordWritten DEF Grounds
  <2>2. rec'[r].state = "Absent" => rec'[r] = Absent
    BY Zenon, <2>1, RecordWritten DEF Known
  <2>3. ASSUME stop'[r] # "none" PROVE rec'[r].state # "Absent"
    <3>1. CASE stop[r] # "none"
      BY Zenon, <2>1, <3>1 DEF Known
    <3>2. CASE stop[r] = "none"
      <4>1. MarkStop(c)
        BY Zenon, <2>3, <3>2 DEF Begin, Step, Abandon, Put, ReadBack, ScanStops, StartAgain,
           StartNew, FinishStart, ChangeReadHold, ChangeDecide, ResumeCheck, Unhold, GateStop,
           GateHold, HoldForOffSwitch
      <4>2. op[c] \in Operation /\ op[c].pc = "mark" /\ op[c].run = r
        <5>1. op[c] \in Operation /\ op[c].pc = "mark"
          BY Zenon, <1>1, <4>1, AtPending DEF MarkStop, PCs
        <5> QED BY Zenon, <1>1, <2>3, <3>2, <4>1, <5>1 DEF MarkStop, TypeOK
      <4>3. op[c] # Idle
        BY <4>2 DEF Idle
      <4>4. rec[r].state # "Absent"
        BY Zenon, <4>2, <4>3 DEF Grounds, Founded
      <4> QED BY Zenon, <2>1, <4>4
    <3> QED BY Zenon, <3>1, <3>2
  <2> QED BY Zenon, <2>2, <2>3 DEF Known
<1>3. ASSUME NEW d \in Caller PROVE Founded(d)'
  <2>1. CASE d = c
    BY Zenon, <2>1, FoundedKept
  <2>2. CASE d # c
    <3>1. op'[d] = op[d] /\ Founded(d)
      BY Zenon, <1>1, <2>2, OthersWait DEF Grounds
    <3>2. op[d] # Idle => op[d].run \in Run
      BY Zenon, <1>1 DEF TypeOK, Operation
    <3>3. \A r \in Run : rec[r].state # "Absent" => rec'[r].state # "Absent"
      BY Zenon, RecordWritten
    <3> QED BY Zenon, <3>1, <3>2, <3>3 DEF Founded
  <2> QED BY Zenon, <2>1, <2>2
<1> QED BY Zenon, <1>2, <1>3 DEF Grounds

\* What a step may make of the state of one run
LEMMA RunMoves ==
    ASSUME Inv, Grounds, Inv', NEW c \in Caller, Begin(c) \/ Step(c) \/ Abandon(c), NEW r \in Run
    PROVE  /\ Now(r) = "Absent" => Now(r)' \in {"Absent", "Paused"}
           /\ Now(r) \in {"Running", "Paused", "Done"} =>
                 Now(r)' \in {"Running", "Paused", "Done", "Stopped"}
           /\ Now(r) = "Stopped" => Now(r)' = "Stopped"
           /\ Now(r) \in States
<1>1. TypeOK /\ TypeOK' /\ rec[r] \in Record /\ rec'[r] \in Record
  BY Zenon DEF Inv, TypeOK
<1>2. /\ (Now(r) = "Absent") = (rec[r].state = "Absent")
      /\ (Now(r)' = "Absent") = (rec'[r].state = "Absent")
      /\ Now(r) \in States /\ Now(r)' \in States
  BY <1>1 DEF Now, Effective, Record, States
<1>3. ASSUME Now(r) = "Absent", Now(r)' # "Absent" PROVE Now(r)' = "Paused"
  <2>1. rec[r].state = "Absent" /\ rec'[r] # rec[r] /\ stop[r] = "none"
    BY Zenon, <1>2, <1>3 DEF Grounds, Known
  <2>2. Put(c)
    BY Zenon, <2>1 DEF Begin, Step, Abandon, MarkStop, ReadBack, ScanStops, StartAgain,
       StartNew, FinishStart, ChangeReadHold, ChangeDecide, ResumeCheck, Unhold, GateStop,
       GateHold, HoldForOffSwitch
  <2>3. op[c] \in Operation /\ op[c].pc = "put"
    BY Zenon, <1>1, <2>2, AtPending DEF Put, PCs
  <2>4. op[c].run = r /\ rec'[r] = op[c].next /\ stop' = stop
    BY Zenon, <1>1, <2>1, <2>2, <2>3 DEF Put, TypeOK
  <2>5. op[c] # Idle
    BY <2>3 DEF Idle
  <2>6. op[c].next.state = "Paused"
    BY Zenon, <2>1, <2>3, <2>4, <2>5 DEF Grounds, Founded
  <2> QED BY <1>1, <2>1, <2>4, <2>6 DEF Now, Effective, Record
<1>4. rec[r].state # "Absent" => rec'[r].state # "Absent"
  BY Zenon, RecordWritten
<1>5. ASSUME Now(r) = "Stopped" PROVE Now(r)' = "Stopped"
  <2>1. stop[r] # "none" /\ rec[r].state # "Absent"
    BY Zenon, <1>1, <1>5 DEF Inv, Marked, Now, Effective, Record
  <2>2. stop'[r] # "none" /\ rec'[r].state # "Absent"
    BY Zenon, <1>1, <1>4, <2>1, MarkersStay
  <2> QED BY Zenon, <1>1, <2>2 DEF Now, Effective, Record
<1> QED BY Zenon, <1>2, <1>3, <1>4, <1>5 DEF States

\* A step is about one run.
LEMMA OneRunMoves ==
    ASSUME Inv, NEW c \in Caller, Begin(c) \/ Step(c) \/ Abandon(c)
    PROVE  \/ \A r \in Run : Now(r)' = Now(r)
           \/ \E r \in Run : \A s \in Run \ {r} : Now(s)' = Now(s)
<1>1. TypeOK
  BY Zenon DEF Inv
<1>2. CASE Put(c) \/ MarkStop(c) \/ Unhold(c) \/ HoldForOffSwitch(c)
  <2>1. op[c] \in Operation
    BY Zenon, <1>1, <1>2, AtPending DEF Put, MarkStop, Unhold, HoldForOffSwitch, PCs
  <2>2. op[c].run \in Run
    BY Zenon, <2>1 DEF Operation
  <2>3. \A s \in Run \ {op[c].run} : rec'[s] = rec[s] /\ hold'[s] = hold[s] /\ stop'[s] = stop[s]
    BY Zenon, <1>1, <1>2 DEF Put, MarkStop, Unhold, HoldForOffSwitch, TypeOK
  <2>4. \A s \in Run \ {op[c].run} : Now(s)' = Now(s)
    BY Zenon, <2>3 DEF Now
  <2> QED BY Zenon, <2>2, <2>4
<1>3. CASE ~(Put(c) \/ MarkStop(c) \/ Unhold(c) \/ HoldForOffSwitch(c))
  <2>1. UNCHANGED <<rec, hold, stop>>
    BY Zenon, <1>3 DEF Begin, Step, Abandon, ReadBack, ScanStops, StartAgain, StartNew,
       FinishStart, ChangeReadHold, ChangeDecide, ResumeCheck, GateStop, GateHold
  <2> QED BY Zenon, <2>1 DEF Now
<1> QED BY Zenon, <1>2, <1>3

\* BackfillRuns implements RunLifecycle: whatever starts, changes, holds and
\* abandoned calls race, for any number of runs and callers, the state that `run`
\* reports first appears as Paused, never goes away, and stays Stopped.
THEOREM Refinement == Spec => FollowsLifecycle
<1>1. Init => Grounds /\ Lifecycle!Init
  <2>1. ASSUME Init PROVE Lifecycle!Init
    <3>1. \A r \in Run : Now(r) = "Absent"
      BY Zenon, <2>1 DEF Init, Now, Effective, Absent
    <3> QED BY Zenon, <3>1 DEF Lifecycle!Init
  <2>2. ASSUME Init PROVE Grounds
    BY Zenon, <2>2 DEF Init, Grounds, Known, Founded
  <2> QED BY Zenon, <2>1, <2>2
<1>2. ASSUME Inv, Inv', Grounds, [Next]_vars
      PROVE  Grounds' /\ [Lifecycle!Next]_[r \in Run |-> Now(r)]
  <2>1. CASE UNCHANGED vars
    BY Zenon, <1>2, <2>1 DEF vars, Grounds, Known, Founded, Now
  <2>2. CASE Next
    <3>1. PICK c \in Caller : Begin(c) \/ Step(c) \/ Abandon(c)
      BY Zenon, <2>2 DEF Next
    <3>2. Grounds'
      BY Zenon, <1>2, <3>1, GroundsStep
    <3>3. CASE \A r \in Run : Now(r)' = Now(r)
      BY Zenon, <3>2, <3>3
    <3>4. ASSUME NEW r \in Run, \A s \in Run \ {r} : Now(s)' = Now(s)
          PROVE  [Lifecycle!Next]_[q \in Run |-> Now(q)]
      <4>1. [q \in Run |-> Now(q)]' = [[q \in Run |-> Now(q)] EXCEPT ![r] = Now(r)']
        BY Zenon, <3>4
      <4>2. CASE Now(r)' = Now(r)
        BY Zenon, <4>1, <4>2
      <4>3. CASE Now(r)' # Now(r)
        <5>1. \/ Now(r) = "Absent" /\ Now(r)' = "Paused"
              \/ /\ Now(r) \in {"Running", "Paused", "Done"}
                 /\ Now(r)' \in {"Running", "Paused", "Done", "Stopped"}
          BY <1>2, <3>1, <4>3, RunMoves DEF States
        <5>2. Lifecycle!Move(r)
          BY Zenon, <4>1, <5>1 DEF Lifecycle!Move, Lifecycle!Known
        <5> QED BY Zenon, <5>2 DEF Lifecycle!Next
      <4> QED BY Zenon, <4>2, <4>3
    <3> QED BY Zenon, <1>2, <3>1, <3>2, <3>3, <3>4, OneRunMoves
  <2> QED BY Zenon, <1>2, <2>1, <2>2
<1> QED BY <1>1, <1>2, Invariance, PTL DEF Spec, FollowsLifecycle, Lifecycle!Spec

-----------------------------------------------------------------------------
(* One runner to a model.  A run is cleared when a listing of its start has found
   no rival, and remains so in its record and in every call that has read it.  A run
   is over when it is stopped or done.  Of two overlapping runs that are cleared one
   is over: the listing that clears the second finds the record of the first, which
   is never absent again, and finds it over.  A stop is final, and a run that is
   done comes back only by a write over a record that it was not made from. *)

Cleared(r) ==
    \/ rec[r].started
    \/ \E c \in Caller : /\ op[c] # Idle /\ op[c].run = r
                         /\ op[c].seen.started \/ op[c].next.started

Over(r) == stop[r] # "none" \/ rec[r].state = "Done"

\* A done run may have come back.
Revived == lostUpdate /\ Budget["done"] # 0

\* What a call under way has read allows what it will write.
Sound(c) ==
    op[c] # Idle =>
      /\ \A s \in op[c].stops : stop[s] # "none"
      /\ op[c].pc \in {"scanStops", "scanRuns"} => op[c].seen.state # "Done"
      /\ op[c].pc = "put" /\ Active(op[c].next.state) => op[c].seen.state # "Done"
      /\ op[c].next.state = "Running" => op[c].next.started
      /\ op[c].next.started => op[c].seen.state # "Absent"
      /\ op[c].kind = "done" => Budget["done"] # 0
      /\ op[c].next.state = "Done" => op[c].kind = "done"
      /\ op[c].kind = "start" =>
            /\ op[c].pc # "startAgain" => op[c].seen.state \in {"Absent", "Paused"}
            /\ op[c].pc \in {"mark", "put", "back"} /\ op[c].next.version = 0 =>
                  op[c].next.state = "Paused"
      /\ op[c].next.state = "Running" => op[c].kind \in {"start", "resume"}
      /\ op[c].pc = "mark" => op[c].next.state = "Stopped"
      /\ op[c].pc = "unhold" => op[c].kind = "resume"

Recorded(r) ==
    /\ rec[r].state = "Running" => rec[r].started
    /\ rec[r].state = "Done" => Budget["done"] # 0

Excluded ==
    \A r \in Run : \A s \in Overlapping(r) :
       Cleared(r) /\ Cleared(s) => Over(r) \/ Over(s) \/ Revived

RunnerInv ==
    /\ Excluded
    /\ \A r \in Run : Recorded(r)
    /\ \A c \in Caller : Sound(c)
    /\ left["done"] # 0 => Budget["done"] # 0

LEMMA GoesOn ==
    ASSUME TypeOK, NEW c \in Caller, op[c] \in Operation, NEW pc, Goto(c, pc)
    PROVE  /\ op'[c].pc = pc /\ op'[c].kind = op[c].kind /\ op'[c].run = op[c].run
           /\ op'[c].seen = op[c].seen /\ op'[c].next = op[c].next
           /\ op'[c].stops = op[c].stops
BY Zenon DEF Goto, TypeOK, Operation

LEMMA UnderWay ==
    ASSUME TypeOK, NEW c \in Caller
    PROVE  /\ op[c] # Idle => op[c] \in Operation
           /\ op[c] \in Operation => op[c] # Idle
<1>1. op[c] # Idle => op[c] \in Operation
  BY Zenon DEF TypeOK
<1>2. op[c] \in Operation => op[c] # Idle
  BY DEF Operation, Idle, PCs
<1> QED BY Zenon, <1>1, <1>2

\* The acting call's own part of the invariant, one step per action
LEMMA SoundKept ==
    ASSUME BackfillAssumption, Inv, Grounds, RunnerInv, NEW c \in Caller,
           Begin(c) \/ Step(c) \/ Abandon(c)
    PROVE  Sound(c)'
<1>0. /\ TypeOK /\ Founded(c) /\ Sound(c) /\ Ready(c)
      /\ op \in [Caller -> Operation \cup {Idle}]
  BY Zenon DEF Inv, Grounds, RunnerInv, TypeOK
<1>a. ASSUME op' = [op EXCEPT ![c] = Idle] PROVE Sound(c)'
  BY Zenon, <1>0, <1>a DEF Sound
<1>b. ASSUME op[c] \in Operation, op'[c].stops = op[c].stops
      PROVE  \A s \in op'[c].stops : stop'[s] # "none"
  <2>1. op[c].stops \subseteq Run /\ op[c] # Idle
    BY Zenon, <1>0, <1>b, UnderWay DEF Operation
  <2>2. \A s \in op[c].stops : stop[s] # "none"
    BY Zenon, <1>0, <2>1 DEF Sound
  <2> QED BY Zenon, <1>0, <1>b, <2>1, <2>2, MarkersStay
<1>1. CASE Begin(c)
  <2>1. PICK k \in Kinds, r \in Run : left[k] > 0 /\ op' = [op EXCEPT ![c] = Begun(k, r)]
    BY Zenon, <1>1 DEF Begin
  <2>2. op'[c] = Begun(k, r)
    BY Zenon, <1>0, <2>1
  <2>3. \/ Begun(k, r) = Idle
        \/ /\ Begun(k, r).seen = rec[r] /\ Begun(k, r).next = Absent
           /\ Begun(k, r).kind = k /\ Begun(k, r).stops = {}
           /\ Begun(k, r).pc \in {"scanStops", "startAgain", "gateStop", "readHold"}
           /\ Begun(k, r).pc = "scanStops" => rec[r] = Absent
           /\ k = "start" => Begun(k, r).pc \in {"scanStops", "startAgain"}
    BY DEF Begun, Absent
  <2>4. k = "done" => Budget["done"] # 0
    <3>1. left[k] # 0
      BY <2>1
    <3> QED BY Zenon, <3>1 DEF RunnerInv
  <2>5. Absent.state = "Absent" /\ Absent.started = FALSE
    BY DEF Absent
  <2> QED BY Zenon, <2>2, <2>3, <2>4, <2>5 DEF Sound
<1>2. CASE Abandon(c) \/ Unhold(c) \/ HoldForOffSwitch(c)
  BY Zenon, <1>2, <1>a DEF Abandon, Unhold, HoldForOffSwitch, End
<1>3. CASE Put(c)
  <2>1. op[c] \in Operation /\ op[c].pc = "put" /\ Goto(c, "back")
    BY Zenon, <1>0, <1>3, AtPending DEF Put, PCs
  <2>2. op[c] # Idle
    BY Zenon, <1>0, <2>1, UnderWay
  <2>3. /\ op'[c].pc = "back" /\ op'[c].kind = op[c].kind /\ op'[c].seen = op[c].seen
        /\ op'[c].next = op[c].next /\ op'[c].stops = op[c].stops
    BY Zenon, <1>0, <2>1, GoesOn
  <2> QED BY Zenon, <1>0, <1>b, <2>1, <2>2, <2>3 DEF Sound
<1>4. CASE ReadBack(c)
  <2>1. op[c] \in Operation /\ op[c].pc = "back"
    BY Zenon, <1>0, <1>4, AtPending DEF ReadBack, PCs
  <2>2. op[c] # Idle
    BY Zenon, <1>0, <2>1, UnderWay
  <2>3. \/ op' = [op EXCEPT ![c] = Idle]
        \/ /\ op[c].kind = "start" /\ op[c].next.version = 0
           /\ op' = [op EXCEPT ![c] = [@ EXCEPT !.seen = op[c].next, !.pc = "scanStops"]]
        \/ op[c].kind = "resume" /\ op' = [op EXCEPT ![c] = [@ EXCEPT !.pc = "unhold"]]
    BY Zenon, <1>4 DEF ReadBack
  <2>4. ASSUME op[c].kind = "start", op[c].next.version = 0,
               op' = [op EXCEPT ![c] = [@ EXCEPT !.seen = op[c].next, !.pc = "scanStops"]]
        PROVE  Sound(c)'
    <3>1. /\ op'[c].seen = op[c].next /\ op'[c].pc = "scanStops" /\ op'[c].next = op[c].next
          /\ op'[c].kind = op[c].kind /\ op'[c].stops = op[c].stops
      BY Zenon, <1>0, <2>1, <2>4 DEF Operation
    <3>2. op[c].next.state = "Paused"
      BY Zenon, <1>0, <2>1, <2>2, <2>4 DEF Sound
    <3> QED BY Zenon, <1>0, <1>b, <2>1, <2>2, <2>4, <3>1, <3>2 DEF Sound
  <2>5. ASSUME op[c].kind = "resume", op' = [op EXCEPT ![c] = [@ EXCEPT !.pc = "unhold"]]
        PROVE  Sound(c)'
    <3>1. /\ op'[c].seen = op[c].seen /\ op'[c].pc = "unhold" /\ op'[c].next = op[c].next
          /\ op'[c].kind = op[c].kind /\ op'[c].stops = op[c].stops
      BY Zenon, <1>0, <2>1, <2>5 DEF Operation
    <3> QED BY Zenon, <1>0, <1>b, <2>1, <2>2, <2>5, <3>1 DEF Sound
  <2> QED BY Zenon, <1>a, <2>3, <2>4, <2>5
<1>5. CASE MarkStop(c)
  <2>1. op[c] \in Operation /\ op[c].pc = "mark" /\ Goto(c, "put")
    BY Zenon, <1>0, <1>5, AtPending DEF MarkStop, PCs
  <2>2. op[c] # Idle
    BY Zenon, <1>0, <2>1, UnderWay
  <2>3. /\ op'[c].pc = "put" /\ op'[c].kind = op[c].kind /\ op'[c].seen = op[c].seen
        /\ op'[c].next = op[c].next /\ op'[c].stops = op[c].stops
    BY Zenon, <1>0, <2>1, GoesOn
  <2>4. ~Active("Stopped")
    BY DEF Active
  <2> QED BY Zenon, <1>0, <1>b, <2>1, <2>2, <2>3, <2>4 DEF Sound
<1>6. CASE ScanStops(c)
  <2>1. op[c] \in Operation /\ op[c].pc = "scanStops" /\ stop' = stop
    BY Zenon, <1>0, <1>6, AtPending DEF ScanStops, PCs
  <2>2. op[c] # Idle
    BY Zenon, <1>0, <2>1, UnderWay
  <2>3. /\ op'[c].pc = "scanRuns" /\ op'[c].seen = op[c].seen /\ op'[c].kind = op[c].kind
        /\ op'[c].next = op[c].next /\ op'[c].stops = {r \in Run : stop[r] # "none"}
    BY Zenon, <1>0, <1>6, <2>1 DEF ScanStops, Operation
  <2> QED BY Zenon, <1>0, <2>1, <2>2, <2>3 DEF Sound
<1>7. CASE StartAgain(c)
  <2>1. op[c] \in Operation /\ op[c].kind = "start" /\ op[c].pc = "startAgain"
    BY <1>0, <1>7, AtPending DEF StartAgain, PCs
  <2>2. op[c] # Idle
    BY Zenon, <1>0, <2>1, UnderWay
  <2>3. End(c) \/ (op[c].seen.state = "Paused" /\ Goto(c, "scanStops"))
    BY Zenon, <1>7 DEF StartAgain
  <2>4. CASE End(c)
    BY Zenon, <1>a, <2>4 DEF End
  <2>5. CASE op[c].seen.state = "Paused" /\ Goto(c, "scanStops")
    <3>1. /\ op'[c].pc = "scanStops" /\ op'[c].kind = op[c].kind /\ op'[c].seen = op[c].seen
          /\ op'[c].next = op[c].next /\ op'[c].stops = op[c].stops
      BY Zenon, <1>0, <2>1, <2>5, GoesOn
    <3> QED BY Zenon, <1>0, <1>b, <2>1, <2>2, <2>5, <3>1 DEF Sound
  <2> QED BY Zenon, <2>3, <2>4, <2>5
<1>8. CASE StartNew(c)
  <2>1. op[c] \in Operation /\ op[c].kind = "start" /\ op[c].seen = Absent
    BY <1>0, <1>8, AtPending DEF StartNew, PCs
  <2>2. \/ End(c)
        \/ \E t \in Clocks :
              op' = [op EXCEPT ![c].pc = "put",
                       ![c].next = [state |-> "Paused", version |-> 0, created |-> t,
                                    started |-> FALSE, nonce |-> c]]
    BY Zenon, <1>8 DEF StartNew
  <2>3. CASE End(c)
    BY Zenon, <1>a, <2>3 DEF End
  <2>4. ASSUME NEW t \in Clocks,
               op' = [op EXCEPT ![c].pc = "put",
                        ![c].next = [state |-> "Paused", version |-> 0, created |-> t,
                                     started |-> FALSE, nonce |-> c]]
        PROVE  Sound(c)'
    <3>1. /\ op'[c].pc = "put" /\ op'[c].kind = "start" /\ op'[c].seen = Absent
          /\ op'[c].next.state = "Paused" /\ op'[c].next.started = FALSE
          /\ op'[c].stops = op[c].stops
      BY <1>0, <2>1, <2>4 DEF Operation
    <3>2. Absent.state = "Absent"
      BY DEF Absent
    <3> QED BY Zenon, <1>b, <2>1, <3>1, <3>2 DEF Sound
  <2> QED BY Zenon, <2>2, <2>3, <2>4
<1>9. CASE FinishStart(c)
  <2>1. op[c] \in Operation /\ op[c].kind = "start" /\ op[c].seen # Absent /\ op[c].pc = "scanRuns"
    BY <1>0, <1>9, AtPending DEF FinishStart, PCs
  <2>2. op[c] # Idle
    BY Zenon, <1>0, <2>1, UnderWay
  <2>3. op[c].seen.state = "Paused"
    BY Zenon, <1>0, <2>1, <2>2 DEF Founded, Sound
  <2>4. \/ End(c)
        \/ op' = [op EXCEPT ![c].pc = "put",
                            ![c].next = NextVersion(op[c].seen, "Running", TRUE, c)]
        \/ op' = [op EXCEPT ![c].pc = "mark",
                            ![c].next = NextVersion(op[c].seen, "Stopped", FALSE, c)]
        \/ op' = [op EXCEPT ![c].waits = @ + 1, ![c].pc = "scanStops"]
    BY Zenon, <1>9 DEF FinishStart
  <2>5. CASE End(c)
    BY Zenon, <1>a, <2>5 DEF End
  <2>6. ASSUME NEW pc \in {"put", "mark"}, NEW st, NEW b,
               op' = [op EXCEPT ![c].pc = pc, ![c].next = NextVersion(op[c].seen, st, b, c)]
        PROVE  /\ op'[c].pc = pc /\ op'[c].kind = "start" /\ op'[c].seen = op[c].seen
               /\ op'[c].next.state = st /\ op'[c].next.started = b
               /\ op'[c].next.version # 0 /\ op'[c].stops = op[c].stops
    <3>1. op[c].seen.version \in Nat
      BY Zenon, <2>1 DEF Operation, Record
    <3> QED BY <1>0, <2>1, <2>6, <3>1 DEF Operation, NextVersion
  <2>7. CASE op' = [op EXCEPT ![c].pc = "put",
                              ![c].next = NextVersion(op[c].seen, "Running", TRUE, c)]
    <3>1. /\ op'[c].pc = "put" /\ op'[c].kind = "start" /\ op'[c].seen = op[c].seen
          /\ op'[c].next.state = "Running" /\ op'[c].next.started = TRUE
          /\ op'[c].next.version # 0 /\ op'[c].stops = op[c].stops
      BY Zenon, <2>6, <2>7
    <3> QED BY Zenon, <1>b, <2>1, <2>3, <3>1 DEF Sound
  <2>8. CASE op' = [op EXCEPT ![c].pc = "mark",
                              ![c].next = NextVersion(op[c].seen, "Stopped", FALSE, c)]
    <3>1. /\ op'[c].pc = "mark" /\ op'[c].kind = "start" /\ op'[c].seen = op[c].seen
          /\ op'[c].next.state = "Stopped" /\ op'[c].next.started = FALSE
          /\ op'[c].next.version # 0 /\ op'[c].stops = op[c].stops
      BY Zenon, <2>6, <2>8
    <3> QED BY Zenon, <1>b, <2>1, <2>3, <3>1 DEF Sound
  <2>9. CASE op' = [op EXCEPT ![c].waits = @ + 1, ![c].pc = "scanStops"]
    <3>1. /\ op'[c].pc = "scanStops" /\ op'[c].kind = op[c].kind /\ op'[c].seen = op[c].seen
          /\ op'[c].next = op[c].next /\ op'[c].stops = op[c].stops
      BY <1>0, <2>1, <2>9 DEF Operation
    <3> QED BY Zenon, <1>0, <1>b, <2>1, <2>2, <2>3, <3>1 DEF Sound
  <2> QED BY Zenon, <2>4, <2>5, <2>7, <2>8, <2>9
<1>10. CASE ChangeReadHold(c)
  <2>1. op[c] \in Operation /\ op[c].kind \in Changes
    BY Zenon, <1>0, <1>10, AtPending DEF ChangeReadHold, PCs
  <2>2. op[c] # Idle /\ op[c].kind # "start"
    BY Zenon, <1>0, <2>1, UnderWay DEF Changes
  <2>3. /\ op'[c].pc = "readStop" /\ op'[c].kind = op[c].kind /\ op'[c].seen = op[c].seen
        /\ op'[c].next = op[c].next /\ op'[c].stops = op[c].stops
    BY Zenon, <1>0, <1>10, <2>1 DEF ChangeReadHold, Operation
  <2> QED BY Zenon, <1>0, <1>b, <2>1, <2>2, <2>3 DEF Sound
<1>11. CASE ChangeDecide(c)
  <2>1. op[c] \in Operation /\ op[c].kind \in Changes /\ op[c].pc = "readStop"
    BY Zenon, <1>0, <1>11, AtPending DEF ChangeDecide, PCs
  <2>2. op[c] # Idle /\ op[c].kind # "start"
    BY Zenon, <1>0, <2>1, UnderWay DEF Changes
  <2>3. op[c].seen.state # "Absent" /\ op[c].seen \in Record
    BY Zenon, <1>0, <2>1, <2>2 DEF Founded, Operation
  <2> DEFINE now == Effective(op[c].seen, op[c].held, stop[op[c].run] # "none").state
             s == op[c].seen
  <2>4. \/ End(c)
        \/ /\ Allowed(op[c].kind, s, now)
           /\ op' = [op EXCEPT ![c].pc = AfterDecide(op[c].kind),
                ![c].next = NextVersion(s, Target[op[c].kind], s.started, c)]
    BY Zenon, <1>11 DEF ChangeDecide
  <2>5. CASE End(c)
    BY Zenon, <1>a, <2>5 DEF End
  <2>6. ASSUME Allowed(op[c].kind, s, now),
               op' = [op EXCEPT ![c].pc = AfterDecide(op[c].kind),
                        ![c].next = NextVersion(s, Target[op[c].kind], s.started, c)]
        PROVE  Sound(c)'
    <3>1. /\ op'[c].pc = AfterDecide(op[c].kind) /\ op'[c].kind = op[c].kind
          /\ op'[c].seen = op[c].seen /\ op'[c].stops = op[c].stops
          /\ op'[c].next.state = Target[op[c].kind] /\ op'[c].next.started = op[c].seen.started
      BY Zenon, <1>0, <2>1, <2>6 DEF Operation, NextVersion
    <3>2. op[c].kind = "done" => Budget["done"] # 0
      BY Zenon, <1>0, <2>2 DEF Sound
    <3>3. CASE op[c].kind = "pause"
      <4>1. op'[c].pc = "put" /\ op'[c].next.state = "Paused" /\ op[c].seen.state = "Running"
        BY <2>6, <3>1, <3>3 DEF AfterDecide, Target, Allowed
      <4> QED BY Zenon, <1>b, <2>1, <2>2, <2>3, <3>1, <3>3, <4>1 DEF Sound
    <3>4. CASE op[c].kind = "resume"
      <4>1. /\ op'[c].pc = "scanStops" /\ op'[c].next.state = "Running"
            /\ now = "Paused" /\ op[c].seen.started
        BY <2>6, <3>1, <3>4 DEF AfterDecide, Target, Allowed
      <4>2. op[c].seen.state # "Done"
        BY Zenon, <2>3, <4>1 DEF Effective, Record
      <4> HIDE DEF now
      <4> QED BY Zenon, <1>b, <2>1, <2>2, <2>3, <3>1, <3>4, <4>1, <4>2 DEF Sound
    <3>5. CASE op[c].kind = "stop"
      <4>1. op'[c].pc = "mark" /\ op'[c].next.state = "Stopped"
        BY <3>1, <3>5 DEF AfterDecide, Target
      <4> QED BY Zenon, <1>b, <2>1, <2>2, <2>3, <3>1, <3>5, <4>1 DEF Sound
    <3>6. CASE op[c].kind = "done"
      <4>1. op'[c].pc = "put" /\ op'[c].next.state = "Done"
        BY <3>1, <3>6 DEF AfterDecide, Target
      <4>2. ~Active("Done")
        BY DEF Active
      <4> QED BY Zenon, <1>b, <2>1, <2>2, <2>3, <3>1, <3>2, <3>6, <4>1, <4>2 DEF Sound
    <3> QED BY Zenon, <2>1, <3>3, <3>4, <3>5, <3>6 DEF Changes
  <2> QED BY Zenon, <2>4, <2>5, <2>6
<1>12. CASE ResumeCheck(c)
  <2>1. op[c] \in Operation /\ op[c].kind = "resume" /\ op[c].pc = "scanRuns"
    BY <1>0, <1>12, AtPending DEF ResumeCheck, PCs
  <2>2. op[c] # Idle
    BY Zenon, <1>0, <2>1, UnderWay
  <2>3. End(c) \/ Goto(c, "put")
    BY Zenon, <1>12 DEF ResumeCheck
  <2>4. CASE End(c)
    BY Zenon, <1>a, <2>4 DEF End
  <2>5. CASE Goto(c, "put")
    <3>1. /\ op'[c].pc = "put" /\ op'[c].kind = op[c].kind /\ op'[c].seen = op[c].seen
          /\ op'[c].next = op[c].next /\ op'[c].stops = op[c].stops
      BY Zenon, <1>0, <2>1, <2>5, GoesOn
    <3> QED BY Zenon, <1>0, <1>b, <2>1, <2>2, <2>5, <3>1 DEF Sound
  <2> QED BY Zenon, <2>3, <2>4, <2>5
<1>13. CASE GateStop(c) \/ GateHold(c)
  <2>1. op[c] \in Operation /\ op[c].kind = "hold"
    <3>1. op[c] \in Operation /\ op[c].kind \in {"hold"}
      BY Zenon, <1>0, <1>13, AtPending DEF GateStop, GateHold, PCs
    <3> QED BY Zenon, <3>1
  <2>2. op[c] # Idle
    BY Zenon, <1>0, <2>1, UnderWay
  <2>3. End(c) \/ Goto(c, "gateHold") \/ Goto(c, "putHold")
    BY Zenon, <1>13 DEF GateStop, GateHold
  <2>4. CASE End(c)
    BY Zenon, <1>a, <2>4 DEF End
  <2>5. ASSUME NEW pc \in {"gateHold", "putHold"}, Goto(c, pc) PROVE Sound(c)'
    <3>1. /\ op'[c].pc = pc /\ op'[c].kind = op[c].kind /\ op'[c].seen = op[c].seen
          /\ op'[c].next = op[c].next /\ op'[c].stops = op[c].stops
      BY Zenon, <1>0, <2>1, <2>5, GoesOn
    <3> QED BY Zenon, <1>0, <1>b, <2>1, <2>2, <2>5, <3>1 DEF Sound
  <2> QED BY Zenon, <2>3, <2>4, <2>5
<1> QED
  BY Zenon, <1>1, <1>2, <1>3, <1>4, <1>5, <1>6, <1>7, <1>8, <1>9, <1>10, <1>11, <1>12, <1>13
  DEF Step

\* What a call carries on with: what it has just read, or what it had.  Only the
\* listing that finds no rival clears a run anew.
LEMMA CallCarries ==
    ASSUME TypeOK, NEW c \in Caller, Begin(c) \/ Step(c) \/ Abandon(c), op'[c] # Idle
    PROVE  \/ op'[c].seen = rec[op'[c].run] /\ ~op'[c].next.started
           \/ /\ op[c] # Idle /\ op'[c].run = op[c].run
              /\ op'[c].seen.started => op[c].seen.started \/ op[c].next.started
              /\ \/ op'[c].next.started => op[c].seen.started \/ op[c].next.started
                 \/ FinishStart(c) /\ Rivals(c) = {} /\ op'[c].run = op[c].run
<1>0. op \in [Caller -> Operation \cup {Idle}]
  BY Zenon DEF TypeOK
<1>a. ASSUME op' = [op EXCEPT ![c] = Idle] PROVE FALSE
  BY Zenon, <1>0, <1>a
<1>1. CASE Begin(c)
  <2>1. PICK k \in Kinds, r \in Run : op' = [op EXCEPT ![c] = Begun(k, r)]
    BY Zenon, <1>1 DEF Begin
  <2>2. op'[c] = Begun(k, r)
    BY Zenon, <1>0, <2>1
  <2>3. \/ Begun(k, r) = Idle
        \/ Begun(k, r).seen = rec[r] /\ Begun(k, r).next = Absent /\ Begun(k, r).run = r
    BY DEF Begun
  <2>4. ~Absent.started
    BY DEF Absent
  <2> QED BY Zenon, <2>2, <2>3, <2>4
<1>2. CASE Abandon(c) \/ Unhold(c) \/ HoldForOffSwitch(c)
  BY Zenon, <1>2, <1>a DEF Abandon, Unhold, HoldForOffSwitch, End
<1>3. CASE Put(c) \/ MarkStop(c) \/ StartAgain(c) \/ ResumeCheck(c) \/ GateStop(c) \/ GateHold(c)
  <2>1. End(c) \/ \E pc : Goto(c, pc)
    BY Zenon, <1>3 DEF Put, MarkStop, StartAgain, ResumeCheck, GateStop, GateHold
  <2>2. PICK pc : Goto(c, pc)
    BY Zenon, <1>a, <2>1 DEF End
  <2>3. CASE op[c] = Idle
    <3>1. op[c].pc \in PCs
      BY Zenon, <1>3 DEF Put, MarkStop, StartAgain, ResumeCheck, GateStop, GateHold, At, PCs
    <3> QED BY <2>3, <3>1 DEF Idle, PCs
  <2>4. CASE op[c] \in Operation
    BY Zenon, <2>2, <2>4, UnderWay, GoesOn
  <2> QED BY Zenon, <1>0, <2>3, <2>4
<1>4. CASE ReadBack(c)
  <2>1. op[c] \in Operation
    BY Zenon, <1>4, AtPending DEF ReadBack, PCs
  <2>2. op'[c].run = op[c].run /\ op'[c].next = op[c].next
        /\ op'[c].seen \in {op[c].seen, op[c].next}
    BY Zenon, <1>0, <1>4, <2>1 DEF ReadBack, Operation
  <2> QED BY Zenon, <2>1, <2>2, UnderWay
<1>5. CASE ScanStops(c) \/ ChangeReadHold(c)
  <2>1. op[c] \in Operation
    BY Zenon, <1>5, AtPending DEF ScanStops, ChangeReadHold, PCs
  <2>2. op'[c].run = op[c].run /\ op'[c].next = op[c].next /\ op'[c].seen = op[c].seen
    BY <1>0, <1>5, <2>1 DEF ScanStops, ChangeReadHold, Operation
  <2> QED BY Zenon, <2>1, <2>2, UnderWay
<1>6. CASE StartNew(c)
  <2>1. op[c] \in Operation
    BY Zenon, <1>6, AtPending DEF StartNew, PCs
  <2>2. PICK t \in Clocks :
              op' = [op EXCEPT ![c].pc = "put",
                       ![c].next = [state |-> "Paused", version |-> 0, created |-> t,
                                    started |-> FALSE, nonce |-> c]]
    BY Zenon, <1>6, <1>a DEF StartNew, End
  <2>3. op'[c].run = op[c].run /\ op'[c].next.started = FALSE /\ op'[c].seen = op[c].seen
    BY <1>0, <2>1, <2>2 DEF Operation
  <2> QED BY Zenon, <2>1, <2>3, UnderWay
<1>7. CASE FinishStart(c)
  <2>1. op[c] \in Operation
    BY Zenon, <1>7, AtPending DEF FinishStart, PCs
  <2>2. \/ /\ Rivals(c) = {}
           /\ op' = [op EXCEPT ![c].pc = "put",
                               ![c].next = NextVersion(op[c].seen, "Running", TRUE, c)]
        \/ op' = [op EXCEPT ![c].pc = "mark",
                            ![c].next = NextVersion(op[c].seen, "Stopped", FALSE, c)]
        \/ op' = [op EXCEPT ![c].waits = @ + 1, ![c].pc = "scanStops"]
    BY Zenon, <1>7, <1>a DEF FinishStart, End
  <2>3. CASE /\ Rivals(c) = {}
             /\ op' = [op EXCEPT ![c].pc = "put",
                                 ![c].next = NextVersion(op[c].seen, "Running", TRUE, c)]
    <3>1. op'[c].run = op[c].run /\ op'[c].seen = op[c].seen
      BY Zenon, <1>0, <2>1, <2>3 DEF Operation
    <3> QED BY Zenon, <1>7, <2>1, <2>3, <3>1, UnderWay
  <2>4. CASE op' = [op EXCEPT ![c].pc = "mark",
                              ![c].next = NextVersion(op[c].seen, "Stopped", FALSE, c)]
    <3>1. /\ op'[c].run = op[c].run /\ op'[c].seen = op[c].seen
          /\ op'[c].next = NextVersion(op[c].seen, "Stopped", FALSE, c)
      BY Zenon, <1>0, <2>1, <2>4 DEF Operation
    <3>2. ~op'[c].next.started
      BY <3>1 DEF NextVersion
    <3> QED BY Zenon, <2>1, <3>1, <3>2, UnderWay
  <2>5. CASE op' = [op EXCEPT ![c].waits = @ + 1, ![c].pc = "scanStops"]
    <3>1. op'[c].run = op[c].run /\ op'[c].seen = op[c].seen /\ op'[c].next = op[c].next
      BY <1>0, <2>1, <2>5 DEF Operation
    <3> QED BY Zenon, <2>1, <3>1, UnderWay
  <2> QED BY Zenon, <2>2, <2>3, <2>4, <2>5
<1>8. CASE ChangeDecide(c)
  <2>1. op[c] \in Operation
    BY Zenon, <1>8, AtPending DEF ChangeDecide, PCs
  <2>2. op' = [op EXCEPT ![c].pc = AfterDecide(op[c].kind), ![c].next =
                 NextVersion(op[c].seen, Target[op[c].kind], op[c].seen.started, c)]
    BY Zenon, <1>8, <1>a DEF ChangeDecide, End
  <2>3. /\ op'[c].run = op[c].run /\ op'[c].seen = op[c].seen
        /\ op'[c].next.started = op[c].seen.started
    BY Zenon, <1>0, <2>1, <2>2 DEF Operation, NextVersion
  <2> QED BY Zenon, <2>1, <2>3, UnderWay
<1> QED BY Zenon, <1>1, <1>2, <1>3, <1>4, <1>5, <1>6, <1>7, <1>8 DEF Step

\* A record changes by a put alone.
LEMMA RecordPut ==
    ASSUME TypeOK, NEW c \in Caller, Begin(c) \/ Step(c) \/ Abandon(c), NEW r \in Run
    PROVE  \/ rec'[r] = rec[r]
           \/ /\ Put(c) /\ op[c] # Idle /\ op[c].pc = "put" /\ op[c].run = r
              /\ rec'[r] = op[c].next
              /\ lostUpdate' = (lostUpdate \/ (Active(op[c].next.state) /\ rec[r] # op[c].seen))
<1>1. CASE Put(c)
  <2>1. op[c] \in Operation /\ op[c].pc = "put"
    BY Zenon, <1>1, AtPending DEF Put, PCs
  <2>2. op[c] # Idle /\ op[c].run \in Run
    BY Zenon, <2>1, UnderWay DEF Operation
  <2> QED BY Zenon, <1>1, <2>1, <2>2 DEF Put, TypeOK
<1>2. CASE ~Put(c)
  BY Zenon, <1>2 DEF Begin, Step, Abandon, MarkStop, ReadBack, ScanStops, StartAgain, StartNew,
     FinishStart, ChangeReadHold, ChangeDecide, ResumeCheck, Unhold, GateStop,
     GateHold, HoldForOffSwitch
<1> QED BY Zenon, <1>1, <1>2

LEMMA ClearedStep ==
    ASSUME TypeOK, NEW c \in Caller, Begin(c) \/ Step(c) \/ Abandon(c),
           NEW r \in Run, Cleared(r)'
    PROVE  Cleared(r) \/ (FinishStart(c) /\ Rivals(c) = {} /\ op[c] # Idle /\ op[c].run = r)
<1>1. CASE rec'[r].started
  BY Zenon, <1>1, RecordPut DEF Cleared
<1>2. CASE ~rec'[r].started
  <2>1. PICK d \in Caller : /\ op'[d] # Idle /\ op'[d].run = r
                            /\ op'[d].seen.started \/ op'[d].next.started
    BY Zenon, <1>2 DEF Cleared
  <2>2. CASE d # c
    <3>1. op'[d] = op[d]
      BY Zenon, <2>2, OthersWait
    <3> QED BY Zenon, <2>1, <3>1 DEF Cleared
  <2>3. CASE d = c
    BY Zenon, <2>1, <2>3, CallCarries DEF Cleared
  <2> QED BY Zenon, <2>2, <2>3
<1> QED BY Zenon, <1>1, <1>2

\* A cleared run has a record.
LEMMA ClearedPresent ==
    ASSUME Grounds, RunnerInv, NEW r \in Run, Cleared(r)
    PROVE  rec[r].state # "Absent"
<1>0. Known(r) /\ ~Absent.started
  BY DEF Grounds, Absent
<1>1. CASE rec[r].started
  BY Zenon, <1>0, <1>1 DEF Known
<1>2. CASE ~rec[r].started
  <2>1. PICK d \in Caller : /\ op[d] # Idle /\ op[d].run = r
                            /\ op[d].seen.started \/ op[d].next.started
    BY Zenon, <1>2 DEF Cleared
  <2>2. Founded(d) /\ Sound(d)
    BY Zenon DEF Grounds, RunnerInv
  <2>3. op[d].seen.state # "Absent"
    BY Zenon, <1>0, <2>1, <2>2 DEF Founded, Sound
  <2> QED BY Zenon, <2>1, <2>2, <2>3 DEF Founded
<1> QED BY Zenon, <1>1, <1>2

\* A run that is over stays over, or has come back by a lost update.
LEMMA OverStays ==
    ASSUME Inv, RunnerInv, NEW c \in Caller, Begin(c) \/ Step(c) \/ Abandon(c),
           NEW r \in Run, Over(r)
    PROVE  Over(r)' \/ Revived'
<1>0. TypeOK /\ Recorded(r) /\ Sound(c) /\ Ready(c)
  BY Zenon DEF Inv, RunnerInv
<1>1. CASE stop[r] # "none"
  BY Zenon, <1>0, <1>1, MarkersStay DEF Over
<1>2. CASE rec[r].state = "Done" /\ rec'[r] = rec[r]
  BY Zenon, <1>2 DEF Over
<1>3. CASE rec[r].state = "Done" /\ rec'[r] # rec[r]
  <2>1. /\ op[c] # Idle /\ op[c].pc = "put" /\ op[c].run = r /\ rec'[r] = op[c].next
        /\ lostUpdate' = (lostUpdate \/ (Active(op[c].next.state) /\ rec[r] # op[c].seen))
    BY Zenon, <1>0, <1>3, RecordPut
  <2>2. op[c].next.state \in {"Running", "Paused", "Stopped", "Done"}
    <3>1. op[c].next.state \in States /\ op[c].next.state # "Absent"
      BY Zenon, <1>0, <2>1, UnderWay DEF Operation, Record, Ready
    <3> QED BY Zenon, <3>1 DEF States
  <2>3. CASE Active(op[c].next.state)
    BY Zenon, <1>0, <1>3, <2>1, <2>3 DEF Sound, Recorded, Revived
  <2>4. CASE op[c].next.state = "Stopped"
    <3>1. stop[r] # "none"
      BY Zenon, <1>0, <2>1, <2>4 DEF Ready
    <3> QED BY Zenon, <1>1, <3>1
  <2>5. CASE op[c].next.state = "Done"
    BY Zenon, <2>1, <2>5 DEF Over
  <2> QED BY Zenon, <2>2, <2>3, <2>4, <2>5 DEF Active
<1> QED BY Zenon, <1>1, <1>2, <1>3 DEF Over

\* The listing that clears a run finds every cleared run beside it over.
LEMMA ListedOver ==
    ASSUME Inv, Grounds, RunnerInv, NEW c \in Caller, op[c] # Idle, Rivals(c) = {},
           NEW s \in Run, s # op[c].run, SameModel(s, op[c].run), Cleared(s)
    PROVE  Over(s)
<1>1. rec[s].state # "Absent" /\ rec[s] \in Record
  BY Zenon, ClearedPresent DEF Inv, TypeOK
<1>2. ~Active(Listed(c, s).state)
  BY Zenon DEF Rivals
<1>3. CASE s \in op[c].stops
  BY Zenon, <1>3 DEF RunnerInv, Sound, Over
<1>4. CASE s \notin op[c].stops
  <2>1. rec[s].version # None
    BY <1>1 DEF Record, None
  <2>2. ~Active(rec[s].state)
    BY Zenon, <1>2, <1>4, <2>1 DEF Listed, Effective
  <2>3. rec[s].state = "Stopped" \/ rec[s].state = "Done"
    BY <1>1, <2>2 DEF Active, Record, States
  <2> QED BY Zenon, <2>3 DEF Over, Inv, Marked
<1> QED BY Zenon, <1>3, <1>4

LEMMA ExcludedStep ==
    ASSUME Inv, Grounds, RunnerInv, NEW c \in Caller, Begin(c) \/ Step(c) \/ Abandon(c)
    PROVE  Excluded'
<1> SUFFICES ASSUME NEW r \in Run, NEW s \in Overlapping(r), Cleared(r)', Cleared(s)'
             PROVE  Over(r)' \/ Over(s)' \/ Revived'
  BY Zenon DEF Excluded, Overlapping, SameModel
<1>0. TypeOK /\ s \in Run /\ s # r /\ SameModel(r, s) /\ SameModel(s, r)
  BY Zenon DEF Inv, Overlapping, SameModel
<1>1. ASSUME Over(r) \/ Over(s) \/ Revived PROVE Over(r)' \/ Over(s)' \/ Revived'
  <2>1. lostUpdate => lostUpdate'
    BY Zenon DEF Begin, Step, Abandon, Put, MarkStop, ReadBack, ScanStops, StartAgain, StartNew,
       FinishStart, ChangeReadHold, ChangeDecide, ResumeCheck, Unhold, GateStop,
       GateHold, HoldForOffSwitch
  <2>2. Revived => Revived'
    BY Zenon, <2>1 DEF Revived
  <2> QED BY Zenon, <1>0, <1>1, <2>2, OverStays
<1>2. CASE Cleared(r) /\ Cleared(s)
  BY Zenon, <1>0, <1>1, <1>2 DEF RunnerInv, Excluded
<1>3. CASE ~Cleared(r)
  <2>1. Rivals(c) = {} /\ op[c] # Idle /\ op[c].run = r
    BY Zenon, <1>0, <1>3, ClearedStep
  <2>2. Cleared(s)
    BY Zenon, <1>0, <2>1, ClearedStep
  <2> QED BY Zenon, <1>0, <1>1, <2>1, <2>2, ListedOver
<1>4. CASE ~Cleared(s)
  <2>1. Rivals(c) = {} /\ op[c] # Idle /\ op[c].run = s
    BY Zenon, <1>0, <1>4, ClearedStep
  <2>2. Cleared(r)
    BY Zenon, <1>0, <2>1, ClearedStep
  <2> QED BY Zenon, <1>0, <1>1, <2>1, <2>2, ListedOver
<1> QED BY Zenon, <1>2, <1>3, <1>4

LEMMA RunnerStep ==
    ASSUME BackfillAssumption, Inv, Grounds, RunnerInv, NEW c \in Caller,
           Begin(c) \/ Step(c) \/ Abandon(c)
    PROVE  RunnerInv'
<1>0. TypeOK /\ Sound(c)
  BY Zenon DEF Inv, RunnerInv
<1>1. Excluded'
  BY Zenon, ExcludedStep
<1>2. ASSUME NEW r \in Run PROVE Recorded(r)'
  <2>1. Recorded(r)
    BY Zenon DEF RunnerInv
  <2> QED BY Zenon, <1>0, <2>1, RecordPut DEF Recorded, Sound
<1>3. ASSUME NEW d \in Caller PROVE Sound(d)'
  <2>1. CASE d = c
    BY Zenon, <2>1, SoundKept
  <2>2. CASE d # c
    <3>1. op'[d] = op[d] /\ Sound(d)
      BY Zenon, <1>0, <2>2, OthersWait DEF RunnerInv
    <3>2. op[d] # Idle => op[d].stops \subseteq Run
      BY Zenon, <1>0, UnderWay DEF Operation
    <3>3. \A s \in Run : stop[s] # "none" => stop'[s] # "none"
      BY Zenon, <1>0, MarkersStay
    <3> QED BY Zenon, <3>1, <3>2, <3>3 DEF Sound
  <2> QED BY Zenon, <2>1, <2>2
<1>4. left'["done"] # 0 => Budget["done"] # 0
  <2>1. CASE Begin(c)
    <3>1. PICK k \in Kinds : left[k] > 0 /\ left' = [left EXCEPT ![k] = @ - 1]
      BY Zenon, <2>1 DEF Begin
    <3>2. left \in [Kinds -> Nat] /\ "done" \in Kinds
      BY Zenon, <1>0 DEF TypeOK, Kinds
    <3>3. left'["done"] # 0 => left["done"] # 0
      BY <3>1, <3>2
    <3> QED BY Zenon, <3>3 DEF RunnerInv
  <2>2. CASE ~Begin(c)
    <3>1. left' = left
      BY Zenon, <2>2 DEF Step, Abandon, Put, MarkStop, ReadBack, ScanStops, StartAgain,
         StartNew, FinishStart, ChangeReadHold, ChangeDecide, ResumeCheck, Unhold, GateStop,
         GateHold, HoldForOffSwitch
    <3> QED BY Zenon, <3>1 DEF RunnerInv
  <2> QED BY Zenon, <2>1, <2>2
<1> QED BY Zenon, <1>1, <1>2, <1>3, <1>4 DEF RunnerInv

\* The inductive invariant behind one runner to a model: of two overlapping runs
\* that a start has ever cleared one is stopped or done, at every step of start,
\* finish_start, change and hold, unless a run that was done has been written back.
THEOREM RunnersExclude == Spec => [](Grounds /\ RunnerInv)
<1>1. Init => Grounds /\ RunnerInv
  <2>1. ASSUME Init PROVE Grounds
    BY Zenon, <2>1 DEF Init, Grounds, Known, Founded
  <2>2. ASSUME Init PROVE RunnerInv
    <3>1. /\ \A c \in Caller : op[c] = Idle
          /\ \A r \in Run : rec[r].state = "Absent" /\ ~rec[r].started
      BY Zenon, <2>2 DEF Init, Absent
    <3>2. \A r \in Run : ~Cleared(r)
      BY Zenon, <3>1 DEF Cleared
    <3>3. left = Budget
      BY Zenon, <2>2 DEF Init
    <3>4. Excluded
      BY Zenon, <3>2 DEF Excluded
    <3> QED BY Zenon, <3>1, <3>3, <3>4 DEF RunnerInv, Recorded, Sound
  <2> QED BY Zenon, <2>1, <2>2
<1>2. ASSUME Inv, Inv', Grounds, RunnerInv, [Next]_vars PROVE Grounds' /\ RunnerInv'
  <2>1. CASE UNCHANGED vars
    BY <1>2, <2>1 DEF vars, Grounds, Known, Founded, RunnerInv, Excluded, Cleared, Over,
       Revived, Recorded, Sound
  <2>2. CASE Next
    <3>1. PICK c \in Caller : Begin(c) \/ Step(c) \/ Abandon(c)
      BY Zenon, <2>2 DEF Next
    <3> QED BY Zenon, <1>2, <3>1, GroundsStep, RunnerStep, BackfillAssumption
  <2> QED BY Zenon, <1>2, <2>1, <2>2
<1> QED BY <1>1, <1>2, Invariance, PTL DEF Spec

\* Two running runs of a model are both cleared and neither is over.
LEMMA RunnersRevived ==
    ASSUME Inv, RunnerInv
    PROVE  OneRunner \/ Revived
<1>1. ASSUME NEW r \in Run, Now(r) = "Running" PROVE Cleared(r) /\ ~Over(r)
  <2>1. rec[r] \in Record /\ Recorded(r)
    BY Zenon DEF Inv, TypeOK, RunnerInv
  <2>2. rec[r].state = "Running" /\ stop[r] = "none"
    BY Zenon, <1>1, <2>1 DEF Now, Effective, Record
  <2> QED BY Zenon, <2>1, <2>2 DEF Recorded, Cleared, Over
<1> QED BY Zenon, <1>1 DEF RunnerInv, Excluded, OneRunner, Overlapping

\* While no run is marked done, at most one run acts on a model, however starts,
\* retried starts, pauses, resumes, stops, holds and abandoned calls interleave.
THEOREM OneRunnerBeforeDone == Budget["done"] = 0 => (Spec => []OneRunner)
<1>1. Budget["done"] = 0 /\ Inv /\ RunnerInv => OneRunner
  BY Zenon, RunnersRevived DEF Revived
<1>2. CASE Budget["done"] = 0
  <2>1. Inv /\ Grounds /\ RunnerInv => OneRunner
    BY Zenon, <1>1, <1>2
  <2> QED BY <2>1, Invariance, RunnersExclude, PTL
<1>3. CASE ~(Budget["done"] = 0)
  BY <1>3
<1> QED BY <1>2, <1>3

\* With every operation of start, change and hold, two runs act on a model at once
\* only after a put of an active record over one that the call had not read.
THEOREM OneRunnerUnlessLost == Spec => []OneRunnerUnlessLostUpdate
<1>1. Inv /\ Grounds /\ RunnerInv => OneRunnerUnlessLostUpdate
  BY Zenon, RunnersRevived DEF Revived, OneRunnerUnlessLostUpdate
<1> QED BY <1>1, Invariance, RunnersExclude, PTL

-----------------------------------------------------------------------------
\* A hold of the off switch lasts, whatever else races: only a resume of the run, a
\* hold for another version of it or a lost write lets a held run act.
THEOREM HoldsLast == Spec => HoldLasts
<1>1. ASSUME Inv, Grounds, RunnerInv, [Next]_vars, NEW r \in Run, Held(r), Now(r)' = "Running"
      PROVE  \/ lostUpdate'
             \/ \E c \in Caller :
                   /\ op[c] # Idle /\ op[c].run = r
                   /\ \/ op[c].kind = "resume"
                      \/ op[c].kind = "hold" /\ op[c].seen.version # rec[r].version
  <2>0. TypeOK /\ rec[r] \in Record
    BY Zenon, <1>1 DEF Inv, TypeOK
  <2>1. rec[r].state = "Running" /\ stop[r] = "none" /\ hold[r] = rec[r].version
    BY Zenon, <1>1, <2>0 DEF Held, Now, Effective, Record
  <2>2. ~(rec'[r] = rec[r] /\ hold'[r] = hold[r])
    <3>1. ASSUME rec'[r] = rec[r], hold'[r] = hold[r] PROVE FALSE
      BY Zenon, <1>1, <2>0, <2>1, <3>1 DEF Now, Effective, Record
    <3> QED BY Zenon, <3>1
  <2>3. PICK c \in Caller : Begin(c) \/ Step(c) \/ Abandon(c)
    BY Zenon, <1>1, <2>2 DEF Next, vars
  <2>4. CASE rec'[r] # rec[r]
    <3>1. /\ Put(c) /\ op[c] # Idle /\ op[c].pc = "put" /\ op[c].run = r /\ rec'[r] = op[c].next
          /\ lostUpdate' = (lostUpdate \/ (Active(op[c].next.state) /\ rec[r] # op[c].seen))
      BY Zenon, <2>0, <2>3, <2>4, RecordPut
    <3>2. op[c].next \in Record /\ Sound(c)
      BY Zenon, <1>1, <2>0, <3>1, UnderWay DEF Operation, RunnerInv
    <3>3. op[c].next.state = "Running"
      BY Zenon, <1>1, <3>1, <3>2 DEF Now, Effective, Record
    <3>4. CASE rec[r] # op[c].seen
      BY Zenon, <3>1, <3>3, <3>4 DEF Active
    <3>5. CASE rec[r] = op[c].seen
      BY Zenon, <2>1, <3>1, <3>2, <3>3, <3>5 DEF Sound
    <3> QED BY Zenon, <3>4, <3>5
  <2>5. CASE rec'[r] = rec[r]
    <3>1. hold'[r] # hold[r]
      BY Zenon, <2>2, <2>5
    <3>2. Unhold(c) \/ HoldForOffSwitch(c)
      BY Zenon, <2>3, <3>1 DEF Begin, Step, Abandon, Put, MarkStop, ReadBack, ScanStops,
         StartAgain, StartNew, FinishStart, ChangeReadHold, ChangeDecide, ResumeCheck, GateStop,
         GateHold
    <3>3. op[c] \in Operation
      BY Zenon, <2>0, <3>2, AtPending DEF Unhold, HoldForOffSwitch, PCs
    <3>4. op[c] # Idle /\ op[c].run = r
      BY Zenon, <2>0, <3>1, <3>2, <3>3, UnderWay DEF Unhold, HoldForOffSwitch, TypeOK
    <3>5. CASE Unhold(c)
      BY Zenon, <1>1, <3>4, <3>5 DEF Unhold, At, RunnerInv, Sound
    <3>6. CASE HoldForOffSwitch(c)
      <4>1. op[c].kind = "hold" /\ hold'[r] = op[c].seen.version
        BY Zenon, <2>0, <3>4, <3>6 DEF HoldForOffSwitch, At, TypeOK
      <4> QED BY Zenon, <2>1, <3>1, <3>4, <4>1
    <3> QED BY Zenon, <3>2, <3>5, <3>6
  <2> QED BY Zenon, <2>4, <2>5
<1>2. Inv /\ Grounds /\ RunnerInv /\ [Next]_vars =>
        \A r \in Run : Held(r) /\ Now(r)' = "Running" =>
          \/ lostUpdate'
          \/ \E c \in Caller :
                /\ op[c] # Idle /\ op[c].run = r
                /\ \/ op[c].kind = "resume"
                   \/ op[c].kind = "hold" /\ op[c].seen.version # rec[r].version
  BY Zenon, <1>1
<1> QED BY <1>2, Invariance, RunnersExclude, PTL DEF Spec, HoldLasts
=============================================================================
