---------------------------- MODULE BackfillRuns ----------------------------
(***************************************************************************)
(* Backfill runs of the abuse enforcement service                          *)
(* (abuse-enforcement-service/service-lib/src/backfill.rs): a run replays   *)
(* old scores against one model, and at most one run may act on a model at  *)
(* a time.  The state is three tables of a control store that has get, put, *)
(* delete and scan and neither transactions nor compare-and-set: the run    *)
(* records, the off-switch holds and the stop markers.  Every pod serves    *)
(* start and change requests, and every worker may put a hold, so each      *)
(* operation below is a sequence of single store calls that interleave with *)
(* the calls of the others.                                                 *)
(*                                                                         *)
(* All runs share the entity and the head; Classifier tells which of them   *)
(* overlap.  The hold scan of `list` is left out: a hold turns Running into *)
(* Paused, both are active, and the callers of `list` ask only for active   *)
(* and Stopped.  A write nonce is the caller that wrote: a caller has one    *)
(* write outstanding at a time, and no caller writes another's nonce back.  *)
(***************************************************************************)
EXTENDS Integers, FiniteSets

CONSTANTS
    Run,            \* run ids; integers, so that start_order can break ties
    Caller,         \* requests being served, on any pod
    Classifier,     \* Classifier[r]: a classifier, or NoClassifier (the whole head)
    NoClassifier,
    Clocks,         \* created_at_ms a pod may stamp on a record
    SettleWaits,    \* START_SETTLE_WAITS
    Budget          \* Budget[k]: bound on the operations of kind k

Kinds == {"start", "pause", "resume", "stop", "done", "hold"}

ASSUME BackfillAssumption ==
    /\ Run \subseteq Nat /\ Clocks \subseteq Nat
    /\ SettleWaits \in Nat
    /\ Budget \in [Kinds -> Nat]

None == -1

VARIABLES
    rec,        \* RUN_PKEY: the run records
    hold,       \* HOLD_PKEY: run_version of the off-switch hold, or None
    stop,       \* STOP_PKEY: "none", "person", or "conflict" (start_conflict)
    op,         \* what each caller is doing
    left,       \* operations that may still begin (bound)
    lostUpdate  \* history: a write of an active state replaced a record it was not made from

vars == <<rec, hold, stop, op, left, lostUpdate>>

States == {"Absent", "Running", "Paused", "Stopped", "Done"}

Record == [state : States, version : Nat, created : Nat, started : BOOLEAN,
           nonce : Caller \cup {None}]

Absent == [state |-> "Absent", version |-> 0, created |-> 0,
           started |-> FALSE, nonce |-> None]

Idle == [pc |-> "idle"]

PCs == {"scanStops", "scanRuns", "startAgain", "readHold", "readStop", "mark", "put",
        "back", "unhold", "gateStop", "gateHold", "putHold"}

Operation == [pc : PCs, kind : Kinds, run : Run, seen : Record, next : Record,
              held : Nat \cup {None}, stops : SUBSET Run, waits : 0..SettleWaits]

\* Records, markers and the calls under way are well formed, and a starting run
\* has waited for its rivals at most START_SETTLE_WAITS times.
TypeOK ==
    /\ rec \in [Run -> Record]
    /\ hold \in [Run -> Nat \cup {None}]
    /\ stop \in [Run -> {"none", "person", "conflict"}]
    /\ op \in [Caller -> Operation \cup {Idle}]
    /\ left \in [Kinds -> Nat]
    /\ lostUpdate \in BOOLEAN

-----------------------------------------------------------------------------
(* Reading a run *)

\* A stop marker overrides everything; a hold pauses the version it was put for.
Effective(r, h, stopped) ==
    IF stopped /\ r.state # "Absent" THEN [r EXCEPT !.state = "Stopped"]
    ELSE IF r.state = "Running" /\ h = r.version THEN [r EXCEPT !.state = "Paused"]
    ELSE r

Now(r) == Effective(rec[r], hold[r], stop[r] # "none").state

\* Mutant: only a running run is active.
ActiveRunningOnly(state) == state = "Running"

Active(state) == state \in {"Running", "Paused"}

SameModel(r, s) ==
    Classifier[r] = Classifier[s] \/ NoClassifier \in {Classifier[r], Classifier[s]}

\* start_order(r) < start_order(s), for records a of r and b of s
Before(r, a, s, b) == a.created < b.created \/ (a.created = b.created /\ r < s)

\* `list` as caller c sees it in its second scan, after the scan of the stops
Listed(c, r) == Effective(rec[r], None, r \in op[c].stops)

Rivals(c) ==
    {r \in Run \ {op[c].run} : SameModel(r, op[c].run) /\ Active(Listed(c, r).state)}

-----------------------------------------------------------------------------
(* Steps common to the operations *)

Goto(c, pc) == op' = [op EXCEPT ![c].pc = pc]

End(c) == op' = [op EXCEPT ![c] = Idle]

\* The next version of a record s, as caller c writes it
NextVersion(s, state, started, c) ==
    [state |-> state, version |-> s.version + 1, created |-> s.created,
     started |-> started, nonce |-> c]

At(c, pc, kinds) == op[c].pc = pc /\ op[c].kind \in kinds

Changes == {"pause", "resume", "stop", "done"}

\* What operation k of run r does with the record it begins by reading: a change
\* of an unknown run is refused, and a decision goes on if the run may act.
Begun(k, r) ==
    LET at(pc) == [pc |-> pc, kind |-> k, run |-> r, seen |-> rec[r], next |-> Absent,
                   held |-> None, stops |-> {}, waits |-> 0] IN
    CASE k = "start" -> at(IF rec[r] = Absent THEN "scanStops" ELSE "startAgain")
      [] k = "hold" -> IF rec[r].state \in {"Running", "Done"} THEN at("gateStop") ELSE Idle
      [] OTHER -> IF rec[r] = Absent THEN Idle ELSE at("readHold")

\* A request arrives (start, change) or a message of a run is decided (hold),
\* and the record is read.
Begin(c) ==
    /\ op[c] = Idle
    /\ \E k \in Kinds, r \in Run :
          /\ left[k] > 0
          /\ left' = [left EXCEPT ![k] = @ - 1]
          /\ op' = [op EXCEPT ![c] = Begun(k, r)]
    /\ UNCHANGED <<rec, hold, stop, lostUpdate>>

\* A store error, a dropped request or a crash ends an operation where it
\* stands, and so do the refusals that depend on nothing modelled here: the
\* expected version or control version, the off switch, a pause of over 30 days.
Abandon(c) ==
    /\ op[c] # Idle
    /\ End(c)
    /\ UNCHANGED <<rec, hold, stop, left, lostUpdate>>

\* The put of `write`
Put(c) ==
    LET r == op[c].run IN
    /\ At(c, "put", Kinds)
    /\ rec' = [rec EXCEPT ![r] = op[c].next]
    /\ lostUpdate' = (lostUpdate \/ (Active(op[c].next.state) /\ rec[r] # op[c].seen))
    /\ Goto(c, "back")
    /\ UNCHANGED <<hold, stop, left>>

\* The read back of `write`, and where each caller goes with its answer.  The
\* last read of the stop marker in finish_start only picks the answer.
ReadBack(c) ==
    LET o == op[c]
        landed == rec[o.run].nonce = c IN
    /\ At(c, "back", Kinds)
    /\ op' = [op EXCEPT ![c] =
         CASE landed /\ o.kind = "start" /\ o.next.version = 0 ->
                [@ EXCEPT !.seen = o.next, !.pc = "scanStops"]
           [] landed /\ o.kind = "resume" /\ o.held # None -> [@ EXCEPT !.pc = "unhold"]
           [] OTHER -> Idle]
    /\ UNCHANGED <<rec, hold, stop, left, lostUpdate>>

\* Mutant: a start that lost writes its record and no marker.
MarkStopOfStopOnly(c) ==
    /\ At(c, "mark", {"start", "stop"})
    /\ stop' = [stop EXCEPT ![op[c].run] = IF op[c].kind = "start" THEN @ ELSE "person"]
    /\ Goto(c, "put")
    /\ UNCHANGED <<rec, hold, left, lostUpdate>>

\* The put of the stop marker, by a stop or by a start that lost
MarkStop(c) ==
    /\ At(c, "mark", {"start", "stop"})
    /\ stop' = [stop EXCEPT ![op[c].run] =
                   IF op[c].kind = "start" THEN "conflict" ELSE "person"]
    /\ Goto(c, "put")
    /\ UNCHANGED <<rec, hold, left, lostUpdate>>

ScanStops(c) ==
    /\ At(c, "scanStops", Kinds)
    /\ op' = [op EXCEPT ![c].stops = {r \in Run : stop[r] # "none"},
                        ![c].pc = "scanRuns"]
    /\ UNCHANGED <<rec, hold, stop, left, lostUpdate>>

-----------------------------------------------------------------------------
(* start, finish_start and lose_start *)

\* Mutant: the start of a run that has a record runs it again.
StartAgainRuns(c) ==
    /\ At(c, "startAgain", {"start"})
    /\ op' = [op EXCEPT ![c].pc = "put",
                        ![c].next = NextVersion(op[c].seen, "Running", TRUE, c)]
    /\ UNCHANGED <<rec, hold, stop, left, lostUpdate>>

\* `start` of a run id that has a record: it never ran, or its start is
\* finished here, or the answer is the run as it stands.
StartAgain(c) ==
    LET s == op[c].seen
        marker == stop[op[c].run]
        neverRan == \/ marker = "conflict"
                    \/ ~s.started /\ (marker # "none" \/ s.state = "Stopped") IN
    /\ At(c, "startAgain", {"start"})
    /\ IF ~neverRan /\ s.version = 0 /\ s.state = "Paused"
       THEN Goto(c, "scanStops")
       ELSE End(c)
    /\ UNCHANGED <<rec, hold, stop, left, lostUpdate>>

\* `start` of a new run id: refused while a run of the model is active, else
\* the record is written Paused at version 0.
StartNew(c) ==
    LET r == op[c].run
        busy == Rivals(c) # {} \/ Active(Listed(c, r).state) IN
    /\ At(c, "scanRuns", {"start"})
    /\ op[c].seen = Absent
    /\ IF busy THEN End(c)
       ELSE \E t \in Clocks :
              op' = [op EXCEPT ![c].pc = "put",
                       ![c].next = [state |-> "Paused", version |-> 0, created |-> t,
                                    started |-> FALSE, nonce |-> c]]
    /\ UNCHANGED <<rec, hold, stop, left, lostUpdate>>

\* Mutant: the waits are not bounded.
HoldersNoLimit(c) ==
    {r \in Rivals(c) : rec[r].version > 0 \/ Before(r, rec[r], op[c].run, op[c].seen)}

\* The rivals that a starting run yields to
Holders(c) ==
    {r \in Rivals(c) : \/ rec[r].version > 0
                       \/ Before(r, rec[r], op[c].run, op[c].seen)
                       \/ op[c].waits >= SettleWaits}

\* One turn of the loop of finish_start: leave it, lose, wait, or go Running
FinishStart(c) ==
    LET s == op[c].seen
        mine == Listed(c, op[c].run)
        to(state, started, pc) ==
            op' = [op EXCEPT ![c].pc = pc,
                              ![c].next = NextVersion(s, state, started, c)] IN
    /\ At(c, "scanRuns", {"start"})
    /\ s # Absent
    /\ \/ (mine.state = "Stopped" \/ mine.version > 0) /\ End(c)
       \/ /\ mine.state # "Stopped" /\ mine.version = 0
          /\ \/ Rivals(c) = {} /\ to("Running", TRUE, "put")
             \/ Holders(c) # {} /\ to("Stopped", FALSE, "mark")
             \/ /\ Rivals(c) # {} /\ Holders(c) = {}
                /\ op' = [op EXCEPT ![c].waits = @ + 1, ![c].pc = "scanStops"]
    /\ UNCHANGED <<rec, hold, stop, left, lostUpdate>>

-----------------------------------------------------------------------------
(* change *)

ChangeReadHold(c) ==
    /\ At(c, "readHold", Changes)
    /\ op' = [op EXCEPT ![c].held = hold[op[c].run], ![c].pc = "readStop"]
    /\ UNCHANGED <<rec, hold, stop, left, lostUpdate>>

\* What change k makes of a run stored as s and effectively in state now
Allowed(k, s, now) ==
    /\ now # "Stopped"
    /\ CASE k = "pause"  -> s.state = "Running"
         [] k = "resume" -> now = "Paused" /\ s.started
         [] k = "stop"   -> Active(s.state)
         [] k = "done"   -> now = "Running"

Target == [pause |-> "Paused", resume |-> "Running", stop |-> "Stopped", done |-> "Done"]

\* Mutant: a stop writes its record and no marker.
AfterDecideUnmarked(k) == IF k = "resume" THEN "scanStops" ELSE "put"

AfterDecide(k) ==
    CASE k = "resume" -> "scanStops" [] k = "stop" -> "mark" [] OTHER -> "put"

ChangeDecide(c) ==
    LET o == op[c]
        now == Effective(o.seen, o.held, stop[o.run] # "none").state IN
    /\ At(c, "readStop", Changes)
    /\ IF Allowed(o.kind, o.seen, now)
       THEN op' = [op EXCEPT
              ![c].pc = AfterDecide(o.kind),
              ![c].next = NextVersion(o.seen, Target[o.kind], o.seen.started, c)]
       ELSE End(c)
    /\ UNCHANGED <<rec, hold, stop, left, lostUpdate>>

\* A resume is refused while another run of the model is active.
ResumeCheck(c) ==
    /\ At(c, "scanRuns", {"resume"})
    /\ IF Rivals(c) # {} THEN End(c) ELSE Goto(c, "put")
    /\ UNCHANGED <<rec, hold, stop, left, lostUpdate>>

\* The hold a resume saw when it began is deleted once the record is written.
Unhold(c) ==
    /\ At(c, "unhold", Changes)
    /\ hold' = [hold EXCEPT ![op[c].run] = None]
    /\ End(c)
    /\ UNCHANGED <<rec, stop, left, lostUpdate>>

-----------------------------------------------------------------------------
(* A decision of a run that finds its model switched off *)

GateStop(c) ==
    /\ At(c, "gateStop", {"hold"})
    /\ IF stop[op[c].run] # "none" THEN End(c) ELSE Goto(c, "gateHold")
    /\ UNCHANGED <<rec, hold, stop, left, lostUpdate>>

\* `gate`: a Running run that is not held acts, and so does a Done one that drains.
GateHold(c) ==
    LET s == op[c].seen IN
    /\ At(c, "gateHold", {"hold"})
    /\ IF Effective(s, hold[op[c].run], FALSE).state = "Paused"
       THEN End(c) ELSE Goto(c, "putHold")
    /\ UNCHANGED <<rec, hold, stop, left, lostUpdate>>

HoldForOffSwitch(c) ==
    /\ At(c, "putHold", {"hold"})
    /\ hold' = [hold EXCEPT ![op[c].run] = op[c].seen.version]
    /\ End(c)
    /\ UNCHANGED <<rec, stop, left, lostUpdate>>

-----------------------------------------------------------------------------
Init ==
    /\ rec = [r \in Run |-> Absent]
    /\ hold = [r \in Run |-> None]
    /\ stop = [r \in Run |-> "none"]
    /\ op = [c \in Caller |-> Idle]
    /\ left = Budget
    /\ lostUpdate = FALSE

Step(c) ==
    \/ Put(c) \/ ReadBack(c) \/ MarkStop(c) \/ ScanStops(c)
    \/ StartAgain(c) \/ StartNew(c) \/ FinishStart(c)
    \/ ChangeReadHold(c) \/ ChangeDecide(c) \/ ResumeCheck(c) \/ Unhold(c)
    \/ GateStop(c) \/ GateHold(c) \/ HoldForOffSwitch(c)

Next == \E c \in Caller : Begin(c) \/ Step(c) \/ Abandon(c)

Spec == Init /\ [][Next]_vars

-----------------------------------------------------------------------------
\* The state of a run, as `run` reports it, follows the life cycle that the
\* rest of the service relies on, whatever calls race: a run first appears paused,
\* is never forgotten, and once stopped stays stopped.
Lifecycle == INSTANCE RunLifecycle WITH state <- [r \in Run |-> Now(r)]

FollowsLifecycle == Lifecycle!Spec

Overlapping(r) == {s \in Run \ {r} : SameModel(r, s)}

\* At most one run acts on a model.  Until a run is marked done this holds
\* however starts, retried starts, changes and abandoned calls interleave: the
\* version-0 record, the second listing, start_order and the stop marker of the
\* loser let one run through.
OneRunner ==
    \A r \in Run : Now(r) = "Running" => \A s \in Overlapping(r) : Now(s) # "Running"

\* With changes too, two runs of a model act at once only after a write put a run
\* back among the active ones over a record it had not read.
OneRunnerUnlessLostUpdate == OneRunner \/ lostUpdate

\* Stop is final: no later write of the record, by a change or a start that
\* read the run before the stop, makes the run act or pause again.
StopFinal == [][\A r \in Run : Now(r) = "Stopped" => Now(r)' = "Stopped"]_vars

\* A resume refuses while another run holds the model: its write never sets a
\* run Running beside a running one.
ResumeRefuses ==
    [][\A c \in Caller :
          Put(c) /\ op[c].kind = "resume" /\ Now(op[c].run)' = "Running" =>
          \A s \in Overlapping(op[c].run) : Now(s) # "Running"]_vars

\* An off-switch hold pauses a run until a person resumes it: the only step that
\* takes a run out of the pause into Running is the record write of a resume.
Held(r) == rec[r].state = "Running" /\ Now(r) = "Paused"
HoldUntilResume ==
    [][\A r \in Run : Held(r) /\ Now(r)' = "Running" =>
          \E c \in Caller : op[c].pc = "put" /\ op[c].kind = "resume" /\ op[c].run = r]_vars

\* What the code does guarantee of a hold: it lasts unless a resume of the run is
\* under way, a decision that read another version puts its own hold over it, or
\* a write of the record was lost.
HoldLasts ==
    [][\A r \in Run : Held(r) /\ Now(r)' = "Running" =>
          \/ lostUpdate'
          \/ \E c \in Caller :
                /\ op[c] # Idle /\ op[c].run = r
                /\ \/ op[c].kind = "resume"
                   \/ op[c].kind = "hold" /\ op[c].seen.version # rec[r].version]_vars
=============================================================================
