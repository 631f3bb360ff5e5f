----------------------------- MODULE DedupCache -----------------------------
(***************************************************************************)
(* The dedup slot of one entity in the abuse-enforcement service           *)
(* (abuse-enforcement-service/service-lib/src/dedup_cache.rs) and the       *)
(* decisions that contend for it (lib.rs: process, write_dedup_outcome and  *)
(* the retry loop).                                                         *)
(*                                                                         *)
(* The slot is one row of a Manhattan store that offers get, put with a     *)
(* deadline and delete, and no conditional write.  Every store call is a    *)
(* step of its own, so whatever a decision read may have been replaced by   *)
(* the time its write arrives.  Each worker carries one decision at a time  *)
(* from its arrival, through its retries, to its last write.                *)
(*                                                                         *)
(* A stored entry is the meta data held_entry_meta extracts: a placeholder  *)
(* (written by try_insert, with the nonce of the claim and the hold it      *)
(* displaced) or an outcome (written when a decision ends).  Nonces are     *)
(* taken to be unique.  All pods read one clock.                            *)
(***************************************************************************)
EXTENDS Integers

CONSTANTS
    Worker,      \* decisions that can be in flight at once
    Incoming,    \* the classes decisions arrive with
    TTL,         \* ttl_secs of the cache, in ticks
    SkipTTL,     \* skip_ttl_secs of the cache, in ticks
    MaxRetries,  \* MAX_RETRIES
    MaxTime,     \* bound on the clock
    MaxMsgs,     \* bound on the decisions that arrive
    MaxFaults    \* bound on failed store calls and crashes

None == 0        \* CLASS_NONE
Permanent == 4   \* CLASS_SUSPEND_PERMANENT
Class == None..Permanent
ActedClass == Class \ {None}

ASSUME DedupAssumption ==
    /\ Incoming \subseteq Class
    /\ TTL \in Nat /\ SkipTTL \in Nat /\ MaxRetries \in Nat \ {0}
    /\ MaxTime \in Nat /\ MaxMsgs \in Nat /\ MaxFaults \in Nat

VARIABLES
    now,       \* the clock
    slot,      \* the stored row, live or past its deadline
    pc,        \* per worker: where its decision is
    incoming,  \* per worker: incoming_class
    held,      \* per worker: DecisionContext.held_class
    nonce,     \* per worker: claim_nonce, 0 when there is none
    view,      \* per worker: what its last read of the slot returned
    out,       \* per worker: the row its next write stores
    acted,     \* per worker: acted_class of its outcome
    attempt,   \* per worker: failed runs of its enforcement
    msgs,      \* decisions received so far
    claims,    \* claims made so far; each has its number as its nonce
    faults,    \* failed store calls and crashes so far
    serial,    \* no two decisions have been in flight together
    until      \* per class: when the last enforcement at it is TTL old

slotVars == <<now, slot>>
hist == <<msgs, claims, faults, serial, until>>
local == <<incoming, held, nonce, view, out, acted, attempt>>
vars == <<now, slot, pc, incoming, held, nonce, view, out, acted, attempt,
          msgs, claims, faults, serial, until>>

-----------------------------------------------------------------------------
(* Entries *)

\* No displaced hold; its deadline is in the past at every time.
NoCarry == [class |-> None, exp |-> 0]
Carry == [class : Class, exp : Nat]

NoEntry == [kind |-> "none", class |-> None, nonce |-> 0, carry |-> NoCarry, exp |-> 0]
Entry == [kind : {"none", "claim", "outcome"}, class : Class, nonce : Nat,
          carry : Carry, exp : Nat]

PlaceholderPast(c, n, carry) ==
    [kind |-> "claim", class |-> c, nonce |-> n, carry |-> carry, exp |-> now - TTL]
Placeholder(c, n, carry) ==
    [kind |-> "claim", class |-> c, nonce |-> n, carry |-> carry, exp |-> now + TTL]

Outcome(c, exp) ==
    [kind |-> "outcome", class |-> c, nonce |-> 0, carry |-> NoCarry, exp |-> exp]

\* What a get returns: the store drops a row at its deadline.
Live == IF slot.exp > now THEN slot ELSE NoEntry

IsDuplicateStrict(c, e) == c < e.class
IsDuplicate(c, e) == c <= e.class

\* The hold a new claim takes along when it replaces e.
DisplacedBy(e) ==
    IF e.kind = "claim" THEN e.carry
    ELSE IF e.class > None THEN [class |-> e.class, exp |-> e.exp] ELSE NoCarry

CarriedClass(e) ==
    IF e.kind = "claim" /\ e.carry.exp > now THEN e.carry.class ELSE None

\* The class an entry protects against weaker writes.
FencingClass(e) == IF e.kind = "outcome" THEN e.class ELSE CarriedClass(e)

Owns(e, n) == e.kind = "claim" /\ n # 0 /\ e.nonce = n

FencesOutcomes(e, c, n) == e.kind = "outcome" /\ e.class > c
FencesWrite(e, c, n) ==
    \/ e.kind = "outcome" /\ e.class > c
    \/ e.kind = "claim" /\ ~Owns(e, n) /\ CarriedClass(e) > c

\* The hold that the owner n of claim e puts back, if it has not expired.
Restorable(e, n) == Owns(e, n) /\ e.carry.exp > now
Restored(e) == Outcome(e.carry.class, e.carry.exp)

-----------------------------------------------------------------------------
Init ==
    /\ now = 1 /\ slot = NoEntry
    /\ pc = [w \in Worker |-> "idle"]
    /\ incoming = [w \in Worker |-> None]
    /\ held = [w \in Worker |-> None]
    /\ nonce = [w \in Worker |-> 0]
    /\ view = [w \in Worker |-> NoEntry]
    /\ out = [w \in Worker |-> NoEntry]
    /\ acted = [w \in Worker |-> None]
    /\ attempt = [w \in Worker |-> 0]
    /\ msgs = 0 /\ claims = 0 /\ faults = 0 /\ serial = TRUE
    /\ until = [c \in ActedClass |-> 0]

Goto(w, l) == pc' = [pc EXCEPT ![w] = l]
Looked(w) == view' = [view EXCEPT ![w] = Live]
Writes(w, e) == out' = [out EXCEPT ![w] = e]

\* The decision of w is over; the worker forgets it.
Done(w) ==
    /\ Goto(w, "idle")
    /\ incoming' = [incoming EXCEPT ![w] = None]
    /\ held' = [held EXCEPT ![w] = None]
    /\ nonce' = [nonce EXCEPT ![w] = 0]
    /\ view' = [view EXCEPT ![w] = NoEntry]
    /\ out' = [out EXCEPT ![w] = NoEntry]
    /\ acted' = [acted EXCEPT ![w] = None]
    /\ attempt' = [attempt EXCEPT ![w] = 0]

\* A failed call of the store, or the end of the process.
Fault == faults < MaxFaults /\ faults' = faults + 1

\* process: a decision arrives with the class of the strongest action its
\* rules can reach.
Receive(w) ==
    /\ pc[w] = "idle" /\ msgs < MaxMsgs
    /\ \E c \in Incoming : incoming' = [incoming EXCEPT ![w] = c]
    /\ msgs' = msgs + 1
    /\ serial' = (serial /\ \A v \in Worker \ {w} : pc[v] = "idle")
    /\ Goto(w, "check")
    /\ UNCHANGED <<slotVars, held, nonce, view, out, acted, attempt,
                   claims, faults, until>>

-----------------------------------------------------------------------------
(* try_insert *)

\* The first get finds an entry at least as strong.
Duplicate(w) ==
    /\ pc[w] = "check"
    /\ Live # NoEntry /\ IsDuplicate(incoming[w], Live)
    /\ Done(w)
    /\ UNCHANGED <<slotVars, hist>>

\* The slot is free, or the decision outranks what it holds.
Check(w) ==
    /\ pc[w] = "check"
    /\ Live # NoEntry => ~IsDuplicate(incoming[w], Live)
    /\ Looked(w)
    /\ held' = [held EXCEPT ![w] = Live.class]
    /\ claims' = claims + 1
    /\ nonce' = [nonce EXCEPT ![w] = claims + 1]
    /\ Writes(w, Placeholder(incoming[w], claims + 1, DisplacedBy(Live)))
    /\ Goto(w, "claim")
    /\ UNCHANGED <<slotVars, incoming, acted, attempt, msgs, faults, serial, until>>

\* The first get fails: the decision goes ahead without a claim.
CheckFails(w) ==
    /\ pc[w] = "check" /\ Fault
    /\ Goto(w, "decide")
    /\ UNCHANGED <<slotVars, local, msgs, claims, serial, until>>

\* The placeholder is stored; only a claim over an entry is read back.
Claim(w) ==
    /\ pc[w] = "claim"
    /\ slot' = out[w]
    /\ Goto(w, IF view[w] = NoEntry THEN "decide" ELSE "verify")
    /\ UNCHANGED <<now, local, hist>>

\* The put reports an error, whether or not the store applied it: the
\* decision goes ahead without a nonce.
ClaimFails(w) ==
    /\ pc[w] = "claim" /\ Fault
    /\ slot' \in {slot, out[w]}
    /\ nonce' = [nonce EXCEPT ![w] = 0]
    /\ Goto(w, "decide")
    /\ UNCHANGED <<now, incoming, held, view, out, acted, attempt, msgs, claims, serial, until>>

\* verify_claim reads the slot back.
Verified(w) == Live.nonce = nonce[w]

Verify(w) ==
    /\ pc[w] = "verify"
    /\ Verified(w)
    /\ Goto(w, "decide")
    /\ UNCHANGED <<slotVars, local, hist>>

ClaimLost(w) ==
    /\ pc[w] = "verify"
    /\ ~Verified(w)
    /\ Done(w)
    /\ UNCHANGED <<slotVars, hist>>

VerifyFails(w) ==
    /\ pc[w] = "verify" /\ Fault
    /\ Goto(w, "decide")
    /\ UNCHANGED <<slotVars, local, msgs, claims, serial, until>>

-----------------------------------------------------------------------------
(* run_enforcement and its callers *)

\* The actions chosen must outrank what try_insert found held.  The rules
\* are read again here, so the class may differ from the incoming one.
MayActAlways(w, c) == TRUE
MayAct(w, c) == c > held[w]

Act(w) ==
    /\ pc[w] = "decide"
    /\ \E c \in ActedClass :
        /\ MayAct(w, c)
        /\ acted' = [acted EXCEPT ![w] = c]
        /\ until' = [until EXCEPT ![c] = now + TTL]
    /\ Goto(w, "full")
    /\ UNCHANGED <<slotVars, incoming, held, nonce, view, out, attempt,
                   msgs, claims, faults, serial>>

\* Every outcome but success and a failed hold lookup: the decision did not act.
Skip(w) ==
    /\ pc[w] = "decide"
    /\ Goto(w, "skip")
    /\ UNCHANGED <<slotVars, local, hist>>

\* A failed hold lookup, a forced recording or a permanent failure.
Release(w) ==
    /\ pc[w] = "decide"
    /\ Goto(w, "release")
    /\ UNCHANGED <<slotVars, local, hist>>

\* Any other failure is queued for another run with the same claim, until
\* the retries are used up.
Retry(w) ==
    /\ pc[w] = "decide"
    /\ attempt' = [attempt EXCEPT ![w] = @ + 1]
    /\ Goto(w, IF attempt[w] + 1 > MaxRetries THEN "release" ELSE "decide")
    /\ UNCHANGED <<slotVars, incoming, held, nonce, view, out, acted, hist>>

\* The pod stops: the decision and its place in the retry queue are lost,
\* the claim stays in the store.
Crash(w) ==
    /\ pc[w] # "idle" /\ Fault
    /\ Done(w)
    /\ UNCHANGED <<slotVars, msgs, claims, serial, until>>

-----------------------------------------------------------------------------
(* update, update_skip and invalidate: slot_view, then at most one write *)

\* The strongest class is written without a look at the slot.
PrepareUnseen(w) ==
    /\ pc[w] = "full" /\ acted[w] = Permanent
    /\ Writes(w, Outcome(acted[w], now + TTL))
    /\ Goto(w, "put")
    /\ UNCHANGED <<slotVars, incoming, held, nonce, view, acted, attempt, hist>>

PrepareFull(w) ==
    /\ pc[w] = "full" /\ acted[w] < Permanent
    /\ ~FencesWrite(Live, acted[w], nonce[w])
    /\ Looked(w)
    /\ Writes(w, Outcome(acted[w], now + TTL))
    /\ Goto(w, "put")
    /\ UNCHANGED <<slotVars, incoming, held, nonce, acted, attempt, hist>>

SkipEntry(w) ==
    IF Restorable(Live, nonce[w]) THEN Restored(Live) ELSE Outcome(None, now + SkipTTL)

PrepareSkip(w) ==
    /\ pc[w] = "skip"
    /\ ~FencesWrite(Live, None, nonce[w])
    /\ Looked(w)
    /\ Writes(w, SkipEntry(w))
    /\ Goto(w, "put")
    /\ UNCHANGED <<slotVars, incoming, held, nonce, acted, attempt, hist>>

Fenced(w) ==
    /\ \/ pc[w] = "full" /\ acted[w] < Permanent /\ FencesWrite(Live, acted[w], nonce[w])
       \/ pc[w] = "skip" /\ FencesWrite(Live, None, nonce[w])
    /\ Done(w)
    /\ UNCHANGED <<slotVars, hist>>

ReleasedEntry(w) ==
    IF Restorable(Live, nonce[w]) THEN Restored(Live) ELSE NoEntry

\* invalidate removes its own claim; an empty slot is deleted once more.
ReleasesNothing(w) == Live = NoEntry
Releases(w) == Live = NoEntry \/ Owns(Live, nonce[w])

PrepareRelease(w) ==
    /\ pc[w] = "release"
    /\ Releases(w)
    /\ Looked(w)
    /\ Writes(w, ReleasedEntry(w))
    /\ Goto(w, "put")
    /\ UNCHANGED <<slotVars, incoming, held, nonce, acted, attempt, hist>>

\* An outcome or a foreign claim is left in place.
LeaveInPlace(w) ==
    /\ pc[w] = "release"
    /\ ~Releases(w)
    /\ Done(w)
    /\ UNCHANGED <<slotVars, hist>>

\* slot_view fails: the write is dropped.
ViewFails(w) ==
    /\ \/ pc[w] \in {"skip", "release"}
       \/ pc[w] = "full" /\ acted[w] < Permanent
    /\ Fault
    /\ Done(w)
    /\ UNCHANGED <<slotVars, msgs, claims, serial, until>>

\* update_with_ttl, or the delete of invalidate.
Put(w) ==
    /\ pc[w] = "put"
    /\ slot' = out[w]
    /\ Done(w)
    /\ UNCHANGED <<now, hist>>

PutFails(w) ==
    /\ pc[w] = "put" /\ Fault
    /\ slot' \in {slot, out[w]}
    /\ Done(w)
    /\ UNCHANGED <<now, msgs, claims, serial, until>>

Tick ==
    /\ now < MaxTime /\ now' = now + 1
    /\ UNCHANGED <<slot, pc, local, hist>>

TryInsert(w) ==
    \/ Receive(w) \/ Duplicate(w) \/ Check(w) \/ CheckFails(w)
    \/ Claim(w) \/ ClaimFails(w)
    \/ Verify(w) \/ ClaimLost(w) \/ VerifyFails(w)

Enforce(w) == Act(w) \/ Skip(w) \/ Release(w) \/ Retry(w) \/ Crash(w)

WriteOutcome(w) ==
    \/ PrepareUnseen(w) \/ PrepareFull(w) \/ PrepareSkip(w) \/ Fenced(w)
    \/ PrepareRelease(w) \/ LeaveInPlace(w) \/ ViewFails(w)
    \/ Put(w) \/ PutFails(w)

Next ==
    \/ \E w \in Worker : TryInsert(w) \/ Enforce(w) \/ WriteOutcome(w)
    \/ Tick

Spec == Init /\ [][Next]_vars

-----------------------------------------------------------------------------
(* Properties *)

Phase == {"idle", "check", "claim", "verify", "decide", "full", "skip", "release", "put"}

\* The types of the variables.
TypeOK ==
    /\ now \in Nat /\ slot \in Entry
    /\ pc \in [Worker -> Phase]
    /\ incoming \in [Worker -> Class] /\ held \in [Worker -> Class]
    /\ nonce \in [Worker -> Nat] /\ acted \in [Worker -> Class]
    /\ view \in [Worker -> Entry] /\ out \in [Worker -> Entry]
    /\ attempt \in [Worker -> Nat]
    /\ msgs \in Nat /\ claims \in Nat /\ faults \in Nat
    /\ serial \in BOOLEAN
    /\ until \in [ActedClass -> Nat]

\* The hold a claim carries is weaker than the claim and ends no later, also
\* through chains of claims over claims: a claim never outlives into a state
\* where the hold it stands for is forgotten early, and its owner, who acts
\* above the class it found, never writes less than it displaced (try_insert).
CarryInside ==
    slot.kind = "claim" =>
        /\ (slot.carry.class > None => slot.carry.class < slot.class)
        /\ slot.carry.exp <= slot.exp

\* A live claim belongs to a decision that is still under way, unless a store
\* call failed or a pod stopped: every end of a decision (acted, skipped,
\* released, retries used up, claim lost) removes the claim it made, so no
\* entity stays blocked for the whole TTL by a decision that is over.
NoAbandonedClaim ==
    faults = 0 /\ Live.kind = "claim" =>
        \E w \in Worker : pc[w] # "idle" /\ nonce[w] = Live.nonce

\* The slot's protection is only ever lowered by a write that raced with
\* another one (the slot no longer is what the writer read), or by a write
\* that arrives after its own deadline.  Claims, skips, releases and weaker
\* outcomes that see the current slot keep the strongest hold in it
\* (fences_write, restore_displaced, the displaced hold of try_insert).
RacesOrLate(w) ==
    /\ pc[w] \in {"claim", "put"}
    /\ \/ view[w] # Live
       \/ out[w] # NoEntry /\ out[w].exp <= now

LiveAt(e) == IF e.exp > now THEN e ELSE NoEntry

HoldKept ==
    [][FencingClass(LiveAt(slot')) < FencingClass(Live)
        => \E w \in Worker : RacesOrLate(w)]_vars

\* Decisions that follow one another, with no store failure, never enforce
\* twice at the same or a lower class within the TTL: whatever claims,
\* bypasses, skips and releases lie between two enforcements, the later one
\* outranks the earlier ones (try_insert, held_class, write_dedup_outcome).
OutranksRecent ==
    [][\A w \in Worker : serial' /\ faults' = 0 /\ pc[w] = "decide" /\ pc'[w] = "full" =>
        \A c \in acted'[w]..Permanent : until[c] <= now]_vars
=============================================================================
