-------------------------- MODULE DedupCacheProofs --------------------------
(***************************************************************************)
(* Proofs of the properties of DedupCache for every set of workers, every  *)
(* TTL and every bound.                                                     *)
(***************************************************************************)
EXTENDS DedupCache, TLAPS

\* The entries the code builds are entries.
LEMMA EntryTypes ==
    ASSUME TypeOK
    PROVE  /\ NoEntry \in Entry /\ Live \in Entry /\ NoCarry \in Carry
           /\ \A e \in Entry : DisplacedBy(e) \in Carry
           /\ \A c \in Class, n \in Nat, d \in Carry : Placeholder(c, n, d) \in Entry
           /\ \A c \in Class, x \in Nat : Outcome(c, x) \in Entry
           /\ \A e \in Entry : Restored(e) \in Entry
<1>1. NoCarry \in Carry
  BY DEF NoCarry, Carry, Class, None, Permanent
<1>2. NoEntry \in Entry
  BY <1>1 DEF NoEntry, Entry, Class, None, Permanent
<1>3. Live \in Entry
  BY Zenon, <1>2 DEF Live, TypeOK
<1>4. \A e \in Entry : DisplacedBy(e) \in Carry
  BY Zenon, <1>1 DEF DisplacedBy, Entry, Carry
<1>5. \A c \in Class, n \in Nat, d \in Carry : Placeholder(c, n, d) \in Entry
  BY DedupAssumption DEF Placeholder, Entry, TypeOK
<1>6. \A c \in Class, x \in Nat : Outcome(c, x) \in Entry
  BY Zenon, <1>1 DEF Outcome, Entry
<1>7. \A e \in Entry : Restored(e) \in Entry
  BY Zenon, <1>6 DEF Restored, Entry, Carry
<1> QED BY Zenon, <1>1, <1>2, <1>3, <1>4, <1>5, <1>6, <1>7

\* The entries that a decision prepares to write are entries.
LEMMA PreparedTypes ==
    ASSUME TypeOK, NEW w \in Worker
    PROVE  /\ Outcome(acted[w], now + TTL) \in Entry
           /\ SkipEntry(w) \in Entry /\ ReleasedEntry(w) \in Entry
           /\ Placeholder(incoming[w], claims + 1, DisplacedBy(Live)) \in Entry
<1>1. now + TTL \in Nat /\ now + SkipTTL \in Nat /\ claims + 1 \in Nat
  BY DedupAssumption DEF TypeOK
<1>2. acted[w] \in Class /\ incoming[w] \in Class /\ None \in Class
  BY DEF TypeOK, Class, None, Permanent
<1> QED BY Zenon, <1>1, <1>2, EntryTypes DEF SkipEntry, ReleasedEntry

LEMMA TypeInit == Init => TypeOK
<1> SUFFICES ASSUME Init PROVE TypeOK
  BY Zenon
<1>1. NoEntry \in Entry
  BY DEF NoEntry, Entry, NoCarry, Carry, Class, None, Permanent
<1>2. None \in Class /\ "idle" \in Phase
  BY DEF Class, None, Permanent, Phase
<1> QED BY Zenon, <1>1, <1>2 DEF Init, TypeOK

\* The end of a decision keeps the types of the worker's variables.
LEMMA DoneTypes ==
    ASSUME TypeOK, NEW w \in Worker, Done(w)
    PROVE  /\ pc' \in [Worker -> Phase]
           /\ incoming' \in [Worker -> Class] /\ held' \in [Worker -> Class]
           /\ nonce' \in [Worker -> Nat] /\ acted' \in [Worker -> Class]
           /\ view' \in [Worker -> Entry] /\ out' \in [Worker -> Entry]
           /\ attempt' \in [Worker -> Nat]
<1>1. NoEntry \in Entry /\ None \in Class /\ "idle" \in Phase
  BY EntryTypes DEF Class, None, Permanent, Phase
<1> QED BY Zenon, <1>1 DEF Done, Goto, TypeOK

LEMMA TypeTryInsert ==
    ASSUME TypeOK, NEW w \in Worker, TryInsert(w)
    PROVE  TypeOK'
<1> USE DEF slotVars, hist, local
<1>1. CASE Receive(w)
  BY <1>1, DedupAssumption DEF Receive, Goto, TypeOK, Phase
<1>2. CASE Duplicate(w)
  BY Zenon, <1>2, DoneTypes DEF Duplicate, TypeOK
<1>3. CASE Check(w)
  <2>1. Live.class \in Class /\ Live \in Entry
    BY Zenon, EntryTypes DEF Entry
  <2> QED BY <1>3, <2>1, PreparedTypes DEF Check, Goto, Looked, Writes, TypeOK, Phase
<1>4. CASE CheckFails(w)
  BY <1>4 DEF CheckFails, Fault, Goto, TypeOK, Phase
<1>5. CASE Claim(w)
  BY Zenon, <1>5 DEF Claim, Goto, TypeOK, Phase
<1>6. CASE ClaimFails(w)
  BY <1>6 DEF ClaimFails, Fault, Goto, TypeOK, Phase
<1>7. CASE Verify(w)
  BY Zenon, <1>7 DEF Verify, Goto, TypeOK, Phase
<1>8. CASE ClaimLost(w)
  BY Zenon, <1>8, DoneTypes DEF ClaimLost, TypeOK
<1>9. CASE VerifyFails(w)
  BY <1>9 DEF VerifyFails, Fault, Goto, TypeOK, Phase
<1> QED BY Zenon, <1>1, <1>2, <1>3, <1>4, <1>5, <1>6, <1>7, <1>8, <1>9 DEF TryInsert

LEMMA TypeEnforce ==
    ASSUME TypeOK, NEW w \in Worker, Enforce(w)
    PROVE  TypeOK'
<1> USE DEF slotVars, hist, local
<1>1. CASE Act(w)
  BY <1>1, DedupAssumption DEF Act, Goto, TypeOK, Phase, ActedClass
<1>2. CASE Skip(w)
  BY Zenon, <1>2 DEF Skip, Goto, TypeOK, Phase
<1>3. CASE Release(w)
  BY Zenon, <1>3 DEF Release, Goto, TypeOK, Phase
<1>4. CASE Retry(w)
  BY <1>4 DEF Retry, Goto, TypeOK, Phase
<1>5. CASE Crash(w)
  BY <1>5, DoneTypes DEF Crash, Fault, TypeOK
<1> QED BY Zenon, <1>1, <1>2, <1>3, <1>4, <1>5 DEF Enforce

LEMMA TypeWriteOutcome ==
    ASSUME TypeOK, NEW w \in Worker, WriteOutcome(w)
    PROVE  TypeOK'
<1> USE DEF slotVars, hist, local
<1>1. CASE PrepareUnseen(w)
  BY Zenon, <1>1, PreparedTypes DEF PrepareUnseen, Goto, Writes, TypeOK, Phase
<1>2. CASE PrepareFull(w)
  BY Zenon, <1>2, PreparedTypes, EntryTypes DEF PrepareFull, Goto, Looked, Writes, TypeOK, Phase
<1>3. CASE PrepareSkip(w)
  BY Zenon, <1>3, PreparedTypes, EntryTypes DEF PrepareSkip, Goto, Looked, Writes, TypeOK, Phase
<1>4. CASE Fenced(w)
  BY Zenon, <1>4, DoneTypes DEF Fenced, TypeOK
<1>5. CASE PrepareRelease(w)
  BY Zenon, <1>5, PreparedTypes, EntryTypes DEF PrepareRelease, Goto, Looked, Writes, TypeOK, Phase
<1>6. CASE LeaveInPlace(w)
  BY Zenon, <1>6, DoneTypes DEF LeaveInPlace, TypeOK
<1>7. CASE ViewFails(w)
  BY <1>7, DoneTypes DEF ViewFails, Fault, TypeOK
<1>8. CASE Put(w)
  BY Zenon, <1>8, DoneTypes DEF Put, TypeOK
<1>9. CASE PutFails(w)
  BY <1>9, DoneTypes DEF PutFails, Fault, TypeOK
<1> QED BY Zenon, <1>1, <1>2, <1>3, <1>4, <1>5, <1>6, <1>7, <1>8, <1>9 DEF WriteOutcome

\* Every variable of DedupCache keeps its type.
THEOREM TypeCorrect == Spec => []TypeOK
<1>1. Init => TypeOK
  BY Zenon, TypeInit
<1>2. TypeOK /\ [Next]_vars => TypeOK'
  <2> SUFFICES ASSUME TypeOK, [Next]_vars PROVE TypeOK'
    BY Zenon
  <2>1. CASE \E w \in Worker : TryInsert(w) \/ Enforce(w) \/ WriteOutcome(w)
    BY Zenon, <2>1, TypeTryInsert, TypeEnforce, TypeWriteOutcome
  <2>2. CASE Tick
    BY <2>2 DEF Tick, local, hist, TypeOK
  <2>3. CASE UNCHANGED vars
    BY Zenon, <2>3 DEF vars, TypeOK
  <2> QED BY Zenon, <2>1, <2>2, <2>3 DEF Next
<1> QED BY <1>1, <1>2, PTL DEF Spec

-----------------------------------------------------------------------------
(* What the steps do to the slot, the claims and the prepared writes *)

\* A decision ends, with or without a last write.
Ends(w) == Done(w) /\ slot' \in {slot, out[w]} /\ UNCHANGED <<now, claims>>

\* A placeholder reaches the store, or its put reports an error.
Stores(w) ==
    /\ pc[w] = "claim" /\ slot' \in {slot, out[w]}
    /\ pc' = [pc EXCEPT ![w] = pc'[w]] /\ pc'[w] \in {"decide", "verify"}
    /\ nonce' \in {nonce, [nonce EXCEPT ![w] = 0]}
    /\ UNCHANGED <<now, claims, held, out, view, acted>>

\* A write is prepared.
Prepares(w) == PrepareUnseen(w) \/ PrepareFull(w) \/ PrepareSkip(w) \/ PrepareRelease(w)

\* A decision moves on without touching the slot, its claim or a write.
Moves(w) ==
    /\ pc' = [pc EXCEPT ![w] = pc'[w]]
    /\ \/ pc[w] \in {"idle", "check", "verify", "decide"} /\ pc'[w] = "decide" /\ acted' = acted
       \/ pc'[w] \in {"check", "skip", "release"} /\ acted' = acted
       \/ pc'[w] = "full" /\ acted' = [acted EXCEPT ![w] = acted'[w]] /\ acted'[w] > held[w]
    /\ pc'[w] = "check" => pc[w] = "idle"
    /\ UNCHANGED <<now, claims, slot, held, nonce, out, view>>

\* The clock advances or nothing happens.
Waits ==
    /\ now' \in {now, now + 1}
    /\ UNCHANGED <<slot, pc, claims, held, nonce, out, view, acted>>

LEMMA Effects ==
    ASSUME TypeOK, [Next]_vars
    PROVE  \/ \E w \in Worker : Ends(w) \/ Check(w) \/ Stores(w) \/ Prepares(w) \/ Moves(w)
           \/ Waits
<1> USE DEF slotVars, hist, local
<1>1. ASSUME NEW w \in Worker, TryInsert(w)
      PROVE  Ends(w) \/ Check(w) \/ Stores(w) \/ Moves(w)
  <2>1. CASE Receive(w)
    BY Zenon, <2>1 DEF Receive, Goto, Moves, TypeOK
  <2>2. CASE Duplicate(w)
    BY Zenon, <2>2 DEF Duplicate, Ends
  <2>3. CASE CheckFails(w)
    BY Zenon, <2>3 DEF CheckFails, Goto, Moves, TypeOK
  <2>4. CASE Claim(w)
    BY Zenon, <2>4 DEF Claim, Goto, Stores, TypeOK
  <2>5. CASE ClaimFails(w)
    BY Zenon, <2>5 DEF ClaimFails, Goto, Stores, TypeOK
  <2>6. CASE Verify(w)
    BY Zenon, <2>6 DEF Verify, Goto, Moves, TypeOK
  <2>7. CASE ClaimLost(w)
    BY Zenon, <2>7 DEF ClaimLost, Ends
  <2>8. CASE VerifyFails(w)
    BY Zenon, <2>8 DEF VerifyFails, Goto, Moves, TypeOK
  <2> QED BY Zenon, <1>1, <2>1, <2>2, <2>3, <2>4, <2>5, <2>6, <2>7, <2>8 DEF TryInsert
<1>2. ASSUME NEW w \in Worker, Enforce(w)
      PROVE  Ends(w) \/ Moves(w)
  <2>1. CASE Act(w)
    <3>1. PICK c \in ActedClass : MayAct(w, c) /\ acted' = [acted EXCEPT ![w] = c]
      BY Zenon, <2>1 DEF Act
    <3> QED BY Zenon, <2>1, <3>1 DEF Act, MayAct, Goto, Moves, TypeOK
  <2>2. CASE Skip(w)
    BY Zenon, <2>2 DEF Skip, Goto, Moves, TypeOK
  <2>3. CASE Release(w)
    BY Zenon, <2>3 DEF Release, Goto, Moves, TypeOK
  <2>4. CASE Retry(w)
    BY Zenon, <2>4 DEF Retry, Goto, Moves, TypeOK
  <2>5. CASE Crash(w)
    BY Zenon, <2>5 DEF Crash, Ends
  <2> QED BY Zenon, <1>2, <2>1, <2>2, <2>3, <2>4, <2>5 DEF Enforce
<1>3. ASSUME NEW w \in Worker, WriteOutcome(w)
      PROVE  Ends(w) \/ Prepares(w)
  BY Zenon, <1>3 DEF WriteOutcome, Fenced, LeaveInPlace, ViewFails, Put, PutFails, Ends, Prepares
<1>4. CASE Tick
  BY Zenon, <1>4 DEF Tick, Waits
<1>5. CASE UNCHANGED vars
  BY Zenon, <1>5 DEF vars, Waits
<1> QED BY Zenon, <1>1, <1>2, <1>3, <1>4, <1>5 DEF Next

-----------------------------------------------------------------------------
(* The holds that claims carry *)

\* A claim is stronger than its carry and lives longer; nothing that protects
\* lives beyond a TTL from now; every nonce has been given out.
EntryOK(e) ==
    /\ e.kind = "claim" =>
        /\ (e.carry.class > None => e.carry.class < e.class)
        /\ e.carry.exp <= e.exp
        /\ e.nonce > 0 /\ e.nonce <= claims
    /\ (e.kind = "claim" \/ e.class > None) => e.exp <= now + TTL

EntryInv ==
    /\ EntryOK(slot)
    /\ \A w \in Worker : EntryOK(out[w]) /\ nonce[w] <= claims

\* A claim never carries more than the class its owner found held.
OwnCarry ==
    \A w \in Worker : nonce[w] # 0 =>
        /\ slot.kind = "claim" /\ slot.nonce = nonce[w] => slot.carry.class <= held[w]
        /\ \A v \in Worker : out[v].kind = "claim" /\ out[v].nonce = nonce[w]
                => out[v].carry.class <= held[w]

PhaseOK(w) ==
    /\ pc[w] \in {"idle", "check"} => nonce[w] = 0
    /\ pc[w] = "claim" =>
        /\ out[w].kind = "claim" /\ out[w].nonce = nonce[w]
        /\ out[w].carry = DisplacedBy(view[w])
    /\ pc[w] = "full" => acted[w] > held[w]
    /\ pc[w] = "put" =>
        /\ out[w] = NoEntry \/ out[w].kind = "outcome"
        /\ FencingClass(view[w]) <= out[w].class

PhaseInv == \A w \in Worker : PhaseOK(w)

HoldInv == TypeOK /\ EntryInv /\ OwnCarry /\ PhaseInv

LEMMA EntryStep ==
    ASSUME HoldInv, TypeOK', [Next]_vars
    PROVE  EntryInv'
<1> USE DEF HoldInv, EntryInv
<1>0. /\ now \in Nat /\ claims \in Nat /\ slot \in Entry /\ Live \in Entry
      /\ TTL \in Nat /\ SkipTTL \in Nat
      /\ \A w \in Worker : nonce[w] \in Nat /\ out[w] \in Entry /\ incoming[w] \in Class
  BY Zenon, EntryTypes, DedupAssumption DEF TypeOK
<1>1. EntryOK(NoEntry)' /\ EntryOK(NoEntry)
  BY DEF EntryOK, NoEntry, None
<1>2. ASSUME now' \in {now, now + 1}, claims' \in {claims, claims + 1}, NEW e \in Entry, EntryOK(e)
      PROVE  EntryOK(e)'
  BY <1>0, <1>2 DEF EntryOK, Entry, Carry
<1>3. EntryOK(Live)
  BY Zenon, <1>1 DEF Live
<1>4. ASSUME NEW w \in Worker, Ends(w)
      PROVE  EntryInv'
  BY <1>0, <1>1, <1>2, <1>4 DEF Ends, Done, TypeOK
<1>5. ASSUME NEW w \in Worker, Check(w)
      PROVE  EntryInv'
  <2>1. ASSUME NEW e, e = Placeholder(incoming[w], claims + 1, DisplacedBy(Live))
        PROVE  EntryOK(e)'
    <3>1. claims' = claims + 1 /\ now' = now
      BY Zenon, <1>5 DEF Check, slotVars
    <3>2. CASE Live.kind = "claim"
      <4>1. Live.class < incoming[w]
        BY <1>0, <1>5, <3>2 DEF Check, IsDuplicate, NoEntry, Entry, Class, None, Permanent
      <4> QED BY <1>0, <1>3, <2>1, <3>1, <3>2, <4>1
          DEF EntryOK, Placeholder, DisplacedBy, Entry, Carry, Class, None, Permanent
    <3>3. CASE Live.kind # "claim" /\ Live.class > None
      <4>1. Live.class < incoming[w]
        BY <1>0, <1>5, <3>3 DEF Check, IsDuplicate, NoEntry, Entry, Class, None, Permanent
      <4> QED BY <1>0, <1>3, <2>1, <3>1, <3>3, <4>1
          DEF EntryOK, Placeholder, DisplacedBy, Entry, Carry, Class, None, Permanent
    <3>4. CASE Live.kind # "claim" /\ ~(Live.class > None)
      BY <1>0, <2>1, <3>1, <3>4 DEF EntryOK, Placeholder, DisplacedBy, NoCarry, None
    <3> QED BY Zenon, <3>2, <3>3, <3>4
  <2> QED BY <1>0, <1>2, <1>5, <2>1 DEF Check, Writes, slotVars, TypeOK
<1>6. ASSUME NEW w \in Worker, Stores(w)
      PROVE  EntryInv'
  BY <1>0, <1>2, <1>6 DEF Stores, TypeOK
<1>7. ASSUME NEW w \in Worker, Prepares(w)
      PROVE  EntryInv'
  <2>1. \A c \in Class : EntryOK(Outcome(c, now + TTL))
    BY <1>0 DEF EntryOK, Outcome
  <2>2. EntryOK(Outcome(None, now + SkipTTL))
    BY <1>0 DEF EntryOK, Outcome, None
  <2>3. Restorable(Live, nonce[w]) => EntryOK(Restored(Live))
    BY <1>0, <1>3 DEF Restorable, Owns, Restored, EntryOK, Outcome, Entry, Carry
  <2>4. out' = [out EXCEPT ![w] = out'[w]] /\ EntryOK(out'[w])
    BY <1>1, <1>7, <2>1, <2>2, <2>3 DEF Prepares, PrepareUnseen, PrepareFull, PrepareSkip,
       PrepareRelease, Writes, SkipEntry, ReleasedEntry, TypeOK
  <2>5. UNCHANGED <<now, claims, slot, nonce>>
    BY Zenon, <1>7 DEF Prepares, PrepareUnseen, PrepareFull, PrepareSkip, PrepareRelease, slotVars, hist
  <2> QED BY Zenon, <1>0, <2>4, <2>5 DEF EntryOK, TypeOK
<1>8. ASSUME NEW w \in Worker, Moves(w)
      PROVE  EntryInv'
  BY Zenon, <1>0, <1>2, <1>8 DEF Moves
<1>9. CASE Waits
  BY Zenon, <1>0, <1>2, <1>9 DEF Waits
<1> QED BY Zenon, <1>4, <1>5, <1>6, <1>7, <1>8, <1>9, Effects

LEMMA OwnCarryStep ==
    ASSUME HoldInv, TypeOK', [Next]_vars
    PROVE  OwnCarry'
<1> USE DEF HoldInv, OwnCarry
<1>0. /\ claims \in Nat /\ Live \in Entry /\ slot \in Entry
      /\ \A w \in Worker : nonce[w] \in Nat /\ out[w] \in Entry /\ incoming[w] \in Class
                           /\ held[w] \in Class
  BY Zenon, EntryTypes DEF TypeOK
<1>1. ASSUME NEW w \in Worker, Ends(w)
      PROVE  OwnCarry'
  BY <1>0, <1>1 DEF Ends, Done, NoEntry, TypeOK
<1>2. ASSUME NEW w \in Worker, Check(w)
      PROVE  OwnCarry'
  <2>1. /\ slot.kind = "claim" => slot.nonce <= claims
        /\ \A v \in Worker : out[v].kind = "claim" => out[v].nonce <= claims
        /\ \A v \in Worker : nonce[v] <= claims
    BY Zenon DEF EntryInv, EntryOK
  <2>2. /\ out' = [out EXCEPT ![w] = out'[w]] /\ nonce' = [nonce EXCEPT ![w] = claims + 1]
        /\ held' = [held EXCEPT ![w] = Live.class] /\ slot' = slot
        /\ out'[w].nonce = claims + 1 /\ out'[w].carry = DisplacedBy(Live)
    BY Zenon, <1>2 DEF Check, Writes, slotVars, Placeholder, TypeOK
  <2>3. EntryOK(Live)
    BY DEF Live, EntryInv, EntryOK, NoEntry, None
  <2>4. out'[w].carry.class <= Live.class
    BY <1>0, <2>2, <2>3 DEF DisplacedBy, EntryOK, Entry, Carry, NoCarry, Class, None, Permanent
  <2>5. ASSUME NEW u \in Worker, nonce'[u] # 0
        PROVE  /\ slot'.kind = "claim" /\ slot'.nonce = nonce'[u] => slot'.carry.class <= held'[u]
               /\ \A v \in Worker : out'[v].kind = "claim" /\ out'[v].nonce = nonce'[u]
                    => out'[v].carry.class <= held'[u]
    <3>1. CASE u = w
      <4>1. nonce'[u] = claims + 1 /\ held'[u] = Live.class
        BY Zenon, <2>2, <3>1 DEF TypeOK
      <4>2. \A v \in Worker \ {w} : out'[v] = out[v]
        BY Zenon, <2>2 DEF TypeOK
      <4>3. \A v \in Worker \ {w} : out'[v].kind = "claim" => out'[v].nonce # claims + 1
        BY <1>0, <2>1, <4>2 DEF Entry
      <4>4. slot'.kind = "claim" => slot'.nonce # claims + 1
        BY <1>0, <2>1, <2>2 DEF Entry
      <4> QED BY Zenon, <2>4, <3>1, <4>1, <4>3, <4>4
    <3>2. CASE u # w
      <4>1. nonce'[u] = nonce[u] /\ held'[u] = held[u] /\ nonce[u] # claims + 1
        BY <1>0, <2>1, <2>2, <3>2 DEF TypeOK
      <4>2. \A v \in Worker : out'[v].nonce = nonce'[u] => v # w /\ out'[v] = out[v]
        BY Zenon, <2>2, <4>1 DEF TypeOK
      <4> QED BY Zenon, <2>2, <2>5, <4>1, <4>2
    <3> QED BY Zenon, <3>1, <3>2
  <2> QED BY Zenon, <2>5
<1>3. ASSUME NEW w \in Worker, Stores(w)
      PROVE  OwnCarry'
  BY Zenon, <1>0, <1>3 DEF Stores, TypeOK
<1>4. ASSUME NEW w \in Worker, Prepares(w)
      PROVE  OwnCarry'
  <2>1. out' = [out EXCEPT ![w] = out'[w]] /\ out'[w].kind # "claim"
    <3>1. NoEntry.kind # "claim" /\ \A c, x : Outcome(c, x).kind # "claim"
      BY Zenon DEF NoEntry, Outcome
    <3>2. SkipEntry(w).kind # "claim" /\ ReleasedEntry(w).kind # "claim"
      BY Zenon, <3>1 DEF SkipEntry, ReleasedEntry, Restored
    <3>3. PICK e : Writes(w, e) /\ e.kind # "claim"
      <4>1. CASE PrepareUnseen(w)  BY Zenon, <3>1, <4>1 DEF PrepareUnseen
      <4>2. CASE PrepareFull(w)    BY Zenon, <3>1, <4>2 DEF PrepareFull
      <4>3. CASE PrepareSkip(w)    BY Zenon, <3>2, <4>3 DEF PrepareSkip
      <4>4. CASE PrepareRelease(w) BY Zenon, <3>2, <4>4 DEF PrepareRelease
      <4> QED BY Zenon, <1>4, <4>1, <4>2, <4>3, <4>4 DEF Prepares
    <3> QED BY Zenon, <3>3 DEF Writes, TypeOK
  <2>2. UNCHANGED <<slot, nonce, held>>
    BY Zenon, <1>4 DEF Prepares, PrepareUnseen, PrepareFull, PrepareSkip, PrepareRelease, slotVars
  <2> QED BY Zenon, <2>1, <2>2 DEF TypeOK
<1>5. ASSUME NEW w \in Worker, Moves(w)
      PROVE  OwnCarry'
  BY Zenon, <1>5 DEF Moves
<1>6. CASE Waits
  BY Zenon, <1>6 DEF Waits
<1> QED BY Zenon, <1>1, <1>2, <1>3, <1>4, <1>5, <1>6, Effects

\* A write that is prepared protects at least as much as what was read.
LEMMA PreparedHold ==
    ASSUME HoldInv, NEW w \in Worker, Prepares(w)
    PROVE  /\ out'[w] = NoEntry \/ out'[w].kind = "outcome"
           /\ FencingClass(view'[w]) <= out'[w].class
<1> USE DEF HoldInv
<1>0. /\ Live \in Entry /\ view[w] \in Entry /\ acted[w] \in Class /\ nonce[w] \in Nat
      /\ held[w] \in Class /\ now \in Nat
  BY Zenon, EntryTypes DEF TypeOK
<1>1. CASE PrepareUnseen(w)
  BY <1>0, <1>1 DEF PrepareUnseen, Writes, Outcome, FencingClass, CarriedClass, TypeOK,
     Entry, Carry, Class, None, Permanent
<1>2. CASE PrepareFull(w)
  <2>1. view'[w] = Live /\ out'[w] = Outcome(acted[w], now + TTL)
    BY Zenon, <1>2 DEF PrepareFull, Looked, Writes, TypeOK
  <2>2. ~FencesWrite(Live, acted[w], nonce[w]) /\ acted[w] > held[w]
    BY Zenon, <1>2 DEF PrepareFull, PhaseInv, PhaseOK
  <2>3. Owns(Live, nonce[w]) => Live.carry.class <= held[w]
    BY Zenon DEF Owns, Live, NoEntry, OwnCarry
  <2>4. FencingClass(Live) <= acted[w]
    BY <1>0, <2>2, <2>3 DEF FencesWrite, FencingClass, CarriedClass, Owns, Entry, Carry,
       Class, None, Permanent
  <2> QED BY <2>1, <2>4 DEF Outcome
<1>3. CASE PrepareSkip(w)
  <2>1. view'[w] = Live /\ out'[w] = SkipEntry(w) /\ ~FencesWrite(Live, None, nonce[w])
    BY Zenon, <1>3 DEF PrepareSkip, Looked, Writes, TypeOK
  <2> QED BY <1>0, <2>1 DEF SkipEntry, Restorable, Restored, Outcome, FencesWrite, FencingClass,
       CarriedClass, Owns, Entry, Carry, Class, None, Permanent
<1>4. CASE PrepareRelease(w)
  <2>1. view'[w] = Live /\ out'[w] = ReleasedEntry(w) /\ Releases(w)
    BY Zenon, <1>4 DEF PrepareRelease, Looked, Writes, TypeOK
  <2> QED BY <1>0, <2>1 DEF ReleasedEntry, Releases, Restorable, Restored, Outcome,
       FencingClass, CarriedClass, Owns, NoEntry, NoCarry, Entry, Carry, Class, None, Permanent
<1> QED BY Zenon, <1>1, <1>2, <1>3, <1>4 DEF Prepares

\* What a decision read protects no more as time passes.
LEMMA FencingFades ==
    ASSUME TypeOK, now' \in {now, now + 1}, NEW e \in Entry
    PROVE  FencingClass(e)' <= FencingClass(e)
BY DEF FencingClass, CarriedClass, TypeOK, Entry, Carry, Class, None, Permanent

LEMMA PhaseStep ==
    ASSUME HoldInv, TypeOK', [Next]_vars
    PROVE  PhaseInv'
<1> USE DEF HoldInv, PhaseInv
<1>0. ASSUME NEW v \in Worker, now' \in {now, now + 1}, out'[v] = out[v], view'[v] = view[v],
             FencingClass(view[v]) <= out[v].class
      PROVE  FencingClass(view[v])' <= out'[v].class
  <2>1. view[v] \in Entry /\ out[v].class \in Class
    BY Zenon DEF TypeOK, Entry
  <2>2. ASSUME NEW e \in Entry, e = view[v]
        PROVE  FencingClass(e)' <= out[v].class
    <3>1. FencingClass(e)' <= FencingClass(e)
      BY Zenon, <1>0, FencingFades
    <3>2. FencingClass(e) \in Class /\ FencingClass(e)' \in Class
      BY DEF FencingClass, CarriedClass, Entry, Carry, Class, None, Permanent
    <3> QED BY <1>0, <2>1, <2>2, <3>1, <3>2 DEF Class, None, Permanent
  <2> QED BY Zenon, <1>0, <2>1, <2>2
<1>1. ASSUME NEW v \in Worker, now' \in {now, now + 1}, pc'[v] = pc[v], nonce'[v] = nonce[v],
             out'[v] = out[v], view'[v] = view[v], acted'[v] = acted[v], held'[v] = held[v]
      PROVE  PhaseOK(v)'
  <2>1. PhaseOK(v)
    BY Zenon
  <2>2. DisplacedBy(view[v])' = DisplacedBy(view'[v])
    BY Zenon DEF DisplacedBy, NoCarry
  <2> QED BY Zenon, <1>0, <1>1, <2>1, <2>2 DEF PhaseOK, DisplacedBy
<1>2. ASSUME NEW w \in Worker, Ends(w)
      PROVE  PhaseInv'
  <2>1. PhaseOK(w)'
    BY Zenon, <1>2 DEF Ends, Done, Goto, PhaseOK, TypeOK
  <2>2. \A v \in Worker \ {w} : PhaseOK(v)'
    BY <1>1, <1>2 DEF Ends, Done, Goto, TypeOK
  <2> QED BY Zenon, <2>1, <2>2
<1>3. ASSUME NEW w \in Worker, Check(w)
      PROVE  PhaseInv'
  <2>1. PhaseOK(w)'
    BY Zenon, <1>3 DEF Check, Looked, Writes, Goto, PhaseOK, TypeOK, Placeholder, DisplacedBy
  <2>2. \A v \in Worker \ {w} : PhaseOK(v)'
    BY Zenon, <1>1, <1>3 DEF Check, Looked, Writes, Goto, slotVars, TypeOK
  <2> QED BY Zenon, <2>1, <2>2
<1>4. ASSUME NEW w \in Worker, Stores(w)
      PROVE  PhaseInv'
  <2>1. PhaseOK(w)'
    BY Zenon, <1>4 DEF Stores, PhaseOK
  <2>2. \A v \in Worker \ {w} : PhaseOK(v)'
    BY Zenon, <1>1, <1>4 DEF Stores, TypeOK
  <2> QED BY Zenon, <2>1, <2>2
<1>5. ASSUME NEW w \in Worker, Prepares(w)
      PROVE  PhaseInv'
  <2>1. pc' = [pc EXCEPT ![w] = "put"] /\ UNCHANGED <<now, nonce, held, acted>>
    BY Zenon, <1>5 DEF Prepares, PrepareUnseen, PrepareFull, PrepareSkip, PrepareRelease, Goto, slotVars
  <2>2. /\ out' = [out EXCEPT ![w] = out'[w]]
        /\ view' = [view EXCEPT ![w] = view'[w]]
    BY Zenon, <1>5 DEF Prepares, PrepareUnseen, PrepareFull, PrepareSkip, PrepareRelease, Writes, Looked,
       TypeOK
  <2>3. PhaseOK(w)'
    <3>1. FencingClass(view[w])' = FencingClass(view'[w])
      BY Zenon, <2>1 DEF FencingClass, CarriedClass
    <3> QED BY Zenon, <1>5, <2>1, <3>1, PreparedHold DEF PhaseOK, TypeOK
  <2>4. \A v \in Worker \ {w} : PhaseOK(v)'
    BY Zenon, <1>1, <2>1, <2>2 DEF TypeOK
  <2> QED BY Zenon, <2>3, <2>4
<1>6. ASSUME NEW w \in Worker, Moves(w)
      PROVE  PhaseInv'
  <2>1. PhaseOK(w)'
    BY Zenon, <1>6 DEF Moves, PhaseOK
  <2>2. \A v \in Worker \ {w} : PhaseOK(v)'
    BY Zenon, <1>1, <1>6 DEF Moves, TypeOK
  <2> QED BY Zenon, <2>1, <2>2
<1>7. CASE Waits
  BY Zenon, <1>1, <1>7 DEF Waits
<1> QED BY Zenon, <1>2, <1>3, <1>4, <1>5, <1>6, <1>7, Effects

LEMMA HoldInvHolds == Spec => []HoldInv
<1>1. Init => HoldInv
  <2> SUFFICES ASSUME Init PROVE HoldInv
    BY Zenon
  <2>1. EntryInv /\ OwnCarry /\ PhaseInv
    BY DEF Init, EntryInv, EntryOK, OwnCarry, PhaseInv, PhaseOK, NoEntry, None
  <2> QED BY Zenon, <2>1, TypeInit DEF HoldInv
<1>2. HoldInv /\ TypeOK' /\ [Next]_vars => HoldInv'
  BY Zenon, EntryStep, OwnCarryStep, PhaseStep DEF HoldInv
<1> QED BY <1>1, <1>2, TypeCorrect, PTL DEF Spec

\* The hold a claim carries is weaker than the claim and ends no later.
THEOREM CarryHolds == Spec => []CarryInside
<1>1. HoldInv => CarryInside
  BY Zenon DEF HoldInv, EntryInv, EntryOK, CarryInside
<1> QED BY <1>1, HoldInvHolds, PTL

\* The slot's protection is lowered only by a write that raced with another
\* one or arrived after its own deadline.
THEOREM HoldsKept == Spec => HoldKept
<1> DEFINE A == FencingClass(LiveAt(slot')) < FencingClass(Live)
                   => \E w \in Worker : RacesOrLate(w)
<1>1. HoldInv /\ [Next]_vars => [A]_vars
  <2> SUFFICES ASSUME HoldInv, [Next]_vars, ~(\E w \in Worker : RacesOrLate(w))
               PROVE  ~(FencingClass(LiveAt(slot')) < FencingClass(Live))
    BY Zenon
  <2> USE DEF HoldInv
  <2>0. /\ Live \in Entry /\ slot \in Entry /\ now \in Nat /\ NoEntry \in Entry
        /\ \A e \in Entry : FencingClass(e) \in Class
    <3>1. \A e \in Entry : FencingClass(e) \in Class
      BY DEF FencingClass, CarriedClass, Entry, Carry, Class, None, Permanent
    <3> QED BY Zenon, <3>1, EntryTypes DEF TypeOK
  <2>1. CASE slot' = slot
    BY <2>0, <2>1 DEF LiveAt, Live, Class, None, Permanent
  <2>2. ASSUME NEW w \in Worker, slot' = out[w], pc[w] = "claim"
        PROVE  ~(FencingClass(LiveAt(slot')) < FencingClass(Live))
    <3>1. view[w] = Live /\ (out[w] = NoEntry \/ ~(out[w].exp <= now))
      BY Zenon, <2>2 DEF RacesOrLate
    <3>2. out[w].kind = "claim" /\ out[w].carry = DisplacedBy(Live)
      BY Zenon, <2>2, <3>1 DEF PhaseInv, PhaseOK
    <3>3. out[w] \in Entry /\ LiveAt(slot') = out[w]
      BY <2>0, <2>2, <3>1, <3>2 DEF LiveAt, TypeOK, NoEntry, Entry
    <3>4. Live.kind = "outcome" /\ Live.class > None => Live.exp > now
      BY Zenon, <2>0 DEF Live, NoEntry
    <3> QED BY <2>0, <3>2, <3>3, <3>4 DEF FencingClass, CarriedClass, DisplacedBy, NoCarry,
         Entry, Carry, Class, None, Permanent
  <2>3. ASSUME NEW w \in Worker, slot' = out[w], pc[w] = "put"
        PROVE  ~(FencingClass(LiveAt(slot')) < FencingClass(Live))
    <3>1. view[w] = Live /\ (out[w] = NoEntry \/ ~(out[w].exp <= now))
      BY Zenon, <2>3 DEF RacesOrLate
    <3>2. /\ out[w] = NoEntry \/ out[w].kind = "outcome"
          /\ FencingClass(Live) <= out[w].class
      BY Zenon, <2>3, <3>1 DEF PhaseInv, PhaseOK
    <3>3. out[w] \in Entry /\ LiveAt(slot') = out[w]
      BY <2>0, <2>3, <3>1 DEF LiveAt, TypeOK, Entry
    <3>4. FencingClass(out[w]) = out[w].class
      BY <3>2 DEF FencingClass, CarriedClass, NoEntry
    <3> QED BY <2>0, <3>2, <3>3, <3>4 DEF Class, None, Permanent
  <2>4. slot' = slot \/ \E w \in Worker : slot' = out[w] /\ pc[w] \in {"claim", "put"}
    BY Zenon DEF Next, TryInsert, Enforce, WriteOutcome, Receive, Duplicate, Check, CheckFails, Claim,
       ClaimFails, Verify, ClaimLost, VerifyFails, Act, Skip, Release, Retry, Crash,
       PrepareUnseen, PrepareFull, PrepareSkip, Fenced, PrepareRelease, LeaveInPlace, ViewFails,
       Put, PutFails, Tick, slotVars, vars
  <2> QED BY Zenon, <2>1, <2>2, <2>3, <2>4
<1> QED BY <1>1, HoldInvHolds, PTL DEF HoldKept, Spec

-----------------------------------------------------------------------------
(* Without failed store calls: every claim has an owner under way, and       *)
(* decisions that follow one another enforce in increasing order of class   *)
(* within the TTL.                                                          *)

\* The steps of a worker that involve no failure.
CleanStep(w) ==
    \/ Receive(w) \/ Duplicate(w) \/ Check(w) \/ Claim(w) \/ Verify(w) \/ ClaimLost(w)
    \/ Act(w) \/ Skip(w) \/ Release(w) \/ Retry(w)
    \/ Prepares(w) \/ Fenced(w) \/ LeaveInPlace(w) \/ Put(w)

LEMMA CleanEffects ==
    ASSUME TypeOK, [Next]_vars, faults' = 0
    PROVE  /\ faults = 0
           /\ (\E w \in Worker : CleanStep(w)) \/ Tick \/ UNCHANGED vars
<1>1. ~Fault
  BY DEF Fault, TypeOK
<1>2. ASSUME NEW w \in Worker, TryInsert(w) \/ Enforce(w) \/ WriteOutcome(w)
      PROVE  CleanStep(w)
  BY Zenon, <1>1, <1>2 DEF TryInsert, Enforce, WriteOutcome, CleanStep, Prepares, CheckFails, ClaimFails,
     VerifyFails, Crash, ViewFails, PutFails
<1>3. ASSUME NEW w \in Worker, CleanStep(w)
      PROVE  faults' = faults
  BY Zenon, <1>3 DEF CleanStep, Receive, Duplicate, Check, Claim, Verify, ClaimLost, Act, Skip, Release,
     Retry, Prepares, PrepareUnseen, PrepareFull, PrepareSkip, PrepareRelease, Fenced,
     LeaveInPlace, Put, hist
<1>4. Tick => faults' = faults
  BY Zenon DEF Tick, hist
<1>5. UNCHANGED vars => faults' = faults
  BY Zenon DEF vars
<1> QED BY Zenon, <1>2, <1>3, <1>4, <1>5 DEF Next

-----------------------------------------------------------------------------
(* Claims have owners *)

\* A decision that ends leaves no claim of its own in the slot.
LEMMA EndsClean ==
    ASSUME HoldInv, NEW w \in Worker,
           Duplicate(w) \/ ClaimLost(w) \/ Fenced(w) \/ LeaveInPlace(w)
    PROVE  Live.kind = "claim" => Live.nonce # nonce[w]
<1> SUFFICES ASSUME Live.kind = "claim"
             PROVE  Live.nonce # nonce[w]
  BY Zenon
<1>1. Live = slot /\ Live.nonce > 0 /\ Live.nonce \in Nat /\ nonce[w] \in Nat
  BY Zenon DEF HoldInv, EntryInv, EntryOK, Live, NoEntry, TypeOK, Entry
<1>2. CASE Duplicate(w)
  BY <1>1, <1>2 DEF Duplicate, HoldInv, PhaseInv, PhaseOK
<1>3. CASE ClaimLost(w)
  BY Zenon, <1>3 DEF ClaimLost, Verified
<1>4. CASE Fenced(w)
  BY <1>1, <1>4 DEF Fenced, FencesWrite, Owns
<1>5. CASE LeaveInPlace(w)
  BY <1>1, <1>5 DEF LeaveInPlace, Releases, Owns
<1> QED BY Zenon, <1>2, <1>3, <1>4, <1>5

LEMMA OwnerStep ==
    ASSUME HoldInv, NoAbandonedClaim, TypeOK', [Next]_vars
    PROVE  NoAbandonedClaim'
<1> USE DEF HoldInv
<1> SUFFICES ASSUME faults' = 0, Live'.kind = "claim"
             PROVE  \E v \in Worker : pc'[v] # "idle" /\ nonce'[v] = Live'.nonce
  BY Zenon DEF NoAbandonedClaim
<1>0. now \in Nat /\ now' \in Nat /\ slot.exp \in Nat
  BY Zenon DEF TypeOK, Entry
<1>1. ASSUME slot' = slot, now' \in {now, now + 1}
      PROVE  /\ Live' = Live
             /\ \E v \in Worker : pc[v] # "idle" /\ nonce[v] = Live.nonce
  <2>1. Live' = Live
    BY <1>0, <1>1 DEF Live, NoEntry
  <2> QED BY Zenon, <2>1, CleanEffects DEF NoAbandonedClaim
<1>2. ASSUME NEW w \in Worker, CleanStep(w)
      PROVE  \E v \in Worker : pc'[v] # "idle" /\ nonce'[v] = Live'.nonce
  <2>1. CASE Duplicate(w) \/ ClaimLost(w) \/ Fenced(w) \/ LeaveInPlace(w)
    <3>1. slot' = slot /\ now' = now /\ Done(w)
      BY Zenon, <2>1 DEF Duplicate, ClaimLost, Fenced, LeaveInPlace, slotVars
    <3>2. PICK v \in Worker : pc[v] # "idle" /\ nonce[v] = Live.nonce
      BY Zenon, <1>1, <3>1
    <3>3. v # w /\ Live' = Live
      BY Zenon, <1>1, <2>1, <3>1, <3>2, EndsClean
    <3> QED BY Zenon, <3>1, <3>2, <3>3 DEF Done, Goto, TypeOK
  <2>2. CASE Put(w)
    <3>1. slot' = out[w] /\ (out[w] = NoEntry \/ out[w].kind = "outcome")
      BY Zenon, <2>2 DEF Put, PhaseInv, PhaseOK
    <3>2. Live'.kind # "claim"
      BY <3>1 DEF Live, NoEntry
    <3> QED BY Zenon, <3>2
  <2>3. CASE Claim(w)
    <3>1. slot' = out[w] /\ out[w].nonce = nonce[w] /\ pc'[w] # "idle" /\ nonce' = nonce
      BY Zenon, <2>3 DEF Claim, Goto, PhaseInv, PhaseOK, local, TypeOK
    <3>2. Live' = slot'
      BY Zenon DEF Live, NoEntry
    <3> QED BY Zenon, <3>1, <3>2
  <2>4. CASE Check(w)
    <3>1. slot' = slot /\ now' = now
      BY Zenon, <2>4 DEF Check, slotVars
    <3>2. PICK v \in Worker : pc[v] # "idle" /\ nonce[v] = Live.nonce
      BY Zenon, <1>1, <3>1
    <3>3. Live.nonce > 0
      BY Zenon, <1>1, <3>1 DEF Live, NoEntry, EntryInv, EntryOK
    <3>4. v # w
      BY <2>4, <3>2, <3>3 DEF Check, PhaseInv, PhaseOK
    <3> QED BY Zenon, <1>1, <2>4, <3>1, <3>2, <3>4 DEF Check, Goto, TypeOK
  <2>5. CASE Receive(w) \/ Verify(w) \/ Act(w) \/ Skip(w) \/ Release(w) \/ Retry(w) \/ Prepares(w)
    <3>1. slot' = slot /\ now' = now /\ nonce' = nonce
      BY Zenon, <2>5 DEF Receive, Verify, Act, Skip, Release, Retry, Prepares, PrepareUnseen, PrepareFull,
         PrepareSkip, PrepareRelease, slotVars, local
    <3>2. pc' = [pc EXCEPT ![w] = pc'[w]] /\ pc'[w] # "idle"
      BY Zenon, <2>5 DEF Receive, Verify, Act, Skip, Release, Retry, Prepares, PrepareUnseen, PrepareFull,
         PrepareSkip, PrepareRelease, Goto, TypeOK
    <3> QED BY Zenon, <1>1, <3>1, <3>2 DEF TypeOK
  <2> QED BY Zenon, <1>2, <2>1, <2>2, <2>3, <2>4, <2>5 DEF CleanStep
<1>3. CASE Tick
  BY Zenon, <1>1, <1>3 DEF Tick, local
<1>4. CASE UNCHANGED vars
  BY Zenon, <1>1, <1>4 DEF vars
<1> QED BY Zenon, <1>2, <1>3, <1>4, CleanEffects

\* Without failed store calls and crashes, a live claim belongs to a decision
\* that is still under way.
THEOREM ClaimsOwned == Spec => []NoAbandonedClaim
<1>1. Init => NoAbandonedClaim
  BY DEF Init, NoAbandonedClaim, Live, NoEntry
<1> QED BY <1>1, OwnerStep, HoldInvHolds, TypeCorrect, PTL DEF Spec

-----------------------------------------------------------------------------
(* Decisions that follow one another *)

\* No enforcement is remembered for longer than a TTL from now.
UntilBound == \A c \in ActedClass : until[c] <= now + TTL

\* An outcome that speaks for every enforcement of the last TTL.
Covered(e) ==
    \A c \in ActedClass : until[c] > now =>
        e.kind = "outcome" /\ e.class >= c /\ e.exp >= until[c]

\* A claim whose carry does.
CarryCovers(e) ==
    \A c \in ActedClass : until[c] > now => e.carry.class >= c /\ e.carry.exp >= until[c]

HeldCovers(w) == \A c \in ActedClass : until[c] > now => c <= held[w]
ActedCovers(w) == \A c \in ActedClass : until[c] > now => c <= acted[w]

OwnSlot(w) == slot.kind = "claim" /\ slot.nonce = nonce[w] /\ nonce[w] # 0

SerialOK(w) ==
    /\ pc[w] = "check" => Covered(slot)
    /\ pc[w] = "claim" => CarryCovers(out[w]) /\ HeldCovers(w)
    /\ pc[w] \in {"verify", "decide", "skip", "release"} =>
            OwnSlot(w) /\ CarryCovers(slot) /\ HeldCovers(w)
    /\ pc[w] = "full" => OwnSlot(w) /\ ActedCovers(w)
    /\ pc[w] = "put" => Covered(out[w])

SerialInv ==
    serial /\ faults = 0 =>
        /\ \A v, w \in Worker : pc[v] # "idle" /\ pc[w] # "idle" => v = w
        /\ (\A w \in Worker : pc[w] = "idle") => Covered(slot)
        /\ \A w \in Worker : SerialOK(w)

LEMMA UntilStep ==
    ASSUME TypeOK, UntilBound, [Next]_vars
    PROVE  UntilBound'
<1>0. now \in Nat /\ TTL \in Nat /\ \A c \in ActedClass : until[c] \in Nat
  BY Zenon, DedupAssumption DEF TypeOK
<1>1. ASSUME NEW w \in Worker, Act(w)
      PROVE  UntilBound'
  BY <1>0, <1>1 DEF Act, UntilBound, slotVars, TypeOK
<1>2. CASE until' = until /\ now' \in {now, now + 1}
  BY <1>0, <1>2 DEF UntilBound
<1>3. ASSUME NEW w \in Worker, TryInsert(w)
      PROVE  until' = until /\ now' = now
  <2>1. CASE Receive(w) \/ Duplicate(w) \/ Check(w)
    BY Zenon, <2>1 DEF Receive, Duplicate, Check, slotVars, hist
  <2>2. CASE CheckFails(w) \/ Claim(w) \/ ClaimFails(w)
    BY Zenon, <2>2 DEF CheckFails, Claim, ClaimFails, slotVars, hist
  <2>3. CASE Verify(w) \/ ClaimLost(w) \/ VerifyFails(w)
    BY Zenon, <2>3 DEF Verify, ClaimLost, VerifyFails, slotVars, hist
  <2>. QED BY Zenon, <1>3, <2>1, <2>2, <2>3 DEF TryInsert
<1>4. ASSUME NEW w \in Worker, Enforce(w)
      PROVE  Act(w) \/ (until' = until /\ now' = now)
  <2>1. CASE Skip(w) \/ Release(w)
    BY Zenon, <2>1 DEF Skip, Release, slotVars, hist
  <2>2. CASE Retry(w) \/ Crash(w)
    BY Zenon, <2>2 DEF Retry, Crash, slotVars, hist
  <2>. QED BY Zenon, <1>4, <2>1, <2>2 DEF Enforce
<1>5. ASSUME NEW w \in Worker, WriteOutcome(w)
      PROVE  until' = until /\ now' = now
  <2>1. CASE PrepareUnseen(w) \/ PrepareFull(w) \/ PrepareSkip(w)
    BY Zenon, <2>1 DEF PrepareUnseen, PrepareFull, PrepareSkip, slotVars, hist
  <2>2. CASE Fenced(w) \/ PrepareRelease(w) \/ LeaveInPlace(w)
    BY Zenon, <2>2 DEF Fenced, PrepareRelease, LeaveInPlace, slotVars, hist
  <2>3. CASE ViewFails(w) \/ Put(w) \/ PutFails(w)
    BY Zenon, <2>3 DEF ViewFails, Put, PutFails, slotVars, hist
  <2>. QED BY Zenon, <1>5, <2>1, <2>2, <2>3 DEF WriteOutcome
<1>6. CASE Tick
  BY Zenon, <1>2, <1>6 DEF Tick, hist
<1>7. CASE UNCHANGED vars
  BY Zenon, <1>2, <1>7 DEF vars, slotVars, hist
<1> QED BY Zenon, <1>1, <1>2, <1>3, <1>4, <1>5, <1>6, <1>7 DEF Next

\* When one decision is under way, a step of it is all that has to be checked.
LEMMA SerialReduce ==
    ASSUME SerialInv, serial, faults = 0, TypeOK, NEW w \in Worker,
           \A v \in Worker \ {w} : pc[v] = "idle",
           pc' = [pc EXCEPT ![w] = pc'[w]],
           SerialOK(w)', pc'[w] = "idle" => Covered(slot)'
    PROVE  SerialInv'
<1>1. \A v \in Worker \ {w} : pc'[v] = "idle"
  BY Zenon DEF TypeOK
<1>2. \A v \in Worker \ {w} : SerialOK(v)'
  BY Zenon, <1>1 DEF SerialOK
<1> QED BY Zenon, <1>1, <1>2 DEF SerialInv

\* The own claim a decision finds when it ends, or what became of it.
LEMMA OwnOrGone ==
    ASSUME HoldInv, NEW w \in Worker, OwnSlot(w), CarryCovers(slot)
    PROVE  \/ Live = slot /\ Owns(Live, nonce[w])
           \/ Live = NoEntry /\ \A c \in ActedClass : ~(until[c] > now)
<1>1. CASE slot.exp > now
  BY Zenon, <1>1 DEF Live, Owns, OwnSlot
<1>2. CASE ~(slot.exp > now)
  <2>1. slot.carry.exp <= slot.exp /\ slot.exp \in Nat /\ slot.carry.exp \in Nat /\ now \in Nat
    BY Zenon DEF OwnSlot, HoldInv, EntryInv, EntryOK, TypeOK, Entry, Carry
  <2>2. \A c \in ActedClass : until[c] \in Nat
    BY Zenon DEF HoldInv, TypeOK
  <2> QED BY <1>2, <2>1, <2>2 DEF Live, CarryCovers
<1> QED BY Zenon, <1>1, <1>2

\* The write a decision prepares speaks for every recent enforcement.
LEMMA PreparedCovers ==
    ASSUME HoldInv, UntilBound, NEW w \in Worker, SerialOK(w), Prepares(w)
    PROVE  Covered(out'[w])
<1> USE DEF HoldInv
<1>0. /\ now \in Nat /\ TTL \in Nat /\ acted[w] \in Class /\ slot \in Entry
      /\ \A c \in ActedClass : until[c] \in Nat /\ c \in Nat
  BY DedupAssumption DEF TypeOK, ActedClass, Class, None, Permanent
<1>1. CASE PrepareUnseen(w) \/ PrepareFull(w)
  <2>1. out'[w] = Outcome(acted[w], now + TTL) /\ pc[w] = "full"
    BY Zenon, <1>1 DEF PrepareUnseen, PrepareFull, Writes, TypeOK
  <2>2. ActedCovers(w)
    BY Zenon, <2>1 DEF SerialOK
  <2> QED BY <1>0, <2>1, <2>2 DEF ActedCovers, Covered, Outcome, UntilBound, Class, None, Permanent
<1>2. CASE PrepareSkip(w) \/ PrepareRelease(w)
  <2>1. pc[w] \in {"skip", "release"} /\ out'[w] \in {SkipEntry(w), ReleasedEntry(w)}
    BY Zenon, <1>2 DEF PrepareSkip, PrepareRelease, Writes, TypeOK
  <2>2. OwnSlot(w) /\ CarryCovers(slot)
    BY Zenon, <2>1 DEF SerialOK
  <2>3. CASE \A c \in ActedClass : ~(until[c] > now)
    BY Zenon, <2>3 DEF Covered
  <2>4. CASE Live = slot /\ Owns(Live, nonce[w]) /\ slot.carry.exp > now
    <3>1. out'[w] = Restored(slot)
      BY Zenon, <2>1, <2>4 DEF SkipEntry, ReleasedEntry, Restorable
    <3> QED BY <2>2, <3>1 DEF Restored, Outcome, CarryCovers, Covered
  <2>5. CASE ~(slot.carry.exp > now)
    BY <1>0, <2>2, <2>5 DEF CarryCovers, Covered, Entry, Carry
  <2> QED BY Zenon, <2>2, <2>3, <2>4, <2>5, OwnOrGone
<1> QED BY Zenon, <1>1, <1>2 DEF Prepares

\* Claiming the slot remembers what it held.
LEMMA CheckCovers ==
    ASSUME HoldInv, NEW w \in Worker, Covered(slot), Check(w)
    PROVE  CarryCovers(out'[w]) /\ \A c \in ActedClass : until[c] > now => c <= held'[w]
<1>1. out'[w].carry = DisplacedBy(Live) /\ held'[w] = Live.class
  BY Zenon DEF Check, Writes, Placeholder, HoldInv, TypeOK
<1>2. ASSUME NEW c \in ActedClass, until[c] > now
      PROVE  /\ Live.kind = "outcome" /\ Live.class >= c /\ Live.exp >= until[c]
             /\ Live.class > None
  <2>1. slot.kind = "outcome" /\ slot.class >= c /\ slot.exp >= until[c]
    BY Zenon, <1>2 DEF Covered
  <2>2. /\ now \in Nat /\ until[c] \in Nat /\ slot.exp \in Nat /\ c \in Nat /\ c > None
        /\ slot.class \in Nat
    BY DEF HoldInv, TypeOK, Entry, ActedClass, Class, None, Permanent
  <2> QED BY <1>2, <2>1, <2>2 DEF Live, None
<1>3. \A c \in ActedClass : Live.class \in Nat /\ c \in Nat
  <2>1. Live \in Entry
    BY Zenon, EntryTypes DEF HoldInv
  <2> QED BY <2>1 DEF Entry, ActedClass, Class, None, Permanent
<1> QED BY <1>1, <1>2, <1>3 DEF CarryCovers, DisplacedBy

LEMMA SerialStep ==
    ASSUME HoldInv, UntilBound, SerialInv, TypeOK', [Next]_vars
    PROVE  SerialInv'
<1> USE DEF HoldInv
<1> SUFFICES ASSUME serial', faults' = 0
             PROVE  SerialInv'
  BY Zenon DEF SerialInv
<1>0. faults = 0
  BY Zenon, CleanEffects
<1>1. ASSUME NEW w \in Worker, CleanStep(w)
      PROVE  SerialInv'
  <2>1. CASE Receive(w)
    <3>1. serial /\ \A v \in Worker : pc[v] = "idle"
      BY Zenon, <2>1 DEF Receive
    <3>2. Covered(slot)
      BY Zenon, <1>0, <3>1 DEF SerialInv
    <3>3. pc' = [pc EXCEPT ![w] = "check"] /\ UNCHANGED <<now, slot, until>>
      BY Zenon, <2>1 DEF Receive, Goto, slotVars
    <3>4. Covered(slot)'
      BY Zenon, <3>2, <3>3 DEF Covered
    <3>5. SerialOK(w)' /\ pc'[w] = "check"
      BY Zenon, <3>3, <3>4 DEF SerialOK, TypeOK
    <3> QED BY Zenon, <1>0, <3>1, <3>3, <3>5, SerialReduce
  <2>2. CASE ~Receive(w)
    <3>1. serial /\ pc[w] # "idle" /\ pc' = [pc EXCEPT ![w] = pc'[w]] /\ now' = now
      BY Zenon, <1>1, <2>2 DEF CleanStep, Duplicate, Check, Claim, Verify, ClaimLost, Act, Skip, Release,
         Retry, Prepares, PrepareUnseen, PrepareFull, PrepareSkip, PrepareRelease, Fenced,
         LeaveInPlace, Put, Done, Goto, slotVars, hist, TypeOK
    <3>2. SerialOK(w) /\ \A v \in Worker \ {w} : pc[v] = "idle"
      BY Zenon, <1>0, <3>1 DEF SerialInv
    <3> SUFFICES SerialOK(w)' /\ (pc'[w] = "idle" => Covered(slot)')
      BY Zenon, <1>0, <3>1, <3>2, SerialReduce
    <3>3. CASE Duplicate(w)
      BY Zenon, <3>2, <3>3 DEF Duplicate, Done, Goto, SerialOK, Covered, slotVars, hist, TypeOK
    <3>4. CASE Check(w)
      <4>1. CarryCovers(out'[w]) /\ \A c \in ActedClass : until[c] > now => c <= held'[w]
        BY Zenon, <3>2, <3>4, CheckCovers DEF SerialOK, Check
      <4>2. CarryCovers(out[w])' /\ HeldCovers(w)' /\ pc'[w] = "claim"
        BY Zenon, <3>4, <4>1 DEF Check, Goto, CarryCovers, HeldCovers, slotVars, TypeOK
      <4> QED BY Zenon, <4>2 DEF SerialOK
    <3>5. CASE Claim(w)
      <4>1. /\ slot' = out[w] /\ pc'[w] \in {"decide", "verify"}
            /\ UNCHANGED <<until, held, nonce, now>>
        BY Zenon, <3>5 DEF Claim, Goto, local, hist, TypeOK
      <4>2. OwnSlot(w)'
        <5>1. out[w].kind = "claim" /\ out[w].nonce = nonce[w]
          BY Zenon, <3>5 DEF Claim, PhaseInv, PhaseOK
        <5>2. out[w].nonce > 0
          BY Zenon, <5>1 DEF EntryInv, EntryOK
        <5>3. nonce[w] # 0
          BY <5>1, <5>2
        <5> QED BY Zenon, <4>1, <5>1, <5>3 DEF OwnSlot
      <4>3. CarryCovers(slot)' /\ HeldCovers(w)'
        BY Zenon, <3>2, <3>5, <4>1 DEF Claim, SerialOK, CarryCovers, HeldCovers
      <4> QED BY Zenon, <4>1, <4>2, <4>3 DEF SerialOK
    <3>6. CASE Verify(w) \/ Skip(w) \/ Release(w) \/ Retry(w)
      <4>1. /\ pc[w] \in {"verify", "decide"} /\ pc'[w] \in {"decide", "skip", "release"}
            /\ UNCHANGED <<slot, until, held, nonce, now>>
        BY Zenon, <3>6 DEF Verify, Skip, Release, Retry, Goto, local, hist, slotVars, TypeOK
      <4>2. OwnSlot(w)' /\ CarryCovers(slot)' /\ HeldCovers(w)'
        BY Zenon, <3>2, <4>1 DEF SerialOK, OwnSlot, CarryCovers, HeldCovers
      <4> QED BY Zenon, <4>1, <4>2 DEF SerialOK
    <3>7. CASE ClaimLost(w)
      <4>1. OwnSlot(w) /\ CarryCovers(slot)
        BY Zenon, <3>2, <3>7 DEF ClaimLost, SerialOK
      <4>2. \A c \in ActedClass : ~(until[c] > now)
        BY Zenon, <3>7, <4>1, OwnOrGone DEF ClaimLost, Verified, OwnSlot
      <4>3. Covered(slot)' /\ pc'[w] = "idle"
        BY Zenon, <3>7, <4>2 DEF ClaimLost, Done, Goto, Covered, slotVars, hist, TypeOK
      <4> QED BY Zenon, <4>3 DEF SerialOK
    <3>8. CASE Act(w)
      <4>1. PICK c \in ActedClass : /\ c > held[w] /\ acted' = [acted EXCEPT ![w] = c]
                                    /\ until' = [until EXCEPT ![c] = now + TTL]
        BY Zenon, <3>8 DEF Act, MayAct
      <4>2. OwnSlot(w) /\ HeldCovers(w) /\ pc'[w] = "full" /\ UNCHANGED <<slot, nonce>>
        BY Zenon, <3>2, <3>8 DEF Act, Goto, SerialOK, slotVars, TypeOK
      <4>3. ActedCovers(w)'
        <5>1. held[w] \in Nat /\ \A d \in ActedClass : d \in Nat
          BY DEF TypeOK, ActedClass, Class, None, Permanent
        <5>2. acted'[w] = c
          BY Zenon, <4>1 DEF TypeOK
        <5>3. ASSUME NEW d \in ActedClass, until'[d] > now
              PROVE  d <= c
          BY <4>1, <4>2, <5>1, <5>3 DEF HeldCovers, TypeOK
        <5> QED BY Zenon, <3>1, <5>2, <5>3 DEF ActedCovers
      <4> QED BY Zenon, <4>2, <4>3 DEF SerialOK, OwnSlot
    <3>9. CASE Prepares(w)
      <4>1. pc'[w] = "put" /\ until' = until
        BY Zenon, <3>9 DEF Prepares, PrepareUnseen, PrepareFull, PrepareSkip, PrepareRelease, Goto, hist,
           TypeOK
      <4>2. Covered(out[w])'
        BY Zenon, <3>1, <3>2, <3>9, <4>1, PreparedCovers DEF Covered
      <4> QED BY Zenon, <4>1, <4>2 DEF SerialOK
    <3>10. CASE Fenced(w) \/ LeaveInPlace(w)
      <4>1. OwnSlot(w) /\ (pc[w] # "full" => CarryCovers(slot))
        BY Zenon, <3>2, <3>10 DEF Fenced, LeaveInPlace, SerialOK
      <4>2. Owns(Live, nonce[w]) \/ Live = NoEntry
        BY Zenon, <4>1 DEF Live, OwnSlot, Owns
      <4>3. Live.kind # "outcome" /\ (Live.kind = "claim" => Owns(Live, nonce[w]))
        BY <4>2 DEF Owns, NoEntry
      <4>4. \A c : ~FencesWrite(Live, c, nonce[w])
        BY Zenon, <4>3 DEF FencesWrite
      <4>5. ~Fenced(w)
        BY Zenon, <4>4 DEF Fenced
      <4>6. ~LeaveInPlace(w)
        BY Zenon, <4>2 DEF LeaveInPlace, Releases
      <4> QED BY Zenon, <3>10, <4>5, <4>6
    <3>11. CASE Put(w)
      <4>1. Covered(out[w]) /\ slot' = out[w] /\ pc'[w] = "idle" /\ until' = until
        BY Zenon, <3>2, <3>11 DEF Put, Done, Goto, SerialOK, hist, TypeOK
      <4>2. Covered(slot)'
        BY Zenon, <3>1, <4>1 DEF Covered
      <4> QED BY Zenon, <4>1, <4>2 DEF SerialOK
    <3> QED BY Zenon, <1>1, <2>2, <3>3, <3>4, <3>5, <3>6, <3>7, <3>8, <3>9, <3>10, <3>11 DEF CleanStep
  <2> QED BY Zenon, <2>1, <2>2
<1>2. CASE Tick \/ UNCHANGED vars
  <2>1. /\ UNCHANGED <<slot, pc, held, nonce, out, acted, serial, until>>
        /\ now' \in {now, now + 1} /\ now \in Nat
    BY Zenon, <1>2 DEF Tick, local, hist, vars, TypeOK
  <2>2. \A c \in ActedClass : until[c] \in Nat
    BY Zenon DEF TypeOK
  <2>3. ASSUME NEW e
        PROVE  (Covered(e) => Covered(e)') /\ (CarryCovers(e) => CarryCovers(e)')
    BY <2>1, <2>2 DEF Covered, CarryCovers
  <2>4. ASSUME NEW w \in Worker
        PROVE  (HeldCovers(w) => HeldCovers(w)') /\ (ActedCovers(w) => ActedCovers(w)')
               /\ (OwnSlot(w) => OwnSlot(w)')
    BY <2>1, <2>2 DEF HeldCovers, ActedCovers, OwnSlot
  <2>5. Covered(slot) => Covered(slot)'
    BY Zenon, <2>1, <2>3
  <2>6. ASSUME NEW w \in Worker, SerialOK(w)
        PROVE  SerialOK(w)'
    <3>1. /\ Covered(slot) => Covered(slot)'
          /\ CarryCovers(slot) => CarryCovers(slot)'
          /\ Covered(out[w]) => Covered(out[w])'
          /\ CarryCovers(out[w]) => CarryCovers(out[w])'
      BY <2>1, <2>2 DEF Covered, CarryCovers
    <3> QED BY Zenon, <2>1, <2>4, <2>6, <3>1 DEF SerialOK
  <2> QED BY Zenon, <1>0, <2>1, <2>5, <2>6 DEF SerialInv
<1> QED BY Zenon, <1>1, <1>2, CleanEffects

\* Decisions that follow one another without failures enforce at a class
\* above every enforcement of the last TTL.
THEOREM SerialOutranks == Spec => OutranksRecent
<1> DEFINE IInv == HoldInv /\ UntilBound /\ SerialInv
           A == \A w \in Worker : serial' /\ faults' = 0 /\ pc[w] = "decide" /\ pc'[w] = "full" =>
                    \A c \in acted'[w]..Permanent : until[c] <= now
<1>1. Init => UntilBound /\ SerialInv
  <2> SUFFICES ASSUME Init PROVE UntilBound /\ SerialInv
    BY Zenon
  <2>1. UntilBound
    BY DedupAssumption DEF Init, UntilBound
  <2>2. \A c \in ActedClass : ~(until[c] > now)
    BY DEF Init
  <2> QED BY Zenon, <2>1, <2>2 DEF Init, SerialInv, SerialOK, Covered
<1>2. IInv /\ HoldInv' /\ [Next]_vars => UntilBound' /\ SerialInv'
  BY Zenon, UntilStep, SerialStep DEF HoldInv
<1>3. IInv /\ [Next]_vars => [A]_vars
  <2> SUFFICES ASSUME IInv, [Next]_vars, NEW w \in Worker, serial', faults' = 0,
                      pc[w] = "decide", pc'[w] = "full",
                      NEW c \in acted'[w]..Permanent
               PROVE  until[c] <= now
    BY Zenon
  <2>1. Act(w) /\ faults = 0
    <3>1. faults = 0 /\ (\E v \in Worker : CleanStep(v))
      BY Zenon, CleanEffects DEF HoldInv, Tick, vars
    <3>2. PICK v \in Worker : CleanStep(v)
      BY Zenon, <3>1
    <3>3. v = w
      BY Zenon, <3>2 DEF CleanStep, Receive, Duplicate, Check, Claim, Verify, ClaimLost, Act, Skip,
         Release, Retry, Prepares, PrepareUnseen, PrepareFull, PrepareSkip, PrepareRelease, Fenced,
         LeaveInPlace, Put, Done, Goto, HoldInv, TypeOK
    <3> QED BY Zenon, <3>1, <3>2, <3>3 DEF CleanStep, Receive, Duplicate, Check, Claim, Verify, ClaimLost,
         Skip, Release, Retry, Prepares, PrepareUnseen, PrepareFull, PrepareSkip, PrepareRelease,
         Fenced, LeaveInPlace, Put, Done, Goto, HoldInv, TypeOK
  <2>2. HeldCovers(w)
    BY Zenon, <2>1 DEF Act, hist, SerialInv, SerialOK
  <2>3. acted'[w] \in ActedClass /\ acted'[w] > held[w]
    BY Zenon, <2>1 DEF Act, MayAct, HoldInv, TypeOK
  <2>4. c \in ActedClass /\ c > held[w] /\ held[w] \in Nat /\ until[c] \in Nat /\ now \in Nat
    BY <2>3 DEF HoldInv, TypeOK, ActedClass, Class, None, Permanent
  <2> QED BY <2>2, <2>4 DEF HeldCovers, ActedClass, Class, None, Permanent
<1> QED BY <1>1, <1>2, <1>3, HoldInvHolds, PTL DEF OutranksRecent, Spec
=============================================================================
