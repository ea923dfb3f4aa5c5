-------------------------------- MODULE CallProofs ---------------------------
(***************************************************************************)
(* What the server tells the caller of a mutation, for every number of     *)
(* callers.                                                                *)
(*                                                                         *)
(* Under an idempotency key, for every number of requests, keys and bodies:*)
(* attempts of one reserved key overlap only after a lapsed lease, commit  *)
(* twice only when an attempt lost its record, replay only their own       *)
(* answers, and write the record of the key once.                          *)
(*                                                                         *)
(* Over the bridge, for any number of viewers and of calls under way: the  *)
(* table of pending requests holds what somebody awaits and nothing else,  *)
(* and a second viewer changes the document for a call only after the      *)
(* router had given the first one up.                                      *)
(***************************************************************************)
EXTENDS MutationIdempotency, BridgeRouter, FiniteSetTheorems,
        WellFoundedInduction, TLAPS

\* An entry of the reservation table belongs to an attempt of its key that
\* has not been answered, and excludes a completed record of the key.
PendingInv ==
    \A k \in Keys : pending[k] # None =>
        /\ k \in ReservedKeys
        /\ stored[k] = None
        /\ KeyOf(pending[k].owner) = k
        /\ pc[pending[k].owner] \in {"running", "committed", "dead"}

\* An attempt that runs within its lease owns the live entry of its key.
BusyInv ==
    \A r \in Requests : Busy(r) /\ Reserves(r) /\ r \notin lapsed =>
        /\ pending[KeyOf(r)] # None
        /\ pending[KeyOf(r)].live
        /\ pending[KeyOf(r)].owner = r

\* A completed record holds the answer of a committed attempt of its key.
StoredInv ==
    \A k \in Keys : stored[k] # None =>
        /\ stored[k].response \in applied
        /\ KeyOf(stored[k].response) = k
        /\ HashOf(stored[k].response) = stored[k].hash
        /\ outcome[stored[k].response] = "executed"

\* An attempt answered with success within its lease left the record.
RecordedInv ==
    \A r \in applied : Reserves(r) /\ outcome[r] = "executed" /\ r \notin lapsed =>
        /\ stored[KeyOf(r)] # None
        /\ stored[KeyOf(r)].response = r

\* The control points of a handler.
ControlInv ==
    \A r \in Requests :
        /\ pc[r] # "done" => outcome[r] = "none"
        /\ pc[r] \in {"idle", "running"} => r \notin applied
        /\ pc[r] = "committed" => r \in applied
        /\ r \in applied /\ pc[r] = "done" => outcome[r] \in {"executed", "failed"}

IInv ==
    /\ TypeOK
    /\ PendingInv
    /\ BusyInv
    /\ StoredInv
    /\ RecordedInv
    /\ ControlInv
    /\ ReplayIsFaithful

-----------------------------------------------------------------------------
\* The variables keep their types (the handler steps and the clock).
LEMMA TypeStep ==
    ASSUME TypeOK, [Next]_vars
    PROVE  TypeOK'
<1> USE DEF TypeOK, Reservation, Record, KeyOf, HashOf, Reserves, Busy
<1>1. CASE \E r \in Requests : BeginStored(r)
    BY <1>1 DEF BeginStored, Reply
<1>2. CASE \E r \in Requests : BeginPending(r)
    BY <1>2 DEF BeginPending, Reply, LivePending
<1>3. CASE \E r \in Requests : BeginReserve(r)
    BY <1>3 DEF BeginReserve
<1>4. CASE \E r \in Requests : BeginUnreserved(r)
    BY <1>4 DEF BeginUnreserved
<1>5. CASE \E r \in Requests : Commit(r)
    BY <1>5 DEF Commit
<1>6. CASE \E r \in Requests : CompleteReserved(r)
    BY <1>6 DEF CompleteReserved, Reply, Settled, Owns, LivePending
<1>7. CASE \E r \in Requests : CompleteUnreserved(r)
    BY <1>7 DEF CompleteUnreserved, Reply
<1>8. CASE \E r \in Requests : Fail(r)
    BY <1>8 DEF Fail, Reply, SettledTable, Settled, Owns, LivePending
<1>9. CASE \E r \in Requests : Throw(r)
    BY <1>9 DEF Throw
<1>10. CASE \E k \in Keys : LeaseExpires(k)
    <2>1. PICK k \in Keys : LeaseExpires(k)
        BY <1>10
    <2>2. pending[k] \in Reservation
        BY <2>1 DEF LeaseExpires
    <2>3. [pending[k] EXCEPT !.live = FALSE] \in Reservation
        BY <2>2
    <2>4. pending' = [pending EXCEPT ![k] = [pending[k] EXCEPT !.live = FALSE]]
        BY <2>1 DEF LeaseExpires
    <2>5. pending' \in [Keys -> Reservation \cup {None}]
        BY <2>3, <2>4
    <2>. QED
        BY <2>1, <2>2, <2>5 DEF LeaseExpires
<1>11. CASE Crash
    BY <1>11 DEF Crash
<1>12. CASE UNCHANGED vars
    BY <1>12 DEF vars
<1>. QED
    BY <1>1, <1>2, <1>3, <1>4, <1>5, <1>6, <1>7, <1>8, <1>9, <1>10, <1>11, <1>12 DEF Next, Handler

\* Every step preserves the rest of the invariant: one step per action, and
\* one under it per conjunct.
LEMMA InvStep ==
    ASSUME IInv, [Next]_vars
    PROVE  IInv'
<1>t. TypeOK /\ TypeOK'
    BY TypeStep DEF IInv
<1> USE <1>t, ReservedKeysAssumption, NoneAssumption
        DEF TypeOK, Reservation, Record, KeyOf, HashOf, Reserves, Busy, SameKey, IInv
<1>1. CASE \E r \in Requests : BeginStored(r)
    <2>0. PICK r \in Requests : BeginStored(r)
        BY <1>1
    <2>1. PendingInv'
        BY <2>0 DEF BeginStored, Reply, PendingInv
    <2>2. BusyInv'
        BY <2>0 DEF BeginStored, Reply, BusyInv, PendingInv
    <2>3. StoredInv'
        BY <2>0 DEF BeginStored, Reply, StoredInv, ControlInv
    <2>4. RecordedInv'
        BY <2>0 DEF BeginStored, Reply, RecordedInv, BusyInv, PendingInv, ControlInv
    <2>5. ControlInv'
        BY <2>0 DEF BeginStored, Reply, ControlInv
    <2>6. ReplayIsFaithful'
        BY <2>0 DEF BeginStored, Reply, ReplayIsFaithful, StoredInv, ControlInv
    <2>. QED
        BY <2>1, <2>2, <2>3, <2>4, <2>5, <2>6
<1>2. CASE \E r \in Requests : BeginPending(r)
    <2>0. PICK r \in Requests : BeginPending(r)
        BY <1>2
    <2>1. PendingInv'
        BY <2>0 DEF BeginPending, Reply, LivePending, PendingInv
    <2>2. BusyInv'
        BY <2>0 DEF BeginPending, Reply, LivePending, BusyInv, PendingInv
    <2>3. StoredInv'
        BY <2>0 DEF BeginPending, Reply, LivePending, StoredInv, ControlInv
    <2>4. RecordedInv'
        BY <2>0 DEF BeginPending, Reply, LivePending, RecordedInv, BusyInv, PendingInv, ControlInv
    <2>5. ControlInv'
        BY <2>0 DEF BeginPending, Reply, LivePending, ControlInv
    <2>6. ReplayIsFaithful'
        BY <2>0 DEF BeginPending, Reply, LivePending, ReplayIsFaithful, StoredInv, ControlInv
    <2>. QED
        BY <2>1, <2>2, <2>3, <2>4, <2>5, <2>6
<1>3. CASE \E r \in Requests : BeginReserve(r)
    <2>0. PICK r \in Requests : BeginReserve(r)
        BY <1>3
    <2>1. PendingInv'
        BY <2>0 DEF BeginReserve, LivePending, PendingInv
    <2>2. BusyInv'
        <3>. SUFFICES ASSUME NEW q \in Requests, Busy(q)', Reserves(q)', q \notin lapsed'
                      PROVE  /\ pending'[KeyOf(q)] # None
                             /\ pending'[KeyOf(q)].live
                             /\ pending'[KeyOf(q)].owner = q
            BY <2>0 DEF BeginReserve, BusyInv
        <3>1. CASE q = r
            <4>1. pending'[KeyOf(q)] = [hash |-> HashOf(r), owner |-> r, live |-> TRUE]
                BY <2>0, <3>1 DEF BeginReserve
            <4>2. pending'[KeyOf(q)] \in Reservation
                BY <4>1
            <4>3. pending'[KeyOf(q)] # None
                BY <4>2, NoneAssumption, Zenon
            <4>4. pending'[KeyOf(q)].live /\ pending'[KeyOf(q)].owner = r
                BY ONLY <4>1, SMT
            <4>. QED
                BY ONLY <3>1, <4>3, <4>4, Zenon
        <3>2. CASE q # r
            <4>1. Busy(q) /\ Reserves(q) /\ q \notin lapsed
                BY <2>0, <3>2 DEF BeginReserve, Reply
            <4>2. /\ pending[KeyOf(q)] # None
                  /\ pending[KeyOf(q)].live
                  /\ pending[KeyOf(q)].owner = q
                BY <4>1 DEF BusyInv
            <4>. QED
                BY <2>0, <3>2, <4>1, <4>2 DEF BeginReserve, LivePending
        <3>. QED
            BY <3>1, <3>2
    <2>3. StoredInv'
        BY <2>0 DEF BeginReserve, LivePending, StoredInv, ControlInv
    <2>4. RecordedInv'
        BY <2>0 DEF BeginReserve, LivePending, RecordedInv, BusyInv, PendingInv, ControlInv
    <2>5. ControlInv'
        BY <2>0 DEF BeginReserve, LivePending, ControlInv
    <2>6. ReplayIsFaithful'
        BY <2>0 DEF BeginReserve, LivePending, ReplayIsFaithful, StoredInv, ControlInv
    <2>. QED
        BY <2>1, <2>2, <2>3, <2>4, <2>5, <2>6
<1>4. CASE \E r \in Requests : BeginUnreserved(r)
    <2>0. PICK r \in Requests : BeginUnreserved(r)
        BY <1>4
    <2>1. PendingInv'
        BY <2>0 DEF BeginUnreserved, PendingInv
    <2>2. BusyInv'
        BY <2>0 DEF BeginUnreserved, BusyInv, PendingInv
    <2>3. StoredInv'
        BY <2>0 DEF BeginUnreserved, StoredInv, ControlInv
    <2>4. RecordedInv'
        BY <2>0 DEF BeginUnreserved, RecordedInv, BusyInv, PendingInv, ControlInv
    <2>5. ControlInv'
        BY <2>0 DEF BeginUnreserved, ControlInv
    <2>6. ReplayIsFaithful'
        BY <2>0 DEF BeginUnreserved, ReplayIsFaithful, StoredInv, ControlInv
    <2>. QED
        BY <2>1, <2>2, <2>3, <2>4, <2>5, <2>6
<1>5. CASE \E r \in Requests : Commit(r)
    <2>0. PICK r \in Requests : Commit(r)
        BY <1>5
    <2>1. PendingInv'
        BY <2>0 DEF Commit, PendingInv
    <2>2. BusyInv'
        BY <2>0 DEF Commit, BusyInv, PendingInv
    <2>3. StoredInv'
        BY <2>0 DEF Commit, StoredInv, ControlInv
    <2>4. RecordedInv'
        BY <2>0 DEF Commit, RecordedInv, BusyInv, PendingInv, ControlInv
    <2>5. ControlInv'
        BY <2>0 DEF Commit, ControlInv
    <2>6. ReplayIsFaithful'
        BY <2>0 DEF Commit, ReplayIsFaithful, StoredInv, ControlInv
    <2>. QED
        BY <2>1, <2>2, <2>3, <2>4, <2>5, <2>6
<1>6. CASE \E r \in Requests : CompleteReserved(r)
    <2>0. PICK r \in Requests : CompleteReserved(r)
        BY <1>6
    <2>1. PendingInv'
        BY <2>0 DEF CompleteReserved, Reply, Settled, Owns, LivePending, PendingInv
    <2>2. BusyInv'
        BY <2>0 DEF CompleteReserved, Reply, Settled, Owns, LivePending, BusyInv, PendingInv
    <2>3. StoredInv'
        BY <2>0 DEF CompleteReserved, Reply, Settled, Owns, LivePending, StoredInv, ControlInv
    <2>4. RecordedInv'
        BY <2>0 DEF CompleteReserved, Reply, Settled, Owns, LivePending, RecordedInv, BusyInv, PendingInv, ControlInv
    <2>5. ControlInv'
        BY <2>0 DEF CompleteReserved, Reply, Settled, Owns, LivePending, ControlInv
    <2>6. ReplayIsFaithful'
        BY <2>0 DEF CompleteReserved, Reply, Settled, Owns, LivePending, ReplayIsFaithful, StoredInv, ControlInv
    <2>. QED
        BY <2>1, <2>2, <2>3, <2>4, <2>5, <2>6
<1>7. CASE \E r \in Requests : CompleteUnreserved(r)
    <2>0. PICK r \in Requests : CompleteUnreserved(r)
        BY <1>7
    <2>1. PendingInv'
        BY <2>0 DEF CompleteUnreserved, Reply, PendingInv
    <2>2. BusyInv'
        BY <2>0 DEF CompleteUnreserved, Reply, BusyInv, PendingInv
    <2>3. StoredInv'
        BY <2>0 DEF CompleteUnreserved, Reply, StoredInv, ControlInv
    <2>4. RecordedInv'
        BY <2>0 DEF CompleteUnreserved, Reply, RecordedInv, BusyInv, PendingInv, ControlInv
    <2>5. ControlInv'
        BY <2>0 DEF CompleteUnreserved, Reply, ControlInv
    <2>6. ReplayIsFaithful'
        BY <2>0 DEF CompleteUnreserved, Reply, ReplayIsFaithful, StoredInv, ControlInv
    <2>. QED
        BY <2>1, <2>2, <2>3, <2>4, <2>5, <2>6
<1>8. CASE \E r \in Requests : Fail(r)
    <2>0. PICK r \in Requests : Fail(r)
        BY <1>8
    <2>1. PendingInv'
        BY <2>0 DEF Fail, Reply, SettledTable, Settled, Owns, LivePending, PendingInv
    <2>2. BusyInv'
        <3>. SUFFICES ASSUME NEW q \in Requests, Busy(q)', Reserves(q)', q \notin lapsed'
                      PROVE  /\ pending'[KeyOf(q)] # None
                             /\ pending'[KeyOf(q)].live
                             /\ pending'[KeyOf(q)].owner = q
            BY <2>0 DEF Fail, BusyInv
        <3>1. CASE q = r
            BY <2>0, <3>1 DEF Fail, Reply, SettledTable, Settled, Owns, LivePending
        <3>2. CASE q # r
            <4>1. Busy(q) /\ Reserves(q) /\ q \notin lapsed
                BY <2>0, <3>2 DEF Fail, Reply
            <4>2. /\ pending[KeyOf(q)] # None
                  /\ pending[KeyOf(q)].live
                  /\ pending[KeyOf(q)].owner = q
                BY <4>1 DEF BusyInv
            <4>. QED
                BY <2>0, <3>2, <4>1, <4>2 DEF Fail, Reply, SettledTable, Settled, Owns, LivePending
        <3>. QED
            BY <3>1, <3>2
    <2>3. StoredInv'
        BY <2>0 DEF Fail, Reply, SettledTable, Settled, Owns, LivePending, StoredInv, ControlInv
    <2>4. RecordedInv'
        BY <2>0 DEF Fail, Reply, SettledTable, Settled, Owns, LivePending, RecordedInv, BusyInv, PendingInv, ControlInv
    <2>5. ControlInv'
        BY <2>0 DEF Fail, Reply, SettledTable, Settled, Owns, LivePending, ControlInv
    <2>6. ReplayIsFaithful'
        BY <2>0 DEF Fail, Reply, SettledTable, Settled, Owns, LivePending, ReplayIsFaithful, StoredInv, ControlInv
    <2>. QED
        BY <2>1, <2>2, <2>3, <2>4, <2>5, <2>6
<1>9. CASE \E r \in Requests : Throw(r)
    <2>0. PICK r \in Requests : Throw(r)
        BY <1>9
    <2>1. PendingInv'
        BY <2>0 DEF Throw, PendingInv
    <2>2. BusyInv'
        BY <2>0 DEF Throw, BusyInv, PendingInv
    <2>3. StoredInv'
        BY <2>0 DEF Throw, StoredInv, ControlInv
    <2>4. RecordedInv'
        BY <2>0 DEF Throw, RecordedInv, BusyInv, PendingInv, ControlInv
    <2>5. ControlInv'
        BY <2>0 DEF Throw, ControlInv
    <2>6. ReplayIsFaithful'
        BY <2>0 DEF Throw, ReplayIsFaithful, StoredInv, ControlInv
    <2>. QED
        BY <2>1, <2>2, <2>3, <2>4, <2>5, <2>6
<1>10. CASE \E k \in Keys : LeaseExpires(k)
    <2>0. PICK k \in Keys : LeaseExpires(k)
        BY <1>10
    <2>1. PendingInv'
        BY <2>0 DEF LeaseExpires, PendingInv
    <2>2. BusyInv'
        BY <2>0 DEF LeaseExpires, BusyInv, PendingInv
    <2>3. StoredInv'
        BY <2>0 DEF LeaseExpires, StoredInv, ControlInv
    <2>4. RecordedInv'
        BY <2>0 DEF LeaseExpires, RecordedInv, BusyInv, PendingInv, ControlInv
    <2>5. ControlInv'
        BY <2>0 DEF LeaseExpires, ControlInv
    <2>6. ReplayIsFaithful'
        BY <2>0 DEF LeaseExpires, ReplayIsFaithful, StoredInv, ControlInv
    <2>. QED
        BY <2>1, <2>2, <2>3, <2>4, <2>5, <2>6
<1>11. CASE Crash
    <2>1. PendingInv'
        BY <1>11 DEF Crash, PendingInv
    <2>2. BusyInv'
        BY <1>11 DEF Crash, BusyInv, PendingInv
    <2>3. StoredInv'
        BY <1>11 DEF Crash, StoredInv, ControlInv
    <2>4. RecordedInv'
        BY <1>11 DEF Crash, RecordedInv, BusyInv, PendingInv, ControlInv
    <2>5. ControlInv'
        BY <1>11 DEF Crash, ControlInv
    <2>6. ReplayIsFaithful'
        BY <1>11 DEF Crash, ReplayIsFaithful, StoredInv, ControlInv
    <2>. QED
        BY <2>1, <2>2, <2>3, <2>4, <2>5, <2>6
<1>12. CASE UNCHANGED vars
    <2>1. PendingInv'
        BY <1>12 DEF vars, PendingInv
    <2>2. BusyInv'
        BY <1>12 DEF vars, BusyInv, PendingInv
    <2>3. StoredInv'
        BY <1>12 DEF vars, StoredInv, ControlInv
    <2>4. RecordedInv'
        BY <1>12 DEF vars, RecordedInv, BusyInv, PendingInv, ControlInv
    <2>5. ControlInv'
        BY <1>12 DEF vars, ControlInv
    <2>6. ReplayIsFaithful'
        BY <1>12 DEF vars, ReplayIsFaithful, StoredInv, ControlInv
    <2>. QED
        BY <2>1, <2>2, <2>3, <2>4, <2>5, <2>6
<1>. QED
    BY <1>1, <1>2, <1>3, <1>4, <1>5, <1>6, <1>7, <1>8, <1>9, <1>10, <1>11, <1>12 DEF Next, Handler

LEMMA InitInv == Init => IInv
BY DEF Init, IInv, TypeOK, PendingInv, BusyInv, StoredInv, RecordedInv,
       ControlInv, ReplayIsFaithful, Reservation, Record, Busy

THEOREM Invariance == Spec => []IInv
<1>1. IInv /\ UNCHANGED vars => IInv'
    BY InvStep
<1>. QED
    BY InitInv, InvStep, <1>1, PTL DEF Spec

-----------------------------------------------------------------------------
\* The state of the reservation table, the records and the handlers is
\* well formed in every reachable state.
THEOREM TypeCorrect == Spec => []TypeOK
BY Invariance, PTL DEF IInv

\* Two attempts of one reserved key run at once only after the lease of one
\* of them ran out: both would own the single live entry of the key.
THEOREM OverlapOnlyAfterLapse == Spec => []NoOverlapWithinLease
<1>1. IInv => NoOverlapWithinLease
    BY DEF IInv, BusyInv, NoOverlapWithinLease, SameKey, Reserves
<1>. QED
    BY <1>1, Invariance, PTL

\* A reserved key commits two mutations only when one of the attempts lost
\* its record: two recorded ones would be the response of the same record,
\* and a record excludes a reservation.
THEOREM OneEffect == Spec => []OneEffectUnlessExcused
<1>1. IInv => OneEffectUnlessExcused
    <2>. SUFFICES ASSUME IInv, NEW r \in applied, NEW s \in applied,
                         SameKey(r, s), Reserves(r), ~Excused(r), ~Excused(s)
                  PROVE  r = s
        BY DEF OneEffectUnlessExcused
    <2>1. r \in Requests /\ s \in Requests /\ Reserves(s)
        BY DEF IInv, TypeOK, SameKey, Reserves
    <2>2. \A q \in {r, s} :
             \/ /\ pc[q] = "committed"
                /\ pending[KeyOf(q)] # None
                /\ pending[KeyOf(q)].owner = q
             \/ /\ stored[KeyOf(q)] # None
                /\ stored[KeyOf(q)].response = q
        <3>. SUFFICES ASSUME NEW q \in {r, s}
                      PROVE  \/ /\ pc[q] = "committed"
                                /\ pending[KeyOf(q)] # None
                                /\ pending[KeyOf(q)].owner = q
                             \/ /\ stored[KeyOf(q)] # None
                                /\ stored[KeyOf(q)].response = q
            OBVIOUS
        <3>1. q \in applied /\ q \in Requests /\ Reserves(q)
            BY <2>1
        <3>2. q \notin lapsed /\ pc[q] # "dead" /\ outcome[q] # "failed"
            BY DEF Excused
        <3>3. pc[q] \in {"committed", "done"}
            BY <3>1, <3>2 DEF IInv, TypeOK, ControlInv
        <3>4. CASE pc[q] = "committed"
            BY <3>1, <3>2, <3>4 DEF IInv, BusyInv, Busy
        <3>5. CASE pc[q] = "done"
            BY <3>1, <3>2, <3>5 DEF IInv, ControlInv, RecordedInv
        <3>. QED
            BY <3>3, <3>4, <3>5
    <2>3. KeyOf(r) \in Keys /\ KeyOf(r) = KeyOf(s)
        BY <2>1 DEF IInv, TypeOK, KeyOf, SameKey
    <2>. QED
        BY <2>2, <2>3 DEF IInv, PendingInv
<1>. QED
    BY <1>1, Invariance, PTL

\* A replay hands out the answer of a committed attempt with the same key
\* and the same body.
THEOREM FaithfulReplay == Spec => []ReplayIsFaithful
BY Invariance, PTL DEF IInv

\* The record of a reserved key, once written, is never replaced: the owner
\* of a live reservation found no record, and an entry excludes one.
THEOREM WriteOnce == Spec => RecordWrittenOnce
<1>1. IInv /\ [Next]_vars =>
         [\A k \in ReservedKeys : stored[k] # None => stored'[k] = stored[k]]_vars
    <2>. SUFFICES ASSUME IInv, Next, NEW k \in ReservedKeys, stored[k] # None
                  PROVE  stored'[k] = stored[k]
        OBVIOUS
    <2>. USE DEF IInv, TypeOK, Reserves
    <2>1. CASE \E r \in Requests : CompleteReserved(r)
        <3>1. PICK r \in Requests : CompleteReserved(r)
            BY <2>1
        <3>2. CASE Owns(r)
            <4>1. KeyOf(r) # k
                BY <3>2, ReservedKeysAssumption
                DEF Owns, LivePending, PendingInv, KeyOf
            <4>. QED
                BY <3>1, <3>2, <4>1 DEF CompleteReserved
        <3>3. CASE ~Owns(r)
            BY <3>1, <3>3 DEF CompleteReserved
        <3>. QED
            BY <3>2, <3>3
    <2>2. CASE \E r \in Requests : CompleteUnreserved(r)
        BY <2>2 DEF CompleteUnreserved
    <2>3. CASE stored' = stored
        BY <2>3
    <2>. QED
        BY <2>1, <2>2, <2>3 DEF Next, Handler, BeginStored, BeginPending,
           BeginReserve, BeginUnreserved, Commit, Fail, Throw, LeaseExpires, Crash
<1>. QED
    BY <1>1, Invariance, PTL DEF Spec, RecordWrittenOnce

-----------------------------------------------------------------------------
(***************************************************************************)
(* The refinement of KeyedAnswers.                                         *)
(***************************************************************************)

\* A handler that is not done has given no answer, and a replay none of its own.
LEMMA OpenMeansNone ==
    ASSUME IInv, NEW r \in Requests, outcome[r] = "none"
    PROVE  Promise!Open(r)
BY DEF IInv, TypeOK, Promise!Open, Given, Refused

\* An answer without a result is all that changes in the clients' view.
LEMMA RefusalView ==
    ASSUME IInv, NEW r \in Requests, outcome[r] = "none",
           NEW what \in {"failed", "mismatch", "in_progress"},
           Reply(r, what), replayOf' = replayOf
    PROVE  Given' = Given /\ Refused' = Refused \cup {r}
BY DEF IInv, TypeOK, Reply, Given, Refused

\* So is a result of the request's own mutation,
LEMMA OwnView ==
    ASSUME IInv, NEW r \in Requests, outcome[r] = "none",
           Reply(r, "executed"), replayOf' = replayOf
    PROVE  Given' = [Given EXCEPT ![r] = r] /\ Refused' = Refused
BY DEF IInv, TypeOK, Reply, Given, Refused

\* and a replay.
LEMMA ReplayView ==
    ASSUME IInv, NEW r \in Requests, outcome[r] = "none", NEW s \in Requests,
           Reply(r, "replay"), replayOf' = [replayOf EXCEPT ![r] = s]
    PROVE  Given' = [Given EXCEPT ![r] = s] /\ Refused' = Refused
BY DEF IInv, TypeOK, Reply, Given, Refused

LEMMA PromiseInit == Init => Promise!Init
BY DEF Init, Promise!Init, Given, Refused, Remembered

\* One step per action: it is a step of the promise or leaves the clients'
\* view as it is.
LEMMA PromiseStep ==
    ASSUME IInv, [Next]_vars
    PROVE  [Promise!Next]_Promise!vars
<1>t. TypeOK /\ ControlInv
    BY DEF IInv
<1>. USE <1>t
<1>v. ASSUME UNCHANGED <<req, outcome, replayOf, stored, applied>>
      PROVE  UNCHANGED Promise!vars
    BY <1>v DEF Promise!vars, Given, Refused, Remembered
<1>n. \A r \in Requests : Promise!Effect(r) \/ Promise!Own(r) \/ Promise!Repeat(r) \/ Promise!Refuse(r)
                          => Promise!Next
    BY DEF Promise!Next
<1>o. \A r \in Requests : pc[r] # "done" => outcome[r] = "none" /\ Promise!Open(r)
    BY OpenMeansNone DEF ControlInv
<1>1. ASSUME NEW r \in Requests, BeginStored(r)
      PROVE  Promise!Repeat(r) \/ Promise!Refuse(r)
    <2>1. /\ Promise!Open(r) /\ outcome[r] = "none" /\ r \notin applied
          /\ KeyOf(r) \in Keys /\ stored[KeyOf(r)] # None
          /\ UNCHANGED <<req, applied, Remembered>>
        BY <1>1, <1>o DEF BeginStored, ControlInv, TypeOK, KeyOf, Remembered
    <2>2. CASE stored[KeyOf(r)].hash # HashOf(r)
        <3>1. Reply(r, "mismatch") /\ replayOf' = replayOf
            BY <1>1, <2>2 DEF BeginStored
        <3>. QED
            BY <2>1, <3>1, RefusalView DEF Promise!Refuse
    <2>3. CASE stored[KeyOf(r)].hash = HashOf(r)
        <3>. DEFINE s == stored[KeyOf(r)].response
        <3>1. Reply(r, "replay") /\ replayOf' = [replayOf EXCEPT ![r] = s]
            BY <1>1, <2>3 DEF BeginStored
        <3>2. s \in Requests /\ KeyOf(s) = KeyOf(r) /\ HashOf(s) = HashOf(r)
            BY <2>1, <2>3 DEF IInv, StoredInv, TypeOK
        <3>3. req[s] = req[r]
            BY <3>2 DEF TypeOK, KeyOf, HashOf
        <3>4. Remembered[req[r].key] = s /\ s # None
            BY <2>1, <3>2, NoneAssumption DEF Remembered, KeyOf
        <3>. QED
            BY <2>1, <3>1, <3>2, <3>3, <3>4, ReplayView DEF Promise!Repeat
    <2>. QED
        BY <2>2, <2>3
<1>2. ASSUME NEW r \in Requests, BeginPending(r)
      PROVE  Promise!Refuse(r)
    BY <1>2, <1>o, RefusalView DEF BeginPending, Promise!Refuse, Remembered
<1>3. ASSUME NEW r \in Requests, Commit(r)
      PROVE  Promise!Effect(r)
    BY <1>3, <1>o DEF Commit, Promise!Effect, ControlInv, Given, Refused, Remembered
<1>4. ASSUME NEW r \in Requests, CompleteReserved(r)
      PROVE  Promise!Own(r)
    <2>1. /\ Promise!Open(r) /\ r \in applied /\ KeyOf(r) \in Keys
          /\ Given' = [Given EXCEPT ![r] = r] /\ UNCHANGED <<req, applied, Refused>>
        BY <1>4, <1>o, OwnView DEF CompleteReserved, ControlInv, TypeOK, KeyOf
    <2>2. CASE Owns(r)
        <3>1. stored[KeyOf(r)] = None
            BY <2>1, <2>2 DEF Owns, LivePending, IInv, PendingInv
        <3>2. stored' = [stored EXCEPT ![KeyOf(r)] = [hash |-> HashOf(r), response |-> r]]
            BY <1>4, <2>2 DEF CompleteReserved
        <3>3. [hash |-> HashOf(r), response |-> r] # None
            BY NoneAssumption DEF TypeOK, HashOf
        <3>4. Remembered[KeyOf(r)] = None
            BY <2>1, <3>1 DEF Remembered
        <3>5. Remembered' = [Remembered EXCEPT ![KeyOf(r)] = r]
            BY <2>1, <3>2, <3>3 DEF Remembered, TypeOK
        <3>. QED
            BY <2>1, <3>4, <3>5 DEF Promise!Own, KeyOf
    <2>3. CASE ~Owns(r)
        BY <1>4, <2>1, <2>3 DEF CompleteReserved, Promise!Own, Remembered
    <2>. QED
        BY <2>2, <2>3
<1>5. ASSUME NEW r \in Requests, CompleteUnreserved(r)
      PROVE  Promise!Own(r)
    <2>1. /\ Promise!Open(r) /\ r \in applied /\ KeyOf(r) \in Keys \ ReservedKeys
          /\ Given' = [Given EXCEPT ![r] = r] /\ UNCHANGED <<req, applied, Refused>>
          /\ stored' = [stored EXCEPT ![KeyOf(r)] = [hash |-> HashOf(r), response |-> r]]
        BY <1>5, <1>o, OwnView DEF CompleteUnreserved, ControlInv, TypeOK, KeyOf, Reserves
    <2>2. [hash |-> HashOf(r), response |-> r] # None
        BY NoneAssumption DEF TypeOK, HashOf
    <2>3. Remembered' = [Remembered EXCEPT ![KeyOf(r)] = r]
        BY <2>1, <2>2 DEF Remembered, TypeOK
    <2>. QED
        BY <2>1, <2>3 DEF Promise!Own, KeyOf
<1>6. ASSUME NEW r \in Requests, Fail(r)
      PROVE  Promise!Refuse(r)
    BY <1>6, <1>o, RefusalView DEF Fail, Busy, Promise!Refuse, Remembered
<1>7. CASE \E r \in Requests : BeginReserve(r) \/ BeginUnreserved(r) \/ Throw(r)
    BY <1>7, <1>v DEF BeginReserve, BeginUnreserved, Throw
<1>8. CASE (\E k \in Keys : LeaseExpires(k)) \/ Crash \/ UNCHANGED vars
    BY <1>8, <1>v DEF LeaseExpires, Crash, vars
<1>. QED
    BY <1>n, <1>1, <1>2, <1>3, <1>4, <1>5, <1>6, <1>7, <1>8 DEF Next, Handler

\* The clients see a table of keys that answers each request once and repeats
\* only answers of the same key and body, whatever leases, failures and
\* restarts do behind it.
THEOREM Refinement == Spec => KeepsItsPromise
BY PromiseInit, PromiseStep, Invariance, PTL DEF Spec, KeepsItsPromise, Promise!Spec

-----------------------------------------------------------------------------
(***************************************************************************)
(* The bridge.                                                             *)
(***************************************************************************)

\* What a call is made of. (Its candidates play no part in what follows: only
\* how many of them failed, and with what.)
Lists == {call[r].list : r \in Calls}

BridgeCallInv ==
    call \in [Calls -> [pc : {"idle", "waiting", "resolved", "rejected"},
                       list : Lists, codes : Seq(Codes),
                       answer : Answers \cup {"none"}]]

\* A call goes on only while each of its failures was a retryable one.
BridgeGoesOnInv ==
    \A r \in Calls :
        /\ call[r].pc = "waiting" =>
             \A j \in 1 .. Len(call[r].codes) : call[r].codes[j] \in Retryable
        /\ call[r].pc = "idle" => call[r].codes = <<>>

\* What went out is an attempt of a call that has begun, and every earlier
\* attempt of the call failed with a retryable code.
BridgeSentInv ==
    \A a \in sent : \E r \in Calls : \E i \in 1 .. Len(call[r].codes) + 1 :
        /\ a = <<r, i>>
        /\ call[r].pc # "idle"
        /\ \A j \in 1 .. i - 1 : call[r].codes[j] \in Retryable

BridgeEffectsInv == effects \subseteq sent

BridgeInv ==
    /\ BridgeCallInv
    /\ BridgeGoesOnInv
    /\ BridgeSentInv
    /\ BridgeEffectsInv
    /\ PendingIsAwaited

-----------------------------------------------------------------------------
\* The attempt that is awaited tells its call.
LEMMA CurrentIsInjective ==
    ASSUME NEW r \in Calls, NEW s \in Calls, Current(r) = Current(s)
    PROVE  r = s
  BY DEF Current

\* The calls of rejected attempts are waiting for just these.
LEMMA HitIsWaiting ==
    ASSUME PendingIsAwaited, NEW A \in SUBSET awaited,
           NEW r \in Calls, Current(r) \in A
    PROVE  call[r].pc = "waiting"
  <1>1. PICK s \in Calls : call[s].pc = "waiting" /\ Current(r) = Current(s)
    BY DEF PendingIsAwaited
  <1> QED BY <1>1, CurrentIsInjective

\* A failure is added behind the others.
LEMMA AddedCode ==
    ASSUME NEW s \in Seq(Codes), NEW code \in Codes
    PROVE  /\ Append(s, code) \in Seq(Codes)
           /\ Len(s) \in Nat
           /\ Len(Append(s, code)) = Len(s) + 1
           /\ \A j \in 1 .. Len(s) : Append(s, code)[j] = s[j]
           /\ Append(s, code)[Len(s) + 1] = code
  OBVIOUS

\* Rejecting attempts, and retrying those that may be, keeps the invariant.
LEMMA RejectKeeps ==
    ASSUME BridgeInv, NEW A \in SUBSET awaited, NEW code \in Codes, NEW up,
           Reject(A, code, up), effects' = effects
    PROVE  BridgeInv'
  <1> DEFINE hit   == {r \in Calls : Current(r) \in A}
             again == {r \in hit : Retries(r, code)}
             retry == {<<r, Len(call[r].codes) + 2>> : r \in again}
  <1>1. /\ call' = [r \in Calls |->
             IF r \notin hit THEN call[r]
             ELSE [call[r] EXCEPT
                     !.codes = Append(@, code),
                     !.pc = IF r \in again THEN "waiting" ELSE "rejected"]]
        /\ awaited' = (awaited \ A) \cup retry
        /\ sent' = sent \cup {a \in retry : Target(a) \in up}
    BY DEF Reject
  <1> HIDE DEF hit, again, retry
  <1>2. \A r \in hit : r \in Calls /\ call[r].pc = "waiting"
    BY HitIsWaiting DEF hit, BridgeInv
  <1>3. again \subseteq hit /\ (again # {} => code \in Retryable)
    BY DEF again, Retries
  <1>4. \A r \in Calls : r \notin hit => call'[r] = call[r]
    BY <1>1
  <1>5. \A r \in hit :
          /\ call'[r].pc = IF r \in again THEN "waiting" ELSE "rejected"
          /\ call'[r].list = call[r].list
          /\ call'[r].codes = Append(call[r].codes, code)
          /\ call'[r].answer = call[r].answer
    BY <1>1, <1>2 DEF BridgeInv, BridgeCallInv
  <1>6. BridgeCallInv'
    <2>1. \A r \in Calls : call'[r].list = call[r].list
      BY <1>4, <1>5
    <2>2. Lists' = Lists
      BY <2>1 DEF Lists
    <2>3. \A r \in hit : Append(call[r].codes, code) \in Seq(Codes)
      BY <1>2, AddedCode DEF BridgeInv, BridgeCallInv
    <2>4. call' \in [Calls -> [pc : {"idle", "waiting", "resolved", "rejected"},
                       list : Lists, codes : Seq(Codes),
                       answer : Answers \cup {"none"}]]
      BY <1>1, <1>2, <2>3 DEF BridgeInv, BridgeCallInv
    <2> QED BY <2>2, <2>4 DEF BridgeCallInv
  <1>7. \A r \in hit :
          /\ call'[r].codes \in Seq(Codes)
          /\ Len(call[r].codes) \in Nat
          /\ Len(call'[r].codes) = Len(call[r].codes) + 1
          /\ \A j \in 1 .. Len(call[r].codes) : call'[r].codes[j] = call[r].codes[j]
          /\ call'[r].codes[Len(call[r].codes) + 1] = code
          /\ r \in again => call'[r].pc = "waiting"
          /\ r \notin again => call'[r].pc = "rejected"
    <2> TAKE r \in hit
    <2>1. call[r].codes \in Seq(Codes)
      BY <1>2 DEF BridgeInv, BridgeCallInv
    <2>2. DOMAIN call' = Calls /\ r \in Calls
      BY <1>1, <1>2
    <2>3. call'[r].codes = Append(call[r].codes, code)
      BY <2>2, <1>5
    <2>4. /\ r \in again => call'[r].pc = "waiting"
          /\ r \notin again => call'[r].pc = "rejected"
      BY <2>2, <1>5
    <2> QED BY <2>1, <2>3, <2>4, AddedCode
  <1>8. BridgeGoesOnInv'
    <2> SUFFICES ASSUME NEW r \in Calls
                 PROVE  /\ call'[r].pc = "waiting" =>
                             \A j \in 1 .. Len(call'[r].codes) :
                                 call'[r].codes[j] \in Retryable
                        /\ call'[r].pc = "idle" => call'[r].codes = <<>>
      BY DEF BridgeGoesOnInv
    <2>1. CASE r \in hit
      BY <2>1, <1>2, <1>3, <1>6, <1>7 DEF BridgeInv, BridgeCallInv, BridgeGoesOnInv
    <2>2. CASE r \notin hit
      BY <2>2, <1>4 DEF BridgeInv, BridgeGoesOnInv
    <2> QED BY <2>1, <2>2
  <1>9. BridgeSentInv'
    <2> SUFFICES ASSUME NEW a \in sent'
                 PROVE  \E r \in Calls : \E i \in 1 .. Len(call'[r].codes) + 1 :
                          /\ a = <<r, i>>
                          /\ call'[r].pc # "idle"
                          /\ \A j \in 1 .. i - 1 : call'[r].codes[j] \in Retryable
      BY DEF BridgeSentInv
    <2>1. CASE a \in sent
      <3>0. PICK r \in Calls : \E i \in 1 .. Len(call[r].codes) + 1 :
               /\ a = <<r, i>>
               /\ call[r].pc # "idle"
               /\ \A j \in 1 .. i - 1 : call[r].codes[j] \in Retryable
        BY <2>1 DEF BridgeInv, BridgeSentInv
      <3>1. PICK i \in 1 .. Len(call[r].codes) + 1 :
               /\ a = <<r, i>>
               /\ call[r].pc # "idle"
               /\ \A j \in 1 .. i - 1 : call[r].codes[j] \in Retryable
        BY <3>0
      <3>2. CASE r \in hit
        <4>1. /\ call'[r].pc # "idle"
              /\ Len(call[r].codes) \in Nat
              /\ Len(call'[r].codes) = Len(call[r].codes) + 1
              /\ \A j \in 1 .. Len(call[r].codes) :
                     call'[r].codes[j] = call[r].codes[j]
          BY <3>2, <1>7
        <4> QED BY SMTT(30), <3>1, <4>1
      <3>3. CASE r \notin hit
        BY <3>1, <3>3, <1>4
      <3> QED BY <3>2, <3>3
    <2>2. CASE a \in retry
      <3>1. PICK r \in again : a = <<r, Len(call[r].codes) + 2>>
        BY <2>2 DEF retry
      <3>2. r \in hit /\ r \in Calls /\ call[r].pc = "waiting" /\ code \in Retryable
        BY <1>2, <1>3
      <3>3. \A j \in 1 .. Len(call[r].codes) : call[r].codes[j] \in Retryable
        BY <3>2 DEF BridgeInv, BridgeGoesOnInv
      <3>4. /\ Len(call'[r].codes) = Len(call[r].codes) + 1
            /\ \A j \in 1 .. Len(call[r].codes) + 1 : call'[r].codes[j] \in Retryable
            /\ call'[r].pc = "waiting"
        BY <3>2, <3>3, <1>6, <1>7 DEF BridgeCallInv
      <3>5. Len(call[r].codes) \in Nat
        BY <3>2, <1>7
      <3>6. /\ Len(call[r].codes) + 2 \in 1 .. Len(call'[r].codes) + 1
            /\ \A j \in 1 .. (Len(call[r].codes) + 2) - 1 : call'[r].codes[j] \in Retryable
            /\ call'[r].pc # "idle"
        BY <3>4, <3>5
      <3> QED BY <3>1, <3>2, <3>6
    <2> QED BY <2>1, <2>2, <1>1
  <1>10. BridgeEffectsInv'
    BY <1>1 DEF BridgeInv, BridgeEffectsInv
  <1>11. PendingIsAwaited'
    <2>1. \A r \in again : Current(r)' = <<r, Len(call[r].codes) + 2>>
      BY <1>2, <1>3, <1>6, <1>7 DEF Current, BridgeCallInv
    <2>2. \A r \in Calls : r \notin hit => Current(r)' = Current(r)
      BY <1>4 DEF Current
    <2>3. \A r \in Calls : call'[r].pc = "waiting" <=>
                             \/ r \in again
                             \/ r \notin hit /\ call[r].pc = "waiting"
      BY <1>2, <1>3, <1>4, <1>7
    <2>4. \A a \in awaited' : \E r \in Calls : call'[r].pc = "waiting" /\ a = Current(r)'
      <3> TAKE a \in awaited'
      <3>1. CASE a \in retry
        <4>1. PICK r \in again : a = <<r, Len(call[r].codes) + 2>>
          BY <3>1 DEF retry
        <4> QED BY <4>1, <2>1, <2>3, <1>2, <1>3
      <3>2. CASE a \in awaited \ A
        <4>1. PICK r \in Calls : call[r].pc = "waiting" /\ a = Current(r)
          BY <3>2 DEF BridgeInv, PendingIsAwaited
        <4>2. r \notin hit
          BY <4>1, <3>2 DEF hit
        <4> QED BY <4>1, <4>2, <2>2, <2>3
      <3> QED BY <3>1, <3>2, <1>1
    <2>5. \A r \in Calls : call'[r].pc = "waiting" => Current(r)' \in awaited'
      <3> TAKE r \in Calls
      <3>1. CASE r \in again
        BY <3>1, <2>1, <1>1 DEF retry
      <3>2. CASE r \notin hit /\ call[r].pc = "waiting"
        <4>1. Current(r) \in awaited \ A
          BY <3>2 DEF hit, BridgeInv, PendingIsAwaited
        <4> QED BY <3>2, <4>1, <2>2, <1>1
      <3> QED BY <3>1, <3>2, <2>3
    <2> QED BY <2>4, <2>5 DEF PendingIsAwaited
  <1> QED BY <1>6, <1>8, <1>9, <1>10, <1>11 DEF BridgeInv

-----------------------------------------------------------------------------
LEMMA BridgeInvInit == BridgeInit => BridgeInv
  <1> SUFFICES ASSUME BridgeInit PROVE BridgeInv
    OBVIOUS
  <1>1. BridgeCallInv /\ BridgeGoesOnInv
    BY DEF BridgeInit, Idle, BridgeCallInv, Lists, BridgeGoesOnInv
  <1>2. BridgeSentInv /\ BridgeEffectsInv /\ PendingIsAwaited
    BY DEF BridgeInit, Idle, BridgeSentInv, BridgeEffectsInv, PendingIsAwaited
  <1> QED BY <1>1, <1>2 DEF BridgeInv

\* A step that leaves calls, table and what went out alone.
LEMMA CallsUntouched ==
    ASSUME BridgeInv, UNCHANGED <<call, awaited, sent>>, effects' \subseteq sent
    PROVE  BridgeInv'
  <1>1. BridgeCallInv' /\ BridgeGoesOnInv'
    BY DEF BridgeInv, BridgeCallInv, Lists, BridgeGoesOnInv
  <1>2. BridgeSentInv' /\ BridgeEffectsInv'
    BY DEF BridgeInv, BridgeSentInv, BridgeEffectsInv
  <1>3. PendingIsAwaited'
    BY DEF BridgeInv, PendingIsAwaited, Current
  <1> QED BY <1>1, <1>2, <1>3 DEF BridgeInv

\* What went out stays an attempt of its call while the call keeps its failures.
LEMMA SentKept ==
    ASSUME BridgeSentInv, sent' = sent,
           \A r \in Calls : call[r].pc # "idle" =>
               call'[r].pc # "idle" /\ call'[r].codes = call[r].codes
    PROVE  BridgeSentInv'
  <1> SUFFICES ASSUME NEW a \in sent
               PROVE  \E r \in Calls : \E i \in 1 .. Len(call'[r].codes) + 1 :
                        /\ a = <<r, i>>
                        /\ call'[r].pc # "idle"
                        /\ \A j \in 1 .. i - 1 : call'[r].codes[j] \in Retryable
    BY DEF BridgeSentInv
  <1>1. PICK r \in Calls : \E i \in 1 .. Len(call[r].codes) + 1 :
           /\ a = <<r, i>>
           /\ call[r].pc # "idle"
           /\ \A j \in 1 .. i - 1 : call[r].codes[j] \in Retryable
    BY DEF BridgeSentInv
  <1>2. call'[r].pc # "idle" /\ call'[r].codes = call[r].codes
    BY <1>1
  <1> QED BY <1>1, <1>2

\* A call is refused before anything was sent for it.
LEMMA RefuseKeeps ==
    ASSUME BridgeInv, NEW r \in Calls, NEW code \in Codes,
           call[r].pc = "idle", Refuse(r, code)
    PROVE  BridgeInv'
  <1>1. /\ call' = [call EXCEPT ![r].pc = "rejected", ![r].codes = <<code>>]
        /\ UNCHANGED <<awaited, sent, effects>>
    BY DEF Refuse
  <1>2. /\ call'[r].pc = "rejected"
        /\ call'[r].codes = <<code>>
        /\ \A s \in Calls : s # r => call'[s] = call[s]
    BY <1>1 DEF BridgeInv, BridgeCallInv
  <1>3. <<code>> \in Seq(Codes)
    OBVIOUS
  <1>4. BridgeCallInv'
    <2>1. \A s \in Calls : call'[s].list = call[s].list
      BY <1>1 DEF BridgeInv, BridgeCallInv
    <2>2. Lists' = Lists
      BY <2>1 DEF Lists
    <2> QED BY <1>1, <1>3, <2>2 DEF BridgeInv, BridgeCallInv
  <1>5. BridgeGoesOnInv'
    BY <1>2 DEF BridgeInv, BridgeGoesOnInv
  <1>6. BridgeSentInv' /\ BridgeEffectsInv'
    <2>1. \A s \in Calls : call[s].pc # "idle" =>
            call'[s].pc # "idle" /\ call'[s].codes = call[s].codes
      BY <1>2
    <2>2. BridgeSentInv'
      BY <2>1, <1>1, SentKept DEF BridgeInv
    <2> QED BY <2>2, <1>1 DEF BridgeInv, BridgeEffectsInv
  <1>7. PendingIsAwaited'
    <2>1. \A s \in Calls : call'[s].pc = "waiting" <=> call[s].pc = "waiting"
      BY <1>2
    <2>2. \A s \in Calls : call[s].pc = "waiting" => Current(s)' = Current(s)
      BY <1>2 DEF Current
    <2> QED BY <1>1, <2>1, <2>2 DEF BridgeInv, PendingIsAwaited
  <1> QED BY <1>4, <1>5, <1>6, <1>7 DEF BridgeInv

\* The first candidate is asked.
LEMMA SendKeeps ==
    ASSUME BridgeInv, NEW r \in Calls, Send(r)
    PROVE  BridgeInv'
  <1>1. /\ call[r].pc = "idle"
        /\ call' = [call EXCEPT ![r].pc = "waiting", ![r].list = Candidates]
        /\ awaited' = awaited \cup {<<r, 1>>}
        /\ sent' = sent \cup {<<r, 1>>}
        /\ effects' = effects
    BY DEF Send
  <1>2. call[r].codes = <<>>
    BY <1>1 DEF BridgeInv, BridgeGoesOnInv
  <1>3. /\ call'[r].pc = "waiting"
        /\ call'[r].codes = <<>>
        /\ call'[r].list = Candidates
        /\ \A s \in Calls : s # r => call'[s] = call[s]
    BY <1>1, <1>2 DEF BridgeInv, BridgeCallInv
  <1>4. BridgeCallInv'
    <2>1. \A s \in Calls : call'[s].list \in Lists'
      BY DEF Lists
    <2>2. \A s \in Calls :
            call'[s] \in [pc : {"idle", "waiting", "resolved", "rejected"},
                          list : Lists', codes : Seq(Codes),
                          answer : Answers \cup {"none"}]
      <3> TAKE s \in Calls
      <3>1. CASE s = r
        BY <3>1, <1>1, <2>1 DEF BridgeInv, BridgeCallInv
      <3>2. CASE s # r
        BY <3>2, <1>3, <2>1 DEF BridgeInv, BridgeCallInv
      <3> QED BY <3>1, <3>2
    <2>3. call' = [s \in Calls |-> call'[s]]
      BY <1>1 DEF BridgeInv, BridgeCallInv
    <2> QED BY <2>2, <2>3 DEF BridgeCallInv
  <1>5. BridgeGoesOnInv'
    BY <1>3 DEF BridgeInv, BridgeGoesOnInv
  <1>6. BridgeSentInv'
    <2> SUFFICES ASSUME NEW a \in sent'
                 PROVE  \E s \in Calls : \E i \in 1 .. Len(call'[s].codes) + 1 :
                          /\ a = <<s, i>>
                          /\ call'[s].pc # "idle"
                          /\ \A j \in 1 .. i - 1 : call'[s].codes[j] \in Retryable
      BY DEF BridgeSentInv
    <2>1. CASE a \in sent
      <3>0. PICK s \in Calls : \E i \in 1 .. Len(call[s].codes) + 1 :
               /\ a = <<s, i>>
               /\ call[s].pc # "idle"
               /\ \A j \in 1 .. i - 1 : call[s].codes[j] \in Retryable
        BY <2>1 DEF BridgeInv, BridgeSentInv
      <3>1. PICK i \in 1 .. Len(call[s].codes) + 1 :
               /\ a = <<s, i>>
               /\ call[s].pc # "idle"
               /\ \A j \in 1 .. i - 1 : call[s].codes[j] \in Retryable
        BY <3>0
      <3> QED BY <3>1, <1>1, <1>3
    <2>2. CASE a = <<r, 1>>
      <3>1. Len(call'[r].codes) = 0
        BY <1>3
      <3> QED BY <3>1, <2>2, <1>3
    <2> QED BY <2>1, <2>2, <1>1
  <1>7. BridgeEffectsInv'
    BY <1>1 DEF BridgeInv, BridgeEffectsInv
  <1>8. PendingIsAwaited'
    <2>1. \A s \in Calls : call'[s].pc = "waiting" <=> s = r \/ call[s].pc = "waiting"
      BY <1>3
    <2>2. Current(r)' = <<r, 1>>
      BY <1>3 DEF Current
    <2>3. \A s \in Calls : s # r => Current(s)' = Current(s)
      BY <1>3 DEF Current
    <2> QED BY <1>1, <2>1, <2>2, <2>3 DEF BridgeInv, PendingIsAwaited
  <1> QED BY <1>4, <1>5, <1>6, <1>7, <1>8 DEF BridgeInv

\* A viewer answered ok: its entry goes with its call.
LEMMA ResolveKeeps ==
    ASSUME BridgeInv, NEW a \in awaited, NEW answer \in Answers,
           call' = [call EXCEPT ![a[1]].pc = "resolved", ![a[1]].answer = answer],
           awaited' = awaited \ {a}, UNCHANGED <<sent, effects>>
    PROVE  BridgeInv'
  <1>1. PICK r \in Calls : call[r].pc = "waiting" /\ a = Current(r)
    BY DEF BridgeInv, PendingIsAwaited
  <1>2. a[1] = r
    BY <1>1 DEF Current
  <1>3. /\ call'[r].pc = "resolved"
        /\ call'[r].codes = call[r].codes
        /\ \A s \in Calls : s # r => call'[s] = call[s]
    BY <1>2 DEF BridgeInv, BridgeCallInv
  <1>4. BridgeCallInv'
    <2>1. \A s \in Calls : call'[s].list = call[s].list
      BY <1>2 DEF BridgeInv, BridgeCallInv
    <2>2. Lists' = Lists
      BY <2>1 DEF Lists
    <2>3. call' \in [Calls -> [pc : {"idle", "waiting", "resolved", "rejected"},
                               list : Lists, codes : Seq(Codes),
                               answer : Answers \cup {"none"}]]
      BY <1>2 DEF BridgeInv, BridgeCallInv
    <2> QED BY <2>2, <2>3 DEF BridgeCallInv
  <1>5. BridgeGoesOnInv'
    BY <1>3 DEF BridgeInv, BridgeGoesOnInv
  <1>6. BridgeSentInv' /\ BridgeEffectsInv'
    <2>1. \A s \in Calls : call[s].pc # "idle" =>
            call'[s].pc # "idle" /\ call'[s].codes = call[s].codes
      BY <1>3
    <2>2. BridgeSentInv'
      BY <2>1, SentKept DEF BridgeInv
    <2> QED BY <2>2 DEF BridgeInv, BridgeEffectsInv
  <1>7. PendingIsAwaited'
    <2>1. \A s \in Calls : call'[s].pc = "waiting" <=> s # r /\ call[s].pc = "waiting"
      BY <1>3
    <2>2. \A s \in Calls : s # r => Current(s)' = Current(s) /\ Current(s) # a
      BY <1>1, <1>3, CurrentIsInjective DEF Current
    <2> QED BY <1>1, <2>1, <2>2 DEF BridgeInv, PendingIsAwaited
  <1> QED BY <1>4, <1>5, <1>6, <1>7 DEF BridgeInv

-----------------------------------------------------------------------------
LEMMA BridgeInvStep == BridgeInv /\ [BridgeNext]_bridgeVars => BridgeInv'
  <1> SUFFICES ASSUME BridgeInv, [BridgeNext]_bridgeVars PROVE BridgeInv'
    OBVIOUS
  <1>c. /\ Retryable \subseteq Codes
        /\ {"NO_VIEWERS", "NO_BRIDGE_CAPABLE_VIEWER", "REFUSED",
            "TIMEOUT", "VIEWER_DISCONNECTED", "EXECUTION_ERROR"} \subseteq Codes
    BY DEF Codes, Retryable
  <1>a. effects \subseteq sent
    BY DEF BridgeInv, BridgeEffectsInv
  <1>1. ASSUME NEW v \in Viewers,
               Connect(v) \/ PeerCloses(v) \/ \E bridge \in BOOLEAN : Identify(v, bridge)
        PROVE  BridgeInv'
    BY <1>1, <1>a, CallsUntouched DEF Connect, PeerCloses, Identify
  <1>2. ASSUME NEW v \in Viewers, SocketError(v)
        PROVE  BridgeInv'
    <2>1. PendingOf(v) \in SUBSET awaited
      BY DEF PendingOf
    <2> QED BY <1>2, <2>1, <1>c, RejectKeeps DEF SocketError
  <1>3. ASSUME NEW v \in Viewers, SocketClosed(v)
        PROVE  BridgeInv'
    <2>1. PendingOf(v) \in SUBSET awaited
      BY DEF PendingOf
    <2> QED BY <1>3, <2>1, <1>c, RejectKeeps DEF SocketClosed
  <1>4. ASSUME CloseRoom
        PROVE  BridgeInv'
    <2>1. UNION {PendingOf(v) : v \in ToSet(room)} \in SUBSET awaited
      BY DEF PendingOf
    <2> QED BY <1>4, <2>1, <1>c, RejectKeeps DEF CloseRoom
  <1>5. ASSUME NEW r \in Calls, NoViewers(r) \/ NoCapableViewer(r)
        PROVE  BridgeInv'
    BY <1>5, <1>c, RefuseKeeps DEF NoViewers, NoCapableViewer
  <1>6. ASSUME NEW r \in Calls, Send(r)
        PROVE  BridgeInv'
    BY <1>6, SendKeeps
  <1>7. ASSUME NEW a \in Attempts, Timeout(a)
        PROVE  BridgeInv'
    BY <1>7, <1>c, RejectKeeps DEF Timeout
  <1>8. ASSUME NEW a \in Attempts, NEW answer \in Answers, Respond(a, answer)
        PROVE  BridgeInv'
    <2>1. a \in awaited /\ effects' = effects
      BY <1>8 DEF Respond
    <2>2. CASE answer \in {"result", "failure"}
      BY <1>8, <2>1, <2>2, ResolveKeeps DEF Respond
    <2>3. CASE answer = "error"
      <3>1. Reject({a}, "EXECUTION_ERROR", Open)
        BY <1>8, <2>3 DEF Respond
      <3> QED BY <2>1, <3>1, <1>c, RejectKeeps
    <2>4. CASE answer = "refusal"
      <3>1. Reject({a}, "REFUSED", Open)
        BY <1>8, <2>4 DEF Respond
      <3> QED BY <2>1, <3>1, <1>c, RejectKeeps
    <2> QED BY <2>2, <2>3, <2>4 DEF Answers
  <1>9. ASSUME NEW a \in Attempts, NEW answer \in Answers, NEW effect \in BOOLEAN,
               Execute(a, answer, effect)
        PROVE  BridgeInv'
    BY <1>9, <1>a, CallsUntouched DEF Execute
  <1>10. CASE UNCHANGED bridgeVars
    BY <1>10, <1>a, CallsUntouched DEF bridgeVars
  <1> QED
    BY <1>1, <1>2, <1>3, <1>4, <1>5, <1>6, <1>7, <1>8, <1>9, <1>10 DEF BridgeNext

LEMMA BridgeInductive == BridgeSpec => []BridgeInv
  BY BridgeInvInit, BridgeInvStep, PTL DEF BridgeSpec

\* No entry or timer of the table outlives its call, and no call waits for an
\* attempt that nothing will settle: for any number of viewers and calls.
THEOREM EntriesAreAwaited == BridgeSpec => []PendingIsAwaited
  <1>1. BridgeInv => PendingIsAwaited
    BY DEF BridgeInv
  <1> QED BY BridgeInductive, <1>1, PTL

\* The router asks a second viewer only after a retryable failure, so two
\* viewers change the document for one call only when the first was given up.
THEOREM GivenUpBefore == BridgeSpec => []SecondEffectOnlyAfterGivingUp
  <1>1. BridgeInv => SecondEffectOnlyAfterGivingUp
    <2> SUFFICES ASSUME BridgeInv, NEW a \in effects, NEW b \in effects,
                        a[1] = b[1], a[2] < b[2]
                 PROVE  call[a[1]].codes[a[2]] \in Retryable
      BY DEF SecondEffectOnlyAfterGivingUp
    <2>1. PICK r \in Calls : \E i \in 1 .. Len(call[r].codes) + 1 :
             /\ b = <<r, i>>
             /\ \A j \in 1 .. i - 1 : call[r].codes[j] \in Retryable
      BY DEF BridgeInv, BridgeEffectsInv, BridgeSentInv
    <2>2. PICK i \in 1 .. Len(call[r].codes) + 1 :
             /\ b = <<r, i>>
             /\ \A j \in 1 .. i - 1 : call[r].codes[j] \in Retryable
      BY <2>1
    <2>3. PICK s \in Calls : \E k \in 1 .. Len(call[s].codes) + 1 : a = <<s, k>>
      BY DEF BridgeInv, BridgeEffectsInv, BridgeSentInv
    <2>4. PICK k \in 1 .. Len(call[s].codes) + 1 : a = <<s, k>>
      BY <2>3
    <2>5. s = r /\ k < i
      BY <2>2, <2>4
    <2>6. k \in 1 .. i - 1
      BY <2>5
    <2> QED BY <2>2, <2>4, <2>5, <2>6
  <1> QED BY BridgeInductive, <1>1, PTL

-----------------------------------------------------------------------------
(***************************************************************************)
(* The types of the bridge. The list of a call is made by filtering the    *)
(* room, so first what that returns.                                       *)
(***************************************************************************)

\* A set of numbers has a least one: induction is by the least counterexample.
LEMMA LeastExists ==
    ASSUME NEW T \in SUBSET Nat, T # {}
    PROVE  \E n \in T : \A m \in T : n <= m
<1>1. PICK n \in T : \A m \in T : <<m, n>> \notin OpToRel(<, Nat)
  BY NatLessThanWellFounded, WFMin DEF OpToRel
<1>2. \A m \in T : ~(m < n)
  BY <1>1 DEF OpToRel
<1>3. QED BY <1>2

Enumerates(at, I) ==
    /\ at \in [1 .. Cardinality(I) -> I]
    /\ Range(at) = I
    /\ \A j, k \in DOMAIN at : j < k => at[j] < at[k]

\* Every finite set of numbers can be listed in order: the least one, then the
\* others.
LEMMA EnumerationExists ==
    ASSUME NEW I \in SUBSET Nat, IsFiniteSet(I)
    PROVE  \E at : Enumerates(at, I)
<1> DEFINE Bad(n) == \E J \in SUBSET Nat :
              IsFiniteSet(J) /\ Cardinality(J) = n /\ ~\E at : Enumerates(at, J)
           T == {n \in Nat : Bad(n)}
<1>1. SUFFICES ASSUME T # {} PROVE FALSE
  <2>1. Cardinality(I) \in Nat
    BY FS_CardinalityType
  <2>2. QED BY <1>1, <2>1
<1>2. PICK n \in T : \A m \in T : n <= m
  <2> HIDE DEF Bad
  <2>1. T \in SUBSET Nat
    OBVIOUS
  <2> HIDE DEF T
  <2>2. QED BY <1>1, <2>1, LeastExists
<1>3. PICK J \in SUBSET Nat :
         IsFiniteSet(J) /\ Cardinality(J) = n /\ ~\E at : Enumerates(at, J)
  BY <1>2
<1>4. J # {}
  <2>1. SUFFICES ASSUME J = {} PROVE \E at : Enumerates(at, J)
    BY <1>3
  <2>2. Cardinality(J) = 0 /\ 1 .. 0 = {}
    BY <2>1, FS_EmptySet
  <2>3. Enumerates([k \in 1 .. 0 |-> k], J)
    BY <2>1, <2>2 DEF Enumerates, Range
  <2>4. QED BY <2>3
<1>5. PICK m \in J : \A x \in J : m <= x
  BY <1>4, LeastExists
<1>6. /\ IsFiniteSet(J \ {m}) /\ Cardinality(J \ {m}) = n - 1 /\ n \in Nat \ {0}
      /\ n - 1 \in Nat
  <2>1. Cardinality(J \ {m}) \in Nat /\ IsFiniteSet(J \ {m}) /\ Cardinality(J \ {m}) = n - 1
    BY <1>3, FS_RemoveElement, FS_CardinalityType
  <2>2. QED BY <2>1, <1>2
<1>7. PICK at : Enumerates(at, J \ {m})
  <2>1. n - 1 \notin T
    <3> HIDE DEF Bad
    <3>1. n - 1 \in T => n <= n - 1
      BY <1>2
    <3>2. QED BY <3>1, <1>6
  <2>2. QED BY <2>1, <1>6
<1> DEFINE all == [k \in 1 .. n |-> IF k = 1 THEN m ELSE at[k - 1]]
<1>8. Enumerates(all, J)
  <2>1. /\ \A k \in 2 .. n : k - 1 \in 1 .. n - 1
        /\ \A k \in 1 .. n : k = 1 \/ k \in 2 .. n
        /\ \A k \in 1 .. n - 1 : k + 1 \in 2 .. n /\ (k + 1) - 1 = k /\ k + 1 \in 1 .. n
        /\ 1 \in 1 .. n
    BY <1>6
  <2>2. /\ at \in [1 .. n - 1 -> J \ {m}] /\ Range(at) = J \ {m}
        /\ \A j, k \in 1 .. n - 1 : j < k => at[j] < at[k]
    BY <1>6, <1>7 DEF Enumerates
  <2>3. all \in [1 .. n -> J]
    BY <2>1, <2>2
  <2>4. Range(all) = J
    <3>1. \A x \in J : \E k \in 1 .. n : all[k] = x
      <4> TAKE x \in J
      <4>1. CASE x = m
        BY <4>1, <2>1
      <4>2. CASE x # m
        <5>1. PICK k \in 1 .. n - 1 : at[k] = x
          BY <4>2, <2>2 DEF Range
        <5>2. all[k + 1] = x /\ k + 1 \in 1 .. n
          BY <5>1, <2>1
        <5>3. QED BY <5>2
      <4>3. QED BY <4>1, <4>2
    <3> HIDE DEF all
    <3>2. \A k \in 1 .. n : all[k] \in J
      BY <2>3
    <3>3. DOMAIN all = 1 .. n
      BY <2>3
    <3>4. Range(all) = {all[k] : k \in 1 .. n}
      BY <3>3 DEF Range
    <3>5. QED BY <3>1, <3>2, <3>4
  <2>5. ASSUME NEW j \in 1 .. n, NEW k \in 1 .. n, j < k PROVE all[j] < all[k]
    <3>1. k # 1 /\ k - 1 \in 1 .. n - 1
      BY <2>5, <1>6
    <3>2. all[k] = at[k - 1] /\ at[k - 1] \in J \ {m}
      BY <3>1, <2>2
    <3>3. CASE j = 1
      <4>1. m \in Nat /\ at[k - 1] \in Nat /\ m <= at[k - 1] /\ m # at[k - 1]
        BY <3>2, <1>5
      <4>2. QED BY <3>2, <3>3, <4>1
    <3>4. CASE j # 1
      <4>1. j - 1 \in 1 .. n - 1 /\ j - 1 < k - 1
        BY <3>4, <2>5, <1>6
      <4>2. QED BY <3>1, <3>2, <3>4, <4>1, <2>2
    <3>5. QED BY <3>3, <3>4
  <2> HIDE DEF all
  <2>6. QED BY <1>3, <2>3, <2>4, <2>5 DEF Enumerates
<1>9. QED BY <1>3, <1>8

\* So Places is well defined.
LEMMA PlacesInOrder ==
    ASSUME NEW I \in SUBSET Nat, IsFiniteSet(I)
    PROVE  Enumerates(Places(I), I) /\ Cardinality(I) \in Nat
<1>1. \E at \in [1 .. Cardinality(I) -> I] :
        /\ Range(at) = I
        /\ \A j, k \in DOMAIN at : j < k => at[j] < at[k]
  BY EnumerationExists DEF Enumerates
<1>2. QED BY <1>1, FS_CardinalityType DEF Places, Enumerates

Distinct(s) == \A i, j \in 1 .. Len(s) : s[i] = s[j] => i = j

\* Filter returns the members of both, each as often as before.
LEMMA FilterKeeps ==
    ASSUME NEW V, NEW s \in Seq(V), NEW S
    PROVE  /\ Filter(s, S) \in Seq(V)
           /\ ToSet(Filter(s, S)) = ToSet(s) \cap S
           /\ Distinct(s) => Distinct(Filter(s, S))
<1> DEFINE I == {i \in DOMAIN s : s[i] \in S}
           at == Places(I)
<1>1. I \in SUBSET Nat /\ IsFiniteSet(I) /\ DOMAIN s = 1 .. Len(s)
  <2>1. DOMAIN s = 1 .. Len(s) /\ Len(s) \in Nat
    OBVIOUS
  <2>2. IsFiniteSet(1 .. Len(s))
    BY <2>1, FS_Interval
  <2>3. QED BY <2>1, <2>2, FS_Subset
<1>2. Enumerates(at, I) /\ Cardinality(I) \in Nat
  <2> HIDE DEF I
  <2>1. QED BY <1>1, PlacesInOrder
<1>3. Filter(s, S) = [k \in 1 .. Cardinality(I) |-> s[at[k]]]
  BY <1>2 DEF Filter, Enumerates
<1>4. /\ at \in [1 .. Cardinality(I) -> I] /\ Range(at) = I
      /\ \A j, k \in 1 .. Cardinality(I) : j < k => at[j] < at[k]
  BY <1>2 DEF Enumerates
<1> DEFINE n == Cardinality(I)
<1> HIDE DEF at, n
<1>5. Filter(s, S) \in [1 .. n -> V] /\ n \in Nat
  BY <1>2, <1>3, <1>4 DEF n
<1>6. Filter(s, S) \in Seq(V) /\ Len(Filter(s, S)) = n
  BY <1>5
<1>7. ToSet(Filter(s, S)) = ToSet(s) \cap S
  <2>1. \A k \in 1 .. n : at[k] \in DOMAIN s /\ s[at[k]] \in S
    BY <1>4 DEF n
  <2>2. \A i \in DOMAIN s : s[i] \in S => \E k \in 1 .. n : at[k] = i
    BY <1>4 DEF n, Range
  <2>3. Filter(s, S) = [k \in 1 .. n |-> s[at[k]]]
    BY <1>3 DEF n
  <2> HIDE DEF I
  <2>4. QED BY <2>1, <2>2, <2>3 DEF ToSet
<1>8. ASSUME Distinct(s) PROVE Distinct(Filter(s, S))
  <2>1. \A k \in 1 .. n : at[k] \in 1 .. Len(s) /\ at[k] \in Nat
    BY <1>1, <1>4 DEF n
  <2>2. \A j, k \in 1 .. n : at[j] = at[k] => j = k
    <3>1. \A j, k \in 1 .. n : j < k => at[j] < at[k]
      BY <1>4 DEF n
    <3> HIDE DEF I
    <3>2. QED BY <2>1, <3>1, <1>5
  <2>3. Filter(s, S) = [k \in 1 .. n |-> s[at[k]]]
    BY <1>3 DEF n
  <2> HIDE DEF I
  <2>4. QED BY <1>6, <1>8, <2>1, <2>2, <2>3 DEF Distinct
<1>9. QED BY <1>6, <1>7, <1>8

\* Reverse does the same in the other order.
LEMMA ReverseKeeps ==
    ASSUME NEW V, NEW s \in Seq(V)
    PROVE  /\ Reverse(s) \in Seq(V)
           /\ Len(Reverse(s)) = Len(s)
           /\ Distinct(s) => Distinct(Reverse(s))
           /\ \A i \in 1 .. Len(s) : Reverse(s)[i] \in ToSet(s)
<1>1. Len(s) \in Nat /\ DOMAIN s = 1 .. Len(s) /\ s \in [1 .. Len(s) -> V]
  OBVIOUS
<1>2. \A i \in 1 .. Len(s) : (Len(s) - i) + 1 \in 1 .. Len(s)
  BY <1>1
<1>3. Reverse(s) = [i \in 1 .. Len(s) |-> s[(Len(s) - i) + 1]]
  BY DEF Reverse
<1>4. Reverse(s) \in [1 .. Len(s) -> V]
  BY <1>1, <1>2, <1>3
<1>5. Reverse(s) \in Seq(V) /\ Len(Reverse(s)) = Len(s)
  BY <1>1, <1>4
<1>6. ASSUME Distinct(s) PROVE Distinct(Reverse(s))
  <2>1. SUFFICES ASSUME NEW i \in 1 .. Len(s), NEW j \in 1 .. Len(s),
                        Reverse(s)[i] = Reverse(s)[j]
                 PROVE  i = j
    BY <1>5 DEF Distinct
  <2>2. s[(Len(s) - i) + 1] = s[(Len(s) - j) + 1]
    BY <2>1, <1>3
  <2>3. (Len(s) - i) + 1 = (Len(s) - j) + 1
    BY <2>2, <1>2, <1>6 DEF Distinct
  <2>4. QED BY <2>3, <1>1
<1>7. \A i \in 1 .. Len(s) : Reverse(s)[i] \in ToSet(s)
  BY <1>1, <1>2, <1>3 DEF ToSet
<1>8. QED BY <1>5, <1>6, <1>7

\* A list of distinct viewers has at most so many.
LEMMA DistinctIsBounded ==
    ASSUME NEW s \in Seq(Viewers), Distinct(s)
    PROVE  /\ s \in BoundedSeq(Viewers, Cardinality(Viewers))
           /\ Len(s) <= Cardinality(Viewers)
<1>1. Len(s) \in Nat /\ s \in [1 .. Len(s) -> Viewers]
  OBVIOUS
<1>2. s \in Injection(1 .. Len(s), Viewers)
  BY <1>1 DEF Injection, IsInjective, Distinct
<1>3. Cardinality(1 .. Len(s)) <= Cardinality(Viewers)
  BY <1>2, ViewersAssumption, FS_Injection
<1>4. Cardinality(1 .. Len(s)) = Len(s)
  BY <1>1, FS_Interval
<1>5. Cardinality(Viewers) \in Nat /\ Len(s) \in 0 .. Cardinality(Viewers)
  BY <1>1, <1>3, <1>4, ViewersAssumption, FS_CardinalityType
<1>6. s \in BoundedSeq(Viewers, Cardinality(Viewers))
  BY <1>1, <1>5 DEF BoundedSeq, SeqOf
<1>7. QED BY <1>5, <1>6

\* Who is in the room is connected, once.
BridgeRoomInv ==
    /\ sock \in [Viewers -> {"none", "open", "closing", "closed"}]
    /\ room \in Seq(Viewers) /\ Distinct(room)
    /\ capable \subseteq ToSet(room)
    /\ \A v \in ToSet(room) : Connected(v)

\* A call that waits has a candidate to wait for.
BridgeListInv ==
    \A r \in Calls :
        /\ call[r].list \in Seq(Viewers) /\ Distinct(call[r].list)
        /\ call[r].pc = "waiting" => Len(call[r].codes) + 1 <= Len(call[r].list)

\* What went out went to a candidate, and one that got it and is gone is not
\* waited for.
BridgeAskedInv ==
    /\ \A a \in sent : a[1] \in Calls /\ a[2] \in 1 .. Len(call[a[1]].list)
    /\ \A a \in awaited \cap sent : sock[Target(a)] # "closed"

BridgeAnswersInv == answers \subseteq sent \X Answers

BridgeShape == BridgeRoomInv /\ BridgeListInv /\ BridgeAskedInv /\ BridgeAnswersInv

\* An attempt that went out belongs to a call.
LEMMA SentIsPair ==
    ASSUME BridgeInv, NEW a \in sent
    PROVE  \E r \in Calls : \E i \in 1 .. Len(call[r].codes) + 1 : a = <<r, i>>
BY DEF BridgeInv, BridgeSentInv

LEMMA ShapeIsType ==
    ASSUME BridgeInv, BridgeShape
    PROVE  BridgeTypeOK
<1>1. /\ room \in BoundedSeq(Viewers, Cardinality(Viewers))
      /\ \A r \in Calls : /\ call[r].list \in BoundedSeq(Viewers, Cardinality(Viewers))
                          /\ Len(call[r].list) <= Cardinality(Viewers)
  BY DistinctIsBounded DEF BridgeShape, BridgeRoomInv, BridgeListInv
<1>2. Cardinality(Viewers) \in Nat /\ \A r \in Calls : Len(call[r].list) \in Nat
  BY ViewersAssumption, FS_CardinalityType DEF BridgeShape, BridgeListInv
<1>3. \A r \in Calls :
         /\ call[r].pc \in {"idle", "waiting", "resolved", "rejected"}
         /\ call[r].codes \in Seq(Codes)
         /\ call[r].answer \in Answers \cup {"none"}
         /\ Len(call[r].codes) \in Nat
  BY DEF BridgeInv, BridgeCallInv
<1>4. awaited \subseteq Attempts
  <2>1. SUFFICES ASSUME NEW r \in Calls, call[r].pc = "waiting"
                 PROVE  Current(r) \in Attempts
    BY DEF BridgeInv, PendingIsAwaited
  <2>2. Len(call[r].codes) + 1 \in 1 .. Cardinality(Viewers)
    BY <2>1, <1>1, <1>2, <1>3 DEF BridgeShape, BridgeListInv
  <2>3. QED BY <2>2 DEF Current, Attempts
<1>5. sent \subseteq Attempts
  <2>1. SUFFICES ASSUME NEW a \in sent PROVE a \in Attempts
    OBVIOUS
  <2>2. PICK r \in Calls : \E i \in 1 .. Len(call[r].codes) + 1 : a = <<r, i>>
    BY SentIsPair
  <2>3. a[1] = r /\ a = <<r, a[2]>> /\ a[2] \in 1 .. Len(call[r].list)
    BY <2>2 DEF BridgeShape, BridgeAskedInv
  <2>4. a[2] \in 1 .. Cardinality(Viewers)
    BY <2>3, <1>1, <1>2
  <2>5. QED BY <2>3, <2>4 DEF Attempts
<1>6. answers \subseteq Attempts \X Answers
  BY <1>5 DEF BridgeShape, BridgeAnswersInv
<1>7. effects \subseteq sent
  BY DEF BridgeInv, BridgeEffectsInv
<1>8. \A a \in awaited \cap sent : sock[call[a[1]].list[a[2]]] # "closed"
  BY DEF BridgeShape, BridgeAskedInv, Target
<1>9. sock \in [Viewers -> {"none", "open", "closing", "closed"}] /\ capable \subseteq ToSet(room)
  BY DEF BridgeShape, BridgeRoomInv
<1>10. QED BY <1>1, <1>3, <1>4, <1>5, <1>6, <1>7, <1>8, <1>9 DEF BridgeTypeOK

\* Rejecting attempts, when up are viewers that are still there and only viewers
\* whose attempts are rejected go.
LEMMA RejectShapes ==
    ASSUME BridgeInv, BridgeListInv, BridgeAskedInv, BridgeAnswersInv,
           NEW A \in SUBSET awaited, NEW code \in Codes, NEW up,
           Reject(A, code, up), answers' = answers,
           \A v \in up : sock'[v] # "closed",
           \A a \in (awaited \ A) \cap sent : sock'[Target(a)] # "closed"
    PROVE  BridgeListInv' /\ BridgeAskedInv' /\ BridgeAnswersInv'
<1> DEFINE hit   == {r \in Calls : Current(r) \in A}
           again == {r \in hit : Retries(r, code)}
           retry == {<<r, Len(call[r].codes) + 2>> : r \in again}
<1>1. /\ call' = [r \in Calls |->
           IF r \notin hit THEN call[r]
           ELSE [call[r] EXCEPT
                   !.codes = Append(@, code),
                   !.pc = IF r \in again THEN "waiting" ELSE "rejected"]]
      /\ awaited' = (awaited \ A) \cup retry
      /\ sent' = sent \cup {a \in retry : Target(a) \in up}
  BY DEF Reject
<1>2. \A r \in again : r \in hit /\ Len(call[r].codes) + 1 < Len(call[r].list)
  BY DEF Retries
<1> HIDE DEF hit, again, retry
<1>3. hit \subseteq Calls
  BY DEF hit
<1>4. \A r \in Calls : call[r] \in [pc : {"idle", "waiting", "resolved", "rejected"},
                   list : Lists, codes : Seq(Codes), answer : Answers \cup {"none"}]
  BY DEF BridgeInv, BridgeCallInv
<1>5. \A r \in Calls : call'[r].list = call[r].list
  BY <1>1, <1>4
<1>6. \A r \in hit : /\ call'[r].codes = Append(call[r].codes, code)
                     /\ call'[r].pc = IF r \in again THEN "waiting" ELSE "rejected"
  BY <1>1, <1>3, <1>4
<1>7. \A r \in Calls : /\ call[r].codes \in Seq(Codes) /\ Len(call[r].codes) \in Nat
                       /\ call[r].list \in Seq(Viewers) /\ Len(call[r].list) \in Nat
  <2>1. \A r \in Calls : call[r].codes \in Seq(Codes) /\ call[r].list \in Seq(Viewers)
    BY <1>4 DEF BridgeListInv
  <2>2. QED BY <2>1
<1>8. BridgeListInv'
  <2>1. SUFFICES ASSUME NEW r \in Calls
                 PROVE  /\ call'[r].list \in Seq(Viewers) /\ Distinct(call'[r].list)
                        /\ call'[r].pc = "waiting" =>
                               Len(call'[r].codes) + 1 <= Len(call'[r].list)
    BY DEF BridgeListInv, Distinct
  <2>2. call[r].list \in Seq(Viewers) /\ Distinct(call[r].list)
    BY DEF BridgeListInv
  <2>3. CASE r \notin hit
    <3>1. call'[r] = call[r]
      BY <1>1, <2>3
    <3>2. QED BY <2>2, <3>1 DEF BridgeListInv
  <2>4. CASE r \in hit
    <3>1. Len(call'[r].codes) = Len(call[r].codes) + 1
      BY <1>6, <1>7, <2>4, AddedCode
    <3>2. call'[r].pc = "waiting" => r \in again
      BY <1>6, <2>4
    <3>3. call'[r].pc = "waiting" => Len(call[r].codes) + 1 < Len(call[r].list)
      BY <1>2, <3>2
    <3>4. QED BY <1>5, <1>7, <2>2, <3>1, <3>3
  <2>5. QED BY <2>3, <2>4
<1>9. \A a \in retry : a[1] \in Calls /\ a[2] \in 1 .. Len(call[a[1]].list) /\ a \notin sent
  <2>1. SUFFICES ASSUME NEW r \in again
                 PROVE  LET a == <<r, Len(call[r].codes) + 2>>
                        IN  a[1] \in Calls /\ a[2] \in 1 .. Len(call[a[1]].list) /\ a \notin sent
    BY DEF retry
  <2>2. Len(call[r].codes) + 2 \in 1 .. Len(call[r].list) /\ r \in Calls
    BY <1>2, <1>3, <1>7
  <2>3. <<r, Len(call[r].codes) + 2>> \notin sent
    <3>1. SUFFICES ASSUME <<r, Len(call[r].codes) + 2>> \in sent PROVE FALSE
      OBVIOUS
    <3>2. PICK s \in Calls : \E i \in 1 .. Len(call[s].codes) + 1 :
             <<r, Len(call[r].codes) + 2>> = <<s, i>>
      BY <3>1, SentIsPair
    <3>3. Len(call[r].codes) + 2 \in 1 .. Len(call[r].codes) + 1
      BY <3>2
    <3>4. QED BY <3>3, <2>2, <1>7
  <2>4. QED BY <2>2, <2>3
<1>10. BridgeAskedInv'
  <2>1. ASSUME NEW a \in sent'
        PROVE  a[1] \in Calls /\ a[2] \in 1 .. Len(call'[a[1]].list)
    <3>1. a[1] \in Calls /\ a[2] \in 1 .. Len(call[a[1]].list)
      BY <2>1, <1>1, <1>9 DEF BridgeAskedInv
    <3>2. QED BY <3>1, <1>5
  <2>2. ASSUME NEW a \in awaited' \cap sent'
        PROVE  sock'[call'[a[1]].list[a[2]]] # "closed"
    <3>1. call'[a[1]].list[a[2]] = Target(a)
      BY <2>1, <2>2, <1>5 DEF Target
    <3>2. CASE a \in sent
      <4>1. a \in awaited \ A
        BY <3>2, <2>2, <1>1, <1>9
      <4>2. QED BY <4>1, <3>1, <3>2
    <3>3. CASE a \notin sent
      BY <3>3, <3>1, <2>2, <1>1
    <3>4. QED BY <3>2, <3>3
  <2>3. QED BY <2>1, <2>2 DEF BridgeAskedInv, Target
<1>11. BridgeAnswersInv'
  BY <1>1 DEF BridgeAnswersInv
<1>12. QED BY <1>8, <1>10, <1>11

\* A room is left by one or by all.
LEMMA RoomKeeps ==
    ASSUME BridgeRoomInv,
           \/ \E v \in Viewers : \/ Connect(v) \/ PeerCloses(v)
                                 \/ SocketError(v) \/ SocketClosed(v)
                                 \/ \E bridge \in BOOLEAN : Identify(v, bridge)
           \/ CloseRoom
           \/ UNCHANGED <<sock, room, capable>>
    PROVE  BridgeRoomInv'
<1>t. /\ sock \in [Viewers -> {"none", "open", "closing", "closed"}]
      /\ room \in Seq(Viewers) /\ Distinct(room)
      /\ capable \subseteq ToSet(room) /\ ToSet(room) \subseteq Viewers
      /\ \A v \in ToSet(room) : Connected(v)
  BY DEF BridgeRoomInv, ToSet
<1>1. ASSUME NEW v \in Viewers, Connect(v) PROVE BridgeRoomInv'
  <2>1. /\ sock[v] = "none" /\ sock' = [sock EXCEPT ![v] = "open"]
        /\ room' = Append(room, v) /\ capable' = capable
    BY <1>1 DEF Connect
  <2>2. v \notin ToSet(room)
    BY <2>1, <1>t DEF Connected
  <2>3. /\ Len(room) \in Nat /\ room' \in Seq(Viewers) /\ Len(room') = Len(room) + 1
        /\ \A i \in 1 .. Len(room) : room'[i] = room[i] /\ room[i] \in ToSet(room)
        /\ room'[Len(room) + 1] = v
    BY <2>1, <1>t DEF ToSet
  <2>4. Distinct(room')
    BY <2>2, <2>3, <1>t DEF Distinct
  <2>5. ToSet(room') = ToSet(room) \cup {v}
    <3>1. DOMAIN room' = 1 .. Len(room) + 1 /\ DOMAIN room = 1 .. Len(room)
      BY <2>3, <1>t
    <3>2. \A i \in 1 .. Len(room) + 1 : i \in 1 .. Len(room) \/ i = Len(room) + 1
      BY <2>3
    <3>3. \A i \in 1 .. Len(room) : i \in 1 .. Len(room) + 1
      BY <2>3
    <3>4. Len(room) + 1 \in 1 .. Len(room) + 1
      BY <2>3
    <3>5. QED BY <3>1, <3>2, <3>3, <3>4, <2>3 DEF ToSet
  <2>6. \A w \in ToSet(room') : sock'[w] \in {"open", "closing"}
    BY <2>1, <2>5, <1>t DEF Connected
  <2>7. QED BY <2>1, <2>3, <2>4, <2>5, <2>6, <1>t DEF BridgeRoomInv, Connected, Distinct, ToSet
<1>2. ASSUME NEW v \in Viewers, PeerCloses(v) \/ SocketError(v) PROVE BridgeRoomInv'
  <2>1. sock' = [sock EXCEPT ![v] = "closing"] /\ UNCHANGED <<room, capable>>
    BY <1>2 DEF PeerCloses, SocketError
  <2>2. QED BY <2>1, <1>t DEF BridgeRoomInv, Connected, Distinct
<1>3. ASSUME NEW v \in Viewers, SocketClosed(v) PROVE BridgeRoomInv'
  <2>1. /\ sock' = [sock EXCEPT ![v] = "closed"]
        /\ room' = Filter(room, Viewers \ {v}) /\ capable' = capable \ {v}
    BY <1>3 DEF SocketClosed
  <2>2. /\ room' \in Seq(Viewers) /\ Distinct(room')
        /\ ToSet(room') = ToSet(room) \cap (Viewers \ {v})
    BY <2>1, <1>t, FilterKeeps
  <2>3. capable' \subseteq ToSet(room') /\ \A w \in ToSet(room') : sock'[w] \in {"open", "closing"}
    BY <2>1, <2>2, <1>t DEF Connected
  <2>4. QED BY <2>1, <2>2, <2>3, <1>t DEF BridgeRoomInv, Connected, Distinct, ToSet
<1>4. ASSUME NEW v \in Viewers, NEW bridge \in BOOLEAN, Identify(v, bridge)
      PROVE  BridgeRoomInv'
  <2>1. UNCHANGED <<sock, room>> /\ capable' \subseteq ToSet(room)
    BY <1>4, <1>t DEF Identify
  <2>2. QED BY <2>1, <1>t DEF BridgeRoomInv, Connected, Distinct, ToSet
<1>5. ASSUME CloseRoom PROVE BridgeRoomInv'
  <2>1. /\ sock' = [v \in Viewers |-> IF v \in ToSet(room) THEN "closing" ELSE sock[v]]
        /\ room' = <<>> /\ capable' = {}
    BY <1>5 DEF CloseRoom
  <2>2. room' \in Seq(Viewers) /\ Distinct(room') /\ ToSet(room') = {}
    BY <2>1 DEF Distinct, ToSet
  <2>3. QED BY <2>1, <2>2, <1>t DEF BridgeRoomInv, Distinct, ToSet
<1>6. CASE UNCHANGED <<sock, room, capable>>
  BY <1>6 DEF BridgeRoomInv, Connected, Distinct, ToSet
<1>7. QED BY <1>1, <1>2, <1>3, <1>4, <1>5, <1>6

\* The calls, while every socket that closes is no longer waited for.
LEMMA ShapeUntouched ==
    ASSUME BridgeShape, BridgeRoomInv', UNCHANGED <<call, awaited, sent>>,
           answers' \subseteq sent \X Answers,
           \A v \in Viewers : sock'[v] = "closed" => sock[v] = "closed"
    PROVE  BridgeShape'
<1>1. BridgeListInv'
  BY DEF BridgeShape, BridgeListInv, Distinct
<1>2. \A a \in sent : Target(a) \in Viewers
  BY DEF BridgeShape, BridgeListInv, BridgeAskedInv, Target
<1>3. BridgeAskedInv'
  BY <1>2 DEF BridgeShape, BridgeAskedInv, Target
<1>4. QED BY <1>1, <1>3 DEF BridgeShape, BridgeAnswersInv

\* A call is refused, or gets its candidates, of whom the first one is open.
LEMMA StartShapes ==
    ASSUME BridgeInv, BridgeShape, NEW r \in Calls,
           NoViewers(r) \/ NoCapableViewer(r) \/ Send(r)
    PROVE  BridgeShape'
<1>1. /\ call[r].pc = "idle" /\ UNCHANGED <<sock, capable, room, answers>>
      /\ \/ /\ \E code \in Codes :
                  call' = [call EXCEPT ![r].pc = "rejected", ![r].codes = <<code>>]
            /\ UNCHANGED <<awaited, sent>>
         \/ /\ Candidates # <<>>
            /\ call' = [call EXCEPT ![r].pc = "waiting", ![r].list = Candidates]
            /\ awaited' = awaited \cup {<<r, 1>>} /\ sent' = sent \cup {<<r, 1>>}
  BY DEF NoViewers, NoCapableViewer, Refuse, Send, Codes
<1>2. BridgeRoomInv'
  BY <1>1, RoomKeeps DEF BridgeShape
<1>3. call \in [Calls -> [pc : {"idle", "waiting", "resolved", "rejected"},
                   list : Lists, codes : Seq(Codes), answer : Answers \cup {"none"}]]
  BY DEF BridgeInv, BridgeCallInv
<1>4. call[r].codes = <<>>
  BY <1>1 DEF BridgeInv, BridgeGoesOnInv
<1>5. \A s \in Calls : s # r => call'[s] = call[s]
  BY <1>1, <1>3
<1>6. <<r, 1>> \notin awaited /\ \A a \in sent : a[1] # r
  <2>1. <<r, 1>> \notin awaited
    BY <1>1, <1>3, <1>4 DEF BridgeInv, PendingIsAwaited, Current
  <2>2. \A a \in sent : a[1] # r
    <3>1. SUFFICES ASSUME NEW a \in sent, a[1] = r PROVE FALSE
      OBVIOUS
    <3>2. PICK s \in Calls : call[s].pc # "idle" /\ \E i \in 1 .. Len(call[s].codes) + 1 : a = <<s, i>>
      BY DEF BridgeInv, BridgeSentInv
    <3>3. QED BY <3>1, <3>2, <1>1
  <2>3. QED BY <2>1, <2>2
<1>7. ASSUME NEW code \in Codes, UNCHANGED <<awaited, sent>>,
             call' = [call EXCEPT ![r].pc = "rejected", ![r].codes = <<code>>]
      PROVE  BridgeShape'
  <2>1. call'[r].list = call[r].list /\ call'[r].pc = "rejected"
    BY <1>3, <1>7
  <2>2. BridgeListInv'
    BY <1>5, <2>1 DEF BridgeShape, BridgeListInv, Distinct
  <2>3. \A s \in Calls : call'[s].list = call[s].list
    BY <1>5, <2>1
  <2>4. BridgeAskedInv'
    BY <1>1, <1>7, <2>3 DEF BridgeShape, BridgeAskedInv, Target
  <2>5. QED BY <1>1, <1>2, <1>7, <2>2, <2>4 DEF BridgeShape, BridgeAnswersInv
<1>8. ASSUME Candidates # <<>>,
             call' = [call EXCEPT ![r].pc = "waiting", ![r].list = Candidates],
             awaited' = awaited \cup {<<r, 1>>}, sent' = sent \cup {<<r, 1>>}
      PROVE  BridgeShape'
  <2> DEFINE open == Filter(room, Open \cap capable)
  <2>1. /\ open \in Seq(Viewers) /\ Distinct(open)
        /\ ToSet(open) = ToSet(room) \cap (Open \cap capable)
    BY FilterKeeps DEF BridgeShape, BridgeRoomInv
  <2> HIDE DEF open
  <2>2. /\ Candidates \in Seq(Viewers) /\ Distinct(Candidates)
        /\ \A i \in 1 .. Len(Candidates) : Candidates[i] \in Open
    <3>1. Candidates = Reverse(open)
      BY DEF Candidates, open
    <3>2. QED BY <2>1, <3>1, ReverseKeeps
  <2>3. Len(Candidates) \in Nat \ {0} /\ 1 \in 1 .. Len(Candidates)
    BY <1>8, <2>2
  <2>4. /\ call'[r].list = Candidates /\ call'[r].pc = "waiting"
        /\ call'[r].codes = <<>>
    BY <1>3, <1>4, <1>8
  <2>5. BridgeListInv'
    BY <1>5, <2>2, <2>3, <2>4 DEF BridgeShape, BridgeListInv, Distinct
  <2>6. \A a \in sent : Target(a)' = Target(a) /\ call'[a[1]].list = call[a[1]].list
    BY <1>5, <1>6 DEF BridgeShape, BridgeAskedInv, Target
  <2>7. Target(<<r, 1>>)' \in Open
    BY <2>2, <2>3, <2>4 DEF Target
  <2>8. BridgeAskedInv'
    <3>1. \A a \in sent' : a[1] \in Calls /\ a[2] \in 1 .. Len(call'[a[1]].list)
      <4>1. \A a \in sent : a[1] \in Calls /\ a[2] \in 1 .. Len(call'[a[1]].list)
        BY <2>6 DEF BridgeShape, BridgeAskedInv
      <4>2. <<r, 1>>[1] = r /\ <<r, 1>>[2] = 1
        OBVIOUS
      <4>3. QED BY <1>8, <2>3, <2>4, <4>1, <4>2
    <3>2. \A a \in awaited' \cap sent' : sock'[Target(a)'] # "closed"
      <4>1. \A a \in awaited' \cap sent' : a = <<r, 1>> \/ a \in awaited \cap sent
        BY <1>6, <1>8
      <4>2. QED BY <4>1, <1>1, <2>6, <2>7 DEF BridgeShape, BridgeAskedInv, Open
    <3>3. QED BY <3>1, <3>2 DEF BridgeAskedInv
  <2>9. QED BY <1>1, <1>2, <1>8, <2>5, <2>8 DEF BridgeShape, BridgeAnswersInv
<1>9. QED BY <1>1, <1>7, <1>8

\* An ok answer ends its call.
LEMMA ResolveShapes ==
    ASSUME BridgeInv, BridgeShape, NEW a \in awaited, NEW answer \in Answers,
           call' = [call EXCEPT ![a[1]].pc = "resolved", ![a[1]].answer = answer],
           awaited' = awaited \ {a}, UNCHANGED <<sock, capable, room, answers, sent>>
    PROVE  BridgeShape'
<1>1. a[1] \in Calls
  BY DEF BridgeInv, PendingIsAwaited, Current
<1>2. \A s \in Calls : /\ call'[s].list = call[s].list /\ call'[s].codes = call[s].codes
                       /\ call'[s].pc = "waiting" => call[s].pc = "waiting"
  BY <1>1 DEF BridgeInv, BridgeCallInv
<1>3. BridgeListInv'
  <2>1. SUFFICES ASSUME NEW s \in Calls
                 PROVE  /\ call'[s].list \in Seq(Viewers) /\ Distinct(call'[s].list)
                        /\ call'[s].pc = "waiting" =>
                               Len(call'[s].codes) + 1 <= Len(call'[s].list)
    BY DEF BridgeListInv, Distinct
  <2>2. QED BY <1>2 DEF BridgeShape, BridgeListInv
<1>4. BridgeAskedInv'
  BY <1>2 DEF BridgeShape, BridgeAskedInv, Target
<1>5. BridgeRoomInv'
  BY RoomKeeps DEF BridgeShape
<1>6. QED BY <1>3, <1>4, <1>5 DEF BridgeShape, BridgeAnswersInv

\* Timeouts and answers that fail reject one attempt and close nothing.
LEMMA FailureShapes ==
    ASSUME BridgeInv, BridgeShape, NEW a \in awaited, NEW code \in Codes,
           Reject({a}, code, Open), UNCHANGED <<sock, capable, room, answers>>
    PROVE  BridgeShape'
<1>1. BridgeRoomInv'
  BY RoomKeeps DEF BridgeShape
<1>2. \A v \in Open : sock'[v] # "closed"
  BY DEF Open
<1>3. \A b \in (awaited \ {a}) \cap sent : sock'[Target(b)] # "closed"
  BY DEF BridgeShape, BridgeAskedInv
<1>4. BridgeListInv' /\ BridgeAskedInv' /\ BridgeAnswersInv'
  BY <1>2, <1>3, RejectShapes DEF BridgeShape
<1>5. QED BY <1>1, <1>4 DEF BridgeShape

LEMMA ShapeStep == BridgeInv /\ BridgeShape /\ [BridgeNext]_bridgeVars => BridgeShape'
<1> SUFFICES ASSUME BridgeInv, BridgeShape, [BridgeNext]_bridgeVars PROVE BridgeShape'
  OBVIOUS
<1>c. {"TIMEOUT", "VIEWER_DISCONNECTED", "EXECUTION_ERROR", "REFUSED"} \subseteq Codes
  BY DEF Codes, Retryable
<1>s. sock \in [Viewers -> {"none", "open", "closing", "closed"}]
  BY DEF BridgeShape, BridgeRoomInv
<1>a. answers \subseteq sent \X Answers
  BY DEF BridgeShape, BridgeAnswersInv
<1>1. ASSUME NEW v \in Viewers,
             Connect(v) \/ PeerCloses(v) \/ \E bridge \in BOOLEAN : Identify(v, bridge)
      PROVE  BridgeShape'
  <2>1. BridgeRoomInv'
    BY <1>1, RoomKeeps DEF BridgeShape
  <2>2. /\ sock' \in {sock, [sock EXCEPT ![v] = "open"], [sock EXCEPT ![v] = "closing"]}
        /\ UNCHANGED <<call, awaited, sent, answers>>
    BY <1>1 DEF Connect, PeerCloses, Identify
  <2>3. \A w \in Viewers : sock'[w] = "closed" => sock[w] = "closed"
    BY <2>2, <1>s
  <2>4. QED BY <2>1, <2>2, <2>3, <1>a, ShapeUntouched
<1>2. ASSUME NEW v \in Viewers, SocketError(v) PROVE BridgeShape'
  <2>1. BridgeRoomInv'
    BY <1>2, RoomKeeps DEF BridgeShape
  <2>2. /\ sock' = [sock EXCEPT ![v] = "closing"] /\ answers' = answers
        /\ Reject(PendingOf(v), "VIEWER_DISCONNECTED", Open \ {v})
        /\ PendingOf(v) \subseteq awaited
    BY <1>2 DEF SocketError, PendingOf
  <2>3. /\ \A w \in Open \ {v} : sock'[w] # "closed"
        /\ \A b \in (awaited \ PendingOf(v)) \cap sent : sock'[Target(b)] # "closed"
    BY <2>2, <1>s DEF Open, PendingOf, BridgeShape, BridgeAskedInv
  <2>4. QED BY <2>1, <2>2, <2>3, <1>c, RejectShapes DEF BridgeShape
<1>3. ASSUME NEW v \in Viewers, SocketClosed(v) PROVE BridgeShape'
  <2>1. BridgeRoomInv'
    BY <1>3, RoomKeeps DEF BridgeShape
  <2>2. /\ sock' = [sock EXCEPT ![v] = "closed"] /\ answers' = answers
        /\ Reject(PendingOf(v), "VIEWER_DISCONNECTED", Open \ {v})
        /\ PendingOf(v) \subseteq awaited
    BY <1>3 DEF SocketClosed, PendingOf
  <2>3. /\ \A w \in Open \ {v} : sock'[w] # "closed"
        /\ \A b \in (awaited \ PendingOf(v)) \cap sent : sock'[Target(b)] # "closed"
    BY <2>2, <1>s DEF Open, PendingOf, BridgeShape, BridgeAskedInv
  <2>4. QED BY <2>1, <2>2, <2>3, <1>c, RejectShapes DEF BridgeShape
<1>4. ASSUME CloseRoom PROVE BridgeShape'
  <2> DEFINE A == UNION {PendingOf(v) : v \in ToSet(room)}
  <2>1. BridgeRoomInv'
    BY <1>4, RoomKeeps DEF BridgeShape
  <2>2. /\ sock' = [v \in Viewers |-> IF v \in ToSet(room) THEN "closing" ELSE sock[v]]
        /\ answers' = answers /\ A \subseteq awaited
        /\ Reject(A, "VIEWER_DISCONNECTED", Open \ ToSet(room))
    BY <1>4 DEF CloseRoom, PendingOf
  <2> HIDE DEF A
  <2>3. \A b \in awaited \cap sent : Target(b) \in Viewers /\ sock[Target(b)] # "closed"
    BY DEF BridgeShape, BridgeAskedInv, BridgeListInv, Target
  <2>4. /\ \A w \in Open \ ToSet(room) : sock'[w] # "closed"
        /\ \A b \in (awaited \ A) \cap sent : sock'[Target(b)] # "closed"
    BY <2>2, <2>3 DEF Open
  <2>5. QED BY <2>1, <2>2, <2>4, <1>c, RejectShapes DEF BridgeShape
<1>5. ASSUME NEW r \in Calls, NoViewers(r) \/ NoCapableViewer(r) \/ Send(r)
      PROVE  BridgeShape'
  BY <1>5, StartShapes
<1>6. ASSUME NEW a \in Attempts, Timeout(a) PROVE BridgeShape'
  BY <1>6, <1>c, FailureShapes DEF Timeout
<1>7. ASSUME NEW a \in Attempts, NEW answer \in Answers, Respond(a, answer)
      PROVE  BridgeShape'
  <2>1. a \in awaited /\ UNCHANGED <<sock, capable, room, answers>>
    BY <1>7 DEF Respond
  <2>2. CASE answer \in {"result", "failure"}
    BY <1>7, <2>1, <2>2, ResolveShapes DEF Respond
  <2>3. CASE answer = "error"
    <3>1. Reject({a}, "EXECUTION_ERROR", Open)
      BY <1>7, <2>3 DEF Respond
    <3>2. QED BY <2>1, <3>1, <1>c, FailureShapes
  <2>4. CASE answer = "refusal"
    <3>1. Reject({a}, "REFUSED", Open)
      BY <1>7, <2>4 DEF Respond
    <3>2. QED BY <2>1, <3>1, <1>c, FailureShapes
  <2>5. QED BY <2>2, <2>3, <2>4 DEF Answers
<1>8. ASSUME NEW a \in Attempts, NEW answer \in Answers, NEW effect \in BOOLEAN,
             Execute(a, answer, effect)
      PROVE  BridgeShape'
  <2>1. /\ UNCHANGED <<sock, capable, room, call, awaited, sent>>
        /\ answers' \subseteq sent \X Answers
    BY <1>8, <1>a DEF Execute
  <2>2. BridgeRoomInv'
    BY <2>1, RoomKeeps DEF BridgeShape
  <2>3. QED BY <2>1, <2>2, ShapeUntouched
<1>9. CASE UNCHANGED bridgeVars
  <2>1. UNCHANGED <<sock, capable, room, call, awaited, sent, answers>>
    BY <1>9 DEF bridgeVars
  <2>2. BridgeRoomInv'
    BY <2>1, RoomKeeps DEF BridgeShape
  <2>3. QED BY <2>1, <2>2, <1>a, ShapeUntouched
<1>10. QED BY <1>1, <1>2, <1>3, <1>4, <1>5, <1>6, <1>7, <1>8, <1>9 DEF BridgeNext

LEMMA ShapeInit == BridgeInit => BridgeShape
<1> SUFFICES ASSUME BridgeInit PROVE BridgeShape
  OBVIOUS
<1>1. BridgeRoomInv
  BY DEF BridgeInit, BridgeRoomInv, Distinct, ToSet
<1>2. BridgeListInv
  <2>1. \A r \in Calls : call[r].list = <<>> /\ call[r].pc = "idle"
    BY DEF BridgeInit, Idle
  <2>2. <<>> \in Seq(Viewers) /\ Distinct(<<>>)
    BY DEF Distinct
  <2>3. QED BY <2>1, <2>2 DEF BridgeListInv
<1>3. BridgeAskedInv /\ BridgeAnswersInv
  BY DEF BridgeInit, BridgeAskedInv, BridgeAnswersInv
<1>4. QED BY <1>1, <1>2, <1>3 DEF BridgeShape

\* The types of the bridge (ws.ts), for any finite set of connections: a call's
\* candidates are distinct viewers, it never runs past them, and it does not go on
\* waiting for a viewer that got its request and has closed.
THEOREM BridgeTypeCorrect == BridgeSpec => []BridgeTypeOK
<1>1. BridgeSpec => []BridgeShape
  BY BridgeInductive, ShapeInit, ShapeStep, PTL DEF BridgeSpec
<1>2. QED BY <1>1, BridgeInductive, ShapeIsType, PTL

=============================================================================
