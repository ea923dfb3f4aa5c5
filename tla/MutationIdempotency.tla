------------------------ MODULE MutationIdempotency ------------------------
(***************************************************************************)
(* Idempotency keys of the mutation routes: the in-memory reservation      *)
(* table of src/server/mutation-idempotency.ts, the completed records of   *)
(* src/server/db.ts, and the two kinds of route that use them.             *)
(*                                                                         *)
(*   - a route of src/server/agent-routes.ts RESERVES the key, with a      *)
(*     lease, before it runs the mutation, and completes or releases the   *)
(*     reservation afterwards;                                             *)
(*   - POST /documents/:slug/ops of src/server/routes.ts looks for a       *)
(*     completed record, runs the mutation, and stores the record; it      *)
(*     takes no reservation.                                               *)
(*                                                                         *)
(* A key stands for one (document, route, Idempotency-Key) triple, so it   *)
(* belongs to one kind of route. A request is one HTTP attempt; a retry is *)
(* another request with the same key and the same hash. A response is      *)
(* named by the request that produced it, and an owner token (a fresh      *)
(* UUID) by the request that drew it.                                      *)
(***************************************************************************)
EXTENDS FiniteSets

CONSTANTS
    Requests,      \* HTTP attempts
    Keys,          \* (document, route, Idempotency-Key) triples
    ReservedKeys,  \* the keys of agent routes
    Hashes,        \* hashes of request bodies
    None           \* no entry

ASSUME ReservedKeysAssumption == ReservedKeys \subseteq Keys
ASSUME NoneAssumption ==
    /\ None \notin [hash : Hashes, owner : Requests, live : BOOLEAN]
    /\ None \notin [hash : Hashes, response : Requests]
    /\ None \notin Requests

VARIABLES
    req,      \* request -> its key and the hash of its body
    pc,       \* request -> where its handler is
    outcome,  \* request -> what the client was told
    replayOf, \* request -> whose response it was given, if a replay
    pending,  \* key -> the reservation in pendingReservations, if any
    stored,   \* key -> the completed record in the database, if any
    applied,  \* requests whose mutation the database has committed
    lapsed    \* requests whose lease ran out before they settled

vars == <<req, pc, outcome, replayOf, pending, stored, applied, lapsed>>

Reservation == [hash : Hashes, owner : Requests, live : BOOLEAN]
Record      == [hash : Hashes, response : Requests]

TypeOK ==
    /\ req \in [Requests -> [key : Keys, hash : Hashes]]
    /\ pc \in [Requests -> {"idle", "running", "committed", "done", "dead"}]
    /\ outcome \in [Requests ->
           {"none", "executed", "failed", "replay", "mismatch", "in_progress"}]
    /\ replayOf \in [Requests -> Requests \cup {None}]
    /\ pending \in [Keys -> Reservation \cup {None}]
    /\ stored \in [Keys -> Record \cup {None}]
    /\ applied \subseteq Requests
    /\ lapsed \subseteq Requests

KeyOf(r)    == req[r].key
HashOf(r)   == req[r].hash
Reserves(r) == KeyOf(r) \in ReservedKeys
Busy(r)     == pc[r] \in {"running", "committed"}

Init ==
    /\ req \in [Requests -> [key : Keys, hash : Hashes]]
    /\ pc = [r \in Requests |-> "idle"]
    /\ outcome = [r \in Requests |-> "none"]
    /\ replayOf = [r \in Requests |-> None]
    /\ pending = [k \in Keys |-> None]
    /\ stored = [k \in Keys |-> None]
    /\ applied = {}
    /\ lapsed = {}

-----------------------------------------------------------------------------
(***************************************************************************)
(* Reading the tables.                                                     *)
(***************************************************************************)

\* Mutant of LivePending: an expired entry still counts.
LivePending_IgnoresExpiry(k) == pending[k]

\* getPendingReservation: an entry whose lease is over is not there (the
\* lookup deletes it).
LivePending(k) ==
    IF pending[k] # None /\ pending[k].live THEN pending[k] ELSE None

\* completeMutationReservation and releaseMutationReservation go on only for
\* the owner of the live entry.
Owns(r) ==
    /\ LivePending(KeyOf(r)) # None
    /\ LivePending(KeyOf(r)).owner = r

\* What is left of the entry of r's key once r has completed or released:
\* nothing if r owned it, and an expired entry goes with the lookup.
Settled(r) ==
    [pending EXCEPT ![KeyOf(r)] = IF Owns(r) THEN None ELSE LivePending(KeyOf(r))]

\* The same for the routes that take no reservation.
SettledTable(r) == IF Reserves(r) THEN Settled(r) ELSE pending

Reply(r, what) ==
    /\ pc' = [pc EXCEPT ![r] = "done"]
    /\ outcome' = [outcome EXCEPT ![r] = what]

-----------------------------------------------------------------------------
(***************************************************************************)
(* A request arrives: beginMutationReservation, or the record lookup of    *)
(* the /ops route. Neither awaits anything, so each is one step.           *)
(***************************************************************************)

\* Mutant of BeginStored: the row is replayed in place of its response.
BeginStored_ReplaysRow(r) ==
    /\ pc[r] = "idle"
    /\ stored[KeyOf(r)] # None
    /\ Reply(r, "replay")
    /\ replayOf' = [replayOf EXCEPT ![r] = stored[KeyOf(r)]]
    /\ UNCHANGED <<req, pending, stored, applied, lapsed>>

\* A completed record answers the request.
BeginStored(r) ==
    /\ pc[r] = "idle"
    /\ stored[KeyOf(r)] # None
    /\ IF stored[KeyOf(r)].hash # HashOf(r)
       THEN /\ Reply(r, "mismatch")
            /\ UNCHANGED replayOf
       ELSE /\ Reply(r, "replay")
            /\ replayOf' = [replayOf EXCEPT ![r] = stored[KeyOf(r)].response]
    /\ UNCHANGED <<req, pending, stored, applied, lapsed>>

\* Another attempt holds a live reservation of the key.
BeginPending(r) ==
    /\ pc[r] = "idle"
    /\ Reserves(r)
    /\ stored[KeyOf(r)] = None
    /\ LivePending(KeyOf(r)) # None
    /\ Reply(r, IF LivePending(KeyOf(r)).hash # HashOf(r)
                THEN "mismatch" ELSE "in_progress")
    /\ UNCHANGED <<req, replayOf, pending, stored, applied, lapsed>>

\* Mutant of BeginReserve: a completed record is not looked up.
BeginReserve_IgnoresRecord(r) ==
    /\ pc[r] = "idle"
    /\ Reserves(r)
    /\ LivePending(KeyOf(r)) = None
    /\ pending' = [pending EXCEPT ![KeyOf(r)] =
                     [hash |-> HashOf(r), owner |-> r, live |-> TRUE]]
    /\ pc' = [pc EXCEPT ![r] = "running"]
    /\ UNCHANGED <<req, outcome, replayOf, stored, applied, lapsed>>

\* The key is free: reserve it with a fresh owner token and run.
BeginReserve(r) ==
    /\ pc[r] = "idle"
    /\ Reserves(r)
    /\ stored[KeyOf(r)] = None
    /\ LivePending(KeyOf(r)) = None
    /\ pending' = [pending EXCEPT ![KeyOf(r)] =
                     [hash |-> HashOf(r), owner |-> r, live |-> TRUE]]
    /\ pc' = [pc EXCEPT ![r] = "running"]
    /\ UNCHANGED <<req, outcome, replayOf, stored, applied, lapsed>>

\* The /ops route runs whenever it finds no completed record.
BeginUnreserved(r) ==
    /\ pc[r] = "idle"
    /\ ~Reserves(r)
    /\ stored[KeyOf(r)] = None
    /\ pc' = [pc EXCEPT ![r] = "running"]
    /\ UNCHANGED <<req, outcome, replayOf, pending, stored, applied, lapsed>>

-----------------------------------------------------------------------------
(***************************************************************************)
(* The handler after the awaits of the mutation.                           *)
(***************************************************************************)

\* The mutation commits; verification and projection work is still ahead.
Commit(r) ==
    /\ pc[r] = "running"
    /\ pc' = [pc EXCEPT ![r] = "committed"]
    /\ applied' = applied \cup {r}
    /\ UNCHANGED <<req, outcome, replayOf, pending, stored, lapsed>>

\* Mutant of CompleteReserved: the reservation is dropped before the record
\* is written, and the owner check then skips the record.
CompleteReserved_SettlesFirst(r) ==
    /\ pc[r] = "committed"
    /\ Reserves(r)
    /\ pending' = Settled(r)
    /\ Reply(r, "executed")
    /\ UNCHANGED <<req, replayOf, stored, applied, lapsed>>

\* A 2xx result of a reserving route: the record is stored only if the
\* request still owns the live reservation; the client is told 2xx anyway.
CompleteReserved(r) ==
    /\ pc[r] = "committed"
    /\ Reserves(r)
    /\ stored' = IF Owns(r)
                 THEN [stored EXCEPT ![KeyOf(r)] =
                         [hash |-> HashOf(r), response |-> r]]
                 ELSE stored
    /\ pending' = Settled(r)
    /\ Reply(r, "executed")
    /\ UNCHANGED <<req, replayOf, applied, lapsed>>

\* A 2xx result of the /ops route: INSERT OR REPLACE, unconditionally.
CompleteUnreserved(r) ==
    /\ pc[r] = "committed"
    /\ ~Reserves(r)
    /\ stored' = [stored EXCEPT ![KeyOf(r)] =
                    [hash |-> HashOf(r), response |-> r]]
    /\ Reply(r, "executed")
    /\ UNCHANGED <<req, replayOf, pending, applied, lapsed>>

\* A result that is not 2xx: a precondition or the mutation failed, or the
\* mutation committed and its verification failed afterwards. The
\* reservation is released either way.
Fail(r) ==
    /\ Busy(r)
    /\ pending' = SettledTable(r)
    /\ Reply(r, "failed")
    /\ UNCHANGED <<req, replayOf, stored, applied, lapsed>>

\* The handler throws. Nothing settles the reservation on that path.
Throw(r) ==
    /\ Busy(r)
    /\ pc' = [pc EXCEPT ![r] = "dead"]
    /\ UNCHANGED <<req, outcome, replayOf, pending, stored, applied, lapsed>>

-----------------------------------------------------------------------------
(***************************************************************************)
(* The environment: the clock and the process.                             *)
(***************************************************************************)

\* The clock passes leaseExpiresAtMs of the entry of k.
LeaseExpires(k) ==
    /\ pending[k] # None
    /\ pending[k].live
    /\ pending' = [pending EXCEPT ![k].live = FALSE]
    /\ lapsed' = lapsed \cup {pending[k].owner}
    /\ UNCHANGED <<req, pc, outcome, replayOf, stored, applied>>

\* The process restarts: the reservations were in memory, the records and
\* the committed mutations are in the database.
Crash ==
    /\ pending' = [k \in Keys |-> None]
    /\ pc' = [r \in Requests |-> IF Busy(r) THEN "dead" ELSE pc[r]]
    /\ UNCHANGED <<req, outcome, replayOf, stored, applied, lapsed>>

-----------------------------------------------------------------------------
Handler(r) ==
    \/ BeginStored(r)
    \/ BeginPending(r)
    \/ BeginReserve(r)
    \/ BeginUnreserved(r)
    \/ Commit(r)
    \/ CompleteReserved(r)
    \/ CompleteUnreserved(r)
    \/ Fail(r)
    \/ Throw(r)

Next ==
    \/ \E r \in Requests : Handler(r)
    \/ \E k \in Keys : LeaseExpires(k)
    \/ Crash

Spec == Init /\ [][Next]_vars

\* Time passes: every lease is over some day.
FairSpec == Spec /\ \A k \in Keys : WF_vars(LeaseExpires(k))

-----------------------------------------------------------------------------
(***************************************************************************)
(* Properties.                                                             *)
(***************************************************************************)

\* The ways a committed mutation of a reserving route loses its record: its
\* lease ran out, its handler died, or it was answered with a failure.
Excused(r) == r \in lapsed \/ pc[r] = "dead" \/ outcome[r] = "failed"

SameKey(r, s) == KeyOf(r) = KeyOf(s)

\* Two attempts of one reserved key run at the same time only when the lease
\* of one of them has run out (what the reservation table of
\* mutation-idempotency.ts is for).
NoOverlapWithinLease ==
    \A r, s \in Requests :
        /\ r # s /\ SameKey(r, s) /\ Reserves(r)
        /\ Busy(r) /\ Busy(s)
        => r \in lapsed \/ s \in lapsed

\* A reserved key commits two mutations only when one of the two lost its
\* record by a lapsed lease, a dead handler or a failure answer.
OneEffectUnlessExcused ==
    \A r, s \in applied :
        r # s /\ SameKey(r, s) /\ Reserves(r) => Excused(r) \/ Excused(s)

\* A replayed answer is the answer of an attempt with the same key and the
\* same body that committed, on either kind of route (the request-hash
\* checks of beginMutationReservation and of POST /documents/:slug/ops).
ReplayIsFaithful ==
    \A r \in Requests : outcome[r] = "replay" =>
        /\ replayOf[r] \in applied
        /\ SameKey(r, replayOf[r])
        /\ HashOf(r) = HashOf(replayOf[r])
        /\ outcome[replayOf[r]] = "executed"

\* The completed record of a reserved key is written once: a late attempt
\* whose lease is over never replaces the answer later retries replay
\* (the owner check of completeMutationReservation).
RecordWrittenOnce ==
    [][\A k \in ReservedKeys : stored[k] # None => stored'[k] = stored[k]]_vars

\* A key an attempt died on does not stay in progress for good: the lease
\* frees it, because lookups ignore expired entries (getPendingReservation).
NoKeyStaysInProgress ==
    \A k \in Keys : LivePending(k) # None ~> LivePending(k) = None

\* What AGENT_CONTRACT.md promises of the header ("so retries stay safe"): of
\* the attempts of one key that are answered with success, one took effect
\* and the others got its answer. (An attempt whose mutation was answered as
\* failed may be retried; two that both succeed must have overlapped, for the
\* first to be answered leaves its record.)
RetriesStaySafe ==
    \A r, s \in applied :
        SameKey(r, s) /\ outcome[r] = "executed" /\ outcome[s] = "executed" => r = s

-----------------------------------------------------------------------------
(***************************************************************************)
(* The promise this module implements: what a request was told, and whose  *)
(* result the completed record of a key has.                               *)
(***************************************************************************)

Given == [r \in Requests |-> CASE outcome[r] = "executed" -> r
                               [] outcome[r] = "replay"   -> replayOf[r]
                               [] OTHER                   -> None]

Refused == {r \in Requests : outcome[r] \in {"failed", "mismatch", "in_progress"}}

Remembered == [k \in Keys |-> IF stored[k] = None THEN None ELSE stored[k].response]

Promise == INSTANCE KeyedAnswers
    WITH effects <- applied, given <- Given, refused <- Refused, record <- Remembered

\* Whatever leases, failures and restarts do, the clients see a table of keys
\* that answers each request once, repeats only answers of the same body, and
\* for a reserved key repeats one answer for good (mutation-idempotency.ts
\* 44-160, routes.ts 1991-2093).
KeepsItsPromise == Promise!Spec

=============================================================================
