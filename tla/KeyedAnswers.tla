----------------------------- MODULE KeyedAnswers -----------------------------
(***************************************************************************)
(* What a client is promised about idempotency keys, with nothing said of  *)
(* leases, reservations, crashes or the tables: a request is answered at   *)
(* most once, with a result of its own mutation or with one that was given *)
(* before to the same key and body; the result that a reserved key repeats *)
(* never changes.  MutationIdempotency implements it.                      *)
(***************************************************************************)
CONSTANTS Requests, Keys, ReservedKeys, Hashes, None

VARIABLES
    req,      \* request -> its key and the hash of its body
    effects,  \* requests whose mutation has taken effect
    given,    \* request -> the request whose result it was given, or None
    refused,  \* requests answered without a result
    record    \* key -> the request whose result is repeated, or None

vars == <<req, effects, given, refused, record>>

Init ==
    /\ req \in [Requests -> [key : Keys, hash : Hashes]]
    /\ effects = {}
    /\ given = [r \in Requests |-> None]
    /\ refused = {}
    /\ record = [k \in Keys |-> None]

Open(r) == given[r] = None /\ r \notin refused

Effect(r) ==
    /\ Open(r) /\ r \notin effects
    /\ effects' = effects \cup {r}
    /\ UNCHANGED <<req, given, refused, record>>

\* A request is given its own result, and its key may remember it: a reserved
\* key if it remembers none yet.
Own(r) ==
    /\ Open(r) /\ r \in effects
    /\ given' = [given EXCEPT ![r] = r]
    /\ \/ UNCHANGED record
       \/ /\ req[r].key \in ReservedKeys => record[req[r].key] = None
          /\ record' = [record EXCEPT ![req[r].key] = r]
    /\ UNCHANGED <<req, effects, refused>>

\* A request is given what its key remembers, if that was for the same body.
Repeat(r) ==
    /\ Open(r) /\ r \notin effects
    /\ record[req[r].key] # None
    /\ req[record[req[r].key]] = req[r]
    /\ given' = [given EXCEPT ![r] = record[req[r].key]]
    /\ UNCHANGED <<req, effects, refused, record>>

Refuse(r) ==
    /\ Open(r)
    /\ refused' = refused \cup {r}
    /\ UNCHANGED <<req, effects, given, record>>

Next == \E r \in Requests : Effect(r) \/ Own(r) \/ Repeat(r) \/ Refuse(r)

Spec == Init /\ [][Next]_vars

=============================================================================
