------------------------------- MODULE ReviewRuns -------------------------------
(***************************************************************************)
(* Review requests of one document: src/server/review-room-store.ts and the *)
(* handlers of review-room-routes.ts (the owner) and                        *)
(* review-room-mcp-routes.ts (external agents).                             *)
(*                                                                         *)
(* The owner queues a run and mints a credential for it; an agent with the *)
(* credential claims the run, which gives it a lease token, submits         *)
(* outputs (comments and suggestions) and completes, fails or releases it.  *)
(* A handler is a script of database statements. Each statement is atomic,  *)
(* and those of different handlers interleave: there is no transaction.    *)
(***************************************************************************)
EXTENDS Naturals, Sequences, FiniteSets

CONSTANTS
    Runs,      \* requests; each has its own idempotency key
    Slots,     \* handlers that may be under way at once
    Creds,     \* credentials that may be minted
    Keys,      \* outputs, by fingerprint
    MaxToken,  \* bound: claims
    None

ASSUME TokenAssumption  == MaxToken \in Nat
ASSUME FiniteAssumption == IsFiniteSet(Slots) /\ IsFiniteSet(Keys)
ASSUME NoneAssumption   == None \notin Runs \cup Creds \cup Keys

VARIABLES
    run,     \* review_room_agent_review_runs; token 0 is NULL
    cred,    \* review_room_agent_credentials
    output,  \* review_room_agent_review_outputs
    marks,   \* marks in the document made for an output (0, 1, 2 or more)
    issued,  \* lease tokens issued so far
    h,       \* slot -> its handler
    misled,  \* outputs whose mark was made by an operation that answered failure
    orphaned \* outputs whose handler died while they were reserved

rows == <<run, cred, output>>
vars == <<rows, marks, issued, h, misled, orphaned>>

Held   == {"claimed", "running"}
Active == Held \cup {"queued"}
Ended  == {"completed", "failed", "cancelled", "lease_expired"}
Tokens == 0 .. MaxToken

\* What each request does, statement by statement, up to its answer. "sweep" is
\* storeExpireAgentReviewRunLeases; an agent's request passes it while its
\* credential is checked, and most once more with the document in hand.
Auth    == <<"sweep", "inspect">>
Claimed == Auth \o <<"sweep", "validate">>
Script  == [ list      |-> <<"sweep">>,
             create    |-> <<"sweep", "create">>,
             retry     |-> <<"requeue", "revoke">>,
             cancel    |-> <<"cancel", "revoke">>,
             mint      |-> <<"check", "revoke", "mint">>,
             claim     |-> Auth \o <<"sweep", "claim">>,
             heartbeat |-> Claimed \o <<"renew">>,
             complete  |-> Claimed \o <<"count", "complete", "revoke">>,
             fail      |-> Claimed \o <<"fail", "revoke">>,
             release   |-> Claimed \o <<"release", "revoke">>,
             output    |-> Claimed \o <<"reserve", "apply">>,
             shared    |-> <<"sweep", "validate", "reserve", "apply">> ]

Ops     == DOMAIN Script
HolderOp == {"heartbeat", "complete", "fail", "release"}

Idle == [op |-> "list", run |-> None, cred |-> None, token |-> 0, key |-> None,
         swept |-> {}, count |-> 0, todo |-> <<>>]

Init == /\ run = [r \in Runs |-> [status |-> "none", token |-> 0,
                                  lapsed |-> FALSE, result |-> 0]]
        /\ cred = [c \in Creds |-> [run |-> None, status |-> "none"]]
        /\ output = [r \in Runs |-> [k \in Keys |-> "none"]]
        /\ marks = [r \in Runs |-> [k \in Keys |-> 0]]
        /\ issued = 0
        /\ h = [s \in Slots |-> Idle]
        /\ misled = {}
        /\ orphaned = {}

-----------------------------------------------------------------------------
\* Requests arrive. A request that is refused at once changes nothing and is
\* left out.

Start(s, op, r, c, t, k) ==
    /\ h[s] = Idle
    /\ h' = [h EXCEPT ![s] = [Idle EXCEPT !.op = op, !.run = r, !.cred = c, !.token = t,
                                         !.key = k, !.todo = Script[op]]]
    /\ UNCHANGED <<rows, marks, issued, misled, orphaned>>

\* The list of runs: the poll of an open page (scheduleReviewRoomAgentReviewPoll),
\* and any other reader.
List(s) == Start(s, "list", None, None, 0, None)

Create(s, r) == Start(s, "create", r, None, 0, None)

Retry(s, r) ==
    /\ run[r].status # "none"
    /\ Start(s, "retry", r, None, 0, None)

Cancel(s, r) ==
    /\ run[r].status # "none"
    /\ Start(s, "cancel", r, None, 0, None)

\* A credential has a fresh secret.
Mint(s, r, c) ==
    /\ cred[c].status = "none" /\ \A t \in Slots : h[t].cred # c
    /\ Start(s, "mint", r, c, 0, None)

\* storeResolveReviewRoomAgentCredential.
Resolves(c) ==
    /\ cred[c].status = "active"
    /\ run[cred[c].run].status \in Active

ClaimsUnderWay == {s \in Slots : h[s].op = "claim"}

CallClaim(s, c) ==
    /\ issued + Cardinality(ClaimsUnderWay) < MaxToken
    /\ Resolves(c)
    /\ Start(s, "claim", cred[c].run, c, 0, None)

\* The lease token is one that was issued; others fail at "validate".
CallHolder(s, op, c, t) ==
    /\ Resolves(c)
    /\ Start(s, op, cred[c].run, c, t, None)

CallOutput(s, c, t, k) ==
    /\ Resolves(c)
    /\ Start(s, "output", cred[c].run, c, t, k)

\* An editor of the document may submit outputs with its share token instead of
\* a credential; the lease token is asked of it as well.
CallShared(s, r, t, k) ==
    /\ Start(s, "shared", r, None, t, k)

-----------------------------------------------------------------------------
\* Statements.

At(s, statement) == h[s].todo # <<>> /\ Head(h[s].todo) = statement

\* The handler after its statement: with todo left, or answered.
Left(s, todo) ==
    IF todo = <<>> THEN Idle ELSE [h[s] EXCEPT !.swept = {}, !.todo = todo]

Continue(s) == h' = [h EXCEPT ![s] = Left(s, Tail(h[s].todo))]
Answer(s)   == h' = [h EXCEPT ![s] = Idle]

\* A statement whose WHERE clause or check decides whether the handler goes on.
Proceed(s, ok) == IF ok THEN Continue(s) ELSE Answer(s)

\* Mutant of Cleared: the UPDATE keeps the token of the claim it ends.
Cleared_KeepsToken(r, status) == [run[r] EXCEPT !.status = status, !.lapsed = FALSE]

\* The run after an UPDATE that sets a status and clears claim and lease.
Cleared(r, status) ==
    [run[r] EXCEPT !.status = status, !.token = 0, !.lapsed = FALSE]

\* storeExpireAgentReviewRunLeases: its SELECT and UPDATE take the same runs,
\* since both compare with the time at which the sweep began. What was taken is
\* revoked by statements that follow.
Lapsed == {r \in Runs : run[r].status \in Held /\ run[r].lapsed}

Sweep(s) ==
    /\ At(s, "sweep")
    /\ run' = [r \in Runs |->
                  IF r \in Lapsed THEN Cleared(r, "lease_expired") ELSE run[r]]
    /\ IF Lapsed = {}
       THEN Continue(s)
       ELSE h' = [h EXCEPT ![s].swept = Lapsed,
                           ![s].todo = <<"revokeSwept">> \o Tail(@)]
    /\ UNCHANGED <<cred, output, marks, issued, misled, orphaned>>

Revoked(S) == [c \in Creds |->
    IF cred[c].run \in S /\ cred[c].status = "active"
    THEN [cred[c] EXCEPT !.status = "revoked"] ELSE cred[c]]

RevokeSwept(s) ==
    /\ At(s, "revokeSwept")
    /\ cred' = Revoked(h[s].swept)
    /\ Continue(s)
    /\ UNCHANGED <<run, output, marks, issued, misled, orphaned>>

\* storeRevokeReviewRoomAgentCredentials, and the first half of minting.
Revoke(s) ==
    /\ At(s, "revoke")
    /\ cred' = Revoked({h[s].run})
    /\ Continue(s)
    /\ UNCHANGED <<run, output, marks, issued, misled, orphaned>>

\* agentCredentialLifecycleError, after the sweep. The credential is not looked
\* at again.
Inspect(s) ==
    /\ At(s, "inspect")
    /\ h' = [h EXCEPT ![s] = IF Resolves(h[s].cred)
                             THEN [Left(s, Tail(h[s].todo)) EXCEPT !.cred = None]
                             ELSE Idle]
    /\ UNCHANGED <<rows, marks, issued, misled, orphaned>>

\* An INSERT that violates a unique index makes the request return the run of
\* the same key or the active one.
InsertRun(s) ==
    LET r == h[s].run IN
    /\ At(s, "create")
    /\ run' = IF run[r].status = "none" /\ \A q \in Runs : run[q].status \notin Active
              THEN [run EXCEPT ![r].status = "queued"] ELSE run
    /\ Answer(s)
    /\ UNCHANGED <<cred, output, marks, issued, misled, orphaned>>

\* storeQueueAgentReviewRunRetry; it throws if the index finds another active run.
Requeue(s) ==
    LET r  == h[s].run
        ok == /\ run[r].status \in {"failed", "cancelled", "lease_expired"}
              /\ \A q \in Runs : run[q].status \notin Active
    IN /\ At(s, "requeue")
       /\ run' = IF ok THEN [run EXCEPT ![r] = Cleared(r, "queued")] ELSE run
       /\ Proceed(s, ok)
       /\ UNCHANGED <<cred, output, marks, issued, misled, orphaned>>

CancelRun(s) ==
    LET r == h[s].run
        ok == run[r].status \in Active
    IN /\ At(s, "cancel")
       /\ run' = IF ok THEN [run EXCEPT ![r] = Cleared(r, "cancelled")] ELSE run
       /\ Proceed(s, ok)
       /\ UNCHANGED <<cred, output, marks, issued, misled, orphaned>>

\* Credentials are minted for a waiting run: a read, then the revocation.
Check(s) ==
    /\ At(s, "check")
    /\ Proceed(s, run[h[s].run].status = "queued")
    /\ UNCHANGED <<rows, marks, issued, misled, orphaned>>

InsertCredential(s) ==
    /\ At(s, "mint")
    /\ cred' = [cred EXCEPT ![h[s].cred] = [run |-> h[s].run, status |-> "active"]]
    /\ Answer(s)
    /\ UNCHANGED <<run, output, marks, issued, misled, orphaned>>

\* storeClaimAgentReviewRun.
Claim(s) ==
    LET r == h[s].run IN
    /\ At(s, "claim")
    /\ IF run[r].status = "queued"
       THEN /\ issued' = issued + 1
            /\ run' = [run EXCEPT ![r].status = "claimed", ![r].token = issued',
                                  ![r].lapsed = FALSE]
       ELSE UNCHANGED <<issued, run>>
    /\ Answer(s)
    /\ UNCHANGED <<cred, output, marks, misled, orphaned>>

\* validateClaimedReviewRequest, and the WHERE clause that holder's updates share.
Holds(s) == run[h[s].run].token = h[s].token /\ run[h[s].run].status \in Held

WithinLease(s) == Holds(s) /\ ~run[h[s].run].lapsed

Validate(s) ==
    /\ At(s, "validate")
    /\ Proceed(s, Holds(s))
    /\ UNCHANGED <<rows, marks, issued, misled, orphaned>>

Renew(s) ==
    /\ At(s, "renew")
    /\ run' = IF WithinLease(s) THEN [run EXCEPT ![h[s].run].status = "running"] ELSE run
    /\ Answer(s)
    /\ UNCHANGED <<cred, output, marks, issued, misled, orphaned>>

Applied(r) == {k \in Keys : output[r][k] = "applied"}

Count(s) ==
    /\ At(s, "count")
    /\ h' = [h EXCEPT ![s].count = Cardinality(Applied(h[s].run)), ![s].todo = Tail(@)]
    /\ UNCHANGED <<rows, marks, issued, misled, orphaned>>

Complete(s) ==
    LET r == h[s].run IN
    /\ At(s, "complete")
    /\ run' = IF WithinLease(s)
              THEN [run EXCEPT ![r] = [Cleared(r, "completed") EXCEPT !.result = h[s].count]]
              ELSE run
    /\ Proceed(s, WithinLease(s))
    /\ UNCHANGED <<cred, output, marks, issued, misled, orphaned>>

\* Mutant of GiveUp: storeFailAgentReviewRun called without the optional token, as its WHERE allows.
GiveUp_NoToken(s, statement, status) ==
    LET r  == h[s].run
        ok == run[r].status \in Held
    IN /\ At(s, statement)
       /\ run' = IF ok THEN [run EXCEPT ![r] = Cleared(r, status)] ELSE run
       /\ Proceed(s, ok)
       /\ UNCHANGED <<cred, output, marks, issued, misled, orphaned>>

\* storeFailAgentReviewRun and storeReleaseAgentReviewRun do not ask for the lease.
GiveUp(s, statement, status) ==
    LET r == h[s].run IN
    /\ At(s, statement)
    /\ run' = IF Holds(s) THEN [run EXCEPT ![r] = Cleared(r, status)] ELSE run
    /\ Proceed(s, Holds(s))
    /\ UNCHANGED <<cred, output, marks, issued, misled, orphaned>>

Fail(s)    == GiveUp(s, "fail", "failed")
Release(s) == GiveUp(s, "release", "queued")

\* Mutant of Reservable: a stuck reservation may be taken over.
Reservable_Pending(status) == status \in {"none", "failed", "pending"}

\* storeReserveAgentReviewOutput: inserted, or taken over from a failed attempt.
\* Otherwise the mark is reported as made, or as being submitted.
Reservable(status) == status \in {"none", "failed"}

Reserve(s) ==
    LET ok == Reservable(output[h[s].run][h[s].key]) IN
    /\ At(s, "reserve")
    /\ output' = IF ok THEN [output EXCEPT ![h[s].run][h[s].key] = "pending"] ELSE output
    /\ Proceed(s, ok)
    /\ UNCHANGED <<run, cred, marks, issued, misled, orphaned>>

\* executeDocumentOperationAsync makes the mark or refuses; a mutation that
\* committed may still be answered with a failure (FRAGMENT_DIVERGENCE).
Report(s, outcome) ==
    h' = [h EXCEPT ![s].todo = <<outcome>>]

Apply(s) ==
    LET r == h[s].run
        k == h[s].key
        More == [marks EXCEPT ![r][k] = IF @ < 2 THEN @ + 1 ELSE @]
    IN /\ At(s, "apply")
       /\ \/ marks' = More  /\ Report(s, "recordApplied") /\ UNCHANGED misled
          \/ marks' = marks /\ Report(s, "recordFailed")  /\ UNCHANGED misled
          \/ /\ marks' = More
             /\ Report(s, "recordFailed")
             /\ misled' = misled \cup {<<r, k>>}
       /\ UNCHANGED <<rows, issued, orphaned>>

\* storeUpsertAgentReviewOutput.
Record(s, statement, status) ==
    /\ At(s, statement)
    /\ output' = [output EXCEPT ![h[s].run][h[s].key] = status]
    /\ Answer(s)
    /\ UNCHANGED <<run, cred, marks, issued, misled, orphaned>>

RecordApplied(s) == Record(s, "recordApplied", "applied")

\* Mutant of RecordFailed: a failed operation returns early.
RecordFailed_Skips(s) ==
    /\ At(s, "recordFailed")
    /\ Answer(s)
    /\ UNCHANGED <<rows, marks, issued, misled, orphaned>>

\* Whatever is not a success: the output may be submitted again.
RecordFailed(s) == Record(s, "recordFailed", "failed")

-----------------------------------------------------------------------------
\* The handler has reserved its output and not recorded what came of it.
Submitting(s) == \E x \in {"apply", "recordApplied", "recordFailed"} : At(s, x)

\* A handler throws, or the server restarts: no statement is undone.
Die(s) ==
    /\ h[s] # Idle
    /\ Answer(s)
    /\ orphaned' = IF Submitting(s) THEN orphaned \cup {<<h[s].run, h[s].key>>}
                                    ELSE orphaned
    /\ UNCHANGED <<rows, marks, issued, misled>>

\* Time: the lease of a claim, and a credential, run out.
Lapse(r) ==
    /\ run[r].status \in Held /\ ~run[r].lapsed
    /\ run' = [run EXCEPT ![r].lapsed = TRUE]
    /\ UNCHANGED <<cred, output, marks, issued, h, misled, orphaned>>

CredentialExpires(c) ==
    /\ cred[c].status = "active"
    /\ cred' = [cred EXCEPT ![c].status = "expired"]
    /\ UNCHANGED <<run, output, marks, issued, h, misled, orphaned>>

Request(s) ==
    \/ List(s)
    \/ \E r \in Runs : Create(s, r) \/ Retry(s, r) \/ Cancel(s, r)
    \/ \E r \in Runs, c \in Creds : Mint(s, r, c)
    \/ \E c \in Creds : CallClaim(s, c)
    \/ \E c \in Creds, t \in 1 .. issued :
          \/ \E op \in HolderOp : CallHolder(s, op, c, t)
          \/ \E k \in Keys : CallOutput(s, c, t, k)
    \/ \E r \in Runs, t \in 1 .. issued, k \in Keys : CallShared(s, r, t, k)

Step(s) ==
    \/ Sweep(s) \/ RevokeSwept(s) \/ Revoke(s) \/ Inspect(s)
    \/ InsertRun(s) \/ Requeue(s) \/ CancelRun(s)
    \/ Check(s) \/ InsertCredential(s) \/ Claim(s) \/ Validate(s) \/ Renew(s)
    \/ Count(s) \/ Complete(s) \/ Fail(s) \/ Release(s)
    \/ Reserve(s) \/ Apply(s) \/ RecordApplied(s) \/ RecordFailed(s)

Next == \/ \E s \in Slots : Request(s) \/ Step(s) \/ Die(s)
        \/ \E r \in Runs : Lapse(r)
        \/ \E c \in Creds : CredentialExpires(c)

Spec == Init /\ [][Next]_vars

-----------------------------------------------------------------------------
\* Properties

Statements == {"sweep", "revokeSwept", "revoke", "inspect", "create", "requeue",
               "cancel", "check", "mint", "claim", "validate", "renew", "count",
               "complete", "fail", "release", "reserve", "apply",
               "recordApplied", "recordFailed"}

\* The tables hold rows of their type, and a run has a claim exactly while it is
\* claimed or running: every UPDATE that ends a claim clears its token.
TypeOK ==
    /\ run \in [Runs -> [status : Active \cup Ended \cup {"none"}, token : Tokens,
                         lapsed : BOOLEAN, result : 0 .. Cardinality(Keys)]]
    /\ cred \in [Creds -> [run : Runs \cup {None},
                           status : {"none", "active", "revoked", "expired"}]]
    /\ output \in [Runs -> [Keys -> {"none", "pending", "applied", "failed"}]]
    /\ marks \in [Runs -> [Keys -> 0 .. 2]]
    /\ issued \in Tokens
    /\ h \in [Slots -> [op : Ops, run : Runs \cup {None}, cred : Creds \cup {None},
                        token : Tokens, key : Keys \cup {None}, swept : SUBSET Runs,
                        count : 0 .. Cardinality(Keys), todo : Seq(Statements)]]
    /\ misled \subseteq Runs \X Keys
    /\ orphaned \subseteq Runs \X Keys
    /\ \A r \in Runs : /\ run[r].token # 0 <=> run[r].status \in Held
                       /\ run[r].lapsed => run[r].status \in Held

\* A claim ends, or becomes running, only by a request that presents its token,
\* within the lease if it completes or renews, by a cancellation, or by a sweep
\* after the lease: whatever an agent does with a token of an earlier claim that
\* was checked before the run went to another agent.
HolderDecides ==
    [][\A r \in Runs :
        run[r].status \in Held /\ run'[r].status # run[r].status =>
            \/ run'[r].status = "cancelled"
            \/ run'[r].status = "lease_expired" /\ run[r].lapsed
            \/ /\ \E s \in Slots : h[s] # h'[s] /\ h[s].run = r /\ h[s].token = run[r].token
               /\ run'[r].status \in {"completed", "running"} => ~run[r].lapsed]_vars

\* One output makes one mark, however often and by however many requests it is
\* submitted, and whether or not handlers die, unless an operation that made the
\* mark answered failure; and the result count of a run never claims an output
\* that made no mark.
AppliedOnce ==
    /\ \A r \in Runs, k \in Keys : marks[r][k] <= 1 \/ <<r, k>> \in misled
    /\ \A r \in Runs : run[r].result <= Cardinality({k \in Keys : marks[r][k] > 0})

\* The reservation of an output excludes every other handler from it, and it is
\* never left behind by a handler that came to its end: it is held by one handler
\* that is still submitting, or by one that died.
PendingIsWorked ==
    \A r \in Runs, k \in Keys :
        LET workers == {s \in Slots : Submitting(s) /\ h[s].run = r /\ h[s].key = k} IN
        /\ workers # {} => output[r][k] = "pending" /\ Cardinality(workers) = 1
        /\ output[r][k] = "pending" /\ workers = {} => <<r, k>> \in orphaned

=============================================================================
