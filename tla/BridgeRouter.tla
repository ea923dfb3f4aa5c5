---------------------------- MODULE BridgeRouter ----------------------------
(***************************************************************************)
(* The bridge of src/server/ws.ts: an HTTP call the server cannot execute  *)
(* itself is sent to a viewer (an open browser tab) of the document, which *)
(* executes it in its editor and answers over its WebSocket.               *)
(*                                                                         *)
(* One document: rooms of different slugs share nothing. A viewer is one   *)
(* connection (the server draws a fresh clientId for each), so a viewer    *)
(* connects once; a browser that reconnects is another viewer. An attempt  *)
(* <<r, i>> is the i-th bridge request of call r, under a fresh requestId. *)
(*                                                                         *)
(* JavaScript runs one handler to its end, and then the promise reactions  *)
(* it caused, before the next event. A rejected attempt is therefore       *)
(* retried in the step that rejects it, and sees the sockets as that step  *)
(* leaves them.                                                            *)
(***************************************************************************)
EXTENDS Naturals, SequencesExt

CONSTANTS
    Viewers,   \* connections to the room
    Shipped,   \* those that run src/bridge/share-client.ts
    Calls      \* calls of sendBridgeRequest

ASSUME ViewersAssumption == IsFiniteSet(Viewers) /\ Shipped \subseteq Viewers

VARIABLES
    sock,     \* viewer -> readyState of its socket on the server
    capable,  \* viewers of the room that announced the bridge capability
    room,     \* rooms.get(slug), in the order of connection
    call,     \* call -> its promise, its candidates, the failures so far
    awaited,  \* the attempts in pendingBridgeRequests
    sent,     \* attempts that went out on an open socket
    answers,  \* what viewers answered to the attempts they executed
    effects   \* attempts that changed the document of their viewer

bridgeVars == <<sock, capable, room, call, awaited, sent, answers, effects>>

Retryable == {"EXECUTION_ERROR", "VIEWER_DISCONNECTED", "TIMEOUT"}
Codes     == Retryable \cup {"NO_VIEWERS", "NO_BRIDGE_CAPABLE_VIEWER", "REFUSED"}
\* What a viewer answers: ok with a result, ok with a failure in the result,
\* not ok without a code of its own, not ok with a 4xx of its own.
Answers   == {"result", "failure", "error", "refusal"}
Attempts  == Calls \X (1 .. Cardinality(Viewers))

\* The numbers of I in ascending order.
Places(I) ==
    CHOOSE at \in [1 .. Cardinality(I) -> I] :
        /\ Range(at) = I
        /\ \A j, k \in DOMAIN at : j < k => at[j] < at[k]

\* The members of S that s has, in the order of s (SelectSeq, in a form whose
\* results can be reasoned about).
Filter(s, S) ==
    LET at == Places({i \in DOMAIN s : s[i] \in S})
    IN  [k \in DOMAIN at |-> s[at[k]]]

Idle == [pc |-> "idle", list |-> <<>>, codes |-> <<>>, answer |-> "none"]

\* And no call goes on waiting for a viewer that got its request and is gone: the
\* close handler rejects it. (A candidate that was gone before it was asked is
\* waited for, until the timeout.)
BridgeTypeOK ==
    /\ sock \in [Viewers -> {"none", "open", "closing", "closed"}]
    /\ capable \subseteq ToSet(room)
    /\ room \in BoundedSeq(Viewers, Cardinality(Viewers))
    /\ \A r \in Calls :
         /\ call[r].pc \in {"idle", "waiting", "resolved", "rejected"}
         /\ call[r].list \in BoundedSeq(Viewers, Cardinality(Viewers))
         /\ call[r].codes \in Seq(Codes)
         /\ call[r].answer \in Answers \cup {"none"}
    /\ awaited \subseteq Attempts
    /\ sent \subseteq Attempts
    /\ answers \subseteq Attempts \X Answers
    /\ effects \subseteq sent
    /\ \A a \in awaited \cap sent : sock[call[a[1]].list[a[2]]] # "closed"

BridgeInit ==
    /\ sock = [v \in Viewers |-> "none"]
    /\ capable = {}
    /\ room = <<>>
    /\ call = [r \in Calls |-> Idle]
    /\ awaited = {}
    /\ sent = {}
    /\ answers = {}
    /\ effects = {}

-----------------------------------------------------------------------------
Current(r) == <<r, Len(call[r].codes) + 1>>
Target(a)  == call[a[1]].list[a[2]]
Connected(v) == sock[v] \in {"open", "closing"}

PendingOf(v) == {a \in awaited : Target(a) = v}

\* Mutant of Retries: every failure is retried.
Retries_Always(r, code) == Len(call[r].codes) + 1 < Len(call[r].list)

\* isRetryableBridgeFailure, and a candidate is left.
Retries(r, code) ==
    /\ code \in Retryable
    /\ Len(call[r].codes) + 1 < Len(call[r].list)

\* Mutant of Reject: the entries of the rejected attempts stay.
Reject_KeepsEntries(A, code, up) ==
    LET hit   == {r \in Calls : Current(r) \in A}
        again == {r \in hit : Retries(r, code)}
        retry == {<<r, Len(call[r].codes) + 2>> : r \in again}
    IN  /\ call' = [r \in Calls |->
             IF r \notin hit THEN call[r]
             ELSE [call[r] EXCEPT
                     !.codes = Append(@, code),
                     !.pc = IF r \in again THEN "waiting" ELSE "rejected"]]
        /\ awaited' = awaited \cup retry
        /\ sent' = sent \cup {a \in retry : Target(a) \in up}

\* The attempts A fail with code: their entries and timers go, and each call
\* rejects or tries the next candidate of the list it made when it started.
\* That candidate may be gone by now: a send on a socket that is not open
\* is dropped without an error, and the attempt waits. "up" are the viewers
\* whose socket is open when the promise reactions run.
Reject(A, code, up) ==
    LET hit   == {r \in Calls : Current(r) \in A}
        again == {r \in hit : Retries(r, code)}
        retry == {<<r, Len(call[r].codes) + 2>> : r \in again}
    IN  /\ call' = [r \in Calls |->
             IF r \notin hit THEN call[r]
             ELSE [call[r] EXCEPT
                     !.codes = Append(@, code),
                     !.pc = IF r \in again THEN "waiting" ELSE "rejected"]]
        /\ awaited' = (awaited \ A) \cup retry
        /\ sent' = sent \cup {a \in retry : Target(a) \in up}

Open == {v \in Viewers : sock[v] = "open"}

-----------------------------------------------------------------------------
(***************************************************************************)
(* Connections.                                                            *)
(***************************************************************************)

Connect(v) ==
    /\ sock[v] = "none"
    /\ sock' = [sock EXCEPT ![v] = "open"]
    /\ room' = Append(room, v)
    /\ UNCHANGED <<capable, call, awaited, sent, answers, effects>>

\* viewer.identify; the handler sets the flag from each such message. (The
\* flag of a viewer that left the room is never read again.)
Identify(v, bridge) ==
    /\ v \in ToSet(room)
    /\ capable' = IF bridge THEN capable \cup {v} ELSE capable \ {v}
    /\ UNCHANGED <<sock, room, call, awaited, sent, answers, effects>>

\* The close frame of the peer arrives: no handler runs until the close event.
PeerCloses(v) ==
    /\ sock[v] = "open"
    /\ sock' = [sock EXCEPT ![v] = "closing"]
    /\ UNCHANGED <<capable, room, call, awaited, sent, answers, effects>>

\* The error event.
SocketError(v) ==
    /\ Connected(v)
    /\ sock' = [sock EXCEPT ![v] = "closing"]
    /\ Reject(PendingOf(v), "VIEWER_DISCONNECTED", Open \ {v})
    /\ UNCHANGED <<capable, room, answers, effects>>

\* Mutant of SocketClosed: the close event leaves the pending attempts to
\* their timers.
SocketClosed_NoReject(v) ==
    /\ Connected(v)
    /\ sock' = [sock EXCEPT ![v] = "closed"]
    /\ room' = Filter(room, Viewers \ {v})
    /\ capable' = capable \ {v}
    /\ UNCHANGED <<call, awaited, sent, answers, effects>>

\* The close event. It may follow closeRoom, when the room is gone already.
SocketClosed(v) ==
    /\ Connected(v)
    /\ sock' = [sock EXCEPT ![v] = "closed"]
    /\ room' = Filter(room, Viewers \ {v})
    /\ capable' = capable \ {v}
    /\ Reject(PendingOf(v), "VIEWER_DISCONNECTED", Open \ {v})
    /\ UNCHANGED <<answers, effects>>

\* closeRoom, when a document is paused, revoked or deleted. The retries it
\* causes find every socket of the room closing.
CloseRoom ==
    /\ room # <<>>
    /\ sock' = [v \in Viewers |->
                  IF v \in ToSet(room) THEN "closing" ELSE sock[v]]
    /\ room' = <<>>
    /\ capable' = {}
    /\ Reject(UNION {PendingOf(v) : v \in ToSet(room)},
              "VIEWER_DISCONNECTED", Open \ ToSet(room))
    /\ UNCHANGED <<answers, effects>>

-----------------------------------------------------------------------------
(***************************************************************************)
(* Calls.                                                                  *)
(***************************************************************************)

Refuse(r, code) ==
    /\ call' = [call EXCEPT ![r].pc = "rejected", ![r].codes = <<code>>]
    /\ UNCHANGED <<sock, capable, room, awaited, sent, answers, effects>>

Candidates == Reverse(Filter(room, Open \cap capable))

NoViewers(r) ==
    /\ call[r].pc = "idle"
    /\ room = <<>>
    /\ Refuse(r, "NO_VIEWERS")

NoCapableViewer(r) ==
    /\ call[r].pc = "idle"
    /\ room # <<>>
    /\ Candidates = <<>>
    /\ Refuse(r, "NO_BRIDGE_CAPABLE_VIEWER")

\* sendBridgeRequest: the candidates are listed once, the latest first.
Send(r) ==
    /\ call[r].pc = "idle"
    /\ Candidates # <<>>
    /\ call' = [call EXCEPT ![r].pc = "waiting", ![r].list = Candidates]
    /\ awaited' = awaited \cup {<<r, 1>>}
    /\ sent' = sent \cup {<<r, 1>>}
    /\ UNCHANGED <<sock, capable, room, answers, effects>>

\* Mutant of Timeout: the timer does not fire for a viewer that is gone.
Timeout_SkipsClosed(a) ==
    /\ a \in awaited
    /\ sock[Target(a)] # "closed"
    /\ Reject({a}, "TIMEOUT", Open)
    /\ UNCHANGED <<sock, capable, room, answers, effects>>

Timeout(a) ==
    /\ a \in awaited
    /\ Reject({a}, "TIMEOUT", Open)
    /\ UNCHANGED <<sock, capable, room, answers, effects>>

\* bridge.response of a pending attempt from the viewer it was sent to. An
\* answer that comes late, or over another connection of the same browser,
\* finds no entry or the wrong client and changes nothing; one whose
\* connection is gone never comes.
Respond(a, answer) ==
    /\ <<a, answer>> \in answers
    /\ Connected(Target(a))
    /\ a \in awaited
    /\ CASE answer \in {"result", "failure"} ->
              /\ call' = [call EXCEPT ![a[1]].pc = "resolved",
                                      ![a[1]].answer = answer]
              /\ awaited' = awaited \ {a}
              /\ UNCHANGED sent
         [] answer = "error"   -> Reject({a}, "EXECUTION_ERROR", Open)
         [] answer = "refusal" -> Reject({a}, "REFUSED", Open)
    /\ UNCHANGED <<sock, capable, room, answers, effects>>

-----------------------------------------------------------------------------
(***************************************************************************)
(* The viewer executes the request and answers. executeBridgeCall of the   *)
(* shipped client catches what the editor throws and returns it as a       *)
(* result, so its handler answers ok: true. A failed execution may have    *)
(* changed the document before it failed.                                  *)
(***************************************************************************)
CanAnswer(v) == IF v \in Shipped THEN {"result", "failure"} ELSE Answers

Execute(a, answer, effect) ==
    /\ a \in sent
    /\ \A other \in Answers : <<a, other>> \notin answers
    /\ answer \in CanAnswer(Target(a))
    /\ answer = "result" => effect
    /\ effects' = IF effect THEN effects \cup {a} ELSE effects
    /\ answers' = answers \cup {<<a, answer>>}
    /\ UNCHANGED <<sock, capable, room, call, awaited, sent>>

-----------------------------------------------------------------------------
BridgeNext ==
    \/ \E v \in Viewers :
         \/ Connect(v)
         \/ \E bridge \in BOOLEAN : Identify(v, bridge)
         \/ PeerCloses(v)
         \/ SocketError(v)
         \/ SocketClosed(v)
    \/ CloseRoom
    \/ \E r \in Calls : NoViewers(r) \/ NoCapableViewer(r) \/ Send(r)
    \/ \E a \in Attempts :
         \/ Timeout(a)
         \/ \E answer \in Answers :
              \/ Respond(a, answer)
              \/ \E effect \in BOOLEAN : Execute(a, answer, effect)

BridgeSpec == BridgeInit /\ [][BridgeNext]_bridgeVars

\* setTimeout fires: the only thing the router may count on.
FairBridgeSpec == BridgeSpec /\ \A a \in Attempts : WF_bridgeVars(Timeout(a))

-----------------------------------------------------------------------------
(***************************************************************************)
(* Properties.                                                             *)
(***************************************************************************)

\* pendingBridgeRequests holds the attempts that somebody awaits and no
\* other: no entry or timer outlives its call, and no call waits for an
\* attempt that nothing will settle.
PendingIsAwaited ==
    awaited = {Current(r) : r \in {s \in Calls : call[s].pc = "waiting"}}

\* Two viewers apply the same call only if the router had given the first
\* one up (timeout, disconnect, a crash in its editor): a viewer that
\* refused the operation, or did it, is not followed by another.
SecondEffectOnlyAfterGivingUp ==
    \A a, b \in effects :
        a[1] = b[1] /\ a[2] < b[2] => call[a[1]].codes[a[2]] \in Retryable

\* Every bridge call is answered, whatever the viewers do.
EveryCallSettles ==
    \A r \in Calls : call[r].pc = "waiting" ~> call[r].pc \in {"resolved", "rejected"}

=============================================================================
