--------------------------- MODULE HostedDocument ---------------------------
(***************************************************************************)
(* One document of the hosted deployment, where stateless handlers share a *)
(* SQL database and nothing else: no live document, no lock, no            *)
(* idempotency keys.  A handler reads the row, awaits, reads it again in   *)
(* updateHostedDocument and writes whole columns in one batch; the batch   *)
(* appends the event that announces it, and agents poll for events.        *)
(*                                                                         *)
(* The database is a log of its committed batches: log[i] is event i       *)
(* together with the row as that batch left it, so that a read is an       *)
(* index into the log and the row is its last entry.  Text and comments    *)
(* are the sets of the calls whose change they contain.  The document has  *)
(* one suggestion, from before the first call.                             *)
(*                                                                         *)
(* Left out: the value of the title (a title update rewrites the text and  *)
(* the marks it read, which is what is modelled), document_projections     *)
(* (written with the row, read by no hosted handler), the outbox           *)
(* (written with the event, read by nobody), history events, the text of   *)
(* operations, acknowledgements of events (they do not restrict the poll). *)
(***************************************************************************)
EXTENDS Integers, Sequences

CONSTANTS
    NumCalls,   \* how many requests that change the document come
    None,       \* nobody
    Page        \* how many events a poll returns at most

ASSUME CallsAssumption == NumCalls \in Nat /\ None \notin 1 .. NumCalls
ASSUME PageAssumption == Page \in Nat \ {0}

\* The handlers of the requests, numbered as they come.
Calls == 1 .. NumCalls

VARIABLES
    log,        \* the committed batches: events, each with its row
    call,       \* the handlers
    cursor,     \* the polling agent: the id it will poll after
    seen        \* the polling agent: the ids it was given

vars == <<log, call, cursor, seen>>

\* The text that an edit or an accept changes is that of the handler's first
\* read; "rewrite" and "put" bring the text their client had and changed.  A PUT
\* brings the client's marks too, or, as "putMarks", only these.
AgentEdits == {"editV2", "edit"}
Whole == {"rewrite", "put"}
KeepsText == {"title", "putMarks"}
BringsMarks == {"put", "putMarks"}
Updates == AgentEdits \cup Whole \cup KeepsText \cup {"accept"}
OnlyAsks == Whole \cup KeepsText
Decisions == {"accept", "reject"}
Ops == Updates \cup {"comment", "reject", "delete"}
ClientLooks == Whole \cup BringsMarks \cup {"editV2"}

\* "gone": a structured accept removes the mark of the suggestion.
Status == {"pending", "accepted", "rejected", "gone"}

Entry == [type : {"created", "updated", "marks", "decided", "deleted"},
          by : Calls \cup {None},
          text : SUBSET Calls,
          comments : SUBSET Calls,
          suggestion : Status,
          rev : Nat \ {0},
          open : BOOLEAN]

\* doc and again are the handler's two reads, look is that of its client
\* before the request; landed is the batch that committed the change.
Call == [op : Ops \cup {None},
         at : {"idle", "looked", "opened", "reread", "written", "answered", "ended"},
         look : Nat, doc : Nat, again : Nat, landed : Nat,
         structured : BOOLEAN]

Idle == [op |-> None, at |-> "idle", look |-> 0, doc |-> 0, again |-> 0, landed |-> 0,
         structured |-> FALSE]

Init ==
    /\ log = << [type |-> "created", by |-> None, text |-> {}, comments |-> {},
                 suggestion |-> "pending", rev |-> 1, open |-> TRUE] >>
    /\ call = [c \in Calls |-> Idle]
    /\ cursor = 0
    /\ seen = {}

Now == Len(log)
Row == log[Now]

-----------------------------------------------------------------------------
(* A request.                                                              *)

\* The client of an edit v2, a rewrite or a PUT of more than the title reads the state
\* before it asks.
Look(c, op) ==
    /\ call[c].at = "idle"
    /\ \A d \in 1 .. c - 1 : call[d].at # "idle"
    /\ op \in ClientLooks
    /\ Row.open
    /\ call' = [call EXCEPT ![c].op = op, ![c].at = "looked", ![c].look = Now]
    /\ UNCHANGED <<log, cursor, seen>>

\* Mutant of BaseIsCurrent: the base is asked for, and not compared.
BaseIsCurrent_Given(c, op) ==
    op = "editV2" => call[c].look > 0

\* The base of an edit v2 is the revision of the state its client has read.
BaseIsCurrent(c, op) ==
    op = "editV2" => log[call[c].look].rev = Row.rev

\* No decision is refused because another one was made: only the mark counts.
CanDecide(op) ==
    op \in Decisions => Row.suggestion # "gone"

\* An accept goes through rehydration or, where that fails, applies the
\* suggestion by its quote.
Ways(op) ==
    IF op = "accept" THEN BOOLEAN ELSE {FALSE}

\* The handler finds the token among those not revoked, reads the row and
\* judges the request by it.  The two reads are one here: a deletion between
\* them has the request refused by the second as it would be by the first.  For
\* the same reason the read of updateHostedDocument is this one where the
\* handler's own read only asks whether the document is open.
Open(c, op) ==
    /\ IF op \in ClientLooks
       THEN call[c].at = "looked" /\ call[c].op = op
       ELSE call[c].at = "idle" /\ \A d \in 1 .. c - 1 : call[d].at # "idle"
    /\ Row.open
    /\ BaseIsCurrent(c, op)
    /\ CanDecide(op)
    /\ \E structured \in Ways(op) :
           call' = [call EXCEPT ![c].op = op, ![c].doc = Now,
                                ![c].structured = structured,
                                ![c].at = IF op \in OnlyAsks THEN "reread" ELSE "opened",
                                ![c].again = IF op \in OnlyAsks THEN Now ELSE 0]
    /\ UNCHANGED <<log, cursor, seen>>

\* A handler that wrote nothing and is over.
Ended == [Idle EXCEPT !.at = "ended"]

\* updateHostedDocument reads the row again.
Reread(c) ==
    /\ call[c].at = "opened"
    /\ call[c].op \in AgentEdits \cup {"accept"}
    /\ Row.open
    /\ call' = [call EXCEPT ![c].at = "reread", ![c].again = Now]
    /\ UNCHANGED <<log, cursor, seen>>

\* 404, 409 STALE_REVISION, a payload that is not valid, an anchor that is
\* not found: nothing is written.
Refuse(c) ==
    /\ \/ call[c].at = "looked"
       \/ call[c].at = "opened" /\ call[c].op \in AgentEdits \cup {"accept"}
    /\ call' = [call EXCEPT ![c] = Ended]
    /\ UNCHANGED <<log, cursor, seen>>

-----------------------------------------------------------------------------
(* The batch.                                                              *)

\* Mutant of TextRead: an edit v2 is applied to the snapshot of its agent.
TextRead_OfAgent(c) ==
    IF call[c].op = "editV2" THEN call[c].look ELSE call[c].doc

\* The text that edits and accepts are applied to: the handler's first read.
TextRead(c) == call[c].doc

\* Mutant of Accepted: an accept leaves its mark, whichever way it went.
Accepted_KeepsMark(c) == "accepted"

\* Rehydration gives back the marks without those that are finalized; the
\* other way keeps the mark, with its new status.
Accepted(c) == IF call[c].structured THEN "gone" ELSE "accepted"

\* UPDATE documents in updateHostedDocument: every column, those that the
\* request does not mention from the handler's second read.
UpdatedRow(c) ==
    LET first == log[call[c].doc]
        again == log[call[c].again]
        client == log[call[c].look]
    IN  [Row EXCEPT
          !.type = "updated",
          !.by = c,
          !.text = CASE call[c].op \in KeepsText -> again.text
                     [] call[c].op \in Whole -> client.text \cup {c}
                     [] OTHER -> log[TextRead(c)].text \cup {c},
          !.comments = CASE call[c].op \in BringsMarks -> client.comments
                         [] call[c].op = "accept" -> first.comments
                         [] OTHER -> again.comments,
          !.suggestion = CASE call[c].op \in BringsMarks -> client.suggestion
                           [] call[c].op = "accept" -> Accepted(c)
                           [] OTHER -> again.suggestion,
          !.rev = IF call[c].op \in KeepsText THEN again.rev ELSE again.rev + 1]

\* UPDATE documents SET marks in persistHostedMarks: all marks of the read.
MarkedRow(c) ==
    LET first == log[call[c].doc]
    IN  [Row EXCEPT
          !.type = "marks",
          !.by = c,
          !.comments = IF call[c].op = "comment" THEN first.comments \cup {c} ELSE first.comments,
          !.suggestion = IF call[c].op = "reject" THEN "rejected" ELSE first.suggestion]

Written(c) ==
    IF call[c].op \in Updates THEN UpdatedRow(c) ELSE MarkedRow(c)

AtBatch(c) ==
    /\ call[c].op # "delete"
    /\ call[c].at = IF call[c].op \in Updates THEN "reread" ELSE "opened"

\* The batch asks for an open row and nothing else: neither the revision nor
\* updated_at of the reads.
Commit(c) ==
    /\ AtBatch(c)
    /\ Row.open
    /\ log' = Append(log, Written(c))
    /\ call' = [call EXCEPT ![c].landed = Now + 1,
                            ![c].at = IF call[c].op = "accept" THEN "written" ELSE "answered"]
    /\ UNCHANGED <<cursor, seen>>

\* The row was deleted since: it stays, but the batch writes the event all
\* the same, and the caller is answered 409.
CommitTooLate(c) ==
    /\ AtBatch(c)
    /\ ~Row.open
    /\ log' = Append(log, [Row EXCEPT !.type = Written(c).type, !.by = c])
    /\ call' = [call EXCEPT ![c] = Ended]
    /\ UNCHANGED <<cursor, seen>>

\* DELETE closes the row and revokes every token of the document.
Delete(c) ==
    /\ call[c].op = "delete"
    /\ call[c].at = "opened"
    /\ log' = Append(log, [Row EXCEPT !.type = "deleted", !.by = c, !.open = FALSE])
    /\ call' = [call EXCEPT ![c].at = "answered", ![c].landed = Now + 1]
    /\ UNCHANGED <<cursor, seen>>

\* The event of an accept is a batch of its own, after that of the row.
Announce(c) ==
    /\ call[c].at = "written"
    /\ log' = Append(log, [Row EXCEPT !.type = "decided", !.by = c])
    /\ call' = [call EXCEPT ![c].at = "answered"]
    /\ UNCHANGED <<cursor, seen>>

\* The function is killed between two statements.
Die(c) ==
    /\ call[c].at \in {"looked", "opened", "reread", "written"}
    /\ call' = [call EXCEPT ![c] = IF call[c].at = "written" THEN [@ EXCEPT !.at = "ended"]
                                  ELSE Ended]
    /\ UNCHANGED <<log, cursor, seen>>

-----------------------------------------------------------------------------
(* The agent that polls GET /events/pending with its cursor.               *)

Pending == {i \in 1 .. Now : i > cursor}

\* Mutant of PageOf: the last page, ORDER BY id DESC.
PageOf_Newest(pending) ==
    {i \in pending : \A j \in pending : i < j => j - i < Page}

\* The first page of the events after the cursor, in the order of their ids.
PageOf(pending) ==
    {i \in pending : \A j \in pending : j < i => i - j < Page}

\* Mutant of Poll: the cursor that is answered is the newest id of the document.
Poll_NewestCursor ==
    /\ Row.open
    /\ Pending # {}
    /\ seen' = seen \cup PageOf(Pending)
    /\ cursor' = Now
    /\ UNCHANGED <<log, call>>

Poll ==
    /\ Row.open
    /\ Pending # {}
    /\ seen' = seen \cup PageOf(Pending)
    /\ cursor' = CHOOSE i \in PageOf(Pending) : \A j \in PageOf(Pending) : j <= i
    /\ UNCHANGED <<log, call>>

-----------------------------------------------------------------------------
\* What a handler that has read the row goes on to do.
Handler(c) == Reread(c) \/ Commit(c) \/ CommitTooLate(c) \/ Delete(c) \/ Announce(c)

Next ==
    \/ \E c \in Calls :
          \/ \E op \in Ops : Look(c, op) \/ Open(c, op)
          \/ Handler(c)
          \/ Refuse(c)
          \/ Die(c)
    \/ Poll

Spec == Init /\ [][Next]_vars

\* A handler that is not killed runs on, and the agent keeps polling.
FairSpec ==
    /\ Spec
    /\ \A c \in Calls : WF_vars(Handler(c))
    /\ WF_vars(Poll)

-----------------------------------------------------------------------------
(* Properties.                                                             *)

\* The variables have their types; a read is not ahead of the log, and what
\* the agent was given is what precedes its cursor.
TypeOK ==
    /\ \A i \in 1 .. Now : log[i] \in Entry
    /\ call \in [Calls -> Call]
    /\ \A c \in Calls :
          /\ {call[c].look, call[c].doc, call[c].again, call[c].landed} \subseteq 0 .. Now
          /\ call[c].landed > 0 => log[call[c].landed].by = c
    /\ cursor \in 0 .. Now
    /\ seen = 1 .. cursor

Landed == {c \in Calls : call[c].landed > 0}

\* w was under way when the change of x was committed: it had read the row
\* before, and wrote after it.
Overlaps(w, x) ==
    /\ call[w].op # "delete"
    /\ call[w].doc < call[x].landed
    /\ call[x].landed < call[w].landed

\* A rewrite or a PUT sends what its client last saw of the text, the marks or
\* both, and nobody asks how long ago that was.
SentOlder(w, x) ==
    /\ call[w].look < call[x].landed
    /\ call[x].landed < call[w].landed

TextChanges == Updates \ KeepsText

\* Revision and mark are compared before the last read: what was answered as
\* saved is lost only to a request that was under way when it was saved, or to
\* a rewrite or PUT of an older copy; a text never to a comment or a rejection, a
\* comment never to a rewrite begun later.
\* (hosted-review-room-db.ts 1055-1148, 1278-1310)
LostOnlyToOverlap ==
    \A x \in Landed :
        /\ call[x].op \in TextChanges /\ x \notin Row.text =>
              \E w \in Landed :
                 /\ call[w].op \in Updates
                 /\ Overlaps(w, x) \/ (call[w].op \in Whole /\ SentOlder(w, x))
        /\ call[x].op = "comment" /\ x \notin Row.comments =>
              \E w \in Landed :
                 Overlaps(w, x) \/ (call[w].op \in BringsMarks /\ SentOlder(w, x))

\* w wrote a revision it had counted from a row that was no longer current.
CountedFromOld(w) ==
    /\ w \in Landed
    /\ call[w].op \in Updates
    /\ log[call[w].again].rev # log[call[w].landed - 1].rev

\* An edit v2 that gets past STALE_REVISION is applied to the very text whose
\* revision its agent named, unless an update has counted that revision, or
\* an earlier one, a second time. (hosted-review-room-db.ts 1058-1074, 1775-1785)
BaseIsHonoured ==
    \A c \in Calls :
        call[c].op = "editV2" /\ call[c].doc > 0 =>
            \/ log[call[c].look].text = log[call[c].doc].text
            \/ \E w \in Calls :
                  /\ CountedFromOld(w)
                  /\ call[w].landed <= call[c].doc
                  /\ log[call[w].landed].rev <= log[call[c].look].rev

\* A suggestion is put into the text twice only if its second accept was
\* under way already, or if the mark was there to be accepted again: left by an
\* accept that did not go through rehydration, or put back by a request that
\* had read it before. (hosted-review-room-db.ts 1694-1711)
AppliedOnce ==
    \A a, b \in Landed :
        /\ call[a].op = "accept"
        /\ call[b].op = "accept"
        /\ call[a].landed < call[b].landed
        =>  \/ call[b].doc < call[a].landed
            \/ ~call[a].structured
            \/ \E w \in Landed : /\ call[w].landed <= call[b].doc
                                 /\ Overlaps(w, a) \/ (call[w].op \in BringsMarks /\ SentOlder(w, a))

\* Again and again, the agent was given the event of every change that landed
\* so far, and that of every decision: none is passed over by the cursor. It may
\* end only with the document, or with a handler that is killed between the
\* change and the event of its decision. (hosted-review-room-db.ts 696-710,
\* 1122-1148, 1715-1716)
Told(c) ==
    /\ call[c].landed \in seen
    /\ call[c].op = "accept" =>
          \/ call[c].at = "ended"
          \/ \E i \in seen : log[i].type = "decided" /\ log[i].by = c

EveryChangeIsTold ==
    []<>(Row.open => \A c \in Landed : Told(c))

=============================================================================
