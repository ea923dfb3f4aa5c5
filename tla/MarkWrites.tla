------------------------------- MODULE MarkWrites -------------------------------
(***************************************************************************)
(* Comments and suggestions of one document: the mark operations of         *)
(* src/server/document-engine.ts, the marks of PUT /documents in routes.ts  *)
(* and the tombstones of db.ts, against the live document of collab.ts.     *)
(*                                                                         *)
(* All marks of a document are one value, which every writer replaces. It   *)
(* is kept three times: in the row, in the Yjs history and in the room, the *)
(* live document. Some writers raise the revision of the row and are fenced *)
(* by it, others (updateMarks) neither raise nor look at it.                *)
(*                                                                         *)
(* The text of a document is what suggestions have put into it, counted. A  *)
(* handler runs from await to await. How a canonical mutation proceeds is   *)
(* CanonicalMutation; here it is one step.                                  *)
(***************************************************************************)
EXTENDS Naturals, FiniteSets

CONSTANTS
    Comments, Suggestions,
    Calls,       \* requests
    MaxDecided,  \* bound: decisions about one suggestion
    None

Marks == Comments \cup Suggestions

ASSUME MarksAssumption   == Comments \cap Suggestions = {} /\ None \notin Marks
ASSUME DecidedAssumption == MaxDecided \in Nat \ {0}

VARIABLES
    row,      \* documents: marks, text, revision
    history,  \* the document the Yjs history yields
    room,     \* the live document, or None
    tomb,     \* mark_tombstones: mark -> status and revision
    h,        \* call -> its handler
    minted,   \* marks that have been made
    said,     \* comments a caller has been told of
    decided,  \* suggestion -> decisions committed
    stale,    \* marks changed by a writer that had not read them as they were
    revived,  \* suggestions brought back by a write no tombstone could stop
    unwanted  \* comments deleted by a PUT, or for the tombstone of a resolution

docs  == <<row, history, room>>
ghost == <<minted, said, decided, stale, revived, unwanted>>
vars  == <<docs, tomb, h, ghost>>

Status  == {"absent", "open", "resolved", "pending"}
AllMarks == [Marks -> Status]
Text    == [Suggestions -> 0 .. MaxDecided]
Doc     == [marks : AllMarks, text : Text]
Edits   == {"add", "reply", "resolve", "unresolve"}
Decisions == {"accept", "reject", "place"}
Ops     == Edits \cup Decisions \cup {"put"}
Places  == {"idle", "read", "ready", "sync", "epilogue", "closing", "ok", "refused"}
Final   == {"accepted", "rejected"}
Tombs   == [status : Final \cup {"resolved", "none"}, rev : Nat]

Handler == [pc : Places, op : Ops, mark : Marks \cup {None},
            base : Doc, rev : Nat,        \* what it has read
            next : AllMarks,              \* what it will write
            prev : AllMarks,              \* what it will write back
            buried : SUBSET Marks]        \* tombstones when it looked for them

TypeOK ==
    /\ row \in [marks : AllMarks, text : Text, rev : Nat]
    /\ history \in Doc /\ room \in Doc \cup {None}
    /\ tomb \in [Marks -> Tombs]
    /\ h \in [Calls -> Handler]
    /\ \A o \in Calls : /\ h[o].pc = "sync" => h[o].op \in Edits \cup {"put"}
                       /\ h[o].pc = "epilogue" => h[o].op \in Decisions \cup {"resolve"}
    /\ said \cup unwanted \subseteq Comments /\ {minted, stale} \subseteq SUBSET Marks
    /\ decided \in [Suggestions -> 0 .. MaxDecided]
    /\ revived \subseteq Suggestions

NoMarks == [m \in Marks |-> "absent"]
Blank   == [marks |-> NoMarks, text |-> [s \in Suggestions |-> 0]]

Idle == [pc |-> "idle", op |-> "put", mark |-> None, base |-> Blank, rev |-> 0,
         next |-> NoMarks, prev |-> NoMarks, buried |-> {}]

Init ==
    /\ row = [marks |-> NoMarks, text |-> Blank.text, rev |-> 0]
    /\ history = Blank /\ room = None
    /\ tomb = [m \in Marks |-> [status |-> "none", rev |-> 0]]
    /\ h = [o \in Calls |-> Idle]
    /\ minted = {} /\ said = {} /\ unwanted = {} /\ stale = {} /\ revived = {}
    /\ decided = [s \in Suggestions |-> 0]

-----------------------------------------------------------------------------
RowDoc == [marks |-> row.marks, text |-> row.text]

\* mergePreservedActionMarks: marks of the row that the document lacks are kept.
\* Suggestions are only for a reader, resolved comments and open ones always.
Merged(marks, suggestions) ==
    [m \in Marks |-> IF marks[m] = "absent" /\ (m \in Comments \/ suggestions)
                     THEN row.marks[m] ELSE marks[m]]

\* The document a reader is given: the live one or else that of the history,
\* unless the last thing that happened to the row is a decision.
LatestIsDecision == \E m \in Marks : tomb[m].status \in Final /\ tomb[m].rev = row.rev
View ==
    LET doc == IF room = None THEN history ELSE room
    IN  IF LatestIsDecision THEN RowDoc
        ELSE [doc EXCEPT !.marks = Merged(doc.marks, TRUE)]

Buried == {m \in Marks : tomb[m].status # "none"}

\* removeResurrectedMarksFromPayload.
Scrubbed(marks, buried) ==
    [m \in Marks |-> IF m \in buried /\ marks[m] \in {"open", "pending"}
                     THEN "absent" ELSE marks[m]]

\* Marks that are not what the writer took them for, apart from its own.
Missed(old, new, own) == {m \in Marks \ {own} : old[m] # new[m]}

\* The mark a request is about, if it is what the handler takes it for.
Own(o, marks, expected) ==
    IF h[o].mark # None /\ marks[h[o].mark] = expected[h[o].mark] THEN h[o].mark ELSE None

\* Suggestions written although they are decided, by a writer that did not see
\* their tombstones.
Returning(new, seen) ==
    {s \in Suggestions : new[s] = "pending" /\ decided[s] > 0 /\ s \notin seen}

Goto(o, place) == h' = [h EXCEPT ![o].pc = place]

\* What an ended handler had read is forgotten.
End(o, place) ==
    h' = [h EXCEPT ![o] = [Idle EXCEPT !.pc = place, !.op = h[o].op, !.mark = h[o].mark]]

-----------------------------------------------------------------------------
(***************************************************************************)
(* The room.                                                               *)
(***************************************************************************)
Open ==
    /\ room = None
    /\ room' = history
    /\ UNCHANGED <<row, history, tomb, h, ghost>>

\* The room empties and is evicted; what it had is saved by then.
Close ==
    /\ room # None /\ room = history
    /\ room' = None
    /\ UNCHANGED <<row, history, tomb, h, ghost>>

\* A client of the room makes a mark, or deletes or resolves a comment.
ClientAdds(m) ==
    /\ room # None /\ m \notin minted
    /\ minted' = minted \cup {m}
    /\ room' = [room EXCEPT !.marks[m] = IF m \in Comments THEN "open" ELSE "pending"]
    /\ UNCHANGED <<row, history, tomb, h, said, decided, stale, revived, unwanted>>

ClientDeletes(c) ==
    /\ room # None /\ room.marks[c] # "absent"
    /\ room' = [room EXCEPT !.marks[c] = "absent"]
    /\ UNCHANGED <<row, history, tomb, h, ghost>>

\* Mutant of Projected: comments the document lacks are not kept.
Projected_Plain(doc) == doc.marks

\* What persistDoc makes of the marks of a document.
Projected(doc) == Merged(doc.marks, FALSE)

\* The row persistDoc leaves.
Saved(doc) ==
    IF row.marks = Projected(doc) /\ row.text = doc.text THEN row
    ELSE [marks |-> Projected(doc), text |-> doc.text, rev |-> row.rev + 1]

\* persistDoc, debounced after a change.
WriteRoom ==
    /\ row' = Saved(room)
    /\ history' = room
    /\ UNCHANGED room

Persist ==
    /\ room \notin {None, history}
    /\ WriteRoom
    /\ UNCHANGED <<tomb, h, ghost>>

\* persistOnStoreDocument. If the marks of the row are not those of the history
\* the room is replaced by the row, with what its clients did since.
RowAhead ==
    /\ RowDoc # room
    /\ row.marks # history.marks /\ row.marks # NoMarks

Store ==
    /\ room # None
    /\ \/ /\ RowAhead
          /\ room' = RowDoc /\ history' = RowDoc
                /\ stale' = stale \cup Missed(room.marks, row.marks, None)
          /\ UNCHANGED row
       \/ ~RowAhead /\ WriteRoom /\ UNCHANGED stale
    /\ UNCHANGED <<tomb, h, minted, said, decided, revived, unwanted>>

-----------------------------------------------------------------------------
(***************************************************************************)
(* A request, from what its route has read to its answer.                  *)
(***************************************************************************)
\* What a request asks for is there to be asked for.
Sensible(op, m, marks) ==
    CASE op = "add"       -> m \in Marks \ minted
      [] op = "place"     -> m \in Suggestions \ minted
      [] op = "reply"     -> m \in Comments /\ marks[m] # "absent"
      [] op = "resolve"   -> m \in Comments /\ marks[m] = "open"
      [] op = "unresolve" -> m \in Comments /\ marks[m] = "resolved"
      [] op = "put"       -> m = None \/ (m \in Comments /\ marks[m] # "absent")
      [] OTHER            -> m \in Suggestions /\ marks[m] = "pending"

\* The route reads the document, on which the engine will work.
Read(o, op, m) ==
    /\ h[o].pc = "idle"
    /\ Sensible(op, m, View.marks)
    /\ h' = [h EXCEPT ![o].pc = "read", ![o].op = op, ![o].mark = m,
                      ![o].base = View, ![o].rev = row.rev]
    /\ minted' = IF op \in {"add", "place"} THEN minted \cup {m} ELSE minted
    /\ UNCHANGED <<docs, tomb, said, decided, stale, revived, unwanted>>

\* The marks as the request wants them.
Wanted(o) ==
    LET m == h[o].mark  marks == h[o].base.marks IN
    CASE h[o].op = "add"       -> [marks EXCEPT ![m] = IF m \in Comments THEN "open"
                                                       ELSE "pending"]
      [] h[o].op = "resolve"   -> [marks EXCEPT ![m] = "resolved"]
      [] h[o].op = "unresolve" -> [marks EXCEPT ![m] = "open"]
      [] h[o].op = "reply"     -> marks
      [] OTHER                 -> [n \in Marks |-> IF n = m THEN "absent" ELSE marks[n]]

\* Mutant of PrepareEdit: tombstones are not looked at.
PrepareEdit_Unscrubbed(o) ==
    /\ h[o].pc = "read" /\ h[o].op \in Edits
    /\ tomb' = IF h[o].op = "unresolve"
               THEN [tomb EXCEPT ![h[o].mark] = [status |-> "none", rev |-> 0]] ELSE tomb
    /\ h' = [h EXCEPT ![o].pc = "ready", ![o].next = Wanted(o),
                      ![o].prev = h[o].base.marks, ![o].buried = Buried']
    /\ UNCHANGED <<docs, ghost>>

\* addComment, replyComment, resolveComment, unresolveComment, addSuggestion up
\* to the await of persistMarksAsync.
PrepareEdit(o) ==
    /\ h[o].pc = "read" /\ h[o].op \in Edits
    /\ tomb' = IF h[o].op = "unresolve"
               THEN [tomb EXCEPT ![h[o].mark] = [status |-> "none", rev |-> 0]] ELSE tomb
    /\ h' = [h EXCEPT ![o].pc = "ready", ![o].next = Scrubbed(Wanted(o), Buried'),
                      ![o].prev = h[o].base.marks, ![o].buried = Buried']
    /\ unwanted' = unwanted \cup {c \in Comments : Wanted(o)[c] = "open" /\ c \in Buried'}
    /\ UNCHANGED <<docs, minted, said, decided, stale, revived>>

\* updateSuggestionStatus up to the await of the rehydration. The marks are not
\* compared with the tombstones.
PrepareDecision(o) ==
    /\ h[o].pc = "read" /\ h[o].op \in Decisions
    /\ h' = [h EXCEPT ![o].pc = "ready", ![o].next = Wanted(o)]
    /\ UNCHANGED <<docs, tomb, ghost>>

\* Mutant of Fenced: the revision is not compared.
Fenced_Not(o) == TRUE

\* mutateCanonicalDocument with baseRevision.
Fenced(o) == row.rev = h[o].rev

Told(o) == IF h[o].op = "add" /\ h[o].mark \in Comments THEN said \cup {h[o].mark} ELSE said

\* Mutant of AfterEdit: whatever was written leaves a tombstone.
AfterEdit_Buries(o) == Goto(o, "epilogue")

\* After the write of an edit: only a resolution leaves a tombstone.
AfterEdit(o) == IF h[o].op = "resolve" THEN Goto(o, "epilogue") ELSE End(o, "ok")

\* The row, the history and the room are made the same.
CommitAll(o, text) ==
    LET new == h[o].next IN
    /\ row' = [marks |-> new, text |-> text, rev |-> row.rev + 1]
    /\ history' = [marks |-> new, text |-> text]
    /\ room' = IF room = None THEN None ELSE history'
    /\ stale' = stale \cup Missed(row.marks, new, Own(o, row.marks, h[o].base.marks))
                      \cup (IF room = None THEN {}
                            ELSE Missed(room.marks, new, Own(o, room.marks, h[o].base.marks)))
    /\ revived' = revived \cup Returning(new, h[o].buried)

\* persistMarksAsync, if the request has a precondition or the texts differ.
CommitEdit(o) ==
    /\ h[o].pc = "ready" /\ h[o].op \in Edits
    /\ Fenced(o)
    /\ CommitAll(o, h[o].base.text)
    /\ AfterEdit(o)
    /\ said' = Told(o)
    /\ UNCHANGED <<tomb, minted, decided, unwanted>>

CommitDecision(o) ==
    LET s == h[o].mark IN
    /\ h[o].pc = "ready" /\ h[o].op \in Decisions
    /\ Fenced(o)
    /\ decided[s] < MaxDecided
    /\ CommitAll(o, IF h[o].op = "reject" THEN h[o].base.text
                    ELSE [h[o].base.text EXCEPT ![s] = @ + 1])
    /\ decided' = [decided EXCEPT ![s] = @ + 1]
    /\ Goto(o, "epilogue")
    /\ UNCHANGED <<tomb, minted, said, unwanted>>

\* The base is stale, or the mutation fails.
CommitRefused(o) ==
    /\ h[o].pc = "ready" /\ h[o].op # "put"
    /\ End(o, "refused")
    /\ UNCHANGED <<docs, tomb, ghost>>

\* updateMarks, which leaves the revision as it is.
UpdateMarks(new, own, seen) ==
    /\ row' = [row EXCEPT !.marks = new]
    /\ stale' = stale \cup Missed(row.marks, new, own)
    /\ revived' = revived \cup Returning(new, seen)

\* persistMarksAsync otherwise: persistMarks if nothing is loaded, else
\* persistMarksWithAuthoritativeSync.
WriteMarks(o) ==
    /\ h[o].pc = "ready" /\ h[o].op \in Edits
    /\ room # None => room.text = row.text
    /\ UpdateMarks(h[o].next, Own(o, row.marks, h[o].base.marks), h[o].buried)
    /\ IF room = None THEN AfterEdit(o) ELSE Goto(o, "sync")
    /\ said' = IF room = None THEN Told(o) ELSE said
    /\ UNCHANGED <<history, room, tomb, minted, decided, unwanted>>

\* PUT /documents with marks only: those the caller has, without one of them.
PutMarks(o) ==
    /\ h[o].pc = "read" /\ h[o].op = "put"
    /\ UpdateMarks(Wanted(o), Own(o, row.marks, h[o].base.marks), {})
    /\ unwanted' = unwanted \cup ({h[o].mark} \ {None})
    /\ h' = [h EXCEPT ![o].pc = "sync", ![o].next = Wanted(o), ![o].prev = row.marks]
    /\ UNCHANGED <<history, room, tomb, minted, said, decided>>

\* syncCanonicalDocumentStateToCollab: the marks of the live document, or of
\* the history, become those that were written to the row; it is persisted.
Sync(o) ==
    LET doc == IF room = None THEN history ELSE room
        new == [doc EXCEPT !.marks = h[o].next]
    IN
    /\ h[o].pc = "sync"
    /\ history' = new /\ row' = Saved(new)
    /\ room' = IF room = None THEN None ELSE new
    /\ stale' = stale \cup Missed(doc.marks, h[o].next, Own(o, doc.marks, h[o].base.marks))
                      \cup Missed(row.marks, h[o].next, None)
    /\ AfterEdit(o)
    /\ said' = Told(o)
    /\ revived' = revived \cup Returning(h[o].next, h[o].buried)
    /\ UNCHANGED <<tomb, minted, decided, unwanted>>

\* It is refused or throws: the marks that were read come back, and the room
\* is invalidated.
SyncRefused(o) ==
    /\ h[o].pc = "sync"
    /\ UpdateMarks(h[o].prev, Own(o, row.marks, h[o].next), {})
    /\ room' = None
    /\ End(o, "refused")
    /\ UNCHANGED <<history, tomb, minted, said, decided, unwanted>>

\* preserveMarksOnlyWriteIfAuthoritativeYjsMatches: refused, but they are there.
SyncMatches(o) ==
    /\ h[o].pc = "sync"
    /\ h[o].next = (IF room = None THEN history ELSE room).marks
    /\ AfterEdit(o)
    /\ said' = Told(o)
    /\ UNCHANGED <<docs, tomb, minted, decided, stale, revived, unwanted>>

\* upsertMarkTombstone, after the awaits that follow the commit.
Bury(o) ==
    LET status == CASE h[o].op = "resolve" -> "resolved"
                    [] h[o].op = "reject"  -> "rejected"
                    [] OTHER               -> "accepted"
    IN
    /\ h[o].pc = "epilogue"
    /\ tomb' = [tomb EXCEPT ![h[o].mark] =
                   [status |-> status,
                    rev |-> IF status = "resolved" THEN row.rev ELSE h[o].rev + 1]]
    /\ IF h[o].op \in {"accept", "reject"} THEN Goto(o, "closing") ELSE End(o, "ok")
    /\ UNCHANGED <<docs, ghost>>

\* After the decision is recorded: the epoch is raised, the room invalidated.
Finish(o) ==
    /\ h[o].pc = "closing"
    /\ room' = None
    /\ End(o, "ok")
    /\ UNCHANGED <<row, history, tomb, ghost>>

-----------------------------------------------------------------------------
Handle(o) ==
    \/ \E op \in Ops, m \in Marks \cup {None} : Read(o, op, m)
    \/ PrepareEdit(o) \/ PrepareDecision(o)
    \/ CommitEdit(o) \/ CommitDecision(o) \/ CommitRefused(o)
    \/ WriteMarks(o) \/ PutMarks(o)
    \/ Sync(o) \/ SyncRefused(o) \/ SyncMatches(o)
    \/ Bury(o) \/ Finish(o)

Next ==
    \/ \E o \in Calls : Handle(o)
    \/ Open \/ Close \/ Persist \/ Store
    \/ \E m \in Marks : ClientAdds(m)
    \/ \E c \in Comments : ClientDeletes(c)

Spec == Init /\ [][Next]_vars

-----------------------------------------------------------------------------
\* A suggestion is decided once, be it accepted, rejected or both by different
\* callers, and so its content is in the text at most once. Only a writer that
\* missed the decision, and put the suggestion back, makes a second one
\* possible.
DecidedOnce == \A s \in Suggestions : decided[s] > 1 => s \in stale

\* A comment whose creation was answered with success is in the row from then
\* on, whatever the room has when it is saved. Only a writer of all marks that
\* had not read it removes it.
CommentSurvives == \A c \in said : row.marks[c] # "absent" \/ c \in stale \cup unwanted

\* Once its tombstone is written, a suggestion is not pending in the row again,
\* whatever a request read before. Not stopped are a write whose look at the
\* tombstones came too early, one that writes back, and PUT.
FinalizedStaysOut ==
    \A s \in Suggestions :
        tomb[s].status \in Final /\ row.marks[s] = "pending" => s \in revived

=============================================================================
