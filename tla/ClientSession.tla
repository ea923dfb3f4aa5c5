---------------------------- MODULE ClientSession ----------------------------
(***************************************************************************)
(* One browser tab and its collaboration session with one document: the    *)
(* CollabClient (collab-client.ts) with the buffer of edits it keeps until *)
(* the server has acknowledged them, the editor (editor/index.ts) that     *)
(* refreshes the session, binds itself to the new Y.Doc and opens the edit *)
(* gate, and the server's side of it: the state of the share, the access   *)
(* epoch and the resident document (routes.ts, db.ts, collab.ts).  The     *)
(* connection between them is the provider of Hocuspocus, a library.       *)
(*                                                                         *)
(* One step is a handler up to its next await.  A document is the set of   *)
(* the tab's edits it contains.                                            *)
(***************************************************************************)
EXTENDS Integers

CONSTANTS Edits,        \* the edits the user may type in this tab
          MaxEpoch,     \* bound on the access epoch
          MaxFaults,    \* bound on dropped connections, failed requests, crashes
          MaxAttempts,  \* failed probes before the editor gives up (3 in the code)
          None          \* no socket, no resident document, no session

ASSUME BoundsAssumption == /\ MaxEpoch \in Nat
                           /\ MaxFaults \in Nat
                           /\ MaxAttempts \in Nat
                           /\ None \notin Nat
                           /\ \A E \in SUBSET Edits : E # None

VARIABLES
  share, token,     \* state of the share; whether the tab's link is still valid
  epoch,            \* access_epoch of the document
  live,             \* resident document of the server, or None
  saved,            \* what the row has
  dirty,            \* a persist of the resident document is scheduled
  cooling,          \* collabInvalidations still has the document
  conn,             \* epoch of the socket in the room, or None
  on,               \* collabEnabled
  session,          \* epoch of the session's token, or None
  link,             \* state of the provider
  doc, unsynced,    \* edits in the Y.Doc; those without an acknowledgement
  acks,             \* acknowledgements on their way
  pend, stored,     \* durablePendingUpdates; its copy in localStorage
  flush,            \* durableFlushTimer is set
  recent,           \* recentReconnectReplayUpdates
  refresh, keep,    \* refreshCollabSessionAndReconnect, where it waits; its argument
  next,             \* the session it was answered, or None
  rebind,           \* pendingCollabRebindOnSync
  bind,             \* the binding of the editor to the current Y.Doc
  attempts,         \* collabTransportRecoveryAttempts
  notice,           \* a decision event the tab has not handled
  made, dropped,    \* bookkeeping: edits typed; edits lost in a named way
  faults            \* faults that have happened

server  == <<share, token, epoch, saved, cooling>>
room    == <<live, dirty, conn>>
buffer  == <<pend, stored, flush, recent>>
replica == <<session, link, doc, unsynced, acks>>
editor  == <<on, refresh, keep, next, rebind, bind, attempts>>
vars == <<server, room, buffer, replica, editor, notice, made, dropped, faults>>

Links == {"off", "connecting", "authed", "synced", "refused"}
Binds == {"none", "waiting", "probing", "failed", "gaveup", "exhausted", "ready"}

TypeOK ==
  /\ share \in {"ACTIVE", "PAUSED", "REVOKED"}
  /\ {token, dirty, cooling, on, flush, keep, rebind, notice} \subseteq BOOLEAN
  /\ epoch \in 0 .. MaxEpoch
  /\ {conn, session, next} \subseteq 0 .. epoch \cup {None}
  /\ live # None => live \subseteq made
  /\ {saved, doc, unsynced, acks, pend, stored, recent, dropped} \subseteq SUBSET made
  /\ made \subseteq Edits
  /\ link \in Links
  /\ bind \in Binds
  /\ refresh \in {"idle", "fetch", "latest"}
  /\ (next # None) <=> (refresh = "latest")
  /\ on <=> (link # "off")
  /\ attempts \in 0 .. MaxAttempts
  /\ faults \in 0 .. MaxFaults
  /\ unsynced \subseteq doc
  /\ acks \subseteq unsynced
  /\ conn # None => live # None /\ link = "synced"

Init ==
  /\ share = "ACTIVE" /\ token = TRUE /\ epoch = 0
  /\ live = None /\ saved = {} /\ dirty = FALSE /\ cooling = FALSE /\ conn = None
  /\ on = TRUE /\ session = 0 /\ link = "connecting"
  /\ doc = {} /\ unsynced = {} /\ acks = {}
  /\ pend = {} /\ stored = {} /\ flush = FALSE /\ recent = {}
  /\ refresh = "idle" /\ keep = FALSE /\ next = None
  /\ rebind = TRUE /\ bind = "none" /\ attempts = 0
  /\ notice = FALSE /\ made = {} /\ dropped = {} /\ faults = 0

Resident == IF live = None THEN {} ELSE live
Admitted == share = "ACTIVE" /\ token
Fault    == faults < MaxFaults /\ faults' = faults + 1

\* What opens the edit gate.
GateOpen == on /\ link = "synced" /\ bind = "ready" /\ ~rebind

------------------------------------------------------------------------------
(* The owner and the server. *)

\* invalidateCollabDocument: the room, its sockets and its scheduled persist go,
\* and the document refuses writes for the cooldown.
Invalidate ==
  /\ live' = None
  /\ dirty' = FALSE
  /\ conn' = None
  /\ cooling' = TRUE
  /\ dropped' = dropped \cup (Resident \ saved)

NextEpoch == epoch < MaxEpoch /\ epoch' = epoch + 1

Pause ==
  /\ NextEpoch
  /\ share' = "PAUSED"
  /\ Invalidate
  /\ UNCHANGED <<token, saved, buffer, replica, editor, notice, made, faults>>

\* The update of the share without its CASE on the epoch.
Revoke_SameEpoch ==
  /\ share' = "REVOKED"
  /\ token' = FALSE
  /\ Invalidate
  /\ UNCHANGED <<epoch, saved, buffer, replica, editor, notice, made, faults>>

Revoke ==
  /\ NextEpoch
  /\ share' = "REVOKED"
  /\ token' = FALSE
  /\ Invalidate
  /\ UNCHANGED <<saved, buffer, replica, editor, notice, made, faults>>

\* Neither the state before nor the epoch is looked at.
Resume ==
  /\ share # "ACTIVE"
  /\ share' = "ACTIVE"
  /\ UNCHANGED <<token, epoch, saved, cooling, room, buffer, replica, editor,
                 notice, made, dropped, faults>>

\* A canonical rewrite, here the decision of a suggestion, moves the epoch,
\* clears the room and leaves an event for the viewers.
Rewrite ==
  /\ NextEpoch
  /\ Invalidate
  /\ notice' = TRUE
  /\ UNCHANGED <<share, token, saved, buffer, replica, editor, made, faults>>

CoolDown ==
  /\ cooling
  /\ cooling' = FALSE
  /\ UNCHANGED <<share, token, epoch, saved, room, buffer, replica, editor,
                 notice, made, dropped, faults>>

\* The document takes the edit and acknowledges it in any case; onChange
\* schedules a persist only for a socket of the current epoch, and not while
\* the document is being invalidated.
Schedules(socketEpoch) == socketEpoch = epoch /\ ~cooling

Apply(e) ==
  /\ link = "synced" /\ conn # None
  /\ e \in unsynced \ acks
  /\ live' = live \cup {e}
  /\ acks' = acks \cup {e}
  /\ dirty' = (dirty \/ Schedules(conn))
  /\ dropped' = dropped \ {e}
  /\ UNCHANGED <<server, conn, session, link, doc, unsynced, buffer, editor,
                 notice, made, faults>>

\* Another editor, on a session of the current epoch, changes the document.
OthersEdit ==
  /\ live # None
  /\ share = "ACTIVE"
  /\ ~dirty
  /\ Schedules(epoch)
  /\ dirty' = TRUE
  /\ UNCHANGED <<server, live, conn, buffer, replica, editor, notice, made, dropped, faults>>

\* persistDoc writes the whole document, whoever changed it.
Save ==
  /\ dirty
  /\ dirty' = FALSE
  /\ saved' = saved \cup live
  /\ UNCHANGED <<share, token, epoch, cooling, live, conn, buffer, replica, editor,
                 notice, made, dropped, faults>>

\* The last client of the room leaves, this tab or another: Hocuspocus stores
\* the document, which onStoreDocument does if the ticket of that client is of
\* the current epoch and the document not being invalidated, and unloads it.
\* (A persist that is scheduled comes first. If loadedDocs keeps the document
\* and serves it again, it is the same as if it had stayed.)
Unload(stores) ==
  /\ live # None /\ conn = None
  /\ ~dirty
  /\ stores => share # "REVOKED" /\ Schedules(epoch)
  /\ saved' = IF stores THEN saved \cup live ELSE saved
  /\ live' = None
  /\ dropped' = dropped \cup (live \ saved')
  /\ UNCHANGED <<share, token, epoch, cooling, dirty, conn, buffer, replica, editor,
                 notice, made, faults>>

------------------------------------------------------------------------------
(* The buffer of the client. *)

\* The buffer cleared although an edit waits for its acknowledgement.
Clears_Unacked(l, un) == l = "synced" /\ pend # {}

\* maybeClearDurableBuffer, with the link and the unacknowledged edits that the
\* event leaves.
Clears(l, un) == l = "synced" /\ un = {} /\ pend # {}

MaybeClear(l, un) ==
  IF Clears(l, un)
    THEN pend' = {} /\ stored' = {} /\ flush' = FALSE
    ELSE UNCHANGED <<pend, stored, flush>>

\* flushDurableBuffer, at disconnect and teardown of the page: what is pending goes
\* to localStorage, unless the write fails, which nobody is told.
Flushed(written) == IF pend # {} /\ written THEN pend ELSE stored

\* The buffer is not written, or no longer has an edit: what only it had is lost.
Forgets(kept) == dropped \cup ((pend \ kept) \ (saved \cup Resident))

FlushTimer ==
  /\ flush
  /\ flush' = FALSE
  /\ stored' \in {pend, stored}
  /\ UNCHANGED <<server, room, pend, recent, replica, editor, notice, made, dropped, faults>>

\* RECENT_RECONNECT_REPLAY_GRACE_MS has passed, or 200 updates have come since.
GraceEnds ==
  /\ recent # {}
  /\ recent' = {}
  /\ UNCHANGED <<server, room, pend, stored, flush, replica, editor, notice, made,
                 dropped, faults>>

\* A buffer keeps the newest 200 updates. An edit is any number of updates, so
\* how many of the older ones still have a place beside e is left open.
Newest(updates, e) == {older \cup {e} : older \in SUBSET updates}

\* The user types.
Edit(e) ==
  /\ GateOpen
  /\ e \notin made
  /\ made' = made \cup {e}
  /\ doc' = doc \cup {e}
  /\ unsynced' = unsynced \cup {e}
  /\ pend' \in Newest(pend, e)
  /\ flush' = TRUE
  /\ recent' = recent \cup {e}
  /\ dropped' = Forgets(pend')
  /\ UNCHANGED <<server, room, stored, session, link, acks, editor, notice, faults>>

\* The counter of the old provider taken over by the new one.
Connect_KeepsAcks(s, buffered, extra) ==
  /\ session' = s /\ link' = "connecting" /\ conn' = None
  /\ doc' = buffered \cup extra /\ unsynced' = doc' /\ UNCHANGED acks
  /\ pend' = buffered /\ flush' = FALSE
  /\ rebind' = TRUE /\ bind' = "none"
  /\ refresh' = "idle" /\ keep' = FALSE /\ next' = None

\* A new Y.Doc and a new provider, filled from the buffer; extra are the recent
\* edits that are replayed without being buffered again.
Connect(s, buffered, extra) ==
  /\ session' = s
  /\ link' = "connecting"
  /\ doc' = buffered \cup extra
  /\ unsynced' = doc'
  /\ acks' = {}
  /\ conn' = None
  /\ pend' = buffered
  /\ flush' = FALSE
  /\ rebind' = TRUE
  /\ bind' = "none"
  /\ refresh' = "idle" /\ keep' = FALSE /\ next' = None

\* collabClient.disconnect after a refusal: the tab has no session any more.
\* The pending edits stay in memory and, if they could be written, in localStorage.
TornDown ==
  /\ on' = FALSE
  /\ session' = None
  /\ link' = "off"
  /\ doc' = {} /\ unsynced' = {} /\ acks' = {}
  /\ conn' = None
  /\ \E written \in BOOLEAN : stored' = Flushed(written)
  /\ flush' = FALSE
  /\ rebind' = FALSE
  /\ bind' = "none"
  /\ refresh' = "idle" /\ keep' = FALSE /\ next' = None

------------------------------------------------------------------------------
(* A refresh of the session. *)

\* reviewRoomDecisionMutationInFlight is left to the argument of the callers.
ShouldPreserve == unsynced # {} \/ pend # {}

\* refreshCollabSessionAndReconnect up to its first await: nothing happens
\* while another one waits.
StartRefresh(preserve) ==
  IF on /\ refresh = "idle"
    THEN refresh' = "fetch" /\ keep' = preserve /\ rebind' = FALSE
    ELSE UNCHANGED <<refresh, keep, rebind>>

\* reconnectWithSession: without permission to preserve, the buffer is cleared;
\* with it, it becomes what localStorage has.
Reconnect(s, preserve) ==
  LET can == preserve /\ (ShouldPreserve \/ recent # {})
  IN \E written \in BOOLEAN :
       LET buffered == IF can THEN Flushed(written) ELSE {}
       IN /\ Connect(s, buffered, IF can THEN recent ELSE {})
          /\ stored' = buffered
          /\ recent' = IF can THEN recent ELSE {}
          /\ dropped' = IF can THEN Forgets(buffered) \ buffered
                        ELSE dropped \cup ((pend \cup stored) \ (saved \cup Resident))

\* The session is answered.  What is not to be preserved waits for the document
\* too before it reconnects.
RefreshAnswered ==
  /\ refresh = "fetch" /\ Admitted
  /\ IF keep /\ ShouldPreserve
       THEN Reconnect(epoch, TRUE)
       ELSE /\ refresh' = "latest" /\ next' = epoch
            /\ UNCHANGED <<conn, buffer, replica, keep, rebind, bind, dropped>>
  /\ UNCHANGED <<server, live, dirty, on, attempts, notice, made, faults>>

LatestAnswered ==
  /\ refresh = "latest"
  /\ Reconnect(next, FALSE)
  /\ UNCHANGED <<server, live, dirty, on, attempts, notice, made, faults>>

\* 401 or 403: the session ends.
RefreshRefused ==
  /\ refresh = "fetch" /\ ~Admitted
  /\ TornDown
  /\ UNCHANGED <<server, live, dirty, pend, recent, attempts, notice, made, dropped, faults>>

\* Another error, or no answer: the refresh is given up.
RefreshFails ==
  /\ Fault
  /\ refresh = "fetch"
  /\ refresh' = "idle" /\ keep' = FALSE
  /\ UNCHANGED <<server, room, buffer, replica, on, next, rebind, bind, attempts,
                 notice, made, dropped>>

\* A provider that was refused is not counted as stalled.
Stall_NotRefused ==
  /\ on /\ refresh = "idle"
  /\ link \notin {"synced", "refused"}
  /\ Fault
  /\ StartRefresh(FALSE)
  /\ UNCHANGED <<server, room, buffer, replica, on, next, bind, attempts, notice, made, dropped>>

\* maybeRecoverStalledCollab.  The delay of four seconds is long enough for the
\* provider to get through, or Fault says that it was not.
Stall ==
  /\ on /\ refresh = "idle"
  /\ link # "synced"
  /\ IF link = "refused" THEN UNCHANGED faults ELSE Fault
  /\ StartRefresh(FALSE)
  /\ UNCHANGED <<server, room, buffer, replica, on, next, bind, attempts, notice, made, dropped>>

\* handlePendingShareEvent for a decision.
DecisionEvent ==
  /\ notice
  /\ notice' = FALSE
  /\ StartRefresh(FALSE)
  /\ UNCHANGED <<server, room, buffer, replica, on, next, bind, attempts, made, dropped, faults>>

------------------------------------------------------------------------------
(* The provider and its events. *)

Valid == session = epoch /\ share = "ACTIVE"

Authenticate ==
  /\ link = "connecting" /\ Valid
  /\ link' = "authed"
  /\ UNCHANGED <<server, room, buffer, session, doc, unsynced, acks, editor, notice,
                 made, dropped, faults>>

\* authenticationFailed, and the refresh that onSyncStatus starts for it.
Refuse ==
  /\ link = "connecting" /\ ~Valid
  /\ link' = "refused"
  /\ StartRefresh(ShouldPreserve)
  /\ UNCHANGED <<server, room, buffer, session, doc, unsynced, acks, on, next, bind,
                 attempts, notice, made, dropped, faults>>

\* onSyncStatus when the document is synced: the binding that was put off.
Rebind ==
  IF rebind THEN rebind' = FALSE /\ bind' = "waiting" ELSE UNCHANGED <<rebind, bind>>

\* The socket enters the room, whatever has happened since it was authenticated;
\* the two documents are exchanged.
Attach ==
  /\ link = "authed"
  /\ link' = "synced"
  /\ conn' = session
  /\ live' = IF live = None THEN saved ELSE live
  /\ doc' = doc \cup live'
  /\ unsynced' = doc \ live'
  /\ MaybeClear("synced", unsynced')
  /\ Rebind
  /\ UNCHANGED <<server, dirty, session, acks, recent, on, refresh, keep, next, attempts,
                 notice, made, dropped, faults>>

\* The event of the last acknowledgement does not look at the buffer.
Ack_KeepsBuffer ==
  /\ link = "synced" /\ acks # {}
  /\ unsynced' = unsynced \ acks
  /\ acks' = {}
  /\ UNCHANGED <<server, room, buffer, session, link, doc, editor, notice, made, dropped, faults>>

\* unsyncedChanges: the acknowledgements arrive, also those the server sent
\* before it closed the socket.
Ack ==
  /\ link = "synced" /\ acks # {}
  /\ unsynced' = unsynced \ acks
  /\ acks' = {}
  /\ MaybeClear("synced", unsynced')
  /\ UNCHANGED <<server, room, recent, session, link, doc, editor, notice, made, dropped, faults>>

Lost ==
  /\ link' = "connecting"
  /\ acks' = {}
  /\ conn' = None
  /\ UNCHANGED <<server, live, dirty, buffer, session, doc, unsynced, editor, notice, made, dropped>>

\* The connection breaks.
Drop == link \in {"authed", "synced"} /\ Fault /\ Lost

\* The client learns that the server has closed the socket.
SeesClose == link = "synced" /\ conn = None /\ Lost /\ UNCHANGED faults

------------------------------------------------------------------------------
(* The binding of the editor (connectCollabService). *)

Binding == UNCHANGED <<server, room, buffer, replica, on, next, notice, made, dropped>>

StartProbe ==
  /\ bind = "waiting" /\ link = "synced"
  /\ bind' = "probing"
  /\ Binding /\ UNCHANGED <<refresh, keep, rebind, attempts, faults>>

\* markBindingReady has looked 120 times.
BindGivesUp ==
  /\ bind = "waiting" /\ link # "synced"
  /\ bind' = "gaveup"
  /\ Binding /\ UNCHANGED <<refresh, keep, rebind, attempts, faults>>

\* verifyTransportRoundTrip: the probe and every edit are acknowledged.
ProbeAcked ==
  /\ bind = "probing" /\ link = "synced" /\ conn # None /\ unsynced = {}
  /\ bind' = "ready"
  /\ attempts' = 0
  /\ Binding /\ UNCHANGED <<refresh, keep, rebind, faults>>

ProbeFailed ==
  /\ bind = "probing"
  /\ IF link = "synced" THEN Fault ELSE UNCHANGED faults
  /\ IF attempts < MaxAttempts
       THEN bind' = "failed" /\ attempts' = attempts + 1
       ELSE bind' = "exhausted" /\ UNCHANGED attempts
  /\ Binding /\ UNCHANGED <<refresh, keep, rebind>>

\* The timer of a failed probe.
ProbeRefresh ==
  /\ bind = "failed"
  /\ bind' = "gaveup"
  /\ StartRefresh(FALSE)
  /\ Binding /\ UNCHANGED <<attempts, faults>>

\* The user's Retry in the banner.
Retry ==
  /\ bind = "exhausted"
  /\ attempts' = 0
  /\ StartRefresh(FALSE)
  /\ Binding /\ UNCHANGED <<bind, faults>>

------------------------------------------------------------------------------
(* The tab goes and comes back. *)

\* The page loads again, with what localStorage has: a new session, or none.
Opened(kept) ==
  /\ recent' = {} /\ attempts' = 0
  /\ IF Admitted
       THEN /\ on' = TRUE
            /\ stored' = kept
            /\ Connect(epoch, kept, {})
       ELSE /\ on' = FALSE
            /\ session' = None /\ link' = "off"
            /\ doc' = {} /\ unsynced' = {} /\ acks' = {} /\ conn' = None
            /\ pend' = {} /\ stored' = kept /\ flush' = FALSE
            /\ rebind' = FALSE /\ bind' = "none"
            /\ refresh' = "idle" /\ keep' = FALSE /\ next' = None
  /\ UNCHANGED <<server, live, dirty, notice, made>>

\* beforeunload and pagehide write the buffer.
Reload ==
  /\ Fault
  /\ \E written \in BOOLEAN :
       /\ Opened(Flushed(written))
       /\ dropped' = Forgets(Flushed(written))

\* The browser is killed: the last half second is not in localStorage.
Crash ==
  /\ Fault
  /\ Opened(stored)
  /\ dropped' = Forgets(stored)

------------------------------------------------------------------------------
Next ==
  \/ Pause \/ Revoke \/ Resume \/ Rewrite \/ CoolDown \/ OthersEdit \/ Save
  \/ \E e \in Edits : Edit(e) \/ Apply(e)
  \/ \E stores \in BOOLEAN : Unload(stores)
  \/ FlushTimer \/ GraceEnds
  \/ RefreshAnswered \/ LatestAnswered \/ RefreshRefused \/ RefreshFails
  \/ Stall \/ DecisionEvent
  \/ Authenticate \/ Refuse \/ Attach \/ Ack \/ Drop \/ SeesClose
  \/ StartProbe \/ BindGivesUp \/ ProbeAcked \/ ProbeFailed \/ ProbeRefresh \/ Retry
  \/ Reload \/ Crash

Spec == Init /\ [][Next]_vars

\* The scheduling the code has: timers and promises are served, the provider
\* reconnects, the server answers, and a stalled session is looked at again.
\* Faults, the owner and the user owe nothing.  The steps of a disjunction are
\* never enabled together.
Free(A) == A /\ UNCHANGED faults

Fairness ==
  /\ WF_vars(Authenticate \/ Refuse \/ Attach \/ SeesClose)
  /\ WF_vars(RefreshAnswered \/ LatestAnswered \/ RefreshRefused)
  /\ WF_vars(StartProbe \/ BindGivesUp \/ ProbeAcked \/ Free(ProbeFailed) \/ ProbeRefresh)
  /\ WF_vars(Free(Stall))
  /\ WF_vars(\E e \in Edits : Apply(e))
  /\ WF_vars(Ack)

FairSpec == Spec /\ Fairness

------------------------------------------------------------------------------
(* Properties. *)

\* An edit the user has typed is in the row, in the resident document, in the
\* tab's buffer or in localStorage, unless it was lost in one of six ways. By the
\* tab: a reconnect was told not to preserve; the browser was killed before it
\* had written its buffer; a write to localStorage failed and the buffer was read
\* back from it; more than 200 updates waited for their acknowledgement. By
\* the server, which had acknowledged the edit and not persisted it: the document
\* was invalidated; it ignored the change, and the room was unloaded. No other
\* step loses anything, in particular no refusal, refresh, preserving reconnect or
\* late acknowledgement (collab-client.ts, index.ts 2911-3009, collab.ts 11066-11126).
NothingLostSilently ==
  made \subseteq saved \cup Resident \cup pend \cup stored \cup dropped

\* Once the tab's link is revoked, no socket of it has the current epoch: it is
\* not let in again on a session from before, not even when the document is
\* resumed, which looks neither at its state nor at the epoch (routes.ts 2250).
RevokedStaysOut == ~token => conn # epoch

\* A tab that can go on but has nobody to tell it so: the synced document is not
\* the one the editor was bound to, because the refresh that would have bound it
\* failed (index.ts 2915); the binding was not looked at any more (2582), or the
\* attempts are used up and the user is asked (2574).
Stranded == /\ link = "synced" /\ refresh = "idle" /\ bind \in {"none", "gaveup", "exhausted"}
            /\ ~rebind
Out      == ~on \/ ~Admitted

\* The gate does not stay closed: a session that loses its connection, its epoch
\* or its probe is writable again, unless the tab is shut out or stranded.
GateReopens == []<>(GateOpen \/ Stranded \/ Out)

\* What waits in the buffer is delivered and cleared, or dropped, as long as the
\* tab has access: no lost acknowledgement, refusal or refresh leaves it there.
BufferDrains == []<>(pend = {} \/ Out)

=============================================================================
