-------------------------- MODULE CollabPersistence --------------------------
(***************************************************************************)
(* How the live document of src/server/collab.ts reaches the database: the *)
(* debounced persistDoc, its generation fence, the conflict check against  *)
(* writers that bypass the live document, and the invalidation that tears  *)
(* the live document down.                                                 *)
(*                                                                         *)
(* One document. Its content is the set of edits it contains. The database *)
(* has it twice: as the Yjs history, which documents are read from and the *)
(* conflict check compares, and as the text and marks of the row, which    *)
(* some routes write alone. persistDoc replaces both by the content of the *)
(* live document, so an edit that document never saw is lost. updated_at   *)
(* with the Yjs version is one counter.                                    *)
(*                                                                         *)
(* An instance is a Y.Doc object that Hocuspocus serves; it makes one of   *)
(* its own from what onLoadDocument returns. loaded is what loadedDocs     *)
(* has: an instance, or the Copy of the row it was read into.               *)
(***************************************************************************)
EXTENDS Naturals

CONSTANTS
    Edits,      \* changes, by clients of the room or by other writers
    MaxInst,    \* bound: Y.Doc instances created
    MaxGen,     \* bound: no invalidation from outside at this generation
    Copy, None

ASSUME BoundsAssumption == MaxInst \in Nat \ {0} /\ MaxGen \in Nat

VARIABLES
    db,        \* the Yjs history (content) and the row: text and marks,
               \* version, access epoch, share state
    mem,       \* instance, Copy -> its content
    count,     \* instances created so far
    live,      \* hocuspocus documents.get(slug)
    loaded,    \* loadedDocs.get(slug)
    meta,      \* loadedDocDbMeta.get(slug): the version and epoch it was read at
    base,      \* lastPersistedAuthoritativeSnapshots.get(slug): its content
    load,      \* a hydration under way: what it read
    clients,   \* the epochs of the tickets of the clients of the live instance
    gen,       \* persistGeneration
    dgen,      \* docPersistGenerations: instance -> generation
    invalid,   \* collabInvalidations has the slug
    tearing,   \* teardowns under way
    clearing,  \* those of them that clear the Yjs history
    release,   \* the timer that ends the invalidation is set
    reload,    \* the timer of scheduleStaleOnStoreReload is set
    timer,     \* persistTimers: the instance and generation to persist
    flight,    \* persistInFlight
    runs,      \* persistDoc calls waiting for the projection refresh
    stores,    \* the same of persistOnStoreDocument (at most one an instance)
    pend,      \* persistPending
    debounced, \* the debouncer of Hocuspocus: the ticket epoch of the last change
    made,      \* edits made so far
    saved,     \* edits that have been in the history or the row
    lost,      \* edits the server discarded on purpose before they were saved
    unserved,  \* edits onChange ignored, or a persist refused or replaced
    unread     \* the history's edits that meta takes a document to have and it lacks

room  == <<live, loaded, meta, base, load, clients>>
fence == <<gen, dgen, invalid, tearing, clearing, release, reload>>
hocus == <<stores, debounced>>
queue == <<timer, flight, runs, pend, hocus>>
ghost == <<made, saved, lost, unserved, unread>>
vars  == <<db, mem, count, room, fence, queue, ghost>>

Instances == 1 .. MaxInst
Meta      == [ver : Nat, epoch : Nat]

\* row: the write is of the row too, not of the history only. late: what the
\* history has that this run was never compared with.
Job == [inst : Instances, gen : Nat \cup {None}, row : BOOLEAN]
Run == [inst : Instances, gen : Nat, awaited : BOOLEAN, row : BOOLEAN,
        late : SUBSET Edits]

\* Copy and None are values of their own.
ASSUME ValuesAssumption ==
    /\ Copy \notin Nat
    /\ None \notin Nat \cup {Copy} \cup Meta \cup Job
    /\ \A S \in SUBSET Edits : None # S

RowType ==
    db \in [content : SUBSET Edits, text : SUBSET Edits, ver : Nat, epoch : Nat,
           share : {"ACTIVE", "PAUSED", "REVOKED"}]

RoomType ==
    /\ mem \in [Instances \cup {Copy} -> SUBSET Edits]
    /\ count \in 0 .. MaxInst
    /\ live \in Instances \cup {None} /\ loaded \in Instances \cup {Copy, None}
    /\ meta \in Meta \cup {None} /\ (base = None \/ base \subseteq Edits)
    /\ load \in [content : SUBSET Edits, ver : Nat, epoch : Nat] \cup {None}
    /\ clients \subseteq Nat

FenceType ==
    /\ gen \in Nat /\ dgen \in [Instances -> Nat \cup {None}]
    /\ invalid \in BOOLEAN /\ release \in BOOLEAN /\ reload \in BOOLEAN
    /\ tearing \in Nat /\ clearing \in 0 .. tearing
    /\ release \/ tearing > 0 => invalid

QueueType ==
    /\ timer \in Job \cup {None} /\ pend \in Job \cup {None} /\ flight \in BOOLEAN
    /\ runs \subseteq Run
    /\ stores \subseteq Instances /\ debounced \in Nat \cup {None}

GhostType ==
    /\ made \subseteq Edits /\ saved \subseteq made /\ lost \subseteq made
    /\ unserved \subseteq made /\ unread \subseteq made

TypeOK == RowType /\ RoomType /\ FenceType /\ QueueType /\ GhostType

Init ==
    /\ db = [content |-> {}, text |-> {}, ver |-> 0, epoch |-> 0, share |-> "ACTIVE"]
    /\ mem = [i \in Instances \cup {Copy} |-> {}]
    /\ count = 0
    /\ live = None /\ loaded = None /\ meta = None /\ base = None
    /\ load = None
    /\ clients = {}
    /\ gen = 0 /\ dgen = [i \in Instances |-> None]
    /\ invalid = FALSE /\ tearing = 0 /\ clearing = 0
    /\ release = FALSE /\ reload = FALSE
    /\ timer = None /\ flight = FALSE /\ runs = {} /\ stores = {} /\ pend = None
    /\ debounced = None
    /\ made = {} /\ saved = {} /\ lost = {} /\ unserved = {} /\ unread = {}

-----------------------------------------------------------------------------
Unsaved(i) == IF i \in Instances THEN mem[i] \ saved ELSE {}
DbMeta == [ver |-> db.ver, epoch |-> db.epoch]
MetaIsCurrent == meta # None /\ meta = DbMeta

\* What these documents lack of a history that meta takes them to have.
Unseen(row, docs) == UNION {row.content \ mem[j] : j \in docs \ {None}}

\* What comes to the history now comes late to the runs that are waiting.
Later(waiting, added) == {[r EXCEPT !.late = @ \cup added] : r \in waiting}

\* evictLocalDocState.
EvictLocal == loaded' = None /\ meta' = None /\ base' = None

\* cancelPendingPersistWork with advanceGeneration: the runs under way are
\* not stopped, the generation they carry is no longer current.
CancelWork ==
    /\ gen' = gen + 1
    /\ timer' = None /\ flight' = FALSE /\ pend' = None

-----------------------------------------------------------------------------
(***************************************************************************)
(* Sessions: a client asks for a collab session, which evicts a resident   *)
(* document that is older than the row, and connects.                      *)
(***************************************************************************)

\* evictStaleLocalStateForAccessEpoch, ...ForPersistedVersion.
EvictStale ==
    /\ meta # None /\ ~MetaIsCurrent
    /\ CancelWork
    /\ EvictLocal
    /\ live' = None /\ clients' = {} /\ debounced' = None
    /\ lost' = lost \cup Unsaved(live) \cup Unsaved(loaded)
    /\ UNCHANGED <<db, mem, count, load, dgen, invalid, tearing, clearing, release,
                   reload, runs, stores, made, saved, unserved, unread>>

Join ==
    /\ live # None
    /\ meta = None \/ MetaIsCurrent
    /\ clients' = clients \cup {db.epoch}
    /\ UNCHANGED <<db, mem, count, live, loaded, meta, base, load, fence, queue,
                   ghost>>

\* Hocuspocus serves a new instance with this content; onChange or onStore
\* will stamp it with a generation.
Serve(m, content, epoch) ==
    /\ count' = count + 1
    /\ mem' = [m EXCEPT ![count'] = content]
    /\ live' = count' /\ clients' = {epoch}

\* onLoadDocument finds the document in loadedDocs. If its meta is missing, it
\* gets that of the database, whatever the document contains.
ServeLoaded ==
    /\ live = None /\ loaded # None /\ load = None
    /\ meta = None \/ MetaIsCurrent
    /\ count < MaxInst
    /\ Serve(mem, mem[loaded], db.epoch)
    /\ unread' = IF meta = None THEN unread \cup (db.content \ mem[loaded])
                 ELSE unread
    /\ meta' = DbMeta
    /\ UNCHANGED <<db, loaded, base, load, fence, queue, made, saved, lost,
                   unserved>>

\* onLoadDocument hydrates from the history, in two steps.
BeginLoad ==
    /\ live = None /\ loaded = None /\ load = None
    /\ count < MaxInst
    /\ load' = [content |-> db.content, ver |-> db.ver, epoch |-> db.epoch]
    /\ UNCHANGED <<db, mem, count, live, loaded, meta, base, clients, fence, queue,
                   ghost>>

\* The meta and the baseline are those of what it read.
EndLoad ==
    /\ load # None
    /\ Serve([mem EXCEPT ![Copy] = load.content], load.content, load.epoch)
    /\ loaded' = Copy
    /\ meta' = [ver |-> load.ver, epoch |-> load.epoch]
    /\ base' = load.content
    /\ load' = None
    /\ UNCHANGED <<db, fence, queue, ghost>>

-----------------------------------------------------------------------------
(***************************************************************************)
(* Changes.                                                                *)
(***************************************************************************)
\* The connections to a revoked document are read-only.
Change(e, epoch) ==
    /\ live # None /\ epoch \in clients
    /\ db.share # "REVOKED"
    /\ e \notin made
    /\ made' = made \cup {e}
    /\ mem' = [mem EXCEPT ![live] = @ \cup {e}]
    /\ debounced' = epoch

\* onChange, and the afterTransaction listener: remember the document and
\* restart the debounce timer with the current generation.
Edit(e) ==
    /\ Change(e, db.epoch)
    /\ ~invalid
    /\ loaded' = live
    /\ dgen' = [dgen EXCEPT ![live] = gen]
    /\ timer' = [inst |-> live, gen |-> gen, row |-> TRUE]
    /\ UNCHANGED <<db, count, live, meta, base, load, clients, gen, invalid, tearing,
                   clearing, release, reload, flight, runs, stores, pend, saved,
                   lost, unserved, unread>>

\* onChange with a ticket of an older epoch, or while the slug is in
\* collabInvalidations: nothing is scheduled.
EditIgnored(e) ==
    /\ \E epoch \in clients :
         /\ Change(e, epoch)
         /\ invalid \/ epoch # db.epoch
    /\ unserved' = unserved \cup {e}
    /\ UNCHANGED <<db, count, room, fence, timer, flight, runs, pend, stores, saved,
                   lost, unread>>

\* Another process, or a route that goes around the live document, writes the
\* history and the row. It may bump the access epoch.
ExternalWrite(e, bump) ==
    /\ e \notin made
    /\ db.share # "REVOKED"
    /\ made' = made \cup {e} /\ saved' = saved \cup {e}
    /\ db' = [db EXCEPT !.content = @ \cup {e}, !.text = @ \cup {e}, !.ver = @ + 1,
                        !.epoch = IF bump THEN @ + 1 ELSE @]
    /\ runs' = Later(runs, {e})
    /\ UNCHANGED <<mem, count, room, fence, timer, flight, hocus, pend, lost,
                   unserved, unread>>

\* updateMarks, updateDocumentAtomic: the row alone, the history has nothing of it.
RowWrite(e) ==
    /\ e \notin made
    /\ db.share # "REVOKED"
    /\ made' = made \cup {e} /\ saved' = saved \cup {e}
    /\ db' = [db EXCEPT !.text = @ \cup {e}, !.ver = @ + 1]
    /\ UNCHANGED <<mem, count, room, fence, queue, lost, unserved, unread>>

-----------------------------------------------------------------------------
(***************************************************************************)
(* persistDoc(i, expected) in the state its caller leaves: t is the timer, *)
(* m the meta. row is FALSE for a request that is not of source 'collab':  *)
(* it writes the history, and is looked at less. awaited says that a store *)
(* of Hocuspocus waits for it.                                             *)
(***************************************************************************)

\* Mutant of Queue: the request is dropped.
Queue_Forgets(i, expected, row, t, m) ==
    /\ flight
    /\ timer' = t /\ meta' = m
    /\ UNCHANGED <<mem, loaded, base, gen, dgen, invalid, reload, flight, runs, pend,
                   lost, unserved>>

\* A run is under way: remember the last request, in the place of one that
\* another instance may have made.
Queue(i, expected, row, t, m) ==
    /\ flight
    /\ pend' = [inst |-> i, gen |-> expected, row |-> row]
    /\ unserved' = IF pend = None \/ pend.inst = i THEN unserved
                   ELSE unserved \cup Unsaved(pend.inst)
    /\ timer' = t /\ meta' = m
    /\ UNCHANGED <<mem, loaded, base, gen, dgen, invalid, reload, flight, runs, lost>>

\* The document is revoked.
Refuse(i, t) ==
    /\ ~flight
    /\ db.share = "REVOKED"
    /\ EvictLocal
    /\ pend' = None /\ timer' = t
    /\ unserved' = unserved \cup Unsaved(i)
    /\ UNCHANGED <<mem, gen, dgen, invalid, reload, flight, runs, lost>>

EpochMoved(m) == m # None /\ m.epoch # db.epoch

\* What makes the write a stale one.
Stale(i, expected, row, m) ==
    \/ invalid
    \/ expected # None /\ expected # gen
    \/ row /\ \/ dgen[i] \notin {None, gen}
              \/ loaded # None /\ loaded # i
              \/ EpochMoved(m)

Drop(i, expected, row, t, m) ==
    /\ ~flight
    /\ db.share # "REVOKED"
    /\ Stale(i, expected, row, m)
    /\ pend' = None /\ timer' = t /\ meta' = m
    /\ unserved' = IF row /\ EpochMoved(m) THEN unserved \cup Unsaved(i) ELSE unserved
    /\ UNCHANGED <<mem, loaded, base, gen, dgen, invalid, reload, flight, runs, lost>>

\* Mutant of Conflict: the version is not compared.
Conflict_NoVersion(i, m) == m = None /\ ~(db.content \subseteq mem[i])

\* resolveOnStoreConflict: somebody else wrote since the meta was read, and the
\* history has something the document lacks. (Whether the conflict also counts
\* when it lacks nothing depends on the size of an empty Yjs update: both
\* outcomes are allowed.)
Conflict(i, m) == m # DbMeta /\ (EpochMoved(m) \/ ~(db.content \subseteq mem[i]))
MayConflict(m) == m # DbMeta

\* canonical_marks_ahead: the marks of the row are neither empty nor those of
\* the history, and the document differs from the row. (Which edits are marks
\* is left open.)
RowAhead(i, m) ==
    /\ m # None /\ ~EpochMoved(m)
    /\ db.text \notin {{}, db.content, mem[i]}

\* The history wins: applyPersistedStateToLoadedDoc and scheduleStaleOnStoreReload.
YieldToRow(i) ==
    /\ CancelWork
    /\ loaded' = IF live = None THEN Copy ELSE live
    /\ mem' = IF live = None THEN [mem EXCEPT ![Copy] = db.content] ELSE mem
    /\ dgen' = IF live = None THEN dgen ELSE [dgen EXCEPT ![live] = gen]
    /\ meta' = DbMeta /\ base' = db.content
    /\ invalid' = TRUE /\ reload' = TRUE
    /\ lost' = lost \cup Unsaved(i) \cup Unsaved(loaded)
    /\ UNCHANGED <<runs, unserved>>

Yield(i, expected, row, m) ==
    /\ ~flight /\ row
    /\ db.share # "REVOKED"
    /\ ~Stale(i, expected, row, m)
    /\ MayConflict(m)
    /\ YieldToRow(i)

\* The refresh of the projection starts; the document is written after it.
\* persistDoc looks for 'reload' only: where the row's marks are ahead it goes on.
Start(i, expected, row, t, m, awaited) ==
    /\ ~flight
    /\ db.share # "REVOKED"
    /\ ~Stale(i, expected, row, m)
    /\ row => ~Conflict(i, m) \/ RowAhead(i, m)
    /\ flight' = TRUE
    /\ runs' = runs \cup
           {[inst |-> i, gen |-> gen, awaited |-> awaited, row |-> row,
             late |-> IF row /\ ~Conflict(i, m) THEN {} ELSE db.content \ mem[i]]}
    /\ meta' = IF row /\ m = None THEN DbMeta ELSE m
    /\ pend' = None /\ timer' = t
    /\ UNCHANGED <<mem, loaded, base, gen, dgen, invalid, reload, lost, unserved>>

PersistDoc(i, expected, row, t, m, awaited) ==
    \/ Queue(i, expected, row, t, m)
    \/ Refuse(i, t)
    \/ Drop(i, expected, row, t, m)
    \/ Yield(i, expected, row, m)
    \/ Start(i, expected, row, t, m, awaited)

TimerFires ==
    /\ timer # None
    /\ PersistDoc(timer.inst, timer.gen, timer.row, None, meta, FALSE)
    /\ UNCHANGED <<db, count, live, load, clients, tearing, clearing, release, hocus,
                   made, saved, unread>>

\* The pending re-run starts in the finally block of the run before it.
RunPending ==
    /\ ~flight /\ pend # None
    /\ PersistDoc(pend.inst, pend.gen, pend.row, timer, meta, FALSE)
    /\ UNCHANGED <<db, count, live, load, clients, tearing, clearing, release, hocus,
                   made, saved, unread>>

-----------------------------------------------------------------------------
(***************************************************************************)
(* onStoreDocument, which Hocuspocus calls. cl is the clients that remain. *)
(***************************************************************************)
OnStore(cl) ==
    /\ clients' = cl
    /\ debounced' = None
    /\ IF invalid
       THEN /\ timer' = None /\ EvictLocal
            /\ unserved' = unserved \cup Unsaved(live)
            /\ UNCHANGED <<dgen, stores>>
       ELSE IF dgen[live] \in {None, gen}
       THEN /\ loaded' = live
            /\ dgen' = [dgen EXCEPT ![live] = gen]
            /\ stores' = stores \cup {live}
            /\ UNCHANGED <<timer, meta, base, unserved>>
       ELSE UNCHANGED <<timer, loaded, meta, base, dgen, stores, unserved>>
    /\ UNCHANGED <<db, mem, count, live, load, gen, invalid, tearing, clearing,
                   release, reload, flight, runs, pend, made, saved, lost, unread>>

\* The store of a client whose ticket is of an older epoch does nothing.
StoreIgnored(cl) ==
    /\ clients' = cl
    /\ debounced' = None
    /\ unserved' = unserved \cup Unsaved(live)
    /\ UNCHANGED <<db, mem, count, live, loaded, meta, base, load, fence, timer,
                   flight, runs, stores, pend, made, saved, lost, unread>>

\* Hocuspocus calls it some time after a change.
Store ==
    /\ live # None /\ debounced # None
    /\ IF debounced = db.epoch THEN OnStore(clients) ELSE StoreIgnored(clients)

\* The last client leaves: Hocuspocus stores the document at once.
Leave ==
    /\ live # None /\ clients # {}
    /\ IF db.epoch \in clients THEN OnStore({}) ELSE StoreIgnored({})

\* The reload of a store also takes the row to the history, if that is safe.
RowFollows ==
    \/ UNCHANGED db
    \/ /\ db.share # "REVOKED" /\ db.text # db.content
       /\ db' = [db EXCEPT !.text = db.content, !.ver = @ + 1]

\* applyCanonicalDocumentToCollab: the live document is replaced by the row's;
\* once the timer is cleared persistDoc is called, for the history.
Reconcile ==
    /\ live # None /\ ~invalid
    /\ mem' = [mem EXCEPT ![live] = db.text]
    /\ dgen' = [dgen EXCEPT ![live] = gen]
    /\ timer' = None
    /\ unserved' = unserved \cup Unsaved(live) \cup
           UNION {mem[job.inst] \ saved : job \in {timer, pend} \ {None}}
    /\ unread' = unread \cup (db.content \ db.text)
    /\ IF ~flight /\ db.share = "REVOKED"
       THEN EvictLocal ELSE loaded' = live /\ meta' = DbMeta /\ UNCHANGED base
    /\ pend' = IF flight THEN [inst |-> live, gen |-> None, row |-> FALSE] ELSE None
    /\ IF flight \/ db.share = "REVOKED"
       THEN UNCHANGED <<flight, runs>>
       ELSE /\ flight' = TRUE
            /\ runs' = runs \cup {[inst |-> live, gen |-> gen, awaited |-> TRUE,
                                   row |-> FALSE, late |-> db.content \ db.text]}
    /\ UNCHANGED <<gen, invalid, reload, lost>>

\* It could not be applied: scheduleStaleOnStoreReload alone. (So it is too,
\* in the model, when no document is served or the slug is invalidated.)
GiveUp(i) ==
    /\ CancelWork
    /\ invalid' = TRUE /\ reload' = TRUE
    /\ lost' = lost \cup Unsaved(i) \cup Unsaved(loaded)
    /\ UNCHANGED <<mem, loaded, meta, base, dgen, runs, unserved, unread>>

\* persistOnStoreDocument after its refresh: the conflict is looked at before
\* anything that could make the write stale is.
FinishStore(i) ==
    /\ i \in stores
    /\ stores' = stores \ {i} /\ UNCHANGED debounced
    /\ \/ MayConflict(meta) /\ YieldToRow(i) /\ RowFollows /\ UNCHANGED unread
       \/ RowAhead(i, meta) /\ (Reconcile \/ GiveUp(i)) /\ UNCHANGED db
       \/ /\ ~Conflict(i, meta)
          /\ PersistDoc(i, None, TRUE, timer, IF meta = None THEN DbMeta ELSE meta, TRUE)
          /\ unread' = IF meta = None /\ meta' # None
                       THEN unread \cup Unseen(db, {live, loaded}) ELSE unread
          /\ UNCHANGED db
    /\ UNCHANGED <<count, live, load, clients, tearing, clearing, release, made, saved>>

\* Hocuspocus unloads a document nobody is connected to when its store is
\* done; loadedDocs keeps it.
Unloading ==
    /\ live # None /\ clients = {}
    /\ live \notin stores
    /\ \A r \in runs : r.inst = live => ~r.awaited

Unload ==
    /\ Unloading
    /\ live' = None
    /\ UNCHANGED <<db, mem, count, loaded, meta, base, load, clients, fence, queue,
                   ghost>>

-----------------------------------------------------------------------------
(***************************************************************************)
(* persistDoc after the refresh. The finally block clears persistInFlight  *)
(* whoever set it.                                                         *)
(***************************************************************************)
EndRun(r) == r \in runs /\ flight' = FALSE

\* What the transaction does: the history becomes the document's content, but
\* stays as it is if that is the baseline's (or the document itself was taken
\* for the baseline, refreshLoadedDocDbMeta); the row becomes that content and
\* those marks of its own that are kept (mergePreservedActionMarks).
Written(r) ==
    /\ \E keep \in BOOLEAN, kept \in SUBSET (db.text \ mem[r.inst]) :
         LET history == IF keep THEN db.content ELSE mem[r.inst]
             text    == IF r.row THEN mem[r.inst] \cup kept ELSE db.text
         IN  /\ base # None => keep = (base = mem[r.inst])
             /\ keep => base # None \/ r.row
             /\ db' = IF history = db.content /\ text = db.text THEN db
                      ELSE [db EXCEPT !.content = history, !.text = text, !.ver = @ + 1]
    /\ base' = mem[r.inst]
    /\ meta' = [ver |-> db'.ver, epoch |-> db'.epoch]
    /\ saved' = saved \cup db'.content \cup db'.text
    /\ runs' = Later(runs \ {r}, db'.content \ db.content)
    /\ unread' = unread \cup Unseen(db', {live, loaded, r.inst})

\* Mutant of Commit: the generation is not compared again.
Commit_NoFence(r) ==
    /\ EndRun(r)
    /\ Written(r)
    /\ UNCHANGED <<mem, count, live, loaded, load, clients, fence, timer, hocus,
                   pend, made, lost, unserved>>

\* The transaction writes the document as it is now, unless the generation has
\* moved on or the slug is invalidated.
Commit(r) ==
    /\ EndRun(r)
    /\ IF r.gen # gen \/ invalid
       THEN runs' = runs \ {r} /\ UNCHANGED <<db, base, meta, saved, unread>>
       ELSE Written(r)
    /\ UNCHANGED <<mem, count, live, loaded, load, clients, fence, timer, hocus,
                   pend, made, lost, unserved>>

\* The transaction throws: the debounce timer starts again, for r.inst. If
\* loadedDocs has a newer instance by now that write will be refused as
\* superseded, and a timer or a pending run of the newer one is gone.
CommitFails(r) ==
    /\ EndRun(r) /\ runs' = runs \ {r}
    /\ r.gen = gen /\ ~invalid
    /\ timer' = [inst |-> r.inst, gen |-> gen, row |-> TRUE]
    /\ unserved' = IF loaded \in {None, r.inst} THEN unserved
                   ELSE unserved \cup Unsaved(loaded) \cup Unsaved(r.inst)
    /\ UNCHANGED <<db, mem, count, room, fence, hocus, pend, made, saved, lost,
                   unread>>

-----------------------------------------------------------------------------
(***************************************************************************)
(* invalidateCollabDocumentInner.                                          *)
(***************************************************************************)

\* clearYjsState: the next read seeds the history from the row.
Cleared(d) == [d EXCEPT !.content = d.text, !.ver = @ + 1]

\* Up to the first await: fence, evict, clear the history if asked to, close
\* the connections. d is the database as the caller leaves it.
BeginInvalidate(clears, d) ==
    /\ CancelWork
    /\ EvictLocal
    /\ invalid' = TRUE /\ release' = FALSE
    /\ tearing' = tearing + 1
    /\ clearing' = IF clears THEN clearing + 1 ELSE clearing
    /\ db' = IF clears THEN Cleared(d) ELSE d
    /\ clients' = {}
    /\ lost' = lost \cup Unsaved(live) \cup Unsaved(loaded)
    /\ UNCHANGED <<mem, count, live, load, dgen, made, saved, unserved, unread>>

\* A quarantine, a failed verification, a rewrite: any caller.
Invalidate(clears) ==
    /\ gen < MaxGen
    /\ BeginInvalidate(clears, db)
    /\ UNCHANGED <<reload, runs, hocus>>

\* The refresh of a run finds that the text would collapse: the run ends
\* there, before the block whose finally clears persistInFlight; the
\* invalidation clears it.
BlockCollapse(r) ==
    /\ r \in runs
    /\ gen < MaxGen
    /\ BeginInvalidate(FALSE, db)
    /\ runs' = runs \ {r}
    /\ UNCHANGED <<reload, hocus>>

\* The same of the refresh of a store.
StoreCollapse(i) ==
    /\ i \in stores
    /\ gen < MaxGen
    /\ BeginInvalidate(FALSE, db)
    /\ stores' = stores \ {i}
    /\ UNCHANGED <<reload, runs, debounced>>

\* The timer of scheduleStaleOnStoreReload.
ReloadFires ==
    /\ reload
    /\ BeginInvalidate(FALSE, db)
    /\ reload' = FALSE
    /\ UNCHANGED <<runs, hocus>>

\* Pause, revoke, resume (routes.ts): the epoch moves; the first two
\* invalidate in the same handler.
Close(share) ==
    /\ gen < MaxGen
    /\ share \in {"PAUSED", "REVOKED"} \ {db.share}
    /\ BeginInvalidate(TRUE, [db EXCEPT !.share = share, !.ver = @ + 1, !.epoch = @ + 1])
    /\ UNCHANGED <<reload, runs, hocus>>

Resume ==
    /\ db.share # "ACTIVE"
    /\ db' = [db EXCEPT !.share = "ACTIVE", !.ver = @ + 1]
    /\ UNCHANGED <<mem, count, room, fence, queue, ghost>>

\* Somebody read the document since, so there is a history again.
SeededSince == load # None \/ meta # None \/ db.content # db.text

\* After the awaits: Hocuspocus has unloaded whatever document it serves, the
\* history is cleared again if it was at the begin, the release timer is set.
EndInvalidate ==
    /\ tearing > 0
    /\ tearing' = tearing - 1
    /\ live' = None /\ clients' = {} /\ debounced' = None
    /\ lost' = lost \cup (Unsaved(live) \ IF loaded = None THEN {} ELSE mem[loaded])
    /\ release' = TRUE
    /\ \/ clearing < tearing /\ UNCHANGED <<clearing, db>>
       \/ /\ clearing > 0 /\ clearing' = clearing - 1
          /\ db' = IF SeededSince THEN Cleared(db) ELSE db
    /\ UNCHANGED <<mem, count, loaded, meta, base, load, gen, dgen, invalid,
                   reload, timer, flight, runs, pend, stores, made, saved, unserved,
                   unread>>

\* Mutant of Release: the timer stays registered.
Release_KeepsTimer ==
    /\ release /\ ~reload
    /\ invalid' = FALSE
    /\ UNCHANGED <<db, mem, count, room, gen, dgen, tearing, clearing, release, reload,
                   queue, ghost>>

\* The cooldown of a second is over. The reload timer, of 0 ms, comes first.
Release ==
    /\ release /\ ~reload
    /\ release' = FALSE /\ invalid' = FALSE
    /\ UNCHANGED <<db, mem, count, room, gen, dgen, tearing, clearing, reload, queue,
                   ghost>>

-----------------------------------------------------------------------------
\* Timers and client messages are events of their own. A teardown waits for
\* promises only, so none of these comes between its steps.
Event ==
    \/ TimerFires \/ ReloadFires \/ Release
    \/ Store \/ Leave
    \/ \E e \in Edits : Edit(e) \/ EditIgnored(e)

\* What a handler or a promise does may.
Continuation ==
    \/ EvictStale \/ Join \/ ServeLoaded \/ BeginLoad \/ EndLoad
    \/ \E e \in Edits : RowWrite(e) \/ \E bump \in BOOLEAN : ExternalWrite(e, bump)
    \/ \E i \in stores : FinishStore(i) \/ StoreCollapse(i)
    \/ \E r \in runs : Commit(r) \/ CommitFails(r) \/ BlockCollapse(r)
    \/ \E clears \in BOOLEAN : Invalidate(clears)
    \/ EndInvalidate
    \/ \E share \in {"PAUSED", "REVOKED"} : Close(share)
    \/ Resume

\* Nothing comes between the end of a run and the pending one, nor between
\* the end of the last store and the unload.
Urgent == (~flight /\ pend # None) \/ Unloading

Next ==
    \/ RunPending
    \/ Unload
    \/ ~Urgent /\ (Continuation \/ (tearing = 0 /\ Event))

Spec == Init /\ [][Next]_vars

\* Timers fire, promises settle; nobody has to edit, join or leave.
Alone(A) == ~Urgent /\ tearing = 0 /\ A

Fairness ==
    /\ WF_vars(RunPending) /\ WF_vars(Unload)
    /\ WF_vars(~Urgent /\ \E i \in stores : FinishStore(i))
    /\ SF_vars(~Urgent /\ \E r \in runs : Commit(r))
    /\ WF_vars(~Urgent /\ EndInvalidate)
    /\ WF_vars(Alone(TimerFires))
    /\ WF_vars(Alone(Store))
    /\ WF_vars(Alone(ReloadFires))
    /\ WF_vars(Alone(Release))

FairSpec == Spec /\ Fairness

-----------------------------------------------------------------------------
(***************************************************************************)
(* Properties.                                                             *)
(***************************************************************************)

\* The history loses content only to a run that writes its instance, and only
\* what that run was never compared with (r.late) or what meta took a document
\* to have, or when an invalidation clears it. What the history has leaves the
\* row in no other way (resolveOnStoreConflict, the loaded meta, the eviction
\* of documents that are older than the database). Nothing is said of what the
\* row alone has: any persist takes it away, for the check compares histories.
MayDrop(r, gone) == r.gen = gen /\ gone \subseteq r.late \cup unread

SavedSurvivesPersist ==
    [][/\ \/ db.content \subseteq db'.content
          \/ \E r \in runs : /\ db'.content = mem[r.inst]
                             /\ MayDrop(r, db.content \ db'.content)
          \/ invalid' /\ db'.content = db.text
       /\ \/ db.content \cap db.text \subseteq db'.text
          \/ \E r \in runs : MayDrop(r, (db.content \cap db.text) \ db'.text)]_vars

\* An edit the server discarded -- its document was invalidated, refused or
\* superseded -- does not come back to the history or the row (the generation
\* fence).
DiscardedStaysDiscarded == lost \cap (db.content \cup db.text) = {}

\* Every edit of the live document that was neither saved nor discarded
\* has a write on its way, except one that came while onChange ignored the
\* slug (schedulePersistDoc, persistPending and the finally of persistDoc).
OnTheWay(i) ==
    \/ timer # None /\ timer.inst = i
    \/ pend # None /\ pend.inst = i
    \/ \E r \in runs : r.inst = i /\ r.gen = gen
    \/ i \in stores
    \/ i = live /\ debounced # None

UnsavedIsOnTheWay ==
    live # None /\ ~invalid =>
        \A e \in Unsaved(live) \ (lost \cup unserved) :
            \E i \in Instances : e \in mem[i] /\ OnTheWay(i)

\* Every edit is saved, unless the server discarded it or did nothing
\* about it (the debounce timer, the pending run, the reload after a conflict).
EveryEditSettles ==
    \A e \in Edits : e \in made ~> e \in saved \cup lost \cup unserved

=============================================================================
