--------------------------- MODULE CanonicalMutation ---------------------------
(***************************************************************************)
(* mutateCanonicalDocument of src/server/canonical-document.ts and its      *)
(* callers: an operation replaces the document it read by a new text, in   *)
(* the live document and in the row, while clients edit the live document, *)
(* join and leave, and other mutations run.                                *)
(*                                                                         *)
(* Content is a set: a mutation stands for the one thing it adds, and      *)
(* removes everything its base did not contain. A handler runs from await  *)
(* to await. How the live document reaches the row is CollabPersistence;   *)
(* here a persist is one step, with the checks it makes.                   *)
(***************************************************************************)
EXTENDS Naturals, FiniteSets

CONSTANTS
    Mutations,  \* calls
    Edits,      \* changes by clients
    Kind,       \* mutation -> its caller, see below
    MaxInst,    \* bound: Y.Doc instances served
    MaxCalls,   \* bound: how many of the calls are made
    Copy, None

\* token, updatedAt: an edit of an agent with that base, through the queue of
\* the mutation coordinator.
\* accept: a suggestion accepted by the document engine, with a base revision.
\* rewrite: PUT of a whole text, behind the rewrite barrier.
ASSUME KindAssumption ==
    Kind \in [Mutations -> {"token", "updatedAt", "accept", "rewrite"}]
ASSUME ItemAssumption == Mutations \cap Edits = {}
ASSUME CopyAssumption == Copy # None
ASSUME InstAssumption == MaxInst \in Nat \ {0}
ASSUME CallsAssumption == MaxCalls \in Nat

VARIABLES
    row,      \* content, revision, updated_at (stamp), access_epoch
    mem,      \* instance, Copy -> content
    count,    \* instances served so far
    live,     \* the document Hocuspocus serves
    loaded,   \* loadedDocs
    meta,     \* loadedDocDbMeta: stamp and epoch
    tickets,  \* access epochs of the connected clients
    held,     \* mutations with a direct connection to the live document
    dirty,    \* instances whose persist is scheduled
    debounced,\* epoch of the change whose store Hocuspocus owes, or None
    invalid,  \* collabInvalidations
    closing,  \* an invalidation waits for Hocuspocus to unload
    locked,   \* rewriteLockSlugs
    pc,       \* mutation -> where its handler is
    arg,      \* mutation -> what it has read and decided
    answer,   \* mutation -> None or what the caller is told
    made,     \* edits made so far
    lost,     \* edits the server discarded with the live document
    taken,    \* edits a mutation has read
    astray    \* committed to the row past a live document that lacks it

room  == <<mem, count, live, loaded, meta, tickets, held, dirty, debounced>>
fence == <<invalid, closing, locked>>
call  == <<pc, arg, answer>>
ghost == <<made, lost, taken, astray>>
vars  == <<row, room, fence, call, ghost>>

Instances == 1 .. MaxInst
Item      == Mutations \cup Edits
Places    == {"idle", "read", "barred", "begun", "resolved", "loaded",
              "applied", "done"}
Answers   == {"ok", "stale", "unavailable", "failed", "unconfirmed"}
Base      == [content : SUBSET Item, epoch : Nat]
Arg       == [read : Base,        \* what the caller read
              stamp : Nat,        \* the same, of updated_at
              rev : Nat,          \* doc.revision
              need : BOOLEAN,     \* liveRequired
              bump : BOOLEAN,     \* shouldBumpAccessEpoch
              seen : Base,        \* currentMutationBase
              handle : Instances \cup {Copy, None}]

ASSUME AnswerAssumption == None \notin Answers

\* And whoever writes the row, a mutation, its epilogue, a rewrite or a persist,
\* leaves the metadata at the new version or takes it away: a live document is
\* never compared with a version it does not have.
TypeOK ==
    /\ row \in [content : SUBSET Item, rev : Nat, stamp : Nat, epoch : Nat]
    /\ mem \in [Instances \cup {Copy} -> SUBSET Item]
    /\ count \in 0 .. MaxInst
    /\ live \in Instances \cup {None}
    /\ loaded \in Instances \cup {Copy, None}
    /\ meta \in {None, [stamp |-> row.stamp, epoch |-> row.epoch]}
    /\ tickets \subseteq Nat /\ held \subseteq Mutations
    /\ dirty \subseteq Instances /\ debounced \in Nat \cup {None}
    /\ {invalid, closing, locked} \subseteq BOOLEAN /\ (closing => invalid)
    /\ pc \in [Mutations -> Places]
    /\ arg \in [Mutations -> Arg]
    /\ answer \in [Mutations -> Answers \cup {None}]
    /\ made \subseteq Edits /\ lost \cup taken \subseteq made /\ astray \subseteq Item

Init ==
    /\ row = [content |-> {}, rev |-> 0, stamp |-> 0, epoch |-> 0]
    /\ mem = [i \in Instances \cup {Copy} |-> {}]
    /\ count = 0
    /\ live = None /\ loaded = None /\ meta = None
    /\ tickets = {} /\ held = {} /\ dirty = {} /\ debounced = None
    /\ invalid = FALSE /\ closing = FALSE /\ locked = FALSE
    /\ pc = [m \in Mutations |-> "idle"]
    /\ LET nothing == [content |-> {}, epoch |-> 0]
       IN  arg = [m \in Mutations |-> [read |-> nothing, stamp |-> 0, rev |-> 0, need |-> FALSE,
                                       bump |-> FALSE, seen |-> nothing, handle |-> None]]
    /\ answer = [m \in Mutations |-> None]
    /\ made = {} /\ lost = {} /\ taken = {} /\ astray = {}

-----------------------------------------------------------------------------
\* Messages, requests and timers do not come between the steps of a teardown,
\* which waits for promises only.
Event == ~closing

RowMeta == [stamp |-> row.stamp, epoch |-> row.epoch]

Unsaved(i) == IF i = None THEN {} ELSE (mem[i] \cap Edits) \ row.content

\* What a reader takes the document to be: resolveAuthoritativeMutationBase.
Authoritative ==
    IF live # None THEN mem[live]
    ELSE IF loaded # None THEN mem[loaded]
    ELSE row.content

AuthoritativeBase == [content |-> Authoritative, epoch |-> row.epoch]

\* The synchronous part of invalidateCollabDocumentInner.
BeginInvalidate ==
    /\ loaded' = None /\ meta' = None /\ dirty' = {} /\ tickets' = {}
    /\ invalid' = TRUE /\ closing' = TRUE
    /\ lost' = lost \cup Unsaved(live) \cup Unsaved(loaded)

-----------------------------------------------------------------------------
(***************************************************************************)
(* The live document and its clients.                                      *)
(***************************************************************************)

\* onLoadDocument: Hocuspocus serves an instance of its own, made from the
\* document in loadedDocs or, if there is none, from the row. Metadata that is
\* missing is taken from the row.
Open ==
    /\ live = None /\ count < MaxInst
    /\ count' = count + 1 /\ live' = count'
    /\ meta' = IF loaded = None \/ meta = None THEN RowMeta ELSE meta
    /\ IF loaded = None
       THEN /\ loaded' = Copy
            /\ mem' = [mem EXCEPT ![Copy] = row.content, ![count'] = row.content]
       ELSE /\ mem' = [mem EXCEPT ![count'] = mem[loaded]]
            /\ UNCHANGED loaded
    /\ UNCHANGED dirty

JoinFirst ==
    /\ Event /\ Open
    /\ tickets' = {row.epoch}
    /\ UNCHANGED <<row, held, debounced, fence, call, ghost>>

Join ==
    /\ Event
    /\ live # None
    /\ tickets' = tickets \cup {row.epoch}
    /\ UNCHANGED <<row, mem, count, live, loaded, meta, held, dirty, debounced, fence, call,
                   ghost>>

\* Mutant of Saved: the lock does not count.
Saved_Unlocked(epoch) == epoch = row.epoch /\ ~invalid

\* What onChange and onStoreDocument save: not a change with a ticket of another
\* epoch, nor one during an invalidation or under the rewrite lock.
Saved(epoch) == epoch = row.epoch /\ ~invalid /\ ~locked

Schedule == loaded' = live /\ dirty' = dirty \cup {live}

\* onChange. Any change stays in the live document, and Hocuspocus will store it.
Edit(e, epoch) ==
    /\ Event
    /\ live # None /\ epoch \in tickets /\ e \notin made
    /\ made' = made \cup {e}
    /\ mem' = [mem EXCEPT ![live] = @ \cup {e}]
    /\ debounced' = epoch
    /\ IF Saved(epoch) THEN Schedule ELSE UNCHANGED <<loaded, dirty>>
    /\ UNCHANGED <<row, count, live, meta, tickets, held, fence, call, lost, taken, astray>>

\* onStoreDocument, some time after the last change.
Store ==
    /\ Event
    /\ live # None /\ debounced # None
    /\ debounced' = None
    /\ \/ Saved(debounced) /\ Schedule /\ UNCHANGED <<meta, lost>>
       \/ /\ ~Saved(debounced)
          /\ \/ /\ invalid /\ debounced = row.epoch /\ ~locked
                /\ loaded' = None /\ meta' = None /\ dirty' = {}
                /\ lost' = lost \cup (Unsaved(loaded) \ mem[live])
             \/ /\ ~invalid \/ debounced # row.epoch \/ locked
                /\ UNCHANGED <<loaded, meta, dirty, lost>>
    /\ UNCHANGED <<row, mem, count, live, tickets, held, fence, call, made, taken, astray>>

\* The last client leaves, or the server's last direct connection is closed:
\* the document is unloaded, loadedDocs keeps it.
Leave ==
    /\ Event
    /\ live # None /\ held = {} /\ debounced = None
    /\ tickets' = {} /\ live' = None
    /\ UNCHANGED <<row, mem, count, loaded, meta, held, dirty, debounced, fence, call, ghost>>

\* persistDoc of instance i.
Droppable(i) ==
    \/ invalid
    \/ loaded \notin {i, None}

WriteBack(i) ==
    /\ row' = IF mem[i] = row.content THEN row
              ELSE [row EXCEPT !.content = mem[i], !.rev = @ + 1, !.stamp = @ + 1]
    /\ meta' = [stamp |-> row'.stamp, epoch |-> row'.epoch]

Persist(i) ==
    /\ Event /\ i \in dirty
    /\ \/ /\ Droppable(i)
          /\ dirty' = dirty \ {i}
          /\ UNCHANGED <<row, loaded, meta, tickets, invalid, closing, lost>>
       \/ /\ ~Droppable(i)
          /\ meta # RowMeta
          /\ BeginInvalidate
          /\ UNCHANGED row
       \/ /\ ~Droppable(i)
          /\ meta = RowMeta \/ row.content \subseteq mem[i]
          /\ WriteBack(i)
          /\ dirty' = dirty \ {i}
          /\ UNCHANGED <<loaded, tickets, invalid, closing, lost>>
    /\ UNCHANGED <<mem, count, live, held, debounced, locked, call, made, taken, astray>>

EndInvalidate ==
    /\ closing
    /\ closing' = FALSE
    /\ live' = None /\ tickets' = {} /\ held' = {} /\ debounced' = None
    /\ lost' = lost \cup Unsaved(live)
    /\ UNCHANGED <<row, mem, count, loaded, meta, dirty, invalid, locked, call,
                   made, taken, astray>>

\* The cooldown is over.
Release ==
    /\ Event /\ invalid
    /\ invalid' = FALSE
    /\ UNCHANGED <<row, room, closing, locked, call, ghost>>

\* The timer of acquireRewriteLock; releaseRewriteLock leaves it running.
LockExpires ==
    /\ Event /\ locked
    /\ locked' = FALSE
    /\ UNCHANGED <<row, room, invalid, closing, call, ghost>>

-----------------------------------------------------------------------------
(***************************************************************************)
(* A mutation.                                                             *)
(***************************************************************************)
Goto(m, place) == pc' = [pc EXCEPT ![m] = place]

Finish(m, a) ==
    /\ Goto(m, "done")
    /\ answer' = [answer EXCEPT ![m] = a]
    /\ held' = held \ {m}

\* The handler leaves nothing but its answer.
Refuse(m, a) ==
    /\ Finish(m, a)
    /\ UNCHANGED <<row, mem, count, live, loaded, meta, tickets, dirty, debounced, fence, arg,
                   ghost>>

\* The caller reads the document it is going to change.
Read(m) ==
    /\ Event /\ pc[m] = "idle"
    /\ Cardinality({n \in Mutations : pc[n] # "idle"}) < MaxCalls
    /\ Goto(m, "read")
    /\ arg' = [arg EXCEPT ![m].read = AuthoritativeBase, ![m].rev = row.rev,
                          ![m].stamp = row.stamp]
    /\ taken' = taken \cup (Authoritative \cap Edits)
    /\ UNCHANGED <<row, room, fence, answer, made, lost, astray>>

\* prepareRewriteCollabBarrier: lock, raise the epoch, invalidate.
Barrier(m) ==
    /\ pc[m] = "read" /\ Kind[m] = "rewrite"
    /\ Goto(m, "barred")
    /\ locked' = TRUE
    /\ row' = [row EXCEPT !.epoch = @ + 1, !.stamp = @ + 1]
    /\ BeginInvalidate
    /\ UNCHANGED <<mem, count, live, held, debounced, arg, answer, made, taken, astray>>

\* The wait for the invalidation times out.
BarrierFails(m) ==
    /\ pc[m] = "barred" /\ closing
    /\ Finish(m, "unavailable")
    /\ BeginInvalidate
    /\ UNCHANGED <<row, mem, count, live, debounced, locked, arg, made, taken, astray>>

Strict(m) == Kind[m] # "rewrite"

\* withSlugQueue.
Queued(m) == Kind[m] \in {"token", "updatedAt"}
MyTurn(m) ==
    Queued(m) => \A n \in Mutations \ {m} :
                     Queued(n) => pc[n] \in {"idle", "read", "done"}

\* baseRevision, baseUpdatedAt.
SameRow(m) ==
    /\ Kind[m] = "accept" => row.rev = arg[m].rev
    /\ Kind[m] = "updatedAt" => row.stamp = arg[m].stamp

\* mutateCanonicalDocument up to its first await: the row is read, and the
\* number of clients decides whether the live document is required and the
\* epoch will be raised. Without a client, a recent session may still count.
Begin(m) ==
    /\ IF Kind[m] = "rewrite" THEN pc[m] = "barred" /\ ~closing ELSE pc[m] = "read"
    /\ MyTurn(m)
    /\ SameRow(m)
    /\ Goto(m, "begun")
    /\ \E counted \in BOOLEAN :
         /\ row.epoch \in tickets => counted
         /\ arg' = [arg EXCEPT ![m].rev = row.rev,
                               ![m].need = Strict(m) /\ counted,
                               ![m].bump = Strict(m) /\ ~counted]
    /\ UNCHANGED <<row, room, fence, answer, ghost>>

BeginStale(m) ==
    /\ pc[m] = "read" /\ MyTurn(m)
    /\ ~SameRow(m)
    /\ Refuse(m, "stale")

\* A live document is required and there is none: a direct connection loads it.
OpenDirect(m) ==
    /\ pc[m] \in {"begun", "resolved", "loaded"} /\ arg[m].need
    /\ Open
    /\ held' = held \cup {m}
    /\ UNCHANGED <<row, tickets, debounced, fence, call, ghost>>

\* That times out, or fails.
NoLiveDoc(m) ==
    /\ pc[m] \in {"begun", "resolved", "loaded"} /\ arg[m].need
    /\ live = None
    /\ Refuse(m, "unavailable")

LiveIfNeeded(m) == arg[m].need => live # None

\* resolveAuthoritativeMutationBase, whose connection is closed again.
Resolve(m) ==
    /\ pc[m] = "begun" /\ LiveIfNeeded(m)
    /\ Kind[m] = "token" => AuthoritativeBase = arg[m].read
    /\ Goto(m, "resolved")
    /\ arg' = [arg EXCEPT ![m].seen = AuthoritativeBase]
    /\ held' = held \ {m}
    /\ UNCHANGED <<row, mem, count, live, loaded, meta, tickets, dirty, debounced, fence,
                   answer, ghost>>

ResolveStale(m) ==
    /\ pc[m] = "begun" /\ LiveIfNeeded(m)
    /\ Kind[m] = "token" /\ AuthoritativeBase # arg[m].read
    /\ Refuse(m, "stale")

\* loadCanonicalYDoc: the document to write to, which is kept.
Load(m) ==
    /\ pc[m] = "resolved" /\ LiveIfNeeded(m)
    /\ Goto(m, "loaded")
    /\ arg' = [arg EXCEPT ![m].handle = IF live # None THEN live
                                        ELSE IF loaded # None THEN loaded ELSE Copy]
    /\ mem' = IF live = None /\ loaded = None
              THEN [mem EXCEPT ![Copy] = row.content] ELSE mem
    /\ UNCHANGED <<row, count, live, loaded, meta, tickets, held, dirty, debounced, fence,
                   answer, ghost>>

\* Mutant of Ready: it is not.
Ready_Once(m) == pc[m] = "loaded" /\ LiveIfNeeded(m)

\* A live document that is required is resolved again before it is changed. From
\* here to the commit only promises that are settled are waited for.
Ready(m) ==
    /\ pc[m] = "loaded" /\ LiveIfNeeded(m)
    /\ arg[m].need => AuthoritativeBase = arg[m].seen

RevalidateStale(m) ==
    /\ pc[m] = "loaded" /\ LiveIfNeeded(m) /\ ~Ready(m)
    /\ Refuse(m, "stale")

New(m) == arg[m].read.content \cup {m}

\* A guard refuses the new text, or the preview of the persisted document does
\* not match it, which invalidates the live one.
Guarded(m) ==
    /\ Ready(m)
    /\ Finish(m, "failed")
    /\ \/ BeginInvalidate
       \/ UNCHANGED <<loaded, meta, dirty, tickets, invalid, closing, lost>>
    /\ UNCHANGED <<row, mem, count, live, debounced, locked, arg, made, taken, astray>>

\* Mutant of Commit: the update does not compare the revision.
Commit_Blind(m) ==
    LET h == arg[m].handle IN
    /\ Ready(m)
    /\ mem' = [mem EXCEPT ![h] = New(m)]
    /\ row' = [content |-> New(m), rev |-> row.rev + 1, stamp |-> row.stamp + 1,
               epoch |-> row.epoch + (IF arg[m].bump THEN 1 ELSE 0)]
    /\ astray' = IF live \in {h, None} THEN astray ELSE astray \cup (New(m) \ mem[live])
    /\ UNCHANGED <<count, live, debounced, locked, made, taken>>

\* The document is changed, and the transaction writes the row, which has the
\* revision that was read.
Commit(m) ==
    LET h == arg[m].handle IN
    /\ Ready(m)
    /\ row.rev = arg[m].rev
    /\ mem' = [mem EXCEPT ![h] = New(m)]
    /\ row' = [content |-> New(m), rev |-> row.rev + 1, stamp |-> row.stamp + 1,
               epoch |-> row.epoch + (IF arg[m].bump THEN 1 ELSE 0)]
    /\ astray' = IF live \in {h, None} THEN astray ELSE astray \cup (New(m) \ mem[live])
    /\ UNCHANGED <<count, live, debounced, locked, made, taken>>

\* registerCanonicalYDocPersistence: it becomes the loaded document.
Apply(m) ==
    /\ Commit(m)
    /\ Goto(m, "applied")
    /\ loaded' = arg[m].handle
    /\ meta' = [stamp |-> row'.stamp, epoch |-> row'.epoch]
    /\ arg' = [arg EXCEPT ![m].bump = row'.epoch = arg[m].read.epoch]
    /\ UNCHANGED <<tickets, held, dirty, invalid, closing, answer, lost>>

\* It does not say what was written.
ApplyDiverges(m) ==
    /\ Commit(m)
    /\ Finish(m, "unconfirmed")
    /\ BeginInvalidate
    /\ UNCHANGED arg

\* Mutant of ApplyFails: the live document is left as it is.
ApplyFails_Leaves(m) ==
    LET h == arg[m].handle IN
    /\ Ready(m)
    /\ mem' = [mem EXCEPT ![h] = New(m)]
    /\ Finish(m, IF row.rev = arg[m].rev THEN "failed" ELSE "stale")
    /\ UNCHANGED <<row, count, live, loaded, meta, tickets, dirty, debounced, fence, arg,
                   made, lost, taken, astray>>

\* The revision is another one by now, or the transaction throws: the document
\* has been changed all the same, and is invalidated.
ApplyFails(m) ==
    LET h == arg[m].handle IN
    /\ Ready(m)
    /\ mem' = [mem EXCEPT ![h] = New(m)]
    /\ Finish(m, IF row.rev = arg[m].rev THEN "failed" ELSE "stale")
    /\ BeginInvalidate
    /\ UNCHANGED <<row, count, live, debounced, locked, arg, made, taken, astray>>

\* Verification: of the new document against the text, and by the coordinator
\* against what the live document has now.
Verify(m) ==
    /\ pc[m] = "applied" /\ Queued(m)
    /\ Refuse(m, IF Authoritative = New(m) /\ {live, loaded} # {None}
                 THEN "ok" ELSE "unconfirmed")

VerifyRewrite(m) ==
    /\ pc[m] = "applied" /\ Kind[m] = "rewrite"
    /\ Refuse(m, "ok")

\* Mutant of FinishAccept: the room is not invalidated.
FinishAccept_Stays(m) ==
    /\ pc[m] = "applied" /\ Kind[m] = "accept"
    /\ Finish(m, "ok")
    /\ row' = IF arg[m].bump THEN [row EXCEPT !.epoch = @ + 1, !.stamp = @ + 1] ELSE row
    /\ UNCHANGED <<mem, count, live, loaded, meta, tickets, dirty, debounced, fence, arg,
                   ghost>>

\* The engine raises the epoch, unless it has been, and invalidates.
FinishAccept(m) ==
    /\ pc[m] = "applied" /\ Kind[m] = "accept"
    /\ Finish(m, "ok")
    /\ row' = IF arg[m].bump THEN [row EXCEPT !.epoch = @ + 1, !.stamp = @ + 1] ELSE row
    /\ BeginInvalidate
    /\ UNCHANGED <<mem, count, live, debounced, locked, arg, made, taken, astray>>

-----------------------------------------------------------------------------
Step(m) ==
    \/ Read(m) \/ Barrier(m) \/ BarrierFails(m)
    \/ Begin(m) \/ BeginStale(m) \/ OpenDirect(m) \/ NoLiveDoc(m)
    \/ Resolve(m) \/ ResolveStale(m) \/ Load(m)
    \/ RevalidateStale(m) \/ Guarded(m)
    \/ Apply(m) \/ ApplyDiverges(m) \/ ApplyFails(m)
    \/ Verify(m) \/ VerifyRewrite(m) \/ FinishAccept(m)

Next ==
    \/ \E m \in Mutations : Step(m)
    \/ JoinFirst \/ Join \/ Leave \/ Store
    \/ \E e \in Edits : \E epoch \in tickets : Edit(e, epoch)
    \/ \E i \in dirty : Persist(i)
    \/ EndInvalidate \/ Release \/ LockExpires

Spec == Init /\ [][Next]_vars

-----------------------------------------------------------------------------
Commits(m) == pc[m] = "loaded" /\ (pc'[m] = "applied" \/ answer'[m] = "unconfirmed")

Rewrites == \E m \in Mutations : Kind[m] = "rewrite" /\ Commits(m)

\* The row keeps what was written to it. Only two things remove anything: a
\* rewrite, and a live document that was opened between a mutation's last look at
\* it and its commit, and so lacks what the mutation wrote. Two mutations, or a
\* mutation and a persist of the live document, never overwrite one another.
NothingIsOverwritten == [][row.content \ row'.content \subseteq astray \/ Rewrites]_vars

\* A mutation that was refused or failed leaves nothing in the row, at once or
\* later, although it may have changed the live document first. An edit
\* discarded with its document comes back only if a mutation had read it.
Discarded == lost \cup {m \in Mutations : answer[m] \in {"stale", "failed", "unavailable"}}
DiscardedStaysOut == Discarded \cap row.content \subseteq taken

\* A mutation with a base token that found clients in the room removes no edit
\* from the live document that was not in its base.
Overwritten(m) ==
    IF Commits(m) /\ live # None THEN (mem[live] \ mem'[live]) \cap Edits ELSE {}

TokenSeesLive ==
    [][\A m \in Mutations : Kind[m] = "token" /\ arg[m].need => Overwritten(m) = {}]_vars

\* While a rewrite is under way nothing but mutations changes the text of the
\* row, whatever clients that reconnect do, and whenever Hocuspocus stores.
RewriteIsAlone ==
    [][locked /\ row'.content # row.content => \E m \in Mutations : Commits(m)]_vars


=============================================================================
