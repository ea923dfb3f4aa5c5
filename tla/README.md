# Review Room: specification and proofs

Review Room is a shared markdown editor. A Node process (`src/server`) keeps
documents in SQLite, serves the live ones as Yjs documents through Hocuspocus,
and lets agents read and change them over HTTP. Browsers (`src/src`) hold a
replica and the editor, and execute some agent operations on the server's
behalf. This directory holds TLA+ models of the parts where order, timing and
failure decide whether a document survives, TLC configurations for them, and
TLAPS proofs. `PROJECT.json` gives for each definition the lines it models and
lists the runs, the mutated definitions that show each property can fail, and
the hazards the properties are for.

    tlasany M.tla                         parse
    tlc -workers 2 -config X.cfg MCx.tla  check a model
    tlapm XProofs.tla                     check the proofs about X

## 1. Inventory

How the parts meet: an HTTP request of an agent enters `routes.ts` or
`agent-routes.ts`, which check the share's role and state, reserve the
Idempotency-Key, and hand the operation to one of three writers: the document
engine with a compare-and-set on the row (`document-engine.ts`, `db.ts`), the
canonical mutation on a live document (`canonical-document.ts`, serialised per
document by `collab-mutation-coordinator.ts`), or a browser (the bridge of
`ws.ts`). Clients of the room change the live document over their own
WebSocket; `collab.ts` writes it back some time later. The writers share the
row and nothing else: `collab.ts` notices that another one was there by
comparing the row's version, and other writers make the live document go away
by invalidating it. What reads are served from is a projection that `collab.ts`
keeps beside the row and repairs when it falls behind. In the hosted deployment
there is no live document: stateless handlers (`hosted-review-room-db.ts`) read
the row and replace it, and agents poll the events they leave.

| component | state | operations | what is hard | what makes it correct |
|---|---|---|---|---|
| idempotency (`mutation-idempotency.ts`, users in `agent-routes.ts`, `routes.ts`) | reservations in memory with lease and owner; completed records in the database | begin, complete, release; look up and store | leases that run out under a running handler, handlers that throw, restarts, routes that do not reserve | one effect and one record for a key; faithful replays; no key stuck |
| bridge router (`ws.ts`; client side `share-client.ts`, `bridge-executor.ts`) | room of sockets, capability flags, table of pending requests with timers | connect, identify, close, close the room; send, time out, respond | a late answer against the timer, a close against pending calls, fail-over to a viewer that is gone | nothing pends without an awaiting call; each call settles; a second viewer executes only after the first was given up |
| live document persistence (`collab.ts`) | loaded documents and their metadata, generations, persist timers, runs and pending slots, invalidations | load, change, store, persist, invalidate, evict, reload | debounced writes against invalidations and other writers; a document torn down while its write waits | discarded edits stay discarded, others reach the row, a write removes nothing it did not know |
| canonical mutation (`canonical-document.ts`, coordinator) | the row, the live document, the Yjs update log, a queue per document | mutate, verify, fall back | awaits between reading the base and writing; memory changed before the transaction | a compare-and-set: no committed mutation is overwritten unseen; failures leave nothing behind |
| document engine (`document-engine.ts`, `agent-edit-*.ts`, `document-ops.ts`) | the row | insert, replace, suggest, comment, accept, reject, rewrite | anchors that moved; preconditions on revision or token | an operation applies to the state it was made for, or fails |
| share access (`share-access.ts`, `share-state.ts`, `share-web-routes.ts`) | role tokens, share state, access epoch | create, pause, resume, revoke, delete, mint and check sessions | sessions minted before a revocation | no session outlives its epoch |
| marks (`formats/marks.ts`, `proof-*.ts`) | marks, tombstones | create, accept, reject, resolve, merge of replicas | stale replicas bringing back resolved marks | a finalised mark does not return |
| projection repair, quarantine, Y history (`collab.ts`, `document-integrity.ts`) | repair queue, breaker, quarantine, snapshots and updates | project, repair, admit, compact | compaction against loading; repair against edits | row and Y history agree or the document is quarantined |
| review room (`review-room-store.ts`, routes, MCP routes, audit) | review runs with claim and lease, credentials of agents, outputs; people's sessions, tasks | request, mint, claim, renew, submit, complete, fail, release, cancel, retry, sweep | requests are chains of statements without a transaction; leases without a timer; handlers that die | the holder of a claim decides over it; an output makes one mark; old access ends |
| document events (`db.ts`, `agent-routes.ts`) | event rows with ids, acknowledgements, outbox | append, poll, acknowledge | cursors against concurrent appends, a handler that dies between a change and its event | no event is skipped |
| hosted database (`hosted-review-room-db.ts`) | row, revision, marks, events, access in one SQL database | edit, rewrite, put, title, comment, accept, reject, delete; poll | a handler writes back whole columns it read an await ago, in one batch, without a compare-and-set | a base that is honoured, an accept that goes in once, losses only to a real overlap, no event passed over |
| client document session (`collab-client.ts`, `editor/index.ts`) | provider, session, pending updates and their copy in localStorage, binding of the editor, edit gate | connect, authenticate, refresh, probe, rebind, retry, reload | a refresh racing a disconnect or a revocation; an editor bound to the previous document | no local edit is dropped silently; the gate reopens; a revoked link stays out |
| client agent (`src/agent`) | sessions, triggers, proposals | enqueue, cancel, run | cancelling what has just started | one run per trigger |
| rate limiter, rewrite policy, mutation stage | counters, configuration | decide | window boundaries | never more than the limit |
| bug reports, metrics, HTTP bridge, packages | none that matters here | forward | — | — |
| editor, review panel, interface | the editor's document tree in one browser | DOM handlers | — | — |

`PROJECT.json` has the same list with status, and the hazards with their lines.

## 2. What is modelled

### MutationIdempotency (`MCMutationIdempotency`, `CallProofs`)

State: `pending` is `pendingReservations`; a lease is a flag `live` that
`LeaseExpires` clears; `stored` is the idempotency table; `pc` is the place of
an attempt's handler (running its mutation, committed with the answer still
ahead, answered, or dead by a throw or a restart). A key stands for a
(document, route, Idempotency-Key) triple and belongs to a route that reserves
(`agent-routes.ts`) or to `POST /documents/:slug/ops` (`routes.ts:1975-2093`),
which only looks for a record before and stores one after.
`beginMutationReservation` awaits nothing, so `BeginStored`, `BeginPending` and
`BeginReserve` are single steps. `Fail` covers results that are not 2xx, those
that were committed included (`sync_pending` and failed verification).

`KeyedAnswers` is what a client is promised, with nothing said of leases,
reservations or crashes: a request is answered once, with its own result or with
one given before to the same key and body, and a reserved key repeats one
result for good. `Promise == INSTANCE KeyedAnswers WITH ...` maps the tables to
it (`Given` from the outcomes, `Remembered` from `stored`), and `KeepsItsPromise`
says that the protocol implements it: a run checks it, and
`Refinement` proves it.

### BridgeRouter (`MCBridgeRouter`, `CallProofs`)

State: `sock`, `room`, `capable` are the sockets of the room and the flag of
`viewer.identify`; `awaited` is `pendingBridgeRequests` and its timers; `call`
is the loop of `sendBridgeRequest`: its snapshot of candidates, the codes of the
attempts that failed. A rejected attempt is retried in the same step, because
promise reactions run before the next event; `up` is the set of sockets that are
still open at that moment (an error or `closeRoom` has begun closing some).
`Filter` is the `filter` of the candidates and the room's `delete`: the members of a
set that a sequence has, in its order, defined by their places rather than
with `SelectSeq`, so that the proofs can say what it returns.
`Execute` is the viewer, which may be the shipped client (`Shipped`, answers ok
even if the editor threw) or any other.

### CollabPersistence (`MCCollabPersistence`, `CollabPersistenceProofs`)

One document. Content is a set of edits. The database has it twice: `db.content`
is the Yjs history, which documents are read from and the conflict check
compares; `db.text` the text and marks of the row, which `updateDocumentAtomic`
and `updateMarks` write alone (`RowWrite`). Other writers write both
(`ExternalWrite`). A persist replaces both by the content of its `Y.Doc`
instance, so an edit the instance never saw is lost — the fault the code's
checks exist to prevent. `base` is the last content persisted or read, against which a
persist forms its delta: equal to it, the history is left as it is. `live` is the document Hocuspocus serves,
`loaded` what `loadedDocs` has (it may be the copy the row was read into);
`meta` the version the code believes the resident document has; `gen`, `dgen`
the generation fence; `timer`, `pend`, `flight`, `runs` the persist machinery,
where a run is a `persistDoc` that waits for its refresh of the markdown and
then commits, throws, or finds that the text would collapse; `stores` the
`persistOnStoreDocument` calls that wait for theirs; `debounced` the debouncer of
Hocuspocus. `invalid`, `tearing`, `release`, `reload` are an invalidation, its
teardowns, and the two timers.

Bookkeeping for the properties: `lost` are the edits discarded on purpose;
`unserved` those the server did nothing about: `onChange` ignored them, a
persist was refused, another document's request took the place of theirs, or a
reconcile replaced the live text; `unread` those of the history that the metadata takes a
resident document to have that lacks them; and `late`, of a run, what the history
has that the run was never compared with: it came while the run waited, or the
run went on past the check. The exceptions
are as narrow as the code allows on any instance, which the proofs brought out
(section 5).

What one step is: a handler up to its next await. Timers and messages are
`Event`s and do not come between the steps of a teardown, which waits for
promises only; `Urgent` says what is due before anything else (the pending run
in the `finally` of a run; the unload that follows the last store).

`Conflict` is the check of the history: what only the row has is not in it, so
it finds nothing missing and the write replaces the row. Marks of the row that
are ahead (`RowAhead`; which edits are marks, and which of them a write keeps, is
left open) are reconciled into the live document by a store (`Reconcile`), but
`persistDoc` looks for `'reload'` only and goes on to write. Where the loaded
document lacks nothing of a history whose version moved, what happens depends on
the size of an empty Yjs update (2 bytes, not 0, in the Yjs that is used, so that
it reloads); both outcomes are allowed.

Left out, each with its effect: one store of an instance waits at a
time; a live document evicted by `EvictStale` keeps no unfinished store of its
own; a reconcile while no document is served or the slug is invalidated is one
that gives up, and that it awaits a fingerprint (9840-9842) and a parser is part of its
step; without a baseline, `refreshLoadedDocDbMeta` may have taken the document
itself for it, so a write then keeps the history or not; the quarantine of oversized
updates (9061-9073) and the shutdown paths; loading a revoked document; the
rewrite lock (867-892, in CanonicalMutation instead), the store that is skipped
after an external apply (1834), and changes without an epoch, which the server
itself makes and persists. Two timings are assumed: a timer of 0 ms fires before one of a second, and
connections to a revoked document are read-only.

### CanonicalMutation (`MCCanonicalMutation`, `CanonicalMutationProofs`)

One document, and calls of four kinds: `token` and `updatedAt` are `POST
/edit` with that base, through the queue of the coordinator; `accept` is
`updateSuggestionStatusAsync` with a base revision and its epilogue (raise the
epoch, invalidate); `rewrite` is `PUT /documents/:slug`, behind
`prepareRewriteCollabBarrier`. `pc` follows the awaits: `Read` (the caller reads
the text it will change), the barrier, `Begin` (the row is read, the number of
clients decides on `liveRequired` and on raising the epoch), `Resolve` (the
base is resolved and compared), `Load` (the handle is taken), and `Apply`,
`ApplyDiverges` or `ApplyFails`, which revalidate, change the live document and
run the transaction. From `Ready` to the transaction the handler waits only for
promises that have settled, since the markdown parser is loaded by then; so it
is one step. `OpenDirect` is the direct connection, `held` the mutations that
have one. A mutation's text is what it read plus one item that stands for its
change; everything it did not read is removed, which is what `nextMarkdown` does.

Around it, what CollabPersistence models in detail is short here: a persist is
one step with its checks (`Droppable`, the version conflict, the write), a
change arms the debounced store, `EndInvalidate` unloads the document and
`Release` ends the cooldown. `locked` is the rewrite lock with its timer.

`made`, `lost`, `taken` and `astray` are bookkeeping: the edits made, those
discarded with a live document, those a mutation had read, and what a mutation
committed past a live document that was opened after it had looked. An edit that
`onStoreDocument` drops with the loaded document during an invalidation, and
that the live document still has, is not lost yet.

The gap between `Load` and the commit without a live document is real only
while the parser is still loading or a hosted replica is waited for; the runs
allow it always, so they cover more interleavings than a warm server has.

Left out, each with its effect: the hosted waits themselves (866-887 and
902-906 only retry what `OpenDirect` tries); quarantine and corrupt Y history
(they refuse, as `Guarded` may); pausing the document on runaway growth; marks
apart from the text; the conditions of the guards (any mutation may be refused
at `Guarded`); writers of the row other than mutations and persists; content
that a client's old replica merges in when it reconnects; the barrier of
`agent-routes.ts`, which validates under the lock.

### ReviewRuns (`MCReviewRuns`, `ReviewRunsProofs`)

The review requests of one document. `run`, `cred` and `output` are the tables
(`token` 0 is NULL, `lapsed` says whether `lease_expires_at` has passed);
`marks` counts what an output left in the document. A handler is a script of
statements, `Script[op]`, of which `todo` is what is left: each statement is one
action with its WHERE clause as its guard, and a refused one answers. `Sweep` is
the SELECT and UPDATE of `storeExpireAgentReviewRunLeases`, which take the same
rows because both compare with the time at the start; what it took is revoked by
a statement of its own. `Apply` is the whole operation of the document engine:
it makes the mark, refuses, or makes it and answers failure, as CanonicalMutation
shows it may. `Die` is a throw or a restart between two statements.

Between the check of a mint and its insert the run may be cancelled, or claimed
with the credential that the mint then revokes; the model has these behaviours
and no property forbids them yet (section 6).

Left out: reads that decide nothing, history events and tasks from mentions,
which no statement here reads; requests refused on arrival; people's access to
the document. The clock of a statement is read just before it is sent, and is
taken as that of the statement.

### MarkWrites (`MCMarkWrites`, `MarkWritesProofs`)

The comments and suggestions of one document. All its marks are one value that
every writer replaces, kept three times: `row` (`documents.marks`), `history`
(what the Yjs updates yield) and `room` (the live document, which has been
edited and may be unsaved). `tomb` is `mark_tombstones`. A request is a handler
`h[o]` with what it read, what it will write and what it will write back;
`Read`, `Prepare...`, `Commit...`, `WriteMarks`, `Sync...`, `Bury` and `Finish`
are its stretches from one await to the next. Two kinds of writer meet: those
that compare the revision (`updateDocumentAtomic`) and those that neither
compare nor raise it (`updateMarks`, the sync after it, `PUT`'s marks, the
stores of the live document). `minted`, `said`, `decided`, `stale`, `revived`
and `unwanted` are bookkeeping: marks made, comments a caller was told of,
decisions committed, marks changed by a writer that had not read them as they
were, suggestions written although decided by a writer no tombstone could stop,
and comments deleted by `PUT` or by the tombstone of their resolution.

Left out, each with its effect: a canonical mutation is one step (it is
CanonicalMutation's subject); marks of authorship and flags (nobody decides
them); ranges, quotes and their repair (whether an anchor is found is a
nondeterministic refusal); the mark plugin of the editor, which is represented
by `ClientAdds` and `ClientDeletes`; the text of agents' edits.

### ClientSession (`MCClientSession`, `ClientSessionProofs`)

One browser tab and what it needs of the server. `pend`, `stored`, `flush`,
`recent` are the durable buffer of `collab-client.ts`; `doc`, `unsynced`, `acks`
the Y.Doc and what of it is acknowledged; `link`, `session` the provider and its
token's epoch; `refresh`, `keep`, `next`, `rebind`, `bind`, `attempts` where the
editor is in fetching a new session and binding to its document. On the other
side: `share`, `token`, `epoch` (access), `live`, `dirty`, `saved` (resident
document, scheduled persist, row), `cooling` (invalidation), `conn` (the epoch
of the socket in the room). Hocuspocus' provider is external and is modelled by
what the code relies on: it connects, is refused or authenticated, synchronises,
acknowledges what is applied, and reports a drop.

`GateReopens` excuses states named in `Stranded`, in which a tab has no timer or
request under way that would open its gate: a refresh cleared
`pendingCollabRebindOnSync` and then failed, the attempts to bind ran out, or
the recovery attempts did and the user is asked.

An edit can be lost in six ways, and `dropped` records them; what
`NothingLostSilently` says is that there is no seventh.

- A reconnect is told not to keep what is buffered: that of a stall, of a decision that
  arrives, and of the user's Retry, although its banner says that editing is
  paused to protect the changes (`Reconnect`).
- The browser is killed before the buffer is written (`Crash`).
- A write to localStorage fails, which `flushDurableBuffer` ignores, and the next
  preserving reconnect or page load replaces the buffer by what is stored
  (`Flushed`, `Reconnect`, `Reload`).
- The buffer is longer than 200 updates and `appendDurableUpdate` slices off the
  oldest, acknowledged or not. An edit stands for any number of updates, so `Newest`
  lets any of the older ones go with each edit.
- The server has acknowledged the edit and invalidates the document
  (`Invalidate`).
- The server has acknowledged the edit and ignored it in `onChange`, because the socket is of
  an older epoch or the document in its cooldown; nobody else's change has it
  persisted, and the room is unloaded after its last client (`Unload`). The store
  at that moment asks the same questions of the last client's ticket, and may or
  may not save it.

`loadedDocs` may serve the document again after the room is unloaded; that is the
same as if `Unload` had not happened, and the step is never forced.

Left out: read-only sessions and roles, the owner's access, deletion, seeding
from a template, snapshots of marks, the REST save mode, the rewrite lock,
quarantine, and the time at which a token expires. `document.updated` as a
reason to resynchronise does what `Stall` does. Assumed of the timing: a
connection to a reachable server takes less than the delay after which a stall
is declared, but for `MaxFaults` times.

### ProjectionRepair (`MCProjectionRepair`, `ProjectionRepairProofs`)

`log` is the Y history, `row` and `rowY` the row's text and Y version, `proj` the
projection with its version and health. A text is the number of the change that
made it, and `kind` is what the guards of a persist say of it. `pjob` is a
persist, `job[j]` are repairs and `ojob` the owner's repair, each at the await in which
it derives its text (a real wait while the parser loads, a chain of microtasks
afterwards; the model always allows the gap). `queue` is the schedule of
repairs with its retries, `growth` and `drift` are the breakers, `auto` the
quarantine in memory; a quarantine in the projection is one that survives a
restart. `AgentWrite` and `MarksWrite` are writers of the row that upsert the
projection, `Crash` loses all that is in memory. `blame` records in which of
the three known ways a projection got a text the history does not have.

Left out: recovery on demand and the reconcile at startup (off by default), the
loop breaker (six strikes in 30 seconds), the cooldown of oversized updates,
the warning about wipes, the list of hot slugs, the quarantine that
`canonical-document.ts:1235` adds, marks, timers of documents that are gone,
the global admission guard, undo to an earlier text, the branch of the owner's
repair that decides on a durable quarantine, snapshots and their pruning.
Cooldowns that suppress a log line also suppress queueing a repair: whether a
held-back persist queues one is a choice.

### HostedDocument (`MCHostedDocument`, `HostedDocumentProofs`)

The database is a log of its committed batches: `log[i]` is event `i` with the
row as that batch left it, so what a handler read is an index into the log. A
call looks (its client reads the document before it asks), opens (the token and
the first read), reads again in `updateHostedDocument`, commits one batch, and
after an accept or reject announces the decision in a further statement. Operations: edit v2,
edit, rewrite, `PUT` of the document, of its marks or its title, comment, accept, reject and
delete. `Die` ends a handler between any two statements. An agent polls with a
cursor and a page (`Poll`).

Two reads are one where only a deletion can come between them and tell them
apart: the token's lookup with the first read; for rewrites, `PUT` and titles
the gate's read with that of `updateHostedDocument`. A `PUT` brings text and marks,
marks alone (`putMarks`: the text is that of the read, the revision stays) or
the title; one with text alone is a rewrite, and its title adds nothing. Left
out: the value of the title (its update rewrites the columns it read, which is modelled),
`document_projections` and the outbox (written in the batch, read by no hosted
handler), history events, acknowledgements (they do not restrict the poll),
access tokens and members, the GET-only aliases and their draft chunks.

## 3. Runs

| run | question | instance, and why it is enough |
|---|---|---|
| `idempotency` | Do attempts of one key exclude one another, replay the right answer and write the record once, whatever lapses, dies or restarts (`KeyedAnswers` implemented), does a second effect need one of the excuses the design admits, and is a key whose handler died freed? | 3 attempts, one reserved key, one of `/ops`, 2 bodies: an owner that lapses, the one that takes over, and a retry that replays or mismatches. The proofs remove the bound. |
| `retries_of_ops` | Do retries of `/ops` stay safe, as AGENT_CONTRACT.md says? Violated. | 2 attempts suffice. |
| `bridge` | Are the pending requests just what is awaited, is a second execution always one after giving up, and does every call settle? | 2 viewers, one of them shipped, and one call, which may fail over. Calls meet only in the sockets; the proofs cover any number of calls and viewers. |
| `collab_persistence` | Can an edit be stranded, or a write remove from the history what its conflict check should have seen? | 2 instances (the old and the new one of each race), 2 edits (one of the client, one of another writer or of the other instance), as many invalidations as conflicts and reconciles cause. |
| `collab_persistence_live` | Can a discarded edit come back? Does every edit end saved, or discarded, or ignored? | 2 instances, one edit, an invalidation from outside (with or without a clear, a pause, a revocation, a collapse) besides those that conflicts cause. Both bounds at once are 34.5 million states, on which the safety properties were checked too. |
| `canonical_mutation` | Do mutations, persists and clients overwrite one another unseen, does a failed mutation leave anything, does a base token protect unsaved edits, is the row left alone under the rewrite lock? | any 2 at once of a `token` edit, an `accept` and a `rewrite`, one client edit, 2 instances: the accept invalidates the room under the edit, which may have its handle already; the clients of the document before the barrier reconnect to the one after it. |
| `concurrent_edits` | Does `baseUpdatedAt` detect concurrent edits, as the agents' documentation says? Violated. | one `updatedAt` edit and one client edit. |
| `review_runs` | Does only the holder decide over a claim, does an output make one mark, is it reserved by one handler that works or died, and is the result count backed by marks, with requests interleaved at every statement and handlers that die? | one run, 2 handlers at once, 2 credentials, 2 claims, one output: a handler that validated the first claim acts after the second was made. The index that allows one active run is in the model but needs two runs to matter. |
| `mark_writes` | Is a suggestion decided once, does a comment a caller was told of survive, does a finalised mark stay out, with writers that compare revisions and writers that do not? | 1 comment, 1 suggestion, 2 requests: two decisions, a decision against a stale sync or `PUT`, a reply against a store of the room. |
| `client_session` | Is anything typed lost without the code meaning it, can a revoked link come back, does the gate reopen, does the buffer drain? | one tab, 2 edits (one acknowledged, one not), 2 epochs (a revocation and a resume, or a rewrite and a pause), one fault anywhere, one recovery attempt. |
| `projection_repair` | Can a projection call itself healthy and be wrong, what can change under a quarantine, does a stale projection heal? | 2 changes of the text, 2 repairs at once (one that an invalidation forgot), 2 failures or restarts, the code's 2 strikes and 3 tries. |
| `hosted_document` | Are changes lost otherwise than to an overlapping request, is the base of an edit the text its agent saw, does an accept go in once, is every event told? | 3 requests of any kind: a change, one that overlaps it, and one that builds on what is left; a page of 2 events, so that a poll has to come back. |

Bounds: `MaxCalls` (mutations under way at once), `MaxToken` (claims), `Creds` and `Slots` (credentials, and requests under way at once), `MaxInst` (instances served; after the last one the document cannot be
opened again, which a client sees as a server that does not answer), `MaxGen` (invalidations from outside);
`MaxDecided` (decisions of one suggestion, one more than
there should be); `MaxEpoch`, `MaxFaults`, `MaxAttempts` (epochs, faults, failed probes of a tab; the code tries 3 times, the number
only decides when the user is asked); `MaxText`, `MaxFaults`, `MaxStrikes`, `MaxTries`, `Jobs` (changes, failures, and the code's own
limits of breakers and retries); `NumCalls` and `Page` (requests to the hosted database, events of a poll);
everything else is bounded by the sets. Symmetry is used for safety only.
Deadlock is not checked: each model stops when its requests, calls or edits are
used up, which is no fault.

Fairness. `idempotency` assumes for `NoKeyStaysInProgress` that time passes (`LeaseExpires`);
handlers may hang for ever. `bridge` assumes that `setTimeout` fires;
viewers owe nothing. `collab_persistence_live` assumes that timers fire, that
promises settle (`FinishStore`, `EndInvalidate`), and strong fairness of
`Commit`: a transaction that is retried does not fail for ever. No client has
to edit, join or leave. `client_session` assumes that the provider connects to a
server that lets it, that requests for a session are answered or fail, that the
editor's timers (flush, binding, probe, stall) fire, and that an update that was
sent is applied and acknowledged; neither faults nor the owner nor the user is
owed. `projection_repair` assumes the worker's interval, the timer of a repair, and
that a derivation ends. `hosted_document` assumes that a handler goes on unless
it dies (`Die` owes nothing and may always win) and that the agent polls.

## 4. What disagrees with a document, a comment or a test

- `retries_of_ops`: `POST /documents/:slug/ops` takes no reservation
  (`routes.ts:1991`). A second attempt that begins before the first has stored its
  record finds none; both commit and both are answered with success, where
  `AGENT_CONTRACT.md:134` says the header keeps retries safe. (The property asks
  for two successes, so a retry after a failure answer is no counterexample.)
- `concurrent_edits`: `baseUpdatedAt` is compared with the row only
  (`canonical-document.ts:798`). A client's edit that is in the live document
  and not saved yet changes no `updated_at`; made after the handler read the
  text and before the mutation resolved its base (859), while it waited for its turn
  in the queue or for the live document, it is overwritten, where
  `docs/agent-docs.md:324` says the field detects concurrent edits. (In TLC's
  trace a client joins and types while the live document is waited for.)

Met while modelling and not the subject of a run; each is in the model, so that
the properties name it as an exception or say nothing of it:

- Bridge: `bridge-executor.ts:299` turns what the editor throws into a result that
  is answered ok, so the fail-over which `bridge-ws-hints.test.ts:183` describes
  does not happen with this client.
- Persistence: `onLoadDocument` (`collab.ts:11059`) gives a resident document
  without metadata that of the row, and the conflict check the comment at 8552
  asks for then has nothing to compare. What a route writes to the row alone
  (`db.ts` 2173-2252) is not in the history the check compares, so the next
  persist replaces it, or a reload takes the row back to the history
  (`collab.ts` 8809-8834); marks are kept if `mergePreservedActionMarks` counts
  them among those it preserves. `persistDoc` does not look for
  `'canonical-reconcile'` (7615) and writes over the row whose marks were found ahead.
- Review runs: a mint revokes the credentials of the request
  (`review-room-store.ts:872`) and inserts the new one (879) in two statements, so
  two overlapping mints leave two active, where
  `docs/review-room-implementation-plan.md:210` says rotating revokes prior access.
- Projection. An overtaken repair stamps the text it derived before its await as
  healthy with the version it reads after it, and can lift a quarantine with
  that. A persist that is held back still advances `documents.y_state_version`
  (`collab.ts` 7929-7933), and a write of marks then copies the old row as healthy and
  current. Every write of the row or of the marks lifts a durable quarantine, and
  agents' writes are not stopped by one. The owner's repair reads the reason of
  a quarantine before its await, and can put back one that was lifted in
  between. Invalidating a document clears the mark of a running repair, so that
  two can run and the success of one clears the state of the other. The
  worker's interval (120 s) is longer than the window of a breaker (60 s), so a document
  whose repair is blocked by a guard is queued for ever.
- Hosted database. The base revision is compared in a read that precedes the
  write, so two overlapping edits with the same base both succeed and count the
  same revision, where `docs/agent-docs.md:380` promises `STALE_REVISION`. A
  title or a mark is written together with the other columns of its read. A
  second accept of a suggestion is not refused when the first one left the mark,
  which is the usual way for suggestions of the hosted `suggestion.add`, as
  rehydration does not hydrate their kind; the document engine refuses it. An
  update that comes after a deletion is answered 409 and yet leaves its event.
  The event of a deletion cannot be polled, since the batch revokes the access.

## 5. Proofs

`CallProofs` proves for any sets of requests, keys and bodies:
`TypeCorrect`, `OverlapOnlyAfterLapse`, `OneEffect`, `FaithfulReplay`, the
action property `WriteOnce`, and `Refinement`: the protocol implements
`KeyedAnswers`, of which the two before are consequences a reader will look for.
The assumptions are those of the module: reserved keys are keys, and `None` is
no table entry.

The invariants are not inductive. `NoOverlapWithinLease` says nothing of the
table, and a state where an attempt runs without an entry would let another
reserve the key. The strengthening `IInv` adds: an entry belongs to an attempt
of its key that is not answered yet, and excludes a record (`PendingInv`); an
attempt within its lease owns the live entry (`BusyInv`), which gives exclusion
at once; a record holds the answer of a committed attempt with that key and
body (`StoredInv`); an attempt that was answered success within its lease is in
the record (`RecordedInv`), which with `PendingInv` gives `OneEffect`; and what
the control points imply (`ControlInv`). One lemma per conjunct shows that the
steps preserve it, one step per action.

`Refinement` needs the same invariant, in every step: an answered request is
not open, a replay's record is of its body (`StoredInv`), and a record of a
reserved key is absent while an attempt owns its entry (`PendingInv`).

`CallProofs` proves for any finite set of viewers and any calls
`BridgeTypeCorrect`, `EntriesAreAwaited` and `GivenUpBefore`. The inductive
invariant `BridgeInv` is `PendingIsAwaited` with what a call is made of
(`BridgeCallInv`), that a call goes on only while each failure was retryable
(`BridgeGoesOnInv`), that what was sent is an attempt of a call all of whose earlier
attempts failed that way (`BridgeSentInv`), and that only what was sent takes
effect (`BridgeEffectsInv`). `RejectKeeps` is the heart: timeouts, closes, socket
errors and `closeRoom` all reject a set of entries at once, and the calls of
these entries retry in that very step.

`BridgeTypeCorrect` also says that the room and each list of candidates are no
longer than the viewers are many, and that nobody waits for a viewer that got its request and
is gone. For this `BridgeShape` adds that nobody is in the room twice and
who is in it has connected. `FilterKeeps` says that filtering keeps order and
distinctness. It rests on `EnumerationExists`: a finite set of numbers can be
listed in ascending order. That is proved from a least counterexample (`WFMin`
on the numbers), because an induction theorem would take an operator.

`HostedDocumentProofs` proves for any number of requests and any page:
`TypeCorrect`, `LossesAreOverlaps`, `PreconditionHolds`, `AcceptedOnce`. The
properties speak of the log as it is now, and a request may go on with what it
read long ago, so `IInv` speaks of every entry: what a request saved is in each
entry since, or one that may take it is in the log (`TextInv`, `CommentInv`,
`GoneInv`), and of two entries the later has the greater revision or the same
text, unless a revision was counted twice in between (`RevInv`). `BaseInv` says
where in the log a handler's reads lie, which is what makes "overlap" mean that
the reader's entry is older than the other's.

`ReviewRunsProofs` proves for any finite sets of handlers and outputs and any
runs, claims and credentials: `TypeCorrect`, `OutputsAppliedOnce`, `ReservationsExclude` and the
action property `OnlyHolderDecides`. What a handler has done is told by what is
left of its script, so `TypeInv` says which statements may follow which;
`ReservedInv` that a pending output has one handler past its reservation and
before its record; `MarksInv` that such a handler finds no mark yet; `CountsInv`
that results are backed by marks. `FiniteAssumption` (a process has finitely
many requests and outputs) is what counting them needs.

`ProjectionRepairProofs` proves for any number of texts, repairs, strikes and tries:
`TypeCorrect`, `HealthyProjections`, and the action property
`QuarantineHolds`. `HealthyIsCurrent` looks at the projection only when it claims the
newest version; `StampInv` says what a healthy one may have at any version, and
`OrderInv` that no text is newer than what it was derived from, and that a
persist overtaken by an edit is followed by another.

`ClientSessionProofs` proves for any edits, epochs and faults: `TypeCorrect`,
`NothingIsLost`, `RevokedTabsStayOut`. `BufferInv` is why nothing is lost: what the tab's
document has and the tab believes acknowledged is with the server or was lost in
a named way, and so is what localStorage has and memory lacks, which the next
write of the buffer will overwrite. Only a tab without a session whose buffer is
empty may have an edit in localStorage alone.
`EpochInv` bounds the sessions of a revoked link, the one in flight included.
`None` is no number and no set of edits.

`MarkWritesProofs` proves for any comments, suggestions and requests and any
bound on decisions: `TypeCorrect`, `DecidedAtMostOnce`, `ToldCommentsSurvive`,
`FinalizedMarksStayOut`. A mark travels in what handlers hold between their awaits, so
`IInv` speaks of all copies: a mark that is anywhere was made by one request
(`MintedInv`) and is nowhere else before that one wrote it (`FreshInv`); what a
request will write respects the tombstones it saw (`PreparedInv`); a decided
suggestion is in no document and any other decision of it holds an older
revision (`OnceInv`). Marks are comments or suggestions, not both.

`CanonicalMutationProofs` proves for any calls of any kinds, any edits and any
number of instances: `TypeCorrect`, `RefusedStaysOut`, and the action properties
`RowIsNotOverwritten`, `RewritesAreAlone`, `TokensSeeLive`. Content goes from
document to document and through what handlers have read, so `IInv` says of each
place what it may contain. Discarded content is not in the row, in the loaded or
the live document, or in one with a persist scheduled (`CleanInv`) — during a
teardown the live document is excepted, which is why events do not come between
its steps; a mutation before its commit is nowhere (`PlacedInv`). What the row
has the live and the loaded document have too, but for what went past them
(`HasInv`), and so had every base whose revision, `updated_at` or token is still
current (`BaseInv`): this is why a compare-and-set on the row's revision protects
also what other writers put there. The exception in `HasInv`, a live document
that a failed mutation has overwritten, is open only while the document is torn
down. `QuietInv` says that neither a teardown nor a rewrite has a persist
scheduled. Steps are first summarised by what they do to the room (`Calm`,
`Evicts`, `Opens`, `Changes`, `Stores`, `WritesBack`, `Ends`, `Writes`, `Spoils`)
and to the handlers (`Passing`, `Reads`), and each part of `IInv` is shown to
survive these. Assumed: calls are not edits, the copy of the row is not `None`, and
`None` is no answer.

The attempt to prove brought out that the ghost `lost` was wrong on larger instances than
the run's: an edit that `onStoreDocument` drops with the loaded document during an
invalidation is not lost while the live document has it.

`CollabPersistenceProofs` proves for any edits, any number of instances and of
invalidations: `TypeCorrect`, `DiscardedStayOut`, `UnsavedHasItsWrite`, and the action property
`SavedSurvives`. An instance is current while it carries the present
generation; only a current one can be written, and an invalidation leaves none. The
difficulty is what outlives an invalidation: stores of Hocuspocus that wait for
their refresh, a live document that is being unloaded, a hydration that has
read the history. `View` names the contents that may still be written or
served again, and the parts of `IInv` relate these to the database:

- `MadeInv`: the history and the row, what a hydration has read and the baseline
  have only what was saved.
- `StampInv`, `JobInv`, `VerInv`: which instances may be current, that the timer and
  current runs are of current instances and pending requests of stamped ones, that
  a version tells the contents of the history apart.
- `LostInv`: nothing discarded was saved, and no view has it; with the fence this
  gives `DiscardedStayOut`.
- `AloneInv`: while no document is resident, at most one instance has a write
  on its way. It is why a document served anew meets no writer of older content.
- `SeenInv`, `LateInv`: what a resident document, and a run that may commit, lack
  of the history is `unread` or was never compared with the run; `SavedSurvives` follows.
- `WriteInv`: a resident document is settled or being written, and the live one
  has nothing of its own that the resident one lacks; `UnsavedHasItsWrite` follows.
- `RevokedInv`: what a revoked document still has waiting are stores.

A step is first summarised by its effect (`Does`: it fences, asks for a persist,
commits, yields to the history, serves, ...), and each part is shown to survive the
effects. Assumed: at least one instance (`BoundsAssumption`), and that `Copy` and `None` are
neither numbers nor records of the model (`ValuesAssumption`).

Looking for this invariant showed three ways to lose an edit that need more
instances, generations or writers than the runs have. The bookkeeping names
them, so the properties except them:

- A store of an old instance that ends late queues its request over the
  `persistPending` of a newer instance while a run of a third is in flight, and
  is later dropped as stale (`collab.ts` 7493-7496, then 7546-7560): the newer
  instance's edit waits for the next change (`unserved`, in `Queue`).
- The `finally` of a stale run clears `persistInFlight` (7989), so two runs of the
  present generation can overlap; the older one then commits over an edit
  that the newer one has written (`late`, in `Commit`).
- An invalidation that finds an edit in the live document may leave it in
  `loadedDocs`, so that it is not lost at that moment (`lost`, in `EndInvalidate`).

Every invariant and action property that a run checks is stated by a theorem. Only
model-checked are the liveness properties (`NoKeyStaysInProgress`,
`EveryCallSettles`, `EveryEditSettles`, and those of the client session, the
projection and the hosted poll), since fairness and ENABLED are outside the
prover's reach, and the two violations, which are counterexamples.

The models use no RECURSIVE operator.

## 6. Plan

Models, in order of how much of a document's fate depends on them:

1. *Canonical register.* An abstract specification of the document as a
   versioned register with atomic compare-and-set, and CanonicalMutation shown
   to implement it, `astray` and rewrites included in what the register allows.
2. *ShareAccess.* Role tokens and the state of a share on the server, beyond
   what ClientSession has of them.
3. *ReviewRuns.* The order of mints and revocations as history; the owner's
   page, whose poll every 1.5 seconds ends a lapsed claim; sessions and tasks.
4. *AgentSessions, RateLimiter, RewritePolicy*: the pure decisions checked against a
   reference definition.

Not modelled, and why: the client agent's loop is disabled by default and its
trigger handlers are empty; bug reports, metrics and packages forward what they
are given; the HTTP bridge routes validate and call the router; the rate
limiter, the rewrite policy and the mutation stage are decisions of one call;
the editor, its plugins, the review panel and the interface are code of one
browser's event loop around ProseMirror, whose hazards the client session and
the marks have where they touch the server.
