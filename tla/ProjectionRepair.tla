--------------------------- MODULE ProjectionRepair ---------------------------
(***************************************************************************)
(* The projection of a document (what reads are served from), the Y        *)
(* history it is derived from, and what happens when they part: the        *)
(* guards of a persist, the queue of repairs with its retries and worker,  *)
(* the breakers, and the quarantine that shuts a document (collab.ts),     *)
(* with the owner's repair (canonical-document.ts) and the writers of the  *)
(* row, each of which upserts the projection (db.ts).                      *)
(*                                                                         *)
(* One document.  A text is the number of the change that made it, and so  *)
(* is the version of the history that first had it.  Persists and repairs  *)
(* derive their text in an await; in the code it is a real one while the   *)
(* parser is still loading, and a chain of microtasks afterwards.          *)
(***************************************************************************)
EXTENDS Integers

CONSTANTS MaxText,     \* bound on the changes of the text
          MaxFaults,   \* bound on failures, restarts, invalidations, owner's quarantines
          MaxStrikes,  \* cycles of a breaker (2 in the code)
          MaxTries,    \* runs of a repair (3 in the code)
          Jobs,        \* repairs that may be under way at once
          None         \* nothing resident, no job

ASSUME BoundsAssumption == /\ {MaxText, MaxFaults} \subseteq Nat
                           /\ {MaxStrikes, MaxTries} \subseteq Nat \ {0}
                           /\ Jobs \subseteq Nat
                           /\ None \notin Nat

VARIABLES
  top, kind,      \* the newest text; what the guard says of each against the row
  live, dirty,    \* text of the resident document, or None; a persist is scheduled
  pjob,           \* the text a persist has derived, or None
  log,            \* the text, and version, of the Y history
  row, rowY,      \* documents.markdown and documents.y_state_version
  proj,           \* document_projections
  auto,           \* autoCollabQuarantines has the document
  queue,          \* projectionRepairScheduled, -Running, -RetryIndex, -Reasons
  job,            \* repairProjectionFromFragment at its await
  ojob,           \* repairCanonicalProjection at its await
  growth, drift,  \* collabRepairGuardEscalationBreaker, repeatedFragmentDriftCycles
  blame,          \* bookkeeping: how the projection got a text that is not the history's
  faults

room     == <<live, dirty, pjob>>
rows     == <<row, rowY>>
breakers == <<growth, drift>>
texts    == <<top, kind>>
vars == <<texts, room, log, rows, proj, auto, queue, job, ojob, breakers, blame, faults>>

Texts == 0 .. MaxText
Kinds == {"plain", "pending", "growth", "drift", "repeat"}
Strikes == [count : 0 .. MaxStrikes, counted : BOOLEAN]
NoStrike == [count |-> 0, counted |-> FALSE]
Idle == [scheduled |-> FALSE, running |-> FALSE, tries |-> 0, drift |-> FALSE]

TypeOK ==
  /\ top \in Texts /\ kind \in [Texts -> Kinds]
  /\ live \in Texts \cup {None} /\ pjob \in Texts \cup {None}
  /\ {dirty, auto} \subseteq BOOLEAN
  /\ blame \in {"none", "marks", "repair", "closed"}
  /\ dirty \/ pjob # None => live # None
  /\ log \in 0 .. top /\ row \in 0 .. log /\ rowY \in 0 .. log
  /\ proj \in [text : 0 .. top, y : 0 .. log, integrity : BOOLEAN,
               health : {"healthy", "projection_stale", "quarantined"}]
  /\ queue \in [scheduled : BOOLEAN, running : BOOLEAN, tries : 0 .. MaxTries - 1, drift : BOOLEAN]
  /\ \A j \in Jobs : job[j] # None => /\ job[j].text <= log
                                      /\ job[j].row <= job[j].text
  /\ ojob # None => ojob.text <= top
  /\ {growth, drift} \subseteq Strikes
  /\ faults \in 0 .. MaxFaults

Init ==
  /\ top = 0 /\ kind = [t \in Texts |-> "plain"]
  /\ live = None /\ dirty = FALSE /\ pjob = None
  /\ log = 0 /\ row = 0 /\ rowY = 0
  /\ proj = [text |-> 0, y |-> 0, health |-> "healthy", integrity |-> FALSE]
  /\ auto = FALSE
  /\ queue = Idle
  /\ job = [j \in Jobs |-> None] /\ ojob = None
  /\ growth = NoStrike /\ drift = NoStrike
  /\ blame = "none" /\ faults = 0

------------------------------------------------------------------------------
(* What is asked of the tables, and the helpers that change several. *)

Gate     == auto \/ proj.health = "quarantined"
Fresh    == proj.health = "healthy" /\ proj.y = rowY
Behind   == log > proj.y \/ proj.health # "healthy"

Healthy(t, v) == [text |-> t, y |-> v, health |-> "healthy", integrity |-> FALSE]
Stale         == [proj EXCEPT !.health = "projection_stale", !.integrity = FALSE]

Fault == faults < MaxFaults /\ faults' = faults + 1

\* A cycle of a breaker counts once; a new cycle begins after the state of the
\* repair was cleared.
Struck(b)   == IF b.counted THEN b ELSE [count |-> b.count + 1, counted |-> TRUE]
Trips(b)    == Struck(b).count >= MaxStrikes
NewCycle(b) == [b EXCEPT !.counted = FALSE]

NextCycle   == growth' = NewCycle(growth) /\ drift' = NewCycle(drift)
ClearRepair == queue' = Idle

\* queueProjectionRepair, of a document that is not quarantined.
Queued(drifts) ==
  IF queue.scheduled \/ queue.running
    THEN [queue EXCEPT !.drift = @ \/ drifts]
    ELSE [Idle EXCEPT !.scheduled = TRUE, !.drift = queue.drift \/ drifts]

\* Mutant of Evict: the write of a room that was closed still commits.
Evict_KeepsPersist ==
  /\ live' = None /\ dirty' = FALSE /\ pjob' = pjob
  /\ ClearRepair
  /\ UNCHANGED blame

\* An invalidation: the room is closed, writes that were under way find that
\* they are of an old generation, and the state of the repair is cleared, the
\* mark of one that is running included.
Evict == /\ live' = None /\ dirty' = FALSE /\ pjob' = None
         /\ ClearRepair
         /\ blame' = IF dirty \/ pjob # None THEN "closed" ELSE blame

\* The quarantine of a breaker or a guard: it is in memory for five minutes,
\* and in the projection until something writes that.
Quarantine(integrity) ==
  /\ proj' = [proj EXCEPT !.health = "quarantined", !.integrity = integrity]
  /\ auto' = TRUE
  /\ Evict

------------------------------------------------------------------------------
(* Clients. *)

\* Mutant of Join: only the entry in memory is looked at.
Join_ForgetsDurable ==
  /\ live = None /\ ~auto
  /\ live' = log
  /\ UNCHANGED <<texts, dirty, pjob, log, rows, proj, auto, queue, job, ojob, breakers, blame, faults>>

\* A session is let in unless the document is quarantined.
Join ==
  /\ live = None /\ ~Gate
  /\ live' = log
  /\ UNCHANGED <<texts, dirty, pjob, log, rows, proj, auto, queue, job, ojob, breakers, blame, faults>>

Leave ==
  /\ live # None /\ ~dirty /\ pjob = None
  /\ live' = None
  /\ UNCHANGED <<texts, dirty, pjob, log, rows, proj, auto, queue, job, ojob, breakers, blame, faults>>

NewText(k) == /\ top < MaxText
              /\ top' = top + 1
              /\ kind' = [kind EXCEPT ![top + 1] = k]

\* Mutant of Edit: an edit during a persist does not schedule another.
Edit_MissesInFlight ==
  /\ live # None
  /\ \E k \in Kinds : NewText(k)
  /\ live' = top + 1 /\ dirty' = (pjob = None)
  /\ UNCHANGED <<pjob, log, rows, proj, auto, queue, job, ojob, breakers, blame, faults>>

Edit ==
  /\ live # None
  /\ \E k \in Kinds : NewText(k)
  /\ live' = top + 1 /\ dirty' = TRUE
  /\ UNCHANGED <<pjob, log, rows, proj, auto, queue, job, ojob, breakers, blame, faults>>

------------------------------------------------------------------------------
(* A persist: the text is derived, and then one transaction appends to the  *)
(* history and writes row and projection, or only marks the projection.     *)

BeginPersist ==
  /\ dirty /\ pjob = None /\ ~Gate
  /\ pjob' = live /\ dirty' = FALSE
  /\ UNCHANGED <<texts, live, log, rows, proj, auto, queue, job, ojob, breakers, blame, faults>>

\* The room may still be open, if the owner's repair put back a quarantine that an
\* agent's write had lifted: it is closed by its next persist.
PersistRefused ==
  /\ dirty /\ pjob = None /\ Gate
  /\ Evict /\ NextCycle
  /\ UNCHANGED <<texts, log, rows, proj, auto, job, ojob, faults>>

\* One that had begun writes nothing but the quarantine.
PersistGated ==
  /\ pjob # None /\ pjob' = None /\ Gate
  /\ proj' = [proj EXCEPT !.health = "quarantined"]
  /\ UNCHANGED <<texts, live, dirty, log, rows, auto, queue, job, ojob, breakers, blame, faults>>

\* A persist that does not write the row still appends to the history, and gives
\* the row its version.
Append == /\ log' = live
          /\ rowY' = IF live # log THEN live ELSE rowY
          /\ UNCHANGED row

EndPersist == pjob # None /\ ~Gate /\ pjob' = None /\ UNCHANGED <<texts, job, ojob>>
Stays      == UNCHANGED <<live, dirty, auto>>

\* Nothing was derived.
PersistDerivesNothing ==
  /\ EndPersist /\ Fault
  /\ Append /\ proj' = Stale
  /\ queue' = Queued(FALSE)
  /\ Stays /\ UNCHANGED <<breakers, blame>>

\* The row has the text: only a projection that is behind is written.
PersistUnchanged ==
  /\ EndPersist /\ pjob = row
  /\ IF Fresh THEN Append /\ UNCHANGED <<proj, blame>>
              ELSE /\ proj' = Healthy(pjob, live)
                   /\ log' = live /\ rowY' = live /\ blame' = "none" /\ UNCHANGED row
  /\ Stays /\ UNCHANGED <<queue, breakers, faults>>

PersistWrites ==
  /\ EndPersist /\ pjob # row
  /\ kind[pjob] \in {"plain", "pending"}
  /\ log' = live
  /\ row' = pjob /\ rowY' = live
  /\ proj' = Healthy(pjob, live)
  /\ blame' = "none"
  /\ Stays /\ UNCHANGED <<queue, breakers, faults>>

\* The guard holds the text back.  A cooldown may keep a repair from being
\* queued; the worker comes back to it.
HeldBack(drifts) ==
  /\ Append
  /\ proj' = Stale
  /\ queue' \in {queue, Queued(drifts)}
  /\ Stays

PersistGrows ==
  /\ EndPersist /\ pjob # row /\ kind[pjob] = "growth"
  /\ IF Trips(growth)
       THEN Append /\ Quarantine(FALSE) /\ growth' = NoStrike /\ drift' = NewCycle(drift)
       ELSE HeldBack(FALSE) /\ growth' = Struck(growth) /\ UNCHANGED <<drift, blame>>
  /\ UNCHANGED faults

PersistDrifts ==
  /\ EndPersist /\ pjob # row /\ kind[pjob] = "drift"
  /\ IF Trips(drift)
       THEN Append /\ Quarantine(FALSE) /\ drift' = NoStrike /\ growth' = NewCycle(growth)
       ELSE HeldBack(TRUE) /\ drift' = Struck(drift) /\ UNCHANGED <<growth, blame>>
  /\ UNCHANGED faults

\* A text that repeats the row quarantines the document at once, and is not
\* appended.
PersistRepeats ==
  /\ EndPersist /\ pjob # row /\ kind[pjob] = "repeat"
  /\ Quarantine(FALSE)
  /\ growth' = NewCycle(growth) /\ drift' = NewCycle(drift)
  /\ UNCHANGED <<log, rows, faults>>

\* The fragment of a document nobody edited has lost most of its text.
PersistCollapses ==
  /\ EndPersist /\ Fault
  /\ IF Trips(drift)
       THEN Quarantine(FALSE) /\ drift' = NoStrike
       ELSE /\ proj' = Stale /\ UNCHANGED auto
            /\ live' = None /\ dirty' = FALSE /\ blame' = "closed"
            /\ queue' = [Idle EXCEPT !.scheduled = TRUE, !.drift = TRUE]
            /\ drift' = NewCycle(Struck(drift))
  /\ growth' = NewCycle(growth)
  /\ UNCHANGED <<log, rows>>

------------------------------------------------------------------------------
(* The repair: queued, run after its delay, and run again if it fails. *)

\* Its timer fires.  It stops at once for a quarantined document and for one
\* with pending suggestions.
StartRepair(j) ==
  /\ queue.scheduled
  /\ job[j] = None /\ \A i \in Jobs : i < j => job[i] # None
  /\ \/ /\ queue.running
        /\ queue' = [queue EXCEPT !.scheduled = FALSE]
        /\ UNCHANGED <<job, breakers>>
     \/ /\ ~queue.running /\ (Gate \/ kind[log] = "pending")
        /\ ClearRepair /\ NextCycle
        /\ UNCHANGED job
     \/ /\ ~queue.running /\ ~Gate /\ kind[log] # "pending"
        /\ queue' = [queue EXCEPT !.scheduled = FALSE, !.running = TRUE]
        /\ job' = [job EXCEPT ![j] = [text |-> log, row |-> row, drift |-> queue.drift,
                                      y |-> proj.y, health |-> proj.health]]
        /\ UNCHANGED breakers
  /\ UNCHANGED <<texts, room, log, rows, proj, auto, ojob, blame, faults>>

EndRepair(j) == job[j] # None /\ job' = [job EXCEPT ![j] = None]

RepairFails(j) ==
  /\ EndRepair(j) /\ Fault
  /\ IF queue.tries + 1 >= MaxTries
       THEN ClearRepair /\ NextCycle
       ELSE /\ queue' = [queue EXCEPT !.scheduled = TRUE, !.running = FALSE, !.tries = @ + 1]
            /\ UNCHANGED breakers
  /\ UNCHANGED <<texts, room, log, rows, proj, auto, ojob, blame>>

\* The text it derived, with the version the history has now.
Stamp(t) == /\ proj' = Healthy(t, log)
            /\ rowY' = log
            /\ blame' = IF t # log THEN "repair" ELSE "none"
            /\ UNCHANGED row

\* The row it read already has the text: only what the projection says of
\* itself is repaired.
RepairConverged(j) ==
  /\ EndRepair(j) /\ job[j].text = job[j].row
  /\ IF job[j].health # "healthy" \/ job[j].y # log
       THEN Stamp(job[j].row)
       ELSE UNCHANGED <<proj, rows, blame>>
  /\ ClearRepair /\ NextCycle
  /\ UNCHANGED <<texts, room, log, auto, ojob, faults>>

\* The projection is written; the row keeps its text.  A repair of a drift
\* forgives the growth, too.
RepairWrites(j) ==
  /\ EndRepair(j) /\ job[j].text # job[j].row
  /\ \/ kind[job[j].text] = "plain" /\ drift' = NewCycle(drift)
     \/ /\ kind[job[j].text] = "drift" /\ ~Gate /\ ~Trips(drift)
        /\ drift' = NewCycle(Struck(drift))
  /\ growth' = IF job[j].drift THEN NoStrike ELSE NewCycle(growth)
  /\ Stamp(job[j].text)
  /\ ClearRepair
  /\ UNCHANGED <<texts, room, log, auto, ojob, faults>>

\* The guard blocks the repair: a second cycle of growth or drift quarantines, a
\* repetition does at once, or in a short document has the room loaded again.
RepairBlocked(j) ==
  /\ EndRepair(j) /\ job[j].text # job[j].row
  /\ \/ /\ Gate /\ kind[job[j].text] \in {"growth", "drift", "repeat"}
        /\ ClearRepair /\ NextCycle
        /\ UNCHANGED <<room, proj, auto, blame>>
     \/ /\ ~Gate /\ kind[job[j].text] = "repeat"
        /\ Quarantine(FALSE) \/ (Evict /\ UNCHANGED <<proj, auto>>)
        /\ NextCycle
     \/ /\ ~Gate /\ kind[job[j].text] = "growth" /\ ~Trips(growth)
        /\ ClearRepair
        /\ growth' = NewCycle(Struck(growth)) /\ drift' = NewCycle(drift)
        /\ UNCHANGED <<room, proj, auto, blame>>
     \/ /\ ~Gate /\ kind[job[j].text] = "growth" /\ Trips(growth)
        /\ Quarantine(FALSE) /\ growth' = NoStrike /\ drift' = NewCycle(drift)
     \/ /\ ~Gate /\ kind[job[j].text] = "drift" /\ Trips(drift)
        /\ Quarantine(FALSE) /\ drift' = NoStrike /\ growth' = NewCycle(growth)
  /\ UNCHANGED <<texts, log, rows, ojob, faults>>

\* Mutant of Worker: a projection that was only marked is not looked for.
Worker_IgnoresHealth ==
  /\ log > proj.y /\ ~Gate
  /\ queue' = Queued(FALSE)
  /\ UNCHANGED <<texts, room, log, rows, proj, auto, job, ojob, breakers, blame, faults>>

\* The worker's scan.
Worker ==
  /\ Behind /\ ~Gate
  /\ queue' = Queued(FALSE)
  /\ UNCHANGED <<texts, room, log, rows, proj, auto, job, ojob, breakers, blame, faults>>

\* The window of a breaker passes.
WindowPasses ==
  /\ breakers # <<NoStrike, NoStrike>>
  /\ growth' \in {growth, NoStrike} /\ drift' \in {drift, NoStrike}
  /\ UNCHANGED <<texts, room, log, rows, proj, auto, queue, job, ojob, blame, faults>>

------------------------------------------------------------------------------
(* The owner, agents, and the process. *)

\* POST /repair, of a quarantined document as of any other.
StartOwnerRepair ==
  /\ ojob = None
  /\ ojob' = [text |-> IF live # None THEN live ELSE log,
              keep |-> proj.health = "quarantined" /\ proj.integrity]
  /\ UNCHANGED <<texts, room, log, rows, proj, auto, queue, job, breakers, blame, faults>>

\* It may shrink or grow the text, but not repeat it or let it drift; a
\* quarantine for a warning about integrity that it saw is kept.
EndOwnerRepair ==
  /\ ojob # None /\ ojob' = None
  /\ \/ /\ kind[ojob.text] \in {"drift", "repeat"}
        /\ UNCHANGED <<proj, rows, blame>>
     \/ /\ kind[ojob.text] \notin {"drift", "repeat"}
        /\ proj' = IF ojob.keep
                     THEN [text |-> ojob.text, y |-> log, health |-> "quarantined", integrity |-> TRUE]
                     ELSE Healthy(ojob.text, log)
        /\ rowY' = log
        /\ blame' = IF ojob.text # log THEN "repair" ELSE "none"
        /\ UNCHANGED row
  /\ UNCHANGED <<texts, room, log, auto, queue, job, breakers, faults>>

\* POST /quarantine.
OwnerQuarantines ==
  /\ Fault
  /\ proj' = [proj EXCEPT !.health = "quarantined", !.integrity = FALSE]
  /\ Evict /\ NextCycle
  /\ UNCHANGED <<texts, log, rows, auto, job, ojob>>

\* A warning about the integrity of what an agent has written.
IntegrityWarning ==
  /\ ~Gate /\ Fault
  /\ Quarantine(TRUE) /\ NextCycle
  /\ UNCHANGED <<texts, log, rows, job, ojob>>

QuarantineExpires ==
  /\ auto /\ auto' = FALSE
  /\ UNCHANGED <<texts, room, log, rows, proj, queue, job, ojob, breakers, blame, faults>>

\* An agent's mutation (CanonicalMutation has its steps): history, row,
\* projection and the resident document get its text.
AgentWrite ==
  /\ NewText("plain")
  /\ log' = top + 1 /\ row' = top + 1 /\ rowY' = top + 1
  /\ proj' = Healthy(top + 1, top + 1)
  /\ blame' = "none"
  /\ IF live # None THEN live' = top + 1 /\ dirty' = TRUE ELSE UNCHANGED <<live, dirty>>
  /\ UNCHANGED <<pjob, auto, queue, job, ojob, breakers, faults>>

\* A write of marks copies the row to the projection as it is.
MarksWrite ==
  /\ proj' = Healthy(row, rowY)
  /\ blame' = IF row # log THEN "marks" ELSE "none"
  /\ UNCHANGED <<texts, room, log, rows, auto, queue, job, ojob, breakers, faults>>

\* Any other invalidation.
Invalidate ==
  /\ Fault
  /\ Evict /\ NextCycle
  /\ UNCHANGED <<texts, log, rows, proj, auto, job, ojob>>

Crash ==
  /\ Fault
  /\ Evict
  /\ auto' = FALSE
  /\ job' = [j \in Jobs |-> None] /\ ojob' = None
  /\ growth' = NoStrike /\ drift' = NoStrike
  /\ UNCHANGED <<texts, log, rows, proj>>

------------------------------------------------------------------------------
Repair(j) == RepairConverged(j) \/ RepairWrites(j) \/ RepairBlocked(j)

Next ==
  \/ Join \/ Leave \/ Edit
  \/ BeginPersist \/ PersistRefused \/ PersistGated
  \/ PersistDerivesNothing \/ PersistUnchanged \/ PersistWrites
  \/ PersistGrows \/ PersistDrifts \/ PersistRepeats \/ PersistCollapses
  \/ \E j \in Jobs : StartRepair(j) \/ RepairFails(j) \/ Repair(j)
  \/ Worker \/ WindowPasses
  \/ StartOwnerRepair \/ EndOwnerRepair \/ OwnerQuarantines \/ IntegrityWarning
  \/ QuarantineExpires \/ AgentWrite \/ MarksWrite \/ Invalidate \/ Crash

Spec == Init /\ [][Next]_vars

\* The worker's interval and the timer of a repair come round, and the promise
\* of a derivation settles.
Fairness ==
  /\ WF_vars(Worker)
  /\ \A j \in Jobs : WF_vars(StartRepair(j)) /\ WF_vars(Repair(j))

FairSpec == Spec /\ Fairness

------------------------------------------------------------------------------
(* Properties. *)

\* A projection that says it is healthy, with the version of the history, has the
\* history's text, or a persist of the resident document is still to come.  There
\* are three ways to break this: a repair that was overtaken stamps what it
\* derived before its await with the version it reads after it (collab.ts 5064);
\* a write of marks copies a row that a held-back persist left behind, with the
\* version that persist gave it all the same (7931, db.ts 2240); and the room is
\* closed between a persist that an edit overtook and the persist of that edit.
HealthyIsCurrent ==
  proj.health = "healthy" /\ proj.y = log /\ proj.text # log =>
    dirty \/ pjob # None \/ blame # "none"

\* Under a quarantine nobody enters the room, no repair begins, only an agent
\* changes the history or the row, and the projection is changed only by the
\* owner's repair, a writer of the row, and a repair that began before it.
QuarantineFreezes ==
  [][Gate => /\ live = None => live' = None
             /\ <<log, row>>' # <<log, row>> => AgentWrite
             /\ \A j \in Jobs : job[j] = None => job'[j] = None
             /\ proj'.text # proj.text \/ (proj.health = "quarantined" /\ proj'.health # "quarantined")
                  => \/ AgentWrite \/ MarksWrite
                     \/ ojob # None /\ ojob' = None
                     \/ \E j \in Jobs : EndRepair(j)]_vars

\* A projection that falls behind does not stay there: it is repaired, the
\* document is quarantined, or a guard holds its text back.
StaleHeals == []<>(~Behind \/ Gate \/ kind[log] \in {"growth", "pending", "repeat"})

=============================================================================
