------------------------ MODULE ProjectionRepairProofs ------------------------
(***************************************************************************)
(* Theorems about ProjectionRepair, for any number of changes, failures and *)
(* repairs under way.  Every text a job carries is one the history had, the *)
(* resident document is never behind the history, and whatever stamps a     *)
(* projection as healthy either gives it the text of the history or is one  *)
(* of the three ways to break that which blame names.                       *)
(***************************************************************************)
EXTENDS ProjectionRepair, TLAPS

Healths == {"healthy", "projection_stale", "quarantined"}
Proj  == [text : Texts, y : Texts, integrity : BOOLEAN, health : Healths]
Queue == [scheduled : BOOLEAN, running : BOOLEAN, tries : 0 .. MaxTries - 1, drift : BOOLEAN]
Job   == [text : Texts, row : Texts, drift : BOOLEAN, y : Texts, health : Healths]

TypeInv ==
  /\ top \in Texts /\ kind \in [Texts -> Kinds]
  /\ live \in Texts \cup {None} /\ pjob \in Texts \cup {None}
  /\ dirty \in BOOLEAN /\ auto \in BOOLEAN
  /\ blame \in {"none", "marks", "repair", "closed"}
  /\ log \in Texts /\ row \in Texts /\ rowY \in Texts
  /\ proj \in Proj /\ queue \in Queue
  /\ job \in [Jobs -> Job \cup {None}]
  /\ ojob \in [text : Texts, keep : BOOLEAN] \cup {None}
  /\ growth \in Strikes /\ drift \in Strikes
  /\ faults \in 0 .. MaxFaults

\* No text is newer than what it was derived from, and a persist that an edit has
\* overtaken is followed by another.
OrderInv ==
  /\ log <= top /\ row <= log /\ rowY <= log /\ proj.text <= top /\ proj.y <= log
  /\ live # None => log <= live /\ live <= top
  /\ dirty => live # None
  /\ pjob # None => /\ live # None
                    /\ pjob <= live
                    /\ pjob # live => dirty
  /\ \A j \in Jobs : job[j] # None => job[j].text <= log /\ job[j].row <= job[j].text
  /\ ojob # None => ojob.text <= top

\* A healthy projection with the version of the row has its text, or that of the
\* version.
StampInv ==
  proj.health = "healthy" /\ proj.y = rowY /\ blame = "none" => proj.text \in {row, proj.y}

IInv == TypeInv /\ OrderInv /\ StampInv /\ HealthyIsCurrent

-----------------------------------------------------------------------------
LEMMA Bounds ==
  /\ MaxText \in Nat /\ MaxFaults \in Nat /\ MaxStrikes \in Nat \ {0} /\ MaxTries \in Nat \ {0}
  /\ Jobs \subseteq Nat /\ None \notin Nat
  BY BoundsAssumption

USE Bounds

(* Operators.                                                              *)

LEMMA HealthyForm ==
  ASSUME NEW t, NEW v
  PROVE  /\ t \in Texts /\ v \in Texts => Healthy(t, v) \in Proj
         /\ Healthy(t, v).text = t /\ Healthy(t, v).y = v /\ Healthy(t, v).health = "healthy"
  BY DEF Healthy, Proj, Healths

LEMMA StaleForm ==
  ASSUME proj \in Proj
  PROVE  /\ Stale \in Proj /\ Stale.text = proj.text /\ Stale.y = proj.y
         /\ Stale.health = "projection_stale"
  BY DEF Stale, Proj, Healths

LEMMA QuarantinedForm ==
  ASSUME proj \in Proj, NEW i \in BOOLEAN
  PROVE  /\ LET p == [proj EXCEPT !.health = "quarantined", !.integrity = i] IN
            p \in Proj /\ p.text = proj.text /\ p.y = proj.y /\ p.health = "quarantined"
         /\ LET p == [proj EXCEPT !.health = "quarantined"] IN
            p \in Proj /\ p.text = proj.text /\ p.y = proj.y /\ p.health = "quarantined"
  BY DEF Proj, Healths

LEMMA BreakerForms ==
  ASSUME NEW b \in Strikes
  PROVE  /\ NoStrike \in Strikes /\ NewCycle(b) \in Strikes
         /\ ~Trips(b) => Struck(b) \in Strikes /\ NewCycle(Struck(b)) \in Strikes
  <1>1. NoStrike \in Strikes /\ NewCycle(b) \in Strikes
    <2>1. 0 \in 0 .. MaxStrikes /\ FALSE \in BOOLEAN
      OBVIOUS
    <2>2. NoStrike \in Strikes
      BY <2>1 DEF NoStrike, Strikes
    <2>3. NewCycle(b) \in Strikes
      BY <2>1 DEF NewCycle, Strikes
    <2> QED
      BY <2>2, <2>3
  <1>2. ASSUME ~Trips(b) PROVE Struck(b) \in Strikes
    <2>1. CASE b.counted
      BY <2>1 DEF Struck
    <2>2. CASE ~b.counted
      <3>1. Struck(b) = [count |-> b.count + 1, counted |-> TRUE]
        BY <2>2 DEF Struck
      <3>2. b.count \in 0 .. MaxStrikes /\ ~(b.count + 1 >= MaxStrikes)
        BY <1>2, <3>1 DEF Trips, Strikes
      <3>3. b.count + 1 \in 0 .. MaxStrikes
        BY <3>2
      <3> QED
        BY <3>1, <3>3 DEF Strikes
    <2> QED
      BY <2>1, <2>2
  <1>3. ASSUME ~Trips(b) PROVE NewCycle(Struck(b)) \in Strikes
    BY <1>2, <1>3 DEF NewCycle, Strikes
  <1> QED
    BY <1>1, <1>2, <1>3

LEMMA QueueForms ==
  ASSUME queue \in Queue
  PROVE  Idle \in Queue /\ \A d \in BOOLEAN : Queued(d) \in Queue
  <1>1. Idle \in Queue
    BY DEF Queue, Idle
  <1>2. ASSUME NEW d \in BOOLEAN PROVE Queued(d) \in Queue
    <2> DEFINE late == queue.drift \/ d
    <2>1. late \in BOOLEAN /\ queue.drift \in BOOLEAN
      BY DEF Queue
    <2>2. CASE queue.scheduled \/ queue.running
      <3>1. Queued(d) = [queue EXCEPT !.drift = late]
        BY <2>2 DEF Queued
      <3> QED
        BY <2>1, <3>1 DEF Queue
    <2>3. CASE ~(queue.scheduled \/ queue.running)
      <3>1. Queued(d) = [Idle EXCEPT !.scheduled = TRUE, !.drift = late]
        BY <2>3 DEF Queued
      <3> HIDE DEF late
      <3> QED
        BY <1>1, <2>1, <3>1 DEF Queue
    <2> QED
      BY <2>2, <2>3
  <1> QED
    BY <1>1, <1>2

(* What the helpers leave.                                                 *)

LEMMA FaultTypes ==
  ASSUME TypeInv, Fault
  PROVE  faults' \in 0 .. MaxFaults
  BY DEF TypeInv, Fault

LEMMA NewTextTypes ==
  ASSUME TypeInv, NEW k \in Kinds, NewText(k)
  PROVE  top' = top + 1 /\ top' \in Texts /\ kind' \in [Texts -> Kinds]
  BY DEF TypeInv, NewText, Texts

LEMMA EvictTypes ==
  ASSUME TypeInv, Evict
  PROVE  /\ live' = None /\ dirty' = FALSE /\ pjob' = None
         /\ queue' \in Queue /\ blame' \in {"none", "marks", "repair", "closed"}
         /\ blame' = IF dirty \/ pjob # None THEN "closed" ELSE blame
  BY QueueForms DEF TypeInv, Evict, ClearRepair

LEMMA QuarantineTypes ==
  ASSUME TypeInv, NEW i \in BOOLEAN, Quarantine(i)
  PROVE  /\ proj' \in Proj /\ proj'.text = proj.text /\ proj'.y = proj.y
         /\ proj'.health = "quarantined" /\ auto' \in BOOLEAN
         /\ Evict
  BY QuarantinedForm DEF TypeInv, Quarantine

LEMMA ClearTypes ==
  ASSUME TypeInv, ClearRepair
  PROVE  queue' \in Queue
  BY QueueForms DEF TypeInv, ClearRepair

LEMMA CycleTypes ==
  ASSUME TypeInv, NextCycle
  PROVE  growth' \in Strikes /\ drift' \in Strikes
  BY BreakerForms DEF TypeInv, NextCycle

LEMMA AppendTypes ==
  ASSUME TypeInv, live # None, Append
  PROVE  log' = live /\ log' \in Texts /\ row' = row /\ rowY' \in {live, rowY} /\ rowY' \in Texts
         /\ rowY' = IF live # log THEN live ELSE rowY
  BY DEF TypeInv, Append

LEMMA StampTypes ==
  ASSUME TypeInv, NEW t \in Texts, Stamp(t)
  PROVE  /\ proj' \in Proj /\ proj'.text = t /\ proj'.y = log /\ proj'.health = "healthy"
         /\ rowY' = log /\ row' = row
         /\ blame' = IF t # log THEN "repair" ELSE "none"
         /\ blame' \in {"none", "marks", "repair", "closed"}
  BY HealthyForm DEF TypeInv, Stamp

LEMMA EndRepairTypes ==
  ASSUME TypeInv, NEW j \in Jobs, EndRepair(j)
  PROVE  /\ job' \in [Jobs -> Job \cup {None}] /\ job'[j] = None
         /\ \A i \in Jobs : job'[i] \in {job[i], None}
         /\ job[j] \in Job /\ job[j].text \in Texts /\ job[j].row \in Texts /\ job[j].drift \in BOOLEAN
  <1>1. job[j] \in Job
    BY DEF TypeInv, EndRepair
  <1> QED
    BY <1>1 DEF TypeInv, EndRepair, Job

LEMMA TypeKept ==
  ASSUME TypeInv, OrderInv, [Next]_vars
  PROVE  TypeInv'
  <1>1. CASE Join
    BY <1>1
       DEF Join, texts, rows, breakers, TypeInv, OrderInv
  <1>2. CASE Leave
    BY <1>2
       DEF Leave, texts, rows, breakers, TypeInv, OrderInv
  <1>3. CASE Edit
    BY <1>3, NewTextTypes
       DEF Edit, rows, breakers, TypeInv, OrderInv
  <1>4. CASE BeginPersist
    BY <1>4
       DEF BeginPersist, texts, rows, breakers, TypeInv, OrderInv
  <1>5. CASE PersistRefused
    BY <1>5, EvictTypes, CycleTypes
       DEF PersistRefused, texts, rows, TypeInv, OrderInv
  <1>6. CASE PersistGated
    BY <1>6, QuarantinedForm
       DEF PersistGated, texts, rows, breakers, TypeInv, OrderInv
  <1>7. CASE PersistDerivesNothing
    BY <1>7, FaultTypes, AppendTypes, StaleForm, QueueForms
       DEF PersistDerivesNothing, breakers, EndPersist, texts, Stays, TypeInv, OrderInv
  <1>8. CASE PersistUnchanged
    BY <1>8, AppendTypes, HealthyForm
       DEF PersistUnchanged, breakers, EndPersist, texts, Stays, TypeInv, OrderInv
  <1>9. CASE PersistWrites
    BY <1>9, HealthyForm
       DEF PersistWrites, breakers, EndPersist, texts, Stays, TypeInv, OrderInv
  <1>10. CASE PersistGrows
    BY <1>10, QuarantineTypes, AppendTypes, StaleForm, BreakerForms, QueueForms, EvictTypes
       DEF PersistGrows, EndPersist, texts, HeldBack, Stays, TypeInv, OrderInv
  <1>11. CASE PersistDrifts
    BY <1>11, QuarantineTypes, AppendTypes, StaleForm, BreakerForms, QueueForms, EvictTypes
       DEF PersistDrifts, EndPersist, texts, HeldBack, Stays, TypeInv, OrderInv
  <1>12. CASE PersistRepeats
    <2>1. Quarantine(FALSE) /\ FALSE \in BOOLEAN
      BY <1>12 DEF PersistRepeats
    <2>2. proj' \in Proj /\ auto' \in BOOLEAN /\ Evict
      BY <2>1, QuarantineTypes
    <2>3. growth' \in Strikes /\ drift' \in Strikes
      BY <1>12, BreakerForms DEF PersistRepeats, TypeInv
    <2>4. UNCHANGED <<texts, job, ojob, log, rows, faults>>
      BY <1>12 DEF PersistRepeats, EndPersist
    <2> QED
      BY <2>2, <2>3, <2>4, EvictTypes DEF texts, rows, TypeInv
  <1>13. CASE PersistCollapses
    <2> DEFINE again == [Idle EXCEPT !.scheduled = TRUE, !.drift = TRUE]
    <2>1. again \in Queue
      <3>1. TRUE \in BOOLEAN /\ Idle \in Queue
        BY QueueForms DEF TypeInv
      <3> QED
        BY <3>1 DEF Queue
    <2>2. faults' \in 0 .. MaxFaults /\ UNCHANGED <<texts, job, ojob, log, rows>>
      BY <1>13, FaultTypes DEF PersistCollapses, EndPersist
    <2>3. growth' \in Strikes
      BY <1>13, BreakerForms DEF PersistCollapses, TypeInv
    <2>4. CASE Trips(drift)
      <3>1. Quarantine(FALSE) /\ FALSE \in BOOLEAN /\ drift' = NoStrike
        BY <1>13, <2>4 DEF PersistCollapses
      <3>2. proj' \in Proj /\ auto' \in BOOLEAN /\ Evict
        BY <3>1, QuarantineTypes
      <3> QED
        BY <2>2, <2>3, <3>1, <3>2, EvictTypes, BreakerForms DEF texts, rows, TypeInv
    <2>5. CASE ~Trips(drift)
      <3>1. /\ proj' = Stale /\ auto' = auto /\ live' = None /\ dirty' = FALSE /\ blame' = "closed"
            /\ queue' = again /\ drift' = NewCycle(Struck(drift)) /\ pjob' = None
        BY <1>13, <2>5 DEF PersistCollapses, EndPersist
      <3> HIDE DEF again
      <3> QED
        BY <2>1, <2>2, <2>3, <2>5, <3>1, StaleForm, BreakerForms DEF texts, rows, TypeInv
    <2> QED
      BY <2>4, <2>5
  <1>14. ASSUME NEW j \in Jobs, StartRepair(j) PROVE TypeInv'
    <2> DEFINE begun == [text |-> log, row |-> row, drift |-> queue.drift,
                         y |-> proj.y, health |-> proj.health]
    <2>1. begun \in Job
      BY DEF TypeInv, Proj, Queue, Job
    <2>2. job' = job \/ job' = [job EXCEPT ![j] = begun]
      BY <1>14 DEF StartRepair
    <2> HIDE DEF begun
    <2>3. job' \in [Jobs -> Job \cup {None}]
      BY <2>1, <2>2 DEF TypeInv
    <2>4. queue' \in Queue
      <3>1. CASE ClearRepair
        BY <3>1, ClearTypes
      <3>2. CASE queue' = [queue EXCEPT !.scheduled = FALSE]
        BY <3>2 DEF TypeInv, Queue
      <3>3. CASE queue' = [queue EXCEPT !.scheduled = FALSE, !.running = TRUE]
        BY <3>3 DEF TypeInv, Queue
      <3> QED
        BY <1>14, <3>1, <3>2, <3>3 DEF StartRepair
    <2>5. growth' \in Strikes /\ drift' \in Strikes
      BY <1>14, CycleTypes DEF StartRepair, breakers, TypeInv
    <2> QED
      BY <1>14, <2>3, <2>4, <2>5 DEF StartRepair, texts, room, rows, TypeInv
  <1>15. ASSUME NEW j \in Jobs, RepairFails(j) PROVE TypeInv'
    <2>1. queue' \in Queue /\ growth' \in Strikes /\ drift' \in Strikes
      <3>1. CASE queue.tries + 1 >= MaxTries
        BY <1>15, <3>1, ClearTypes, CycleTypes DEF RepairFails
      <3>2. CASE ~(queue.tries + 1 >= MaxTries)
        <4> DEFINE tries == queue.tries + 1
        <4>1. tries \in 0 .. MaxTries - 1
          BY <3>2 DEF TypeInv, Queue
        <4>2. queue' = [queue EXCEPT !.scheduled = TRUE, !.running = FALSE, !.tries = tries]
              /\ growth' = growth /\ drift' = drift
          BY <1>15, <3>2 DEF RepairFails, breakers
        <4> HIDE DEF tries
        <4> QED
          BY <4>1, <4>2 DEF TypeInv, Queue
      <3> QED
        BY <3>1, <3>2
    <2> QED
      BY <1>15, <2>1, FaultTypes, EndRepairTypes DEF RepairFails, texts, room, rows, TypeInv
  <1>16. ASSUME NEW j \in Jobs, RepairConverged(j) PROVE TypeInv'
    BY <1>16, ClearTypes, CycleTypes, EndRepairTypes, StampTypes
       DEF RepairConverged, texts, room, rows, TypeInv, OrderInv
  <1>17. ASSUME NEW j \in Jobs, RepairWrites(j) PROVE TypeInv'
    BY <1>17, ClearTypes, EndRepairTypes, StampTypes, BreakerForms
       DEF RepairWrites, texts, room, TypeInv, OrderInv
  <1>18. ASSUME NEW j \in Jobs, RepairBlocked(j) PROVE TypeInv'
    BY <1>18, EvictTypes, ClearTypes, CycleTypes, QuarantineTypes, EndRepairTypes,
       BreakerForms
       DEF RepairBlocked, texts, room, rows, TypeInv, OrderInv
  <1>19. CASE Worker
    BY <1>19, QueueForms
       DEF Worker, texts, room, rows, breakers, TypeInv, OrderInv
  <1>20. CASE WindowPasses
    BY <1>20, BreakerForms
       DEF WindowPasses, texts, room, rows, breakers, TypeInv, OrderInv
  <1>21. CASE StartOwnerRepair
    BY <1>21
       DEF StartOwnerRepair, texts, room, rows, breakers, TypeInv, OrderInv
  <1>22. CASE EndOwnerRepair
    <2>1. ojob \in [text : Texts, keep : BOOLEAN] /\ ojob.text \in Texts
      BY <1>22 DEF EndOwnerRepair, TypeInv
    <2> DEFINE kept == [text |-> ojob.text, y |-> log, health |-> "quarantined", integrity |-> TRUE]
    <2>2. kept \in Proj
      BY <2>1 DEF TypeInv, Proj, Healths
    <2>3. proj' \in {proj, kept, Healthy(ojob.text, log)}
      BY <1>22 DEF EndOwnerRepair
    <2> HIDE DEF kept
    <2>4. proj' \in Proj
      BY <2>1, <2>2, <2>3, HealthyForm DEF TypeInv
    <2>5. rowY' \in Texts /\ blame' \in {"none", "marks", "repair", "closed"} /\ row' = row
      BY <1>22 DEF EndOwnerRepair, TypeInv, rows
    <2> QED
      BY <1>22, <2>4, <2>5 DEF EndOwnerRepair, texts, room, breakers, TypeInv
  <1>23. CASE OwnerQuarantines
    BY <1>23, FaultTypes, EvictTypes, CycleTypes, QuarantinedForm
       DEF OwnerQuarantines, texts, rows, TypeInv, OrderInv
  <1>24. CASE IntegrityWarning
    BY <1>24, FaultTypes, CycleTypes, QuarantineTypes, EvictTypes
       DEF IntegrityWarning, texts, rows, TypeInv, OrderInv
  <1>25. CASE QuarantineExpires
    BY <1>25
       DEF QuarantineExpires, texts, room, rows, breakers, TypeInv, OrderInv
  <1>26. CASE AgentWrite
    <2>1. "plain" \in Kinds
      BY DEF Kinds
    <2>2. top' = top + 1 /\ top' \in Texts /\ kind' \in [Texts -> Kinds]
      BY <1>26, <2>1, NewTextTypes DEF AgentWrite
    <2>3. proj' \in Proj
      BY <1>26, <2>2, HealthyForm DEF AgentWrite
    <2>4. log' = top' /\ row' = top' /\ rowY' = top' /\ blame' = "none"
      BY <1>26, <2>2 DEF AgentWrite
    <2>5. live' \in Texts \cup {None} /\ dirty' \in BOOLEAN
      BY <1>26, <2>2 DEF AgentWrite, TypeInv
    <2>6. UNCHANGED <<pjob, auto, queue, job, ojob, growth, drift, faults>>
      BY <1>26 DEF AgentWrite, breakers
    <2> QED
      BY <2>2, <2>3, <2>4, <2>5, <2>6 DEF TypeInv
  <1>27. CASE MarksWrite
    BY <1>27, HealthyForm
       DEF MarksWrite, texts, room, rows, breakers, TypeInv, OrderInv
  <1>28. CASE Invalidate
    BY <1>28, FaultTypes, EvictTypes, CycleTypes
       DEF Invalidate, texts, rows, TypeInv, OrderInv
  <1>29. CASE Crash
    BY <1>29, FaultTypes, EvictTypes, BreakerForms
       DEF Crash, texts, rows, TypeInv, OrderInv
  <1>30. CASE UNCHANGED vars
    BY <1>30
       DEF vars, texts, room, rows, breakers, TypeInv, OrderInv
  <1> QED
    BY <1>1, <1>2, <1>3, <1>4, <1>5, <1>6, <1>7, <1>8, <1>9, <1>10, <1>11, <1>12, <1>13,
       <1>14, <1>15, <1>16, <1>17, <1>18, <1>19, <1>20, <1>21, <1>22, <1>23, <1>24, <1>25,
       <1>26, <1>27, <1>28, <1>29, <1>30 DEF Next, Repair

(* What every persist, and every repair, leaves of the order.               *)

LEMMA PersistOrder ==
  ASSUME TypeInv, TypeInv', OrderInv, pjob # None, pjob' = None,
         UNCHANGED <<top, job, ojob>>, log' \in {log, live},
         row' = row \/ (row' = pjob /\ log' = live),
         rowY' = rowY \/ (rowY' = live /\ log' = live),
         proj'.text \in {proj.text, pjob},
         proj'.y = proj.y \/ (proj'.y = live /\ log' = live),
         (live' = live /\ dirty' = dirty) \/ (live' = None /\ dirty' = FALSE)
  PROVE  OrderInv'
  <1>1. /\ top \in Nat /\ live \in Nat /\ pjob \in Nat /\ log \in Nat /\ row \in Nat /\ rowY \in Nat
        /\ proj.text \in Nat /\ proj.y \in Nat
    BY DEF TypeInv, OrderInv, Texts, Proj
  <1>2. log <= live /\ live <= top /\ pjob <= live /\ row <= log /\ rowY <= log
        /\ proj.text <= top /\ proj.y <= log /\ log <= top
    BY DEF OrderInv
  <1>3. log <= log' /\ log' <= top
    BY <1>1, <1>2
  <1>4. row' <= log' /\ rowY' <= log' /\ proj'.text <= top' /\ proj'.y <= log'
    BY <1>1, <1>2, <1>3
  <1>5. ASSUME NEW j \in Jobs, job'[j] # None
        PROVE  job'[j].text <= log' /\ job'[j].row <= job'[j].text
    <2>1. job[j] \in Job /\ job[j].text \in Nat /\ job'[j] = job[j]
      BY <1>5 DEF TypeInv, Job, Texts
    <2>2. job[j].text <= log /\ job[j].row <= job[j].text
      BY <1>5, <2>1 DEF OrderInv
    <2> QED
      BY <1>1, <1>3, <2>1, <2>2
  <1>6. live' # None => log' <= live' /\ live' <= top'
    BY <1>1, <1>2
  <1> QED
    BY <1>3, <1>4, <1>5, <1>6 DEF OrderInv

LEMMA RepairOrder ==
  ASSUME TypeInv, TypeInv', OrderInv, UNCHANGED <<top, log, row, ojob>>,
         \A j \in Jobs : job'[j] \in {job[j], None},
         rowY' \in {rowY, log}, proj'.text \in 0 .. top, proj'.y \in {proj.y, log},
         UNCHANGED room \/ (live' = None /\ dirty' = FALSE /\ pjob' = None)
  PROVE  OrderInv'
  <1>1. top \in Nat /\ log \in Nat /\ rowY \in Nat /\ proj.y \in Nat
    BY DEF TypeInv, Texts, Proj
  <1>2. rowY' <= log' /\ proj'.text <= top' /\ proj'.y <= log'
    BY <1>1 DEF OrderInv
  <1>3. ASSUME NEW j \in Jobs, job'[j] # None
        PROVE  job'[j].text <= log' /\ job'[j].row <= job'[j].text
    BY <1>3 DEF OrderInv
  <1>4. /\ live' # None => log' <= live' /\ live' <= top'
        /\ dirty' => live' # None
        /\ pjob' # None => live' # None /\ pjob' <= live' /\ (pjob' # live' => dirty')
    BY DEF OrderInv, room
  <1> QED
    BY <1>2, <1>3, <1>4 DEF OrderInv

\* What a repair derived is not newer than the history.
LEMMA JobOrder ==
  ASSUME TypeInv, OrderInv, NEW j \in Jobs, EndRepair(j)
  PROVE  job[j].text \in 0 .. top /\ job[j].row \in 0 .. top
  <1>1. job[j].text \in Nat /\ job[j].row \in Nat /\ log \in Nat /\ top \in Nat
    BY EndRepairTypes DEF TypeInv, Texts
  <1>2. job[j].text <= log /\ job[j].row <= job[j].text /\ log <= top
    BY DEF EndRepair, OrderInv
  <1> QED
    BY <1>1, <1>2

LEMMA OrderKept ==
  ASSUME TypeInv, TypeInv', OrderInv, [Next]_vars
  PROVE  OrderInv'
  <1>1. CASE Join
    BY <1>1
       DEF Join, texts, rows, breakers, TypeInv, OrderInv, Texts, Proj
  <1>2. CASE Leave
    BY <1>2
       DEF Leave, texts, rows, breakers, TypeInv, OrderInv, Texts, Proj
  <1>3. CASE Edit
    BY <1>3, NewTextTypes
       DEF Edit, rows, breakers, TypeInv, OrderInv, Texts, Proj
  <1>4. CASE BeginPersist
    BY <1>4
       DEF BeginPersist, texts, rows, breakers, TypeInv, OrderInv, Texts, Proj
  <1>5. CASE PersistRefused
    BY <1>5, EvictTypes, CycleTypes
       DEF PersistRefused, texts, rows, TypeInv, OrderInv, Texts, Proj
  <1>6. CASE PersistGated
    <2>1. proj'.text = proj.text /\ proj'.y = proj.y
      BY <1>6, QuarantinedForm DEF PersistGated, TypeInv
    <2> QED
      BY <1>6, <2>1, PersistOrder DEF PersistGated, texts, rows
  <1>7. CASE PersistDerivesNothing
    <2>1. /\ pjob # None /\ pjob' = None /\ live # None
          /\ UNCHANGED <<top, job, ojob, live, dirty>>
      BY <1>7 DEF PersistDerivesNothing, EndPersist, Stays, texts, OrderInv
    <2>2. /\ log' = live /\ (row' = row \/ row' = pjob) /\ rowY' \in {rowY, live}
          /\ proj'.text \in {proj.text, pjob} /\ proj'.y \in {proj.y, live}
      BY <1>7, <2>1, AppendTypes, StaleForm DEF PersistDerivesNothing, TypeInv
    <2> QED
      BY <2>1, <2>2, PersistOrder
  <1>8. CASE PersistUnchanged
    <2>1. /\ pjob # None /\ pjob' = None /\ live # None
          /\ UNCHANGED <<top, job, ojob, live, dirty>>
      BY <1>8 DEF PersistUnchanged, EndPersist, Stays, texts, OrderInv
    <2>2. /\ log' = live /\ (row' = row \/ row' = pjob) /\ rowY' \in {rowY, live}
          /\ proj'.text \in {proj.text, pjob} /\ proj'.y \in {proj.y, live}
      BY <1>8, <2>1, AppendTypes, HealthyForm DEF PersistUnchanged, TypeInv
    <2> QED
      BY <2>1, <2>2, PersistOrder
  <1>9. CASE PersistWrites
    <2>1. /\ pjob # None /\ pjob' = None /\ live # None
          /\ UNCHANGED <<top, job, ojob, live, dirty>>
      BY <1>9 DEF PersistWrites, EndPersist, Stays, texts, OrderInv
    <2>2. /\ log' = live /\ (row' = row \/ row' = pjob) /\ rowY' \in {rowY, live}
          /\ proj'.text \in {proj.text, pjob} /\ proj'.y \in {proj.y, live}
      BY <1>9, <2>1, AppendTypes, HealthyForm DEF PersistWrites, TypeInv
    <2> QED
      BY <2>1, <2>2, PersistOrder
  <1>10. CASE PersistGrows
    <2>1. /\ pjob # None /\ pjob' = None /\ live # None /\ Append /\ UNCHANGED <<top, job, ojob>>
          /\ FALSE \in BOOLEAN
      BY <1>10 DEF PersistGrows, HeldBack, EndPersist, texts, OrderInv
    <2>2. log' = live /\ row' = row /\ rowY' \in {rowY, live}
      BY <2>1, AppendTypes
    <2>3. CASE Trips(growth)
      <3>1. Quarantine(FALSE)
        BY <1>10, <2>3 DEF PersistGrows
      <3> QED
        BY <2>1, <2>2, <3>1, QuarantineTypes, EvictTypes, PersistOrder
    <2>4. CASE ~Trips(growth)
      <3>1. proj' = Stale /\ live' = live /\ dirty' = dirty
        BY <1>10, <2>4 DEF PersistGrows, HeldBack, Stays
      <3> QED
        BY <2>1, <2>2, <3>1, StaleForm, PersistOrder DEF TypeInv
    <2> QED
      BY <2>3, <2>4
  <1>11. CASE PersistDrifts
    <2>1. /\ pjob # None /\ pjob' = None /\ live # None /\ Append /\ UNCHANGED <<top, job, ojob>>
          /\ FALSE \in BOOLEAN
      BY <1>11 DEF PersistDrifts, HeldBack, EndPersist, texts, OrderInv
    <2>2. log' = live /\ row' = row /\ rowY' \in {rowY, live}
      BY <2>1, AppendTypes
    <2>3. CASE Trips(drift)
      <3>1. Quarantine(FALSE)
        BY <1>11, <2>3 DEF PersistDrifts
      <3> QED
        BY <2>1, <2>2, <3>1, QuarantineTypes, EvictTypes, PersistOrder
    <2>4. CASE ~Trips(drift)
      <3>1. proj' = Stale /\ live' = live /\ dirty' = dirty
        BY <1>11, <2>4 DEF PersistDrifts, HeldBack, Stays
      <3> QED
        BY <2>1, <2>2, <3>1, StaleForm, PersistOrder DEF TypeInv
    <2> QED
      BY <2>3, <2>4
  <1>12. CASE PersistRepeats
    BY <1>12, QuarantineTypes, BreakerForms, EvictTypes
       DEF PersistRepeats, rows, EndPersist, texts, TypeInv, OrderInv, Texts, Proj
  <1>13. CASE PersistCollapses
    BY <1>13, FaultTypes, QuarantineTypes, StaleForm, BreakerForms, QueueForms, EvictTypes
       DEF PersistCollapses, rows, EndPersist, texts, TypeInv, OrderInv, Texts, Proj
  <1>14. ASSUME NEW j \in Jobs, StartRepair(j) PROVE OrderInv'
    BY <1>14, ClearTypes, CycleTypes
       DEF StartRepair, texts, room, rows, breakers, TypeInv, OrderInv, Texts, Proj
  <1>15. ASSUME NEW j \in Jobs, RepairFails(j) PROVE OrderInv'
    <2>1. /\ UNCHANGED <<top, log, row, rowY, ojob, proj>> /\ UNCHANGED room
          /\ \A i \in Jobs : job'[i] \in {job[i], None}
      BY <1>15, EndRepairTypes DEF RepairFails, texts, rows
    <2>2. proj'.text \in 0 .. top
      BY <2>1 DEF TypeInv, OrderInv, Proj, Texts
    <2> QED
      BY <2>1, <2>2, RepairOrder
  <1>16. ASSUME NEW j \in Jobs, RepairConverged(j) PROVE OrderInv'
    <2>1. /\ UNCHANGED <<top, log, ojob>> /\ UNCHANGED room /\ EndRepair(j)
          /\ \A i \in Jobs : job'[i] \in {job[i], None}
      BY <1>16, EndRepairTypes DEF RepairConverged, texts
    <2>2. CASE Stamp(job[j].text) \/ Stamp(job[j].row)
      BY <2>1, <2>2, JobOrder, EndRepairTypes, StampTypes, RepairOrder
    <2>3. CASE UNCHANGED <<proj, rows>>
      <3>1. proj'.text \in 0 .. top
        BY <2>3 DEF TypeInv, OrderInv, Proj, Texts
      <3> QED
        BY <2>1, <2>3, <3>1, RepairOrder DEF rows
    <2> QED
      BY <1>16, <2>2, <2>3 DEF RepairConverged
  <1>17. ASSUME NEW j \in Jobs, RepairWrites(j) PROVE OrderInv'
    <2>1. /\ UNCHANGED <<top, log, ojob>> /\ UNCHANGED room /\ EndRepair(j)
          /\ \A i \in Jobs : job'[i] \in {job[i], None}
      BY <1>17, EndRepairTypes DEF RepairWrites, texts
    <2>2. CASE Stamp(job[j].text) \/ Stamp(job[j].row)
      BY <2>1, <2>2, JobOrder, EndRepairTypes, StampTypes, RepairOrder
    <2>3. CASE UNCHANGED <<proj, rows>>
      <3>1. proj'.text \in 0 .. top
        BY <2>3 DEF TypeInv, OrderInv, Proj, Texts
      <3> QED
        BY <2>1, <2>3, <3>1, RepairOrder DEF rows
    <2> QED
      BY <1>17, <2>2, <2>3 DEF RepairWrites
  <1>18. ASSUME NEW j \in Jobs, RepairBlocked(j) PROVE OrderInv'
    <2>1. /\ UNCHANGED <<top, log, row, rowY, ojob>> /\ EndRepair(j) /\ FALSE \in BOOLEAN
          /\ \A i \in Jobs : job'[i] \in {job[i], None}
      BY <1>18, EndRepairTypes DEF RepairBlocked, texts, rows
    <2>2. proj.text \in 0 .. top
      BY DEF TypeInv, OrderInv, Proj, Texts
    <2>3. CASE Quarantine(FALSE)
      BY <2>1, <2>2, <2>3, QuarantineTypes, EvictTypes, RepairOrder
    <2>4. CASE proj' = proj /\ (UNCHANGED room \/ Evict)
      BY <2>1, <2>2, <2>4, EvictTypes, RepairOrder
    <2> QED
      BY <1>18, <2>3, <2>4 DEF RepairBlocked
  <1>19. CASE Worker
    BY <1>19, QueueForms
       DEF Worker, texts, room, rows, breakers, TypeInv, OrderInv, Texts, Proj
  <1>20. CASE WindowPasses
    BY <1>20, BreakerForms
       DEF WindowPasses, texts, room, rows, breakers, TypeInv, OrderInv, Texts, Proj
  <1>21. CASE StartOwnerRepair
    BY <1>21
       DEF StartOwnerRepair, texts, room, rows, breakers, TypeInv, OrderInv, Texts, Proj
  <1>22. CASE EndOwnerRepair
    BY <1>22, HealthyForm
       DEF EndOwnerRepair, texts, room, rows, breakers, TypeInv, OrderInv, Texts, Proj
  <1>23. CASE OwnerQuarantines
    BY <1>23, FaultTypes, EvictTypes, CycleTypes, QuarantinedForm
       DEF OwnerQuarantines, texts, rows, TypeInv, OrderInv, Texts, Proj
  <1>24. CASE IntegrityWarning
    BY <1>24, FaultTypes, CycleTypes, QuarantineTypes, EvictTypes
       DEF IntegrityWarning, texts, rows, TypeInv, OrderInv, Texts, Proj
  <1>25. CASE QuarantineExpires
    BY <1>25
       DEF QuarantineExpires, texts, room, rows, breakers, TypeInv, OrderInv, Texts, Proj
  <1>26. CASE AgentWrite
    <2>1. "plain" \in Kinds
      BY DEF Kinds
    <2>2. top' = top + 1 /\ top \in Nat
      BY <1>26, <2>1, NewTextTypes DEF AgentWrite, TypeInv, Texts
    <2>3. /\ log' = top' /\ row' = top' /\ rowY' = top' /\ proj'.text = top' /\ proj'.y = top'
          /\ (live # None => live' = top' /\ dirty' = TRUE) /\ (live = None => live' = live /\ dirty' = dirty)
          /\ UNCHANGED <<pjob, job, ojob>>
      BY <1>26, <2>2, HealthyForm DEF AgentWrite
    <2>4. ASSUME NEW j \in Jobs, job'[j] # None
          PROVE  job'[j].text <= log' /\ job'[j].row <= job'[j].text
      <3>1. job[j] \in Job /\ job[j].text \in Nat /\ log \in Nat
        BY <2>3, <2>4 DEF TypeInv, Job, Texts
      <3>2. job[j].text <= log /\ log <= top /\ job[j].row <= job[j].text
        BY <2>3, <2>4 DEF OrderInv
      <3> QED
        BY <2>2, <2>3, <3>1, <3>2
    <2>5. ojob' # None => ojob'.text <= top'
      BY <2>2, <2>3 DEF TypeInv, OrderInv, Texts
    <2>6. pjob' # None => live' # None /\ pjob' <= live' /\ dirty'
      <3>1. pjob # None => pjob \in Nat /\ live # None /\ live \in Nat /\ pjob <= live /\ live <= top
        BY DEF TypeInv, OrderInv, Texts
      <3> QED
        BY <2>2, <2>3, <3>1
    <2>7. live' # None => live' = top'
      BY <2>3
    <2>8. top' \in Nat /\ None # top'
      BY <2>2
    <2> QED
      <3>1. log' <= top' /\ row' <= log' /\ rowY' <= log' /\ proj'.text <= top' /\ proj'.y <= log'
        BY <2>3, <2>8
      <3>2. live' # None => log' <= live' /\ live' <= top'
        BY <2>3, <2>7, <2>8
      <3>3. dirty' => live' # None
        BY <2>3, <2>8 DEF OrderInv
      <3> QED
        BY <2>4, <2>5, <2>6, <3>1, <3>2, <3>3 DEF OrderInv
  <1>27. CASE MarksWrite
    BY <1>27, HealthyForm
       DEF MarksWrite, texts, room, rows, breakers, TypeInv, OrderInv, Texts, Proj
  <1>28. CASE Invalidate
    BY <1>28, FaultTypes, EvictTypes, CycleTypes
       DEF Invalidate, texts, rows, TypeInv, OrderInv, Texts, Proj
  <1>29. CASE Crash
    BY <1>29, FaultTypes, EvictTypes, BreakerForms
       DEF Crash, texts, rows, TypeInv, OrderInv, Texts, Proj
  <1>30. CASE UNCHANGED vars
    BY <1>30
       DEF vars, texts, room, rows, breakers, TypeInv, OrderInv, Texts, Proj
  <1> QED
    BY <1>1, <1>2, <1>3, <1>4, <1>5, <1>6, <1>7, <1>8, <1>9, <1>10, <1>11, <1>12, <1>13,
       <1>14, <1>15, <1>16, <1>17, <1>18, <1>19, <1>20, <1>21, <1>22, <1>23, <1>24, <1>25,
       <1>26, <1>27, <1>28, <1>29, <1>30 DEF Next, Repair

LEMMA CurrentKept ==
  ASSUME IInv, TypeInv', OrderInv', [Next]_vars
  PROVE  StampInv' /\ HealthyIsCurrent'
  <1>1. CASE Join
    BY <1>1
       DEF Join, texts, rows, breakers, IInv, TypeInv, OrderInv, StampInv, HealthyIsCurrent
  <1>2. CASE Leave
    BY <1>2
       DEF Leave, texts, rows, breakers, IInv, TypeInv, OrderInv, StampInv, HealthyIsCurrent
  <1>3. CASE Edit
    BY <1>3, NewTextTypes
       DEF Edit, rows, breakers, IInv, TypeInv, OrderInv, StampInv, HealthyIsCurrent
  <1>4. CASE BeginPersist
    BY <1>4
       DEF BeginPersist, texts, rows, breakers, IInv, TypeInv, OrderInv, StampInv,
           HealthyIsCurrent
  <1>5. CASE PersistRefused
    BY <1>5, EvictTypes, CycleTypes
       DEF PersistRefused, texts, rows, IInv, TypeInv, OrderInv, StampInv, HealthyIsCurrent
  <1>6. CASE PersistGated
    BY <1>6, QuarantinedForm
       DEF PersistGated, texts, rows, breakers, IInv, TypeInv, OrderInv, StampInv,
           HealthyIsCurrent
  <1>7. CASE PersistDerivesNothing
    BY <1>7, FaultTypes, AppendTypes, StaleForm, QueueForms
       DEF PersistDerivesNothing, breakers, EndPersist, texts, Stays, IInv, TypeInv,
           OrderInv, StampInv, HealthyIsCurrent
  <1>8. CASE PersistUnchanged
    <2>1. /\ pjob # None /\ pjob' = None /\ live # None /\ pjob = row
          /\ UNCHANGED <<live, dirty>>
      BY <1>8 DEF PersistUnchanged, EndPersist, Stays, IInv, OrderInv
    <2>2. CASE ~Fresh
      BY <1>8, <2>1, <2>2, HealthyForm DEF PersistUnchanged, IInv, OrderInv, StampInv, HealthyIsCurrent
    <2>3. CASE Fresh
      <3>1. proj' = proj /\ blame' = blame /\ log' = live /\ row' = row
            /\ rowY' = IF live # log THEN live ELSE rowY
        BY <1>8, <2>1, <2>3, AppendTypes DEF PersistUnchanged, IInv
      <3>2. /\ live \in Nat /\ log \in Nat /\ proj.y \in Nat /\ proj.y <= log /\ log <= live
            /\ proj.health = "healthy" /\ proj.y = rowY
        BY <2>1, <2>3 DEF Fresh, IInv, TypeInv, OrderInv, Proj, Texts
      <3>3. CASE live = log
        <4>1. StampInv'
          BY <3>1, <3>3 DEF IInv, StampInv
        <4>2. ASSUME proj.y = log, proj.text # log, ~dirty, blame = "none" PROVE FALSE
          <5>1. pjob = live
            BY <2>1, <4>2 DEF IInv, OrderInv
          <5> QED
            BY <2>1, <3>2, <3>3, <4>2, <5>1 DEF IInv, StampInv
        <4>3. blame \in {"none", "marks", "repair", "closed"}
          BY DEF IInv, TypeInv
        <4> QED
          BY <2>1, <3>1, <3>3, <4>1, <4>2 DEF HealthyIsCurrent
      <3>4. CASE live # log
        <4>1. proj'.y # log' /\ proj'.y # rowY'
          BY <3>1, <3>2, <3>4
        <4> QED
          BY <4>1 DEF StampInv, HealthyIsCurrent
      <3> QED
        BY <3>3, <3>4
    <2> QED
      BY <2>2, <2>3
  <1>9. CASE PersistWrites
    BY <1>9, HealthyForm
       DEF PersistWrites, breakers, EndPersist, texts, Stays, IInv, TypeInv, OrderInv,
           StampInv, HealthyIsCurrent
  <1>10. CASE PersistGrows
    BY <1>10, QuarantineTypes, AppendTypes, StaleForm, BreakerForms, QueueForms, EvictTypes
       DEF PersistGrows, EndPersist, texts, HeldBack, Stays, IInv, TypeInv, OrderInv,
           StampInv, HealthyIsCurrent
  <1>11. CASE PersistDrifts
    BY <1>11, QuarantineTypes, AppendTypes, StaleForm, BreakerForms, QueueForms, EvictTypes
       DEF PersistDrifts, EndPersist, texts, HeldBack, Stays, IInv, TypeInv, OrderInv,
           StampInv, HealthyIsCurrent
  <1>12. CASE PersistRepeats
    BY <1>12, QuarantineTypes, BreakerForms, EvictTypes
       DEF PersistRepeats, rows, EndPersist, texts, IInv, TypeInv, OrderInv, StampInv,
           HealthyIsCurrent
  <1>13. CASE PersistCollapses
    BY <1>13, FaultTypes, QuarantineTypes, StaleForm, BreakerForms, QueueForms, EvictTypes
       DEF PersistCollapses, rows, EndPersist, texts, IInv, TypeInv, OrderInv, StampInv,
           HealthyIsCurrent
  <1>14. ASSUME NEW j \in Jobs, StartRepair(j) PROVE StampInv' /\ HealthyIsCurrent'
    BY <1>14, ClearTypes, CycleTypes
       DEF StartRepair, texts, room, rows, breakers, IInv, TypeInv, OrderInv, StampInv,
           HealthyIsCurrent
  <1>15. ASSUME NEW j \in Jobs, RepairFails(j) PROVE StampInv' /\ HealthyIsCurrent'
    BY <1>15, FaultTypes, ClearTypes, CycleTypes, EndRepairTypes
       DEF RepairFails, texts, room, rows, breakers, IInv, TypeInv, OrderInv, StampInv,
           HealthyIsCurrent
  <1>16. ASSUME NEW j \in Jobs, RepairConverged(j) PROVE StampInv' /\ HealthyIsCurrent'
    BY <1>16, ClearTypes, CycleTypes, EndRepairTypes, StampTypes
       DEF RepairConverged, texts, room, rows, IInv, TypeInv, OrderInv, StampInv,
           HealthyIsCurrent
  <1>17. ASSUME NEW j \in Jobs, RepairWrites(j) PROVE StampInv' /\ HealthyIsCurrent'
    <2>1. Stamp(job[j].text) /\ EndRepair(j) /\ log' = log
      BY <1>17 DEF RepairWrites
    <2>2. job[j].text \in Texts
      BY <2>1, EndRepairTypes DEF IInv
    <2> QED
      BY <2>1, <2>2, StampTypes DEF IInv, StampInv, HealthyIsCurrent
  <1>18. ASSUME NEW j \in Jobs, RepairBlocked(j) PROVE StampInv' /\ HealthyIsCurrent'
    <2>1. UNCHANGED <<log, row, rowY>> /\ FALSE \in BOOLEAN /\ TypeInv
      BY <1>18 DEF RepairBlocked, rows, IInv
    <2>2. CASE Quarantine(FALSE)
      BY <2>1, <2>2, QuarantineTypes DEF StampInv, HealthyIsCurrent
    <2>3. CASE proj' = proj /\ UNCHANGED <<room, blame>>
      BY <2>1, <2>3 DEF IInv, StampInv, HealthyIsCurrent, room
    <2>4. CASE proj' = proj /\ Evict
      BY <2>1, <2>4, EvictTypes DEF IInv, StampInv, HealthyIsCurrent
    <2> QED
      BY <1>18, <2>2, <2>3, <2>4 DEF RepairBlocked
  <1>19. CASE Worker
    BY <1>19, QueueForms
       DEF Worker, texts, room, rows, breakers, IInv, TypeInv, OrderInv, StampInv,
           HealthyIsCurrent
  <1>20. CASE WindowPasses
    BY <1>20, BreakerForms
       DEF WindowPasses, texts, room, rows, breakers, IInv, TypeInv, OrderInv, StampInv,
           HealthyIsCurrent
  <1>21. CASE StartOwnerRepair
    BY <1>21
       DEF StartOwnerRepair, texts, room, rows, breakers, IInv, TypeInv, OrderInv, StampInv,
           HealthyIsCurrent
  <1>22. CASE EndOwnerRepair
    BY <1>22, HealthyForm
       DEF EndOwnerRepair, texts, room, rows, breakers, IInv, TypeInv, OrderInv, StampInv,
           HealthyIsCurrent
  <1>23. CASE OwnerQuarantines
    BY <1>23, FaultTypes, EvictTypes, CycleTypes, QuarantinedForm
       DEF OwnerQuarantines, texts, rows, IInv, TypeInv, OrderInv, StampInv,
           HealthyIsCurrent
  <1>24. CASE IntegrityWarning
    BY <1>24, FaultTypes, CycleTypes, QuarantineTypes, EvictTypes
       DEF IntegrityWarning, texts, rows, IInv, TypeInv, OrderInv, StampInv,
           HealthyIsCurrent
  <1>25. CASE QuarantineExpires
    BY <1>25
       DEF QuarantineExpires, texts, room, rows, breakers, IInv, TypeInv, OrderInv,
           StampInv, HealthyIsCurrent
  <1>26. CASE AgentWrite
    BY <1>26, NewTextTypes, HealthyForm
       DEF AgentWrite, breakers, IInv, TypeInv, OrderInv, StampInv, HealthyIsCurrent
  <1>27. CASE MarksWrite
    BY <1>27, HealthyForm
       DEF MarksWrite, texts, room, rows, breakers, IInv, TypeInv, OrderInv, StampInv,
           HealthyIsCurrent
  <1>28. CASE Invalidate
    BY <1>28, FaultTypes, EvictTypes, CycleTypes
       DEF Invalidate, texts, rows, IInv, TypeInv, OrderInv, StampInv, HealthyIsCurrent
  <1>29. CASE Crash
    BY <1>29, FaultTypes, EvictTypes, BreakerForms
       DEF Crash, texts, rows, IInv, TypeInv, OrderInv, StampInv, HealthyIsCurrent
  <1>30. CASE UNCHANGED vars
    BY <1>30
       DEF vars, texts, room, rows, breakers, IInv, TypeInv, OrderInv, StampInv,
           HealthyIsCurrent
  <1> QED
    BY <1>1, <1>2, <1>3, <1>4, <1>5, <1>6, <1>7, <1>8, <1>9, <1>10, <1>11, <1>12, <1>13,
       <1>14, <1>15, <1>16, <1>17, <1>18, <1>19, <1>20, <1>21, <1>22, <1>23, <1>24, <1>25,
       <1>26, <1>27, <1>28, <1>29, <1>30 DEF Next, Repair

LEMMA InitIInv == Init => IInv
  <1> SUFFICES ASSUME Init PROVE IInv
    OBVIOUS
  <1>1. 0 \in Texts /\ 0 \in 0 .. MaxFaults /\ "plain" \in Kinds /\ FALSE \in BOOLEAN
    BY DEF Texts, Kinds
  <1>2. proj \in Proj
    BY <1>1 DEF Init, Proj, Healths
  <1>3. queue \in Queue
    BY <1>1 DEF Init, Idle, Queue
  <1>4. growth \in Strikes /\ drift \in Strikes
    BY <1>1 DEF Init, NoStrike, Strikes
  <1>5. TypeInv
    BY <1>1, <1>2, <1>3, <1>4 DEF Init, TypeInv
  <1>6. OrderInv /\ StampInv /\ HealthyIsCurrent
    BY DEF Init, OrderInv, StampInv, HealthyIsCurrent
  <1> QED
    BY <1>5, <1>6 DEF IInv

LEMMA Inductive == IInv /\ [Next]_vars => IInv'
  <1> SUFFICES ASSUME IInv, [Next]_vars PROVE IInv'
    OBVIOUS
  <1>1. TypeInv /\ OrderInv
    BY DEF IInv
  <1>2. TypeInv'
    BY <1>1, TypeKept
  <1>3. OrderInv'
    BY <1>1, <1>2, OrderKept
  <1>4. StampInv' /\ HealthyIsCurrent'
    BY <1>2, <1>3, CurrentKept
  <1> QED
    BY <1>2, <1>3, <1>4 DEF IInv

LEMMA AlwaysIInv == Spec => []IInv
  BY InitIInv, Inductive, PTL DEF Spec

-----------------------------------------------------------------------------
\* TYPE CORRECTNESS, and with it the order of texts: neither the row nor what a
\* repair has derived is newer than the Y history, no history newer than the
\* resident document, and a persist under way has a room.
THEOREM TypeCorrect == Spec => []TypeOK
  <1>1. IInv => TypeOK
    <2> SUFFICES ASSUME IInv PROVE TypeOK
      OBVIOUS
    <2>1. TypeInv /\ OrderInv
      BY DEF IInv
    <2>2. /\ top \in Nat /\ log \in Nat /\ row \in Nat /\ rowY \in Nat
          /\ proj \in Proj /\ proj.text \in Nat /\ proj.y \in Nat
      BY <2>1 DEF TypeInv, Texts, Proj
    <2>3. log \in 0 .. top /\ row \in 0 .. log /\ rowY \in 0 .. log
      BY <2>1, <2>2 DEF OrderInv
    <2>4. proj \in [text : 0 .. top, y : 0 .. log, integrity : BOOLEAN, health : Healths]
      <3>1. proj.text \in 0 .. top /\ proj.y \in 0 .. log
        BY <2>1, <2>2 DEF OrderInv
      <3> QED
        BY <2>2, <3>1 DEF Proj
    <2>5. dirty \/ pjob # None => live # None
      BY <2>1 DEF OrderInv
    <2> QED
      BY <2>1, <2>3, <2>4, <2>5 DEF TypeInv, OrderInv, TypeOK, Healths, Queue
  <1> QED
    BY <1>1, AlwaysIInv, PTL

\* A HEALTHY PROJECTION IS CURRENT: whatever the interleaving of persists, edits,
\* repairs, retries, the owner's repair and crashes, a projection that is healthy
\* at the version of the Y history has the history's text, or a persist is to
\* come, or it got its text in one of the three ways that blame names.  There is
\* no fourth.
THEOREM HealthyProjections == Spec => []HealthyIsCurrent
  BY AlwaysIInv, PTL DEF IInv

\* A QUARANTINE FREEZES: while getCollabQuarantineGateStatus has the document in
\* memory or in the projection, nobody enters the room, no repair begins, history
\* and row are changed by agents only, and the projection by the owner's repair, a
\* writer of the row or a repair that had begun.
THEOREM QuarantineHolds == Spec => QuarantineFreezes
  <1> DEFINE Frozen ==
        Gate => /\ live = None => live' = None
                /\ <<log, row>>' # <<log, row>> => AgentWrite
                /\ \A j \in Jobs : job[j] = None => job'[j] = None
                /\ proj'.text # proj.text \/ (proj.health = "quarantined" /\ proj'.health # "quarantined")
                     => \/ AgentWrite \/ MarksWrite
                        \/ ojob # None /\ ojob' = None
                        \/ \E j \in Jobs : EndRepair(j)
  <1>1. ASSUME IInv, [Next]_vars PROVE Frozen
    <2> SUFFICES ASSUME Gate PROVE Frozen
      OBVIOUS
    <2>1. TypeInv /\ OrderInv
      BY <1>1 DEF IInv
    <2>2. ASSUME UNCHANGED <<live, log, row, job, proj>> PROVE Frozen
      BY <2>2
    <2>3. CASE Edit
      BY <2>3, <2>2 DEF Edit, rows
    <2>4. CASE PersistRefused
      BY <2>1, <2>4, EvictTypes DEF PersistRefused, rows
    <2>5. CASE PersistGated
      BY <2>1, <2>5, QuarantinedForm DEF PersistGated, rows, TypeInv
    <2>6. ASSUME NEW j \in Jobs, StartRepair(j) PROVE Frozen
      <3>1. job' = job
        BY <2>6 DEF StartRepair
      <3> QED
        BY <2>2, <2>6, <3>1 DEF StartRepair, room, rows
    <2>7. ASSUME NEW j \in Jobs, EndRepair(j), UNCHANGED <<log, row>>,
                 live' = live \/ live' = None
          PROVE  Frozen
      BY <2>1, <2>7, EndRepairTypes
    <2>8. ASSUME NEW j \in Jobs, RepairFails(j) \/ RepairConverged(j) \/ RepairWrites(j)
          PROVE  EndRepair(j) /\ UNCHANGED <<log, row, live>>
      BY <2>8 DEF RepairFails, RepairConverged, RepairWrites, Stamp, room, rows
    <2>9. ASSUME NEW j \in Jobs, RepairBlocked(j)
          PROVE  EndRepair(j) /\ UNCHANGED <<log, row>> /\ (live' = live \/ live' = None)
      BY <2>9 DEF RepairBlocked, Quarantine, Evict, room, rows
    <2>10. CASE EndOwnerRepair
      BY <2>10 DEF EndOwnerRepair, room, rows
    <2>11. CASE OwnerQuarantines
      <3>1. proj'.text = proj.text /\ proj'.health = "quarantined"
        BY <2>1, <2>11, QuarantinedForm DEF OwnerQuarantines, TypeInv
      <3>2. live' = None /\ job' = job /\ log' = log /\ row' = row
        BY <2>11 DEF OwnerQuarantines, Evict, rows
      <3> QED
        BY <3>1, <3>2
    <2>12. CASE Invalidate
      BY <2>12 DEF Invalidate, Evict, rows
    <2>13. CASE Crash
      BY <2>13 DEF Crash, Evict, rows
    <2>14. CASE AgentWrite
      BY <2>14 DEF AgentWrite
    <2>15. CASE MarksWrite
      BY <2>15 DEF MarksWrite, room, rows
    <2>16. CASE Join \/ BeginPersist \/ IntegrityWarning
      BY <2>16 DEF Join, BeginPersist, IntegrityWarning
    <2>17. CASE \/ PersistDerivesNothing \/ PersistUnchanged \/ PersistWrites \/ PersistGrows
                \/ PersistDrifts \/ PersistRepeats \/ PersistCollapses
      BY <2>17 DEF PersistDerivesNothing, PersistUnchanged, PersistWrites, PersistGrows,
           PersistDrifts, PersistRepeats, PersistCollapses, EndPersist
    <2>18. CASE Leave \/ Worker \/ WindowPasses \/ StartOwnerRepair \/ QuarantineExpires
                \/ UNCHANGED vars
      BY <2>18, <2>2
         DEF Leave, Worker, WindowPasses, StartOwnerRepair, QuarantineExpires, vars, room, rows
    <2> QED
      BY <1>1, <2>3, <2>4, <2>5, <2>6, <2>7, <2>8, <2>9, <2>10, <2>11, <2>12, <2>13, <2>14,
         <2>15, <2>16, <2>17, <2>18 DEF Next, Repair
  <1> QED
    BY <1>1, AlwaysIInv, PTL DEF Spec, QuarantineFreezes

=============================================================================
