-------------------------- MODULE ClientSessionProofs --------------------------
(***************************************************************************)
(* Theorems about ClientSession, for any edits the user types, any number  *)
(* of rewrites, pauses and faults.  An edit that the tab's document no      *)
(* longer counts as unacknowledged has reached the server or was lost in a  *)
(* named way, and a session from before a revocation is of an older epoch. *)
(***************************************************************************)
EXTENDS ClientSession, TLAPS

Epochs == 0 .. MaxEpoch

FlagInv ==
  /\ token \in BOOLEAN /\ dirty \in BOOLEAN /\ cooling \in BOOLEAN /\ on \in BOOLEAN
  /\ flush \in BOOLEAN /\ keep \in BOOLEAN /\ rebind \in BOOLEAN /\ notice \in BOOLEAN

StateInv ==
  /\ share \in {"ACTIVE", "PAUSED", "REVOKED"}
  /\ link \in Links /\ bind \in Binds
  /\ refresh \in {"idle", "fetch", "latest"}
  /\ live \in (SUBSET Edits) \cup {None}
  /\ made \in SUBSET Edits

CountInv ==
  /\ epoch \in Epochs
  /\ conn \in Epochs \cup {None} /\ session \in Epochs \cup {None} /\ next \in Epochs \cup {None}
  /\ attempts \in 0 .. MaxAttempts
  /\ faults \in 0 .. MaxFaults

TypeInv == FlagInv /\ StateInv /\ CountInv

\* All edits there are have been typed.
MadeInv ==
  /\ live # None => live \subseteq made
  /\ saved \subseteq made /\ doc \subseteq made /\ pend \subseteq made /\ stored \subseteq made
  /\ recent \subseteq made /\ dropped \subseteq made
  /\ unsynced \subseteq doc /\ acks \subseteq unsynced

\* What goes with what in the state of the tab and of the room.
SessionInv ==
  /\ (next # None) <=> (refresh = "latest")
  /\ on <=> (link # "off")
  /\ conn # None => live # None /\ link = "synced"
  /\ dirty => live # None
  /\ refresh # "idle" => on
  /\ ~on => ~flush
  /\ link # "synced" => acks = {}

\* No session of the tab is of a later epoch than the document, and after the
\* revocation of its link of none as late.
EpochInv ==
  /\ conn # None => conn <= epoch
  /\ session # None => session <= epoch
  /\ next # None => next <= epoch
  /\ ~token => conn # epoch /\ session # epoch /\ next # epoch

\* An edit is safe with the server, or was lost in a named way.
Settled == saved \cup Resident \cup dropped

\* The tab's document has what is buffered, and what it counts as acknowledged is
\* settled. So is what localStorage has and memory lacks, which is overwritten or
\* cleared with the buffer; only a tab without session and buffer has it there alone.
BufferInv ==
  /\ on => pend \subseteq doc
  /\ doc \ unsynced \subseteq Settled
  /\ acks \subseteq Settled
  /\ stored \subseteq pend \cup Settled \/ (~on /\ pend = {})

IInv == TypeInv /\ MadeInv /\ SessionInv /\ EpochInv /\ BufferInv /\ NothingLostSilently

-----------------------------------------------------------------------------
USE BoundsAssumption

LEMMA FlagsKept ==
  ASSUME FlagInv, [Next]_vars
  PROVE  FlagInv'
  <1>1. CASE Pause
    BY <1>1 DEF Pause, buffer, replica, editor, Invalidate, Resident,
         NextEpoch, FlagInv
  <1>2. CASE Revoke
    BY <1>2 DEF Revoke, buffer, replica, editor, Invalidate, Resident,
         NextEpoch, FlagInv
  <1>3. CASE Resume
    BY <1>3 DEF Resume, room, buffer, replica, editor, FlagInv
  <1>4. CASE Rewrite
    BY <1>4 DEF Rewrite, buffer, replica, editor, Invalidate, Resident,
         NextEpoch, FlagInv
  <1>5. CASE CoolDown
    BY <1>5 DEF CoolDown, room, buffer, replica, editor, FlagInv
  <1>6. CASE OthersEdit
    BY <1>6 DEF OthersEdit, server, buffer, replica, editor, Schedules, FlagInv
  <1>7. CASE Save
    BY <1>7 DEF Save, buffer, replica, editor, FlagInv
  <1>8. ASSUME NEW e \in Edits, Edit(e) PROVE FlagInv'
    BY <1>8 DEF Edit, server, room, editor, GateOpen, FlagInv
  <1>9. ASSUME NEW e \in Edits, Apply(e) PROVE FlagInv'
    BY <1>9 DEF Apply, server, buffer, editor, Schedules, FlagInv
  <1>10. CASE FlushTimer
    BY <1>10 DEF FlushTimer, server, room, replica, editor, FlagInv
  <1>11. CASE GraceEnds
    BY <1>11 DEF GraceEnds, server, room, replica, editor, FlagInv
  <1>12. CASE RefreshAnswered
    BY <1>12 DEF RefreshAnswered, server, buffer, replica, Reconnect, Connect,
         Flushed, Resident, ShouldPreserve, Admitted, FlagInv
  <1>13. CASE LatestAnswered
    BY <1>13 DEF LatestAnswered, server, Reconnect, Connect, Flushed, Resident,
         ShouldPreserve, FlagInv
  <1>14. CASE RefreshRefused
    BY <1>14 DEF RefreshRefused, server, TornDown, Flushed, Admitted, FlagInv
  <1>15. CASE RefreshFails
    BY <1>15 DEF RefreshFails, server, room, buffer, replica, Fault, FlagInv
  <1>16. CASE Stall
    BY <1>16 DEF Stall, server, room, buffer, replica, Fault, StartRefresh,
         FlagInv
  <1>17. CASE DecisionEvent
    BY <1>17 DEF DecisionEvent, server, room, buffer, replica, StartRefresh,
         FlagInv
  <1>18. CASE Authenticate
    BY <1>18 DEF Authenticate, server, room, buffer, editor, Valid, FlagInv
  <1>19. CASE Refuse
    BY <1>19 DEF Refuse, server, room, buffer, StartRefresh, Valid,
         ShouldPreserve, FlagInv
  <1>20. CASE Attach
    BY <1>20 DEF Attach, server, MaybeClear, Clears, Rebind, FlagInv
  <1>21. CASE Ack
    BY <1>21 DEF Ack, server, room, editor, MaybeClear, Clears, FlagInv
  <1>22. CASE Drop
    BY <1>22 DEF Drop, Fault, Lost, server, buffer, editor, FlagInv
  <1>23. CASE SeesClose
    BY <1>23 DEF SeesClose, Lost, server, buffer, editor, FlagInv
  <1>24. CASE StartProbe
    BY <1>24 DEF StartProbe, Binding, server, room, buffer, replica, FlagInv
  <1>25. CASE BindGivesUp
    BY <1>25 DEF BindGivesUp, Binding, server, room, buffer, replica, FlagInv
  <1>26. CASE ProbeAcked
    BY <1>26 DEF ProbeAcked, Binding, server, room, buffer, replica, FlagInv
  <1>27. CASE ProbeFailed
    BY <1>27 DEF ProbeFailed, Fault, Binding, server, room, buffer, replica,
         FlagInv
  <1>28. CASE ProbeRefresh
    BY <1>28 DEF ProbeRefresh, StartRefresh, Binding, server, room, buffer,
         replica, FlagInv
  <1>29. CASE Retry
    BY <1>29 DEF Retry, StartRefresh, Binding, server, room, buffer, replica,
         FlagInv
  <1>30. CASE Reload
    BY <1>30 DEF Reload, Fault, Opened, server, Connect, Admitted, Flushed,
         FlagInv
  <1>31. CASE Crash
    BY <1>31 DEF Crash, Fault, Opened, server, Connect, Admitted, Resident,
         FlagInv
  <1>32. CASE UNCHANGED vars
    BY <1>32 DEF vars, server, room, buffer, replica, editor, FlagInv
  <1>33. ASSUME NEW stores \in BOOLEAN, Unload(stores) PROVE FlagInv'
    BY <1>33 DEF Unload, Schedules, server, buffer, replica, editor, FlagInv
  <1> QED
    BY <1>1, <1>2, <1>3, <1>4, <1>5, <1>6, <1>7, <1>8, <1>9, <1>10, <1>11,
         <1>12, <1>13,
       <1>14, <1>15, <1>16, <1>17, <1>18, <1>19, <1>20, <1>21, <1>22, <1>23, <1>24, <1>25,
       <1>26, <1>27, <1>28, <1>29, <1>30, <1>31, <1>32, <1>33 DEF Next

LEMMA StatesKept ==
  ASSUME StateInv, MadeInv, SessionInv, [Next]_vars
  PROVE  StateInv'
  <1>1. CASE Pause
    <2>1. share' = "PAUSED" /\ live' = None /\ UNCHANGED <<link, bind, refresh, made>>
      BY <1>1 DEF Pause, Invalidate, buffer, replica, editor
    <2>2. share' \in {"ACTIVE", "PAUSED", "REVOKED"} /\ link' \in Links /\ bind' \in Binds
      BY <2>1 DEF StateInv
    <2>3. refresh' \in {"idle", "fetch", "latest"} /\ made' \in SUBSET Edits
      BY <2>1 DEF StateInv
    <2>4. live' \in (SUBSET Edits) \cup {None}
      BY <2>1
    <2> QED
      BY <2>2, <2>3, <2>4 DEF StateInv
  <1>2. CASE Revoke
    <2>1. share' = "REVOKED" /\ live' = None /\ UNCHANGED <<link, bind, refresh, made>>
      BY <1>2 DEF Revoke, Invalidate, buffer, replica, editor
    <2>2. share' \in {"ACTIVE", "PAUSED", "REVOKED"} /\ link' \in Links /\ bind' \in Binds
      BY <2>1 DEF StateInv
    <2>3. refresh' \in {"idle", "fetch", "latest"} /\ made' \in SUBSET Edits
      BY <2>1 DEF StateInv
    <2>4. live' \in (SUBSET Edits) \cup {None}
      BY <2>1
    <2> QED
      BY <2>2, <2>3, <2>4 DEF StateInv
  <1>3. CASE Resume
    BY <1>3 DEF Resume, room, buffer, replica, editor, Links, Binds, StateInv,
         MadeInv, SessionInv
  <1>4. CASE Rewrite
    <2>1. share' = share /\ live' = None /\ UNCHANGED <<link, bind, refresh, made>>
      BY <1>4 DEF Rewrite, Invalidate, buffer, replica, editor
    <2>2. share' \in {"ACTIVE", "PAUSED", "REVOKED"} /\ link' \in Links /\ bind' \in Binds
      BY <2>1 DEF StateInv
    <2>3. refresh' \in {"idle", "fetch", "latest"} /\ made' \in SUBSET Edits
      BY <2>1 DEF StateInv
    <2>4. live' \in (SUBSET Edits) \cup {None}
      BY <2>1
    <2> QED
      BY <2>2, <2>3, <2>4 DEF StateInv
  <1>5. CASE CoolDown
    BY <1>5 DEF CoolDown, room, buffer, replica, editor, Links, Binds,
         StateInv, MadeInv, SessionInv
  <1>6. CASE OthersEdit
    BY <1>6 DEF OthersEdit, server, buffer, replica, editor, Schedules, Links,
         Binds, StateInv, MadeInv, SessionInv
  <1>7. CASE Save
    BY <1>7 DEF Save, buffer, replica, editor, Links, Binds, StateInv, MadeInv,
         SessionInv
  <1>8. ASSUME NEW e \in Edits, Edit(e) PROVE StateInv'
    BY <1>8 DEF Edit, server, room, editor, GateOpen, Links, Binds, StateInv,
         MadeInv, SessionInv
  <1>9. ASSUME NEW e \in Edits, Apply(e) PROVE StateInv'
    BY <1>9 DEF Apply, server, buffer, editor, Schedules, Links, Binds,
         StateInv, MadeInv, SessionInv
  <1>10. CASE FlushTimer
    BY <1>10 DEF FlushTimer, server, room, replica, editor, Links, Binds,
         StateInv, MadeInv, SessionInv
  <1>11. CASE GraceEnds
    BY <1>11 DEF GraceEnds, server, room, replica, editor, Links, Binds,
         StateInv, MadeInv, SessionInv
  <1>12. CASE RefreshAnswered
    BY <1>12 DEF RefreshAnswered, server, buffer, replica, Reconnect, Connect,
         Flushed, Resident, ShouldPreserve, Admitted, Links, Binds, StateInv,
         MadeInv, SessionInv
  <1>13. CASE LatestAnswered
    BY <1>13 DEF LatestAnswered, server, Reconnect, Connect, Flushed, Resident,
         ShouldPreserve, Links, Binds, StateInv, MadeInv, SessionInv
  <1>14. CASE RefreshRefused
    BY <1>14 DEF RefreshRefused, server, TornDown, Flushed, Admitted, Links,
         Binds, StateInv, MadeInv, SessionInv
  <1>15. CASE RefreshFails
    BY <1>15 DEF RefreshFails, server, room, buffer, replica, Fault, Links,
         Binds, StateInv, MadeInv, SessionInv
  <1>16. CASE Stall
    BY <1>16 DEF Stall, server, room, buffer, replica, Fault, StartRefresh,
         Links, Binds, StateInv, MadeInv, SessionInv
  <1>17. CASE DecisionEvent
    BY <1>17 DEF DecisionEvent, server, room, buffer, replica, StartRefresh,
         Links, Binds, StateInv, MadeInv, SessionInv
  <1>18. CASE Authenticate
    BY <1>18 DEF Authenticate, server, room, buffer, editor, Valid, Links,
         Binds, StateInv, MadeInv, SessionInv
  <1>19. CASE Refuse
    BY <1>19 DEF Refuse, server, room, buffer, StartRefresh, Valid,
         ShouldPreserve, Links, Binds, StateInv, MadeInv, SessionInv
  <1>20. CASE Attach
    BY <1>20 DEF Attach, server, MaybeClear, Clears, Rebind, Links, Binds,
         StateInv, MadeInv, SessionInv
  <1>21. CASE Ack
    BY <1>21 DEF Ack, server, room, editor, MaybeClear, Clears, Links, Binds,
         StateInv, MadeInv, SessionInv
  <1>22. CASE Drop
    BY <1>22 DEF Drop, Fault, Lost, server, buffer, editor, Links, Binds,
         StateInv, MadeInv, SessionInv
  <1>23. CASE SeesClose
    BY <1>23 DEF SeesClose, Lost, server, buffer, editor, Links, Binds,
         StateInv, MadeInv, SessionInv
  <1>24. CASE StartProbe
    BY <1>24 DEF StartProbe, Binding, server, room, buffer, replica, Links,
         Binds, StateInv, MadeInv, SessionInv
  <1>25. CASE BindGivesUp
    BY <1>25 DEF BindGivesUp, Binding, server, room, buffer, replica, Links,
         Binds, StateInv, MadeInv, SessionInv
  <1>26. CASE ProbeAcked
    BY <1>26 DEF ProbeAcked, Binding, server, room, buffer, replica, Links,
         Binds, StateInv, MadeInv, SessionInv
  <1>27. CASE ProbeFailed
    BY <1>27 DEF ProbeFailed, Fault, Binding, server, room, buffer, replica,
         Links, Binds, StateInv, MadeInv, SessionInv
  <1>28. CASE ProbeRefresh
    BY <1>28 DEF ProbeRefresh, StartRefresh, Binding, server, room, buffer,
         replica, Links, Binds, StateInv, MadeInv, SessionInv
  <1>29. CASE Retry
    BY <1>29 DEF Retry, StartRefresh, Binding, server, room, buffer, replica,
         Links, Binds, StateInv, MadeInv, SessionInv
  <1>30. CASE Reload
    BY <1>30 DEF Reload, Fault, Opened, server, Connect, Admitted, Flushed,
         Links, Binds, StateInv, MadeInv, SessionInv
  <1>31. CASE Crash
    BY <1>31 DEF Crash, Fault, Opened, server, Connect, Admitted, Resident,
         Links, Binds, StateInv, MadeInv, SessionInv
  <1>32. CASE UNCHANGED vars
    BY <1>32 DEF vars, server, room, buffer, replica, editor, Links, Binds,
         StateInv, MadeInv, SessionInv
  <1>33. ASSUME NEW stores \in BOOLEAN, Unload(stores) PROVE StateInv'
    BY <1>33 DEF Unload, Schedules, server, buffer, replica, editor, StateInv,
         MadeInv, SessionInv
  <1> QED
    BY <1>1, <1>2, <1>3, <1>4, <1>5, <1>6, <1>7, <1>8, <1>9, <1>10, <1>11,
         <1>12, <1>13,
       <1>14, <1>15, <1>16, <1>17, <1>18, <1>19, <1>20, <1>21, <1>22, <1>23, <1>24, <1>25,
       <1>26, <1>27, <1>28, <1>29, <1>30, <1>31, <1>32, <1>33 DEF Next

LEMMA CountsKept ==
  ASSUME CountInv, SessionInv, [Next]_vars
  PROVE  CountInv'
  <1>1. CASE Pause
    BY <1>1 DEF Pause, buffer, replica, editor, Invalidate, Resident,
         NextEpoch, CountInv, SessionInv, Epochs
  <1>2. CASE Revoke
    BY <1>2 DEF Revoke, buffer, replica, editor, Invalidate, Resident,
         NextEpoch, CountInv, SessionInv, Epochs
  <1>3. CASE Resume
    BY <1>3 DEF Resume, room, buffer, replica, editor, CountInv, SessionInv,
         Epochs
  <1>4. CASE Rewrite
    BY <1>4 DEF Rewrite, buffer, replica, editor, Invalidate, Resident,
         NextEpoch, CountInv, SessionInv, Epochs
  <1>5. CASE CoolDown
    BY <1>5 DEF CoolDown, room, buffer, replica, editor, CountInv, SessionInv,
         Epochs
  <1>6. CASE OthersEdit
    BY <1>6 DEF OthersEdit, server, buffer, replica, editor, Schedules,
         CountInv, SessionInv, Epochs
  <1>7. CASE Save
    BY <1>7 DEF Save, buffer, replica, editor, CountInv, SessionInv, Epochs
  <1>8. ASSUME NEW e \in Edits, Edit(e) PROVE CountInv'
    BY <1>8 DEF Edit, server, room, editor, GateOpen, CountInv, SessionInv,
         Epochs
  <1>9. ASSUME NEW e \in Edits, Apply(e) PROVE CountInv'
    BY <1>9 DEF Apply, server, buffer, editor, Schedules, CountInv, SessionInv,
         Epochs
  <1>10. CASE FlushTimer
    BY <1>10 DEF FlushTimer, server, room, replica, editor, CountInv,
         SessionInv, Epochs
  <1>11. CASE GraceEnds
    BY <1>11 DEF GraceEnds, server, room, replica, editor, CountInv,
         SessionInv, Epochs
  <1>12. CASE RefreshAnswered
    BY <1>12 DEF RefreshAnswered, server, buffer, replica, Reconnect, Connect,
         Flushed, Resident, ShouldPreserve, Admitted, CountInv, SessionInv,
         Epochs
  <1>13. CASE LatestAnswered
    BY <1>13 DEF LatestAnswered, server, Reconnect, Connect, Flushed, Resident,
         ShouldPreserve, CountInv, SessionInv, Epochs
  <1>14. CASE RefreshRefused
    BY <1>14 DEF RefreshRefused, server, TornDown, Flushed, Admitted, CountInv,
         SessionInv, Epochs
  <1>15. CASE RefreshFails
    BY <1>15 DEF RefreshFails, server, room, buffer, replica, Fault, CountInv,
         SessionInv, Epochs
  <1>16. CASE Stall
    BY <1>16 DEF Stall, server, room, buffer, replica, Fault, StartRefresh,
         CountInv, SessionInv, Epochs
  <1>17. CASE DecisionEvent
    BY <1>17 DEF DecisionEvent, server, room, buffer, replica, StartRefresh,
         CountInv, SessionInv, Epochs
  <1>18. CASE Authenticate
    BY <1>18 DEF Authenticate, server, room, buffer, editor, Valid, CountInv,
         SessionInv, Epochs
  <1>19. CASE Refuse
    BY <1>19 DEF Refuse, server, room, buffer, StartRefresh, Valid,
         ShouldPreserve, CountInv, SessionInv, Epochs
  <1>20. CASE Attach
    BY <1>20 DEF Attach, server, MaybeClear, Clears, Rebind, CountInv,
         SessionInv, Epochs
  <1>21. CASE Ack
    BY <1>21 DEF Ack, server, room, editor, MaybeClear, Clears, CountInv,
         SessionInv, Epochs
  <1>22. CASE Drop
    BY <1>22 DEF Drop, Fault, Lost, server, buffer, editor, CountInv,
         SessionInv, Epochs
  <1>23. CASE SeesClose
    BY <1>23 DEF SeesClose, Lost, server, buffer, editor, CountInv, SessionInv,
         Epochs
  <1>24. CASE StartProbe
    BY <1>24 DEF StartProbe, Binding, server, room, buffer, replica, CountInv,
         SessionInv, Epochs
  <1>25. CASE BindGivesUp
    BY <1>25 DEF BindGivesUp, Binding, server, room, buffer, replica, CountInv,
         SessionInv, Epochs
  <1>26. CASE ProbeAcked
    BY <1>26 DEF ProbeAcked, Binding, server, room, buffer, replica, CountInv,
         SessionInv, Epochs
  <1>27. CASE ProbeFailed
    BY <1>27 DEF ProbeFailed, Fault, Binding, server, room, buffer, replica,
         CountInv, SessionInv, Epochs
  <1>28. CASE ProbeRefresh
    BY <1>28 DEF ProbeRefresh, StartRefresh, Binding, server, room, buffer,
         replica, CountInv, SessionInv, Epochs
  <1>29. CASE Retry
    BY <1>29 DEF Retry, StartRefresh, Binding, server, room, buffer, replica,
         CountInv, SessionInv, Epochs
  <1>30. CASE Reload
    BY <1>30 DEF Reload, Fault, Opened, server, Connect, Admitted, Flushed,
         CountInv, SessionInv, Epochs
  <1>31. CASE Crash
    BY <1>31 DEF Crash, Fault, Opened, server, Connect, Admitted, Resident,
         CountInv, SessionInv, Epochs
  <1>32. CASE UNCHANGED vars
    BY <1>32 DEF vars, server, room, buffer, replica, editor, CountInv,
         SessionInv, Epochs
  <1>33. ASSUME NEW stores \in BOOLEAN, Unload(stores) PROVE CountInv'
    BY <1>33 DEF Unload, Schedules, server, buffer, replica, editor, CountInv,
         SessionInv, Epochs
  <1> QED
    BY <1>1, <1>2, <1>3, <1>4, <1>5, <1>6, <1>7, <1>8, <1>9, <1>10, <1>11,
         <1>12, <1>13,
       <1>14, <1>15, <1>16, <1>17, <1>18, <1>19, <1>20, <1>21, <1>22, <1>23, <1>24, <1>25,
       <1>26, <1>27, <1>28, <1>29, <1>30, <1>31, <1>32, <1>33 DEF Next

LEMMA SessionKept ==
  ASSUME TypeInv, MadeInv, SessionInv, [Next]_vars
  PROVE  SessionInv'
  <1>1. CASE Pause
    BY <1>1 DEF Pause, buffer, replica, editor, Invalidate, Resident,
         NextEpoch, SessionInv, TypeInv, FlagInv, StateInv, CountInv, MadeInv
  <1>2. CASE Revoke
    BY <1>2 DEF Revoke, buffer, replica, editor, Invalidate, Resident,
         NextEpoch, SessionInv, TypeInv, FlagInv, StateInv, CountInv, MadeInv
  <1>3. CASE Resume
    BY <1>3 DEF Resume, room, buffer, replica, editor, SessionInv, TypeInv,
         FlagInv, StateInv, CountInv, MadeInv
  <1>4. CASE Rewrite
    BY <1>4 DEF Rewrite, buffer, replica, editor, Invalidate, Resident,
         NextEpoch, SessionInv, TypeInv, FlagInv, StateInv, CountInv, MadeInv
  <1>5. CASE CoolDown
    BY <1>5 DEF CoolDown, room, buffer, replica, editor, SessionInv, TypeInv,
         FlagInv, StateInv, CountInv, MadeInv
  <1>6. CASE OthersEdit
    BY <1>6 DEF OthersEdit, server, buffer, replica, editor, Schedules,
         SessionInv, TypeInv, FlagInv, StateInv, CountInv, MadeInv
  <1>7. CASE Save
    BY <1>7 DEF Save, buffer, replica, editor, SessionInv, TypeInv, FlagInv,
         StateInv, CountInv, MadeInv
  <1>8. ASSUME NEW e \in Edits, Edit(e) PROVE SessionInv'
    BY <1>8 DEF Edit, server, room, editor, GateOpen, SessionInv, TypeInv,
         FlagInv, StateInv, CountInv, MadeInv
  <1>9. ASSUME NEW e \in Edits, Apply(e) PROVE SessionInv'
    BY <1>9 DEF Apply, server, buffer, editor, Schedules, SessionInv, TypeInv,
         FlagInv, StateInv, CountInv, MadeInv
  <1>10. CASE FlushTimer
    BY <1>10 DEF FlushTimer, server, room, replica, editor, SessionInv,
         TypeInv, FlagInv, StateInv, CountInv, MadeInv
  <1>11. CASE GraceEnds
    BY <1>11 DEF GraceEnds, server, room, replica, editor, SessionInv, TypeInv,
         FlagInv, StateInv, CountInv, MadeInv
  <1>12. CASE RefreshAnswered
    <2>1. CASE keep /\ ShouldPreserve
      BY <1>12, <2>1 DEF RefreshAnswered, Reconnect, Connect, server, SessionInv
    <2>2. CASE ~(keep /\ ShouldPreserve)
      <3>1. /\ refresh' = "latest" /\ next' = epoch /\ refresh = "fetch"
            /\ UNCHANGED <<conn, live, dirty, on, link, flush, acks>>
        BY <1>12, <2>2 DEF RefreshAnswered, buffer, replica
      <3>2. epoch # None
        BY DEF TypeInv, CountInv, Epochs
      <3> QED
        BY <3>1, <3>2 DEF SessionInv
    <2> QED
      BY <2>1, <2>2
  <1>13. CASE LatestAnswered
    BY <1>13 DEF LatestAnswered, server, Reconnect, Connect, Flushed, Resident,
         ShouldPreserve, SessionInv, TypeInv, FlagInv, StateInv, CountInv,
         MadeInv
  <1>14. CASE RefreshRefused
    BY <1>14 DEF RefreshRefused, server, TornDown, Flushed, Admitted,
         SessionInv, TypeInv, FlagInv, StateInv, CountInv, MadeInv
  <1>15. CASE RefreshFails
    BY <1>15 DEF RefreshFails, server, room, buffer, replica, Fault,
         SessionInv, TypeInv, FlagInv, StateInv, CountInv, MadeInv
  <1>16. CASE Stall
    BY <1>16 DEF Stall, server, room, buffer, replica, Fault, StartRefresh,
         SessionInv, TypeInv, FlagInv, StateInv, CountInv, MadeInv
  <1>17. CASE DecisionEvent
    BY <1>17 DEF DecisionEvent, server, room, buffer, replica, StartRefresh,
         SessionInv, TypeInv, FlagInv, StateInv, CountInv, MadeInv
  <1>18. CASE Authenticate
    BY <1>18 DEF Authenticate, server, room, buffer, editor, Valid, SessionInv,
         TypeInv, FlagInv, StateInv, CountInv, MadeInv
  <1>19. CASE Refuse
    BY <1>19 DEF Refuse, server, room, buffer, StartRefresh, Valid,
         ShouldPreserve, SessionInv, TypeInv, FlagInv, StateInv, CountInv,
         MadeInv
  <1>20. CASE Attach
    BY <1>20 DEF Attach, server, MaybeClear, Clears, Rebind, SessionInv,
         TypeInv, FlagInv, StateInv, CountInv, MadeInv
  <1>21. CASE Ack
    BY <1>21 DEF Ack, server, room, editor, MaybeClear, Clears, SessionInv,
         TypeInv, FlagInv, StateInv, CountInv, MadeInv
  <1>22. CASE Drop
    BY <1>22 DEF Drop, Fault, Lost, server, buffer, editor, SessionInv,
         TypeInv, FlagInv, StateInv, CountInv, MadeInv
  <1>23. CASE SeesClose
    BY <1>23 DEF SeesClose, Lost, server, buffer, editor, SessionInv, TypeInv,
         FlagInv, StateInv, CountInv, MadeInv
  <1>24. CASE StartProbe
    BY <1>24 DEF StartProbe, Binding, server, room, buffer, replica,
         SessionInv, TypeInv, FlagInv, StateInv, CountInv, MadeInv
  <1>25. CASE BindGivesUp
    BY <1>25 DEF BindGivesUp, Binding, server, room, buffer, replica,
         SessionInv, TypeInv, FlagInv, StateInv, CountInv, MadeInv
  <1>26. CASE ProbeAcked
    BY <1>26 DEF ProbeAcked, Binding, server, room, buffer, replica,
         SessionInv, TypeInv, FlagInv, StateInv, CountInv, MadeInv
  <1>27. CASE ProbeFailed
    BY <1>27 DEF ProbeFailed, Fault, Binding, server, room, buffer, replica,
         SessionInv, TypeInv, FlagInv, StateInv, CountInv, MadeInv
  <1>28. CASE ProbeRefresh
    BY <1>28 DEF ProbeRefresh, StartRefresh, Binding, server, room, buffer,
         replica, SessionInv, TypeInv, FlagInv, StateInv, CountInv, MadeInv
  <1>29. CASE Retry
    BY <1>29 DEF Retry, StartRefresh, Binding, server, room, buffer, replica,
         SessionInv, TypeInv, FlagInv, StateInv, CountInv, MadeInv
  <1>30. CASE Reload
    BY <1>30 DEF Reload, Fault, Opened, server, Connect, Admitted, Flushed,
         SessionInv, TypeInv, FlagInv, StateInv, CountInv, MadeInv
  <1>31. CASE Crash
    BY <1>31 DEF Crash, Fault, Opened, server, Connect, Admitted, Resident,
         SessionInv, TypeInv, FlagInv, StateInv, CountInv, MadeInv
  <1>32. CASE UNCHANGED vars
    BY <1>32 DEF vars, server, room, buffer, replica, editor, SessionInv,
         TypeInv, FlagInv, StateInv, CountInv, MadeInv
  <1>33. ASSUME NEW stores \in BOOLEAN, Unload(stores) PROVE SessionInv'
    BY <1>33 DEF Unload, Schedules, server, buffer, replica, editor,
         SessionInv, TypeInv, FlagInv, StateInv, CountInv, MadeInv
  <1> QED
    BY <1>1, <1>2, <1>3, <1>4, <1>5, <1>6, <1>7, <1>8, <1>9, <1>10, <1>11,
         <1>12, <1>13,
       <1>14, <1>15, <1>16, <1>17, <1>18, <1>19, <1>20, <1>21, <1>22, <1>23, <1>24, <1>25,
       <1>26, <1>27, <1>28, <1>29, <1>30, <1>31, <1>32, <1>33 DEF Next

LEMMA EpochKept ==
  ASSUME TypeInv, TypeInv', EpochInv, [Next]_vars
  PROVE  EpochInv'
  <1>1. CASE Pause
    BY <1>1 DEF Pause, buffer, replica, editor, Invalidate, Resident,
         NextEpoch, EpochInv, TypeInv, FlagInv, StateInv, CountInv, Epochs
  <1>2. CASE Revoke
    BY <1>2 DEF Revoke, buffer, replica, editor, Invalidate, Resident,
         NextEpoch, EpochInv, TypeInv, FlagInv, StateInv, CountInv, Epochs
  <1>3. CASE Resume
    BY <1>3 DEF Resume, room, buffer, replica, editor, EpochInv, TypeInv,
         FlagInv, StateInv, CountInv, Epochs
  <1>4. CASE Rewrite
    BY <1>4 DEF Rewrite, buffer, replica, editor, Invalidate, Resident,
         NextEpoch, EpochInv, TypeInv, FlagInv, StateInv, CountInv, Epochs
  <1>5. CASE CoolDown
    BY <1>5 DEF CoolDown, room, buffer, replica, editor, EpochInv, TypeInv,
         FlagInv, StateInv, CountInv, Epochs
  <1>6. CASE OthersEdit
    BY <1>6 DEF OthersEdit, server, buffer, replica, editor, Schedules,
         EpochInv, TypeInv, FlagInv, StateInv, CountInv, Epochs
  <1>7. CASE Save
    BY <1>7 DEF Save, buffer, replica, editor, EpochInv, TypeInv, FlagInv,
         StateInv, CountInv, Epochs
  <1>8. ASSUME NEW e \in Edits, Edit(e) PROVE EpochInv'
    BY <1>8 DEF Edit, server, room, editor, GateOpen, EpochInv, TypeInv,
         FlagInv, StateInv, CountInv, Epochs
  <1>9. ASSUME NEW e \in Edits, Apply(e) PROVE EpochInv'
    BY <1>9 DEF Apply, server, buffer, editor, Schedules, EpochInv, TypeInv,
         FlagInv, StateInv, CountInv, Epochs
  <1>10. CASE FlushTimer
    BY <1>10 DEF FlushTimer, server, room, replica, editor, EpochInv, TypeInv,
         FlagInv, StateInv, CountInv, Epochs
  <1>11. CASE GraceEnds
    BY <1>11 DEF GraceEnds, server, room, replica, editor, EpochInv, TypeInv,
         FlagInv, StateInv, CountInv, Epochs
  <1>12. CASE RefreshAnswered
    BY <1>12 DEF RefreshAnswered, server, buffer, replica, Reconnect, Connect,
         Flushed, Resident, ShouldPreserve, Admitted, EpochInv, TypeInv,
         FlagInv, StateInv, CountInv, Epochs
  <1>13. CASE LatestAnswered
    BY <1>13 DEF LatestAnswered, server, Reconnect, Connect, Flushed, Resident,
         ShouldPreserve, EpochInv, TypeInv, FlagInv, StateInv, CountInv, Epochs
  <1>14. CASE RefreshRefused
    BY <1>14 DEF RefreshRefused, server, TornDown, Flushed, Admitted, EpochInv,
         TypeInv, FlagInv, StateInv, CountInv, Epochs
  <1>15. CASE RefreshFails
    BY <1>15 DEF RefreshFails, server, room, buffer, replica, Fault, EpochInv,
         TypeInv, FlagInv, StateInv, CountInv, Epochs
  <1>16. CASE Stall
    BY <1>16 DEF Stall, server, room, buffer, replica, Fault, StartRefresh,
         EpochInv, TypeInv, FlagInv, StateInv, CountInv, Epochs
  <1>17. CASE DecisionEvent
    BY <1>17 DEF DecisionEvent, server, room, buffer, replica, StartRefresh,
         EpochInv, TypeInv, FlagInv, StateInv, CountInv, Epochs
  <1>18. CASE Authenticate
    BY <1>18 DEF Authenticate, server, room, buffer, editor, Valid, EpochInv,
         TypeInv, FlagInv, StateInv, CountInv, Epochs
  <1>19. CASE Refuse
    BY <1>19 DEF Refuse, server, room, buffer, StartRefresh, Valid,
         ShouldPreserve, EpochInv, TypeInv, FlagInv, StateInv, CountInv, Epochs
  <1>20. CASE Attach
    BY <1>20 DEF Attach, server, MaybeClear, Clears, Rebind, EpochInv, TypeInv,
         FlagInv, StateInv, CountInv, Epochs
  <1>21. CASE Ack
    BY <1>21 DEF Ack, server, room, editor, MaybeClear, Clears, EpochInv,
         TypeInv, FlagInv, StateInv, CountInv, Epochs
  <1>22. CASE Drop
    BY <1>22 DEF Drop, Fault, Lost, server, buffer, editor, EpochInv, TypeInv,
         FlagInv, StateInv, CountInv, Epochs
  <1>23. CASE SeesClose
    BY <1>23 DEF SeesClose, Lost, server, buffer, editor, EpochInv, TypeInv,
         FlagInv, StateInv, CountInv, Epochs
  <1>24. CASE StartProbe
    BY <1>24 DEF StartProbe, Binding, server, room, buffer, replica, EpochInv,
         TypeInv, FlagInv, StateInv, CountInv, Epochs
  <1>25. CASE BindGivesUp
    BY <1>25 DEF BindGivesUp, Binding, server, room, buffer, replica, EpochInv,
         TypeInv, FlagInv, StateInv, CountInv, Epochs
  <1>26. CASE ProbeAcked
    BY <1>26 DEF ProbeAcked, Binding, server, room, buffer, replica, EpochInv,
         TypeInv, FlagInv, StateInv, CountInv, Epochs
  <1>27. CASE ProbeFailed
    BY <1>27 DEF ProbeFailed, Fault, Binding, server, room, buffer, replica,
         EpochInv, TypeInv, FlagInv, StateInv, CountInv, Epochs
  <1>28. CASE ProbeRefresh
    BY <1>28 DEF ProbeRefresh, StartRefresh, Binding, server, room, buffer,
         replica, EpochInv, TypeInv, FlagInv, StateInv, CountInv, Epochs
  <1>29. CASE Retry
    BY <1>29 DEF Retry, StartRefresh, Binding, server, room, buffer, replica,
         EpochInv, TypeInv, FlagInv, StateInv, CountInv, Epochs
  <1>30. CASE Reload
    BY <1>30 DEF Reload, Fault, Opened, server, Connect, Admitted, Flushed,
         EpochInv, TypeInv, FlagInv, StateInv, CountInv, Epochs
  <1>31. CASE Crash
    BY <1>31 DEF Crash, Fault, Opened, server, Connect, Admitted, Resident,
         EpochInv, TypeInv, FlagInv, StateInv, CountInv, Epochs
  <1>32. CASE UNCHANGED vars
    BY <1>32 DEF vars, server, room, buffer, replica, editor, EpochInv,
         TypeInv, FlagInv, StateInv, CountInv, Epochs
  <1>33. ASSUME NEW stores \in BOOLEAN, Unload(stores) PROVE EpochInv'
    BY <1>33 DEF Unload, Schedules, server, buffer, replica, editor, EpochInv,
         TypeInv, FlagInv, StateInv, CountInv, Epochs
  <1> QED
    BY <1>1, <1>2, <1>3, <1>4, <1>5, <1>6, <1>7, <1>8, <1>9, <1>10, <1>11,
         <1>12, <1>13,
       <1>14, <1>15, <1>16, <1>17, <1>18, <1>19, <1>20, <1>21, <1>22, <1>23, <1>24, <1>25,
       <1>26, <1>27, <1>28, <1>29, <1>30, <1>31, <1>32, <1>33 DEF Next

LEMMA MadeKept ==
  ASSUME TypeInv, SessionInv, MadeInv, [Next]_vars
  PROVE  MadeInv'
  <1>1. CASE Pause
    BY <1>1 DEF Pause, buffer, replica, editor, Invalidate, Resident,
         NextEpoch, MadeInv, TypeInv, FlagInv, StateInv, CountInv, SessionInv
  <1>2. CASE Revoke
    BY <1>2 DEF Revoke, buffer, replica, editor, Invalidate, Resident,
         NextEpoch, MadeInv, TypeInv, FlagInv, StateInv, CountInv, SessionInv
  <1>3. CASE Resume
    BY <1>3 DEF Resume, room, buffer, replica, editor, MadeInv, TypeInv,
         FlagInv, StateInv, CountInv, SessionInv
  <1>4. CASE Rewrite
    BY <1>4 DEF Rewrite, buffer, replica, editor, Invalidate, Resident,
         NextEpoch, MadeInv, TypeInv, FlagInv, StateInv, CountInv, SessionInv
  <1>5. CASE CoolDown
    BY <1>5 DEF CoolDown, room, buffer, replica, editor, MadeInv, TypeInv,
         FlagInv, StateInv, CountInv, SessionInv
  <1>6. CASE OthersEdit
    BY <1>6 DEF OthersEdit, server, buffer, replica, editor, Schedules,
         MadeInv, TypeInv, FlagInv, StateInv, CountInv, SessionInv
  <1>7. CASE Save
    BY <1>7 DEF Save, buffer, replica, editor, MadeInv, TypeInv, FlagInv,
         StateInv, CountInv, SessionInv
  <1>8. ASSUME NEW e \in Edits, Edit(e) PROVE MadeInv'
    BY <1>8 DEF Edit, Newest, Forgets, server, room, editor, GateOpen, MadeInv,
         TypeInv, FlagInv, StateInv, CountInv, SessionInv
  <1>9. ASSUME NEW e \in Edits, Apply(e) PROVE MadeInv'
    BY <1>9 DEF Apply, server, buffer, editor, Schedules, MadeInv, TypeInv,
         FlagInv, StateInv, CountInv, SessionInv
  <1>10. CASE FlushTimer
    BY <1>10 DEF FlushTimer, server, room, replica, editor, MadeInv, TypeInv,
         FlagInv, StateInv, CountInv, SessionInv
  <1>11. CASE GraceEnds
    BY <1>11 DEF GraceEnds, server, room, replica, editor, MadeInv, TypeInv,
         FlagInv, StateInv, CountInv, SessionInv
  <1>12. CASE RefreshAnswered
    BY <1>12 DEF RefreshAnswered, server, buffer, replica, Reconnect, Connect,
         Flushed, Forgets, Resident, ShouldPreserve, Admitted, MadeInv,
         TypeInv, FlagInv, StateInv, CountInv, SessionInv
  <1>13. CASE LatestAnswered
    BY <1>13 DEF LatestAnswered, server, Reconnect, Connect, Flushed, Forgets,
         Resident, ShouldPreserve, MadeInv, TypeInv, FlagInv, StateInv,
         CountInv, SessionInv
  <1>14. CASE RefreshRefused
    BY <1>14 DEF RefreshRefused, server, TornDown, Flushed, Admitted, MadeInv,
         TypeInv, FlagInv, StateInv, CountInv, SessionInv
  <1>15. CASE RefreshFails
    BY <1>15 DEF RefreshFails, server, room, buffer, replica, Fault, MadeInv,
         TypeInv, FlagInv, StateInv, CountInv, SessionInv
  <1>16. CASE Stall
    BY <1>16 DEF Stall, server, room, buffer, replica, Fault, StartRefresh,
         MadeInv, TypeInv, FlagInv, StateInv, CountInv, SessionInv
  <1>17. CASE DecisionEvent
    BY <1>17 DEF DecisionEvent, server, room, buffer, replica, StartRefresh,
         MadeInv, TypeInv, FlagInv, StateInv, CountInv, SessionInv
  <1>18. CASE Authenticate
    BY <1>18 DEF Authenticate, server, room, buffer, editor, Valid, MadeInv,
         TypeInv, FlagInv, StateInv, CountInv, SessionInv
  <1>19. CASE Refuse
    BY <1>19 DEF Refuse, server, room, buffer, StartRefresh, Valid,
         ShouldPreserve, MadeInv, TypeInv, FlagInv, StateInv, CountInv,
         SessionInv
  <1>20. CASE Attach
    <2>1. /\ live' = IF live = None THEN saved ELSE live
          /\ doc' = doc \cup live' /\ unsynced' = doc \ live'
          /\ UNCHANGED <<saved, acks, recent, dropped, made>>
      BY <1>20 DEF Attach, server
    <2>2. pend' \subseteq pend /\ stored' \subseteq stored
      BY <1>20 DEF Attach, MaybeClear
    <2>3. acks = {}
      BY <1>20 DEF Attach, SessionInv
    <2> QED
      BY <2>1, <2>2, <2>3 DEF MadeInv
  <1>21. CASE Ack
    BY <1>21 DEF Ack, server, room, editor, MaybeClear, Clears, MadeInv,
         TypeInv, FlagInv, StateInv, CountInv, SessionInv
  <1>22. CASE Drop
    BY <1>22 DEF Drop, Fault, Lost, server, buffer, editor, MadeInv, TypeInv,
         FlagInv, StateInv, CountInv, SessionInv
  <1>23. CASE SeesClose
    BY <1>23 DEF SeesClose, Lost, server, buffer, editor, MadeInv, TypeInv,
         FlagInv, StateInv, CountInv, SessionInv
  <1>24. CASE StartProbe
    BY <1>24 DEF StartProbe, Binding, server, room, buffer, replica, MadeInv,
         TypeInv, FlagInv, StateInv, CountInv, SessionInv
  <1>25. CASE BindGivesUp
    BY <1>25 DEF BindGivesUp, Binding, server, room, buffer, replica, MadeInv,
         TypeInv, FlagInv, StateInv, CountInv, SessionInv
  <1>26. CASE ProbeAcked
    BY <1>26 DEF ProbeAcked, Binding, server, room, buffer, replica, MadeInv,
         TypeInv, FlagInv, StateInv, CountInv, SessionInv
  <1>27. CASE ProbeFailed
    BY <1>27 DEF ProbeFailed, Fault, Binding, server, room, buffer, replica,
         MadeInv, TypeInv, FlagInv, StateInv, CountInv, SessionInv
  <1>28. CASE ProbeRefresh
    BY <1>28 DEF ProbeRefresh, StartRefresh, Binding, server, room, buffer,
         replica, MadeInv, TypeInv, FlagInv, StateInv, CountInv, SessionInv
  <1>29. CASE Retry
    BY <1>29 DEF Retry, StartRefresh, Binding, server, room, buffer, replica,
         MadeInv, TypeInv, FlagInv, StateInv, CountInv, SessionInv
  <1>30. CASE Reload
    BY <1>30 DEF Reload, Fault, Opened, Forgets, server, Connect, Admitted,
         Flushed, MadeInv, TypeInv, FlagInv, StateInv, CountInv, SessionInv
  <1>31. CASE Crash
    BY <1>31 DEF Crash, Fault, Opened, Forgets, server, Connect, Admitted,
         Resident, MadeInv, TypeInv, FlagInv, StateInv, CountInv, SessionInv
  <1>32. CASE UNCHANGED vars
    BY <1>32 DEF vars, server, room, buffer, replica, editor, MadeInv, TypeInv,
         FlagInv, StateInv, CountInv, SessionInv
  <1>33. ASSUME NEW stores \in BOOLEAN, Unload(stores) PROVE MadeInv'
    BY <1>33 DEF Unload, Schedules, server, buffer, replica, editor, MadeInv,
         TypeInv, FlagInv, StateInv, CountInv, SessionInv
  <1> QED
    BY <1>1, <1>2, <1>3, <1>4, <1>5, <1>6, <1>7, <1>8, <1>9, <1>10, <1>11,
         <1>12, <1>13,
       <1>14, <1>15, <1>16, <1>17, <1>18, <1>19, <1>20, <1>21, <1>22, <1>23, <1>24, <1>25,
       <1>26, <1>27, <1>28, <1>29, <1>30, <1>31, <1>32, <1>33 DEF Next

LEMMA BufferKept ==
  ASSUME TypeInv, MadeInv, SessionInv, BufferInv, [Next]_vars
  PROVE  BufferInv'
  <1>1. CASE Pause
    BY <1>1 DEF Pause, buffer, replica, editor, Invalidate, Resident,
         NextEpoch, BufferInv, MadeInv, Settled, Resident, SessionInv
  <1>2. CASE Revoke
    BY <1>2 DEF Revoke, buffer, replica, editor, Invalidate, Resident,
         NextEpoch, BufferInv, MadeInv, Settled, Resident, SessionInv
  <1>3. CASE Resume
    BY <1>3 DEF Resume, room, buffer, replica, editor, BufferInv, MadeInv,
         Settled, Resident, SessionInv
  <1>4. CASE Rewrite
    BY <1>4 DEF Rewrite, buffer, replica, editor, Invalidate, Resident,
         NextEpoch, BufferInv, MadeInv, Settled, Resident, SessionInv
  <1>5. CASE CoolDown
    BY <1>5 DEF CoolDown, room, buffer, replica, editor, BufferInv, MadeInv,
         Settled, Resident, SessionInv
  <1>6. CASE OthersEdit
    BY <1>6 DEF OthersEdit, server, buffer, replica, editor, Schedules,
         BufferInv, MadeInv, Settled, Resident, SessionInv
  <1>7. CASE Save
    BY <1>7 DEF Save, buffer, replica, editor, BufferInv, MadeInv, Settled,
         Resident, SessionInv
  <1>8. ASSUME NEW e \in Edits, Edit(e) PROVE BufferInv'
    BY <1>8 DEF Edit, Newest, Forgets, server, room, editor, GateOpen,
         BufferInv, MadeInv, Settled, Resident, SessionInv
  <1>9. ASSUME NEW e \in Edits, Apply(e) PROVE BufferInv'
    <2>1. /\ live # None /\ live' = live \cup {e} /\ acks' = acks \cup {e}
          /\ dropped' = dropped \ {e}
          /\ UNCHANGED <<saved, doc, unsynced, pend, stored, on, made>>
      BY <1>9 DEF Apply, server, buffer, editor, SessionInv
    <2>2. live' # None
      <3>1. live \in SUBSET Edits
        BY <2>1 DEF TypeInv, StateInv
      <3>2. live' \in SUBSET Edits
        BY <1>9, <2>1, <3>1
      <3> QED
        BY <3>2, BoundsAssumption
    <2>3. Resident' = Resident \cup {e}
      BY <2>1, <2>2 DEF Resident
    <2> QED
      BY <2>1, <2>3 DEF BufferInv, MadeInv, Settled
  <1>10. CASE FlushTimer
    BY <1>10 DEF FlushTimer, server, room, replica, editor, BufferInv, MadeInv,
         Settled, Resident, SessionInv
  <1>11. CASE GraceEnds
    BY <1>11 DEF GraceEnds, server, room, replica, editor, BufferInv, MadeInv,
         Settled, Resident, SessionInv
  <1>12. CASE RefreshAnswered
    BY <1>12 DEF RefreshAnswered, server, buffer, replica, Reconnect, Connect,
         Flushed, Forgets, Resident, ShouldPreserve, Admitted, BufferInv,
         MadeInv, Settled, Resident, SessionInv
  <1>13. CASE LatestAnswered
    BY <1>13 DEF LatestAnswered, server, Reconnect, Connect, Flushed, Forgets,
         Resident, ShouldPreserve, BufferInv, MadeInv, Settled, Resident,
         SessionInv
  <1>14. CASE RefreshRefused
    BY <1>14 DEF RefreshRefused, server, TornDown, Flushed, Admitted,
         BufferInv, MadeInv, Settled, Resident, SessionInv
  <1>15. CASE RefreshFails
    BY <1>15 DEF RefreshFails, server, room, buffer, replica, Fault, BufferInv,
         MadeInv, Settled, Resident, SessionInv
  <1>16. CASE Stall
    BY <1>16 DEF Stall, server, room, buffer, replica, Fault, StartRefresh,
         BufferInv, MadeInv, Settled, Resident, SessionInv
  <1>17. CASE DecisionEvent
    BY <1>17 DEF DecisionEvent, server, room, buffer, replica, StartRefresh,
         BufferInv, MadeInv, Settled, Resident, SessionInv
  <1>18. CASE Authenticate
    BY <1>18 DEF Authenticate, server, room, buffer, editor, Valid, BufferInv,
         MadeInv, Settled, Resident, SessionInv
  <1>19. CASE Refuse
    BY <1>19 DEF Refuse, server, room, buffer, StartRefresh, Valid,
         ShouldPreserve, BufferInv, MadeInv, Settled, Resident, SessionInv
  <1>20. CASE Attach
    BY <1>20 DEF Attach, server, MaybeClear, Clears, Rebind, BufferInv,
         MadeInv, Settled, Resident, SessionInv
  <1>21. CASE Ack
    BY <1>21 DEF Ack, server, room, editor, MaybeClear, Clears, BufferInv,
         MadeInv, Settled, Resident, SessionInv
  <1>22. CASE Drop
    BY <1>22 DEF Drop, Fault, Lost, server, buffer, editor, BufferInv, MadeInv,
         Settled, Resident, SessionInv
  <1>23. CASE SeesClose
    BY <1>23 DEF SeesClose, Lost, server, buffer, editor, BufferInv, MadeInv,
         Settled, Resident, SessionInv
  <1>24. CASE StartProbe
    BY <1>24 DEF StartProbe, Binding, server, room, buffer, replica, BufferInv,
         MadeInv, Settled, Resident, SessionInv
  <1>25. CASE BindGivesUp
    BY <1>25 DEF BindGivesUp, Binding, server, room, buffer, replica,
         BufferInv, MadeInv, Settled, Resident, SessionInv
  <1>26. CASE ProbeAcked
    BY <1>26 DEF ProbeAcked, Binding, server, room, buffer, replica, BufferInv,
         MadeInv, Settled, Resident, SessionInv
  <1>27. CASE ProbeFailed
    BY <1>27 DEF ProbeFailed, Fault, Binding, server, room, buffer, replica,
         BufferInv, MadeInv, Settled, Resident, SessionInv
  <1>28. CASE ProbeRefresh
    BY <1>28 DEF ProbeRefresh, StartRefresh, Binding, server, room, buffer,
         replica, BufferInv, MadeInv, Settled, Resident, SessionInv
  <1>29. CASE Retry
    BY <1>29 DEF Retry, StartRefresh, Binding, server, room, buffer, replica,
         BufferInv, MadeInv, Settled, Resident, SessionInv
  <1>30. CASE Reload
    BY <1>30 DEF Reload, Fault, Opened, Forgets, server, Connect, Admitted,
         Flushed, BufferInv, MadeInv, Settled, Resident, SessionInv
  <1>31. CASE Crash
    BY <1>31 DEF Crash, Fault, Opened, Forgets, server, Connect, Admitted,
         Resident, BufferInv, MadeInv, Settled, Resident, SessionInv
  <1>32. CASE UNCHANGED vars
    BY <1>32 DEF vars, server, room, buffer, replica, editor, BufferInv,
         MadeInv, Settled, Resident, SessionInv
  <1>33. ASSUME NEW stores \in BOOLEAN, Unload(stores) PROVE BufferInv'
    BY <1>33 DEF Unload, Schedules, server, buffer, replica, editor, BufferInv,
         MadeInv, Settled, Resident, SessionInv
  <1> QED
    BY <1>1, <1>2, <1>3, <1>4, <1>5, <1>6, <1>7, <1>8, <1>9, <1>10, <1>11,
         <1>12, <1>13,
       <1>14, <1>15, <1>16, <1>17, <1>18, <1>19, <1>20, <1>21, <1>22, <1>23, <1>24, <1>25,
       <1>26, <1>27, <1>28, <1>29, <1>30, <1>31, <1>32, <1>33 DEF Next

LEMMA NothingLost ==
  ASSUME IInv, [Next]_vars
  PROVE  NothingLostSilently'
  <1>1. CASE Pause
    BY <1>1 DEF Pause, buffer, replica, editor, Invalidate, Resident,
         NextEpoch, IInv, NothingLostSilently, BufferInv, Settled, Resident,
         SessionInv
  <1>2. CASE Revoke
    BY <1>2 DEF Revoke, buffer, replica, editor, Invalidate, Resident,
         NextEpoch, IInv, NothingLostSilently, BufferInv, Settled, Resident,
         SessionInv
  <1>3. CASE Resume
    BY <1>3 DEF Resume, room, buffer, replica, editor, IInv,
         NothingLostSilently, BufferInv, Settled, Resident, SessionInv
  <1>4. CASE Rewrite
    BY <1>4 DEF Rewrite, buffer, replica, editor, Invalidate, Resident,
         NextEpoch, IInv, NothingLostSilently, BufferInv, Settled, Resident,
         SessionInv
  <1>5. CASE CoolDown
    BY <1>5 DEF CoolDown, room, buffer, replica, editor, IInv,
         NothingLostSilently, BufferInv, Settled, Resident, SessionInv
  <1>6. CASE OthersEdit
    BY <1>6 DEF OthersEdit, server, buffer, replica, editor, Schedules, IInv,
         NothingLostSilently, BufferInv, Settled, Resident, SessionInv
  <1>7. CASE Save
    BY <1>7 DEF Save, buffer, replica, editor, IInv, NothingLostSilently,
         BufferInv, Settled, Resident, SessionInv
  <1>8. ASSUME NEW e \in Edits, Edit(e) PROVE NothingLostSilently'
    BY <1>8 DEF Edit, Newest, Forgets, server, room, editor, GateOpen, IInv,
         NothingLostSilently, BufferInv, Settled, Resident, SessionInv
  <1>9. ASSUME NEW e \in Edits, Apply(e) PROVE NothingLostSilently'
    <2>1. /\ live # None /\ live' = live \cup {e} /\ acks' = acks \cup {e}
          /\ dropped' = dropped \ {e}
          /\ UNCHANGED <<saved, doc, unsynced, pend, stored, on, made>>
      BY <1>9 DEF Apply, server, buffer, editor, IInv, SessionInv
    <2>2. live' # None
      <3>1. live \in SUBSET Edits
        BY <2>1 DEF IInv, TypeInv, StateInv
      <3>2. live' \in SUBSET Edits
        BY <1>9, <2>1, <3>1
      <3> QED
        BY <3>2, BoundsAssumption
    <2>3. Resident' = Resident \cup {e}
      BY <2>1, <2>2 DEF Resident
    <2> QED
      BY <2>1, <2>3 DEF IInv, NothingLostSilently, BufferInv, Settled
  <1>10. CASE FlushTimer
    BY <1>10 DEF FlushTimer, server, room, replica, editor, IInv,
         NothingLostSilently, BufferInv, Settled, Resident, SessionInv
  <1>11. CASE GraceEnds
    BY <1>11 DEF GraceEnds, server, room, replica, editor, IInv,
         NothingLostSilently, BufferInv, Settled, Resident, SessionInv
  <1>12. CASE RefreshAnswered
    BY <1>12 DEF RefreshAnswered, server, buffer, replica, Reconnect, Connect,
         Flushed, Forgets, Resident, ShouldPreserve, Admitted, IInv,
         NothingLostSilently, BufferInv, Settled, Resident, SessionInv
  <1>13. CASE LatestAnswered
    BY <1>13 DEF LatestAnswered, server, Reconnect, Connect, Flushed, Forgets,
         Resident, ShouldPreserve, IInv, NothingLostSilently, BufferInv,
         Settled, Resident, SessionInv
  <1>14. CASE RefreshRefused
    BY <1>14 DEF RefreshRefused, server, TornDown, Flushed, Admitted, IInv,
         NothingLostSilently, BufferInv, Settled, Resident, SessionInv
  <1>15. CASE RefreshFails
    BY <1>15 DEF RefreshFails, server, room, buffer, replica, Fault, IInv,
         NothingLostSilently, BufferInv, Settled, Resident, SessionInv
  <1>16. CASE Stall
    BY <1>16 DEF Stall, server, room, buffer, replica, Fault, StartRefresh,
         IInv, NothingLostSilently, BufferInv, Settled, Resident, SessionInv
  <1>17. CASE DecisionEvent
    BY <1>17 DEF DecisionEvent, server, room, buffer, replica, StartRefresh,
         IInv, NothingLostSilently, BufferInv, Settled, Resident, SessionInv
  <1>18. CASE Authenticate
    BY <1>18 DEF Authenticate, server, room, buffer, editor, Valid, IInv,
         NothingLostSilently, BufferInv, Settled, Resident, SessionInv
  <1>19. CASE Refuse
    BY <1>19 DEF Refuse, server, room, buffer, StartRefresh, Valid,
         ShouldPreserve, IInv, NothingLostSilently, BufferInv, Settled,
         Resident, SessionInv
  <1>20. CASE Attach
    BY <1>20 DEF Attach, server, MaybeClear, Clears, Rebind, IInv,
         NothingLostSilently, BufferInv, Settled, Resident, SessionInv
  <1>21. CASE Ack
    BY <1>21 DEF Ack, server, room, editor, MaybeClear, Clears, IInv,
         NothingLostSilently, BufferInv, Settled, Resident, SessionInv
  <1>22. CASE Drop
    BY <1>22 DEF Drop, Fault, Lost, server, buffer, editor, IInv,
         NothingLostSilently, BufferInv, Settled, Resident, SessionInv
  <1>23. CASE SeesClose
    BY <1>23 DEF SeesClose, Lost, server, buffer, editor, IInv,
         NothingLostSilently, BufferInv, Settled, Resident, SessionInv
  <1>24. CASE StartProbe
    BY <1>24 DEF StartProbe, Binding, server, room, buffer, replica, IInv,
         NothingLostSilently, BufferInv, Settled, Resident, SessionInv
  <1>25. CASE BindGivesUp
    BY <1>25 DEF BindGivesUp, Binding, server, room, buffer, replica, IInv,
         NothingLostSilently, BufferInv, Settled, Resident, SessionInv
  <1>26. CASE ProbeAcked
    BY <1>26 DEF ProbeAcked, Binding, server, room, buffer, replica, IInv,
         NothingLostSilently, BufferInv, Settled, Resident, SessionInv
  <1>27. CASE ProbeFailed
    BY <1>27 DEF ProbeFailed, Fault, Binding, server, room, buffer, replica,
         IInv, NothingLostSilently, BufferInv, Settled, Resident, SessionInv
  <1>28. CASE ProbeRefresh
    BY <1>28 DEF ProbeRefresh, StartRefresh, Binding, server, room, buffer,
         replica, IInv, NothingLostSilently, BufferInv, Settled, Resident,
         SessionInv
  <1>29. CASE Retry
    BY <1>29 DEF Retry, StartRefresh, Binding, server, room, buffer, replica,
         IInv, NothingLostSilently, BufferInv, Settled, Resident, SessionInv
  <1>30. CASE Reload
    BY <1>30 DEF Reload, Fault, Opened, Forgets, server, Connect, Admitted,
         Flushed, IInv, NothingLostSilently, BufferInv, Settled, Resident,
         SessionInv
  <1>31. CASE Crash
    BY <1>31 DEF Crash, Fault, Opened, Forgets, server, Connect, Admitted,
         Resident, IInv, NothingLostSilently, BufferInv, Settled, Resident,
         SessionInv
  <1>32. CASE UNCHANGED vars
    BY <1>32 DEF vars, server, room, buffer, replica, editor, IInv,
         NothingLostSilently, BufferInv, Settled, Resident, SessionInv
  <1>33. ASSUME NEW stores \in BOOLEAN, Unload(stores) PROVE NothingLostSilently'
    BY <1>33 DEF Unload, Schedules, server, buffer, replica, editor, IInv,
         NothingLostSilently, BufferInv, Settled, Resident, SessionInv
  <1> QED
    BY <1>1, <1>2, <1>3, <1>4, <1>5, <1>6, <1>7, <1>8, <1>9, <1>10, <1>11,
         <1>12, <1>13,
       <1>14, <1>15, <1>16, <1>17, <1>18, <1>19, <1>20, <1>21, <1>22, <1>23, <1>24, <1>25,
       <1>26, <1>27, <1>28, <1>29, <1>30, <1>31, <1>32, <1>33 DEF Next

-----------------------------------------------------------------------------
\* The invariant holds at the start: a tab that has just opened and typed nothing.
LEMMA InitIInv == Init => IInv
  <1> SUFFICES ASSUME Init PROVE IInv
    OBVIOUS
  <1>1. FlagInv
    BY DEF Init, FlagInv
  <1>2. StateInv
    BY DEF Init, StateInv, Links, Binds
  <1>3. CountInv
    <2>1. 0 \in Epochs /\ 0 \in 0 .. MaxAttempts /\ 0 \in 0 .. MaxFaults
      BY BoundsAssumption DEF Epochs
    <2> QED
      BY <2>1 DEF Init, CountInv
  <1>4. MadeInv
    BY DEF Init, MadeInv
  <1>5. SessionInv
    BY DEF Init, SessionInv
  <1>6. EpochInv
    BY DEF Init, EpochInv
  <1>7. BufferInv
    BY DEF Init, BufferInv, Settled
  <1>8. NothingLostSilently
    BY DEF Init, NothingLostSilently
  <1> QED
    BY <1>1, <1>2, <1>3, <1>4, <1>5, <1>6, <1>7, <1>8 DEF IInv, TypeInv

\* Every step keeps it.
LEMMA Inductive ==
  ASSUME IInv, [Next]_vars
  PROVE  IInv'
  <1>1. TypeInv /\ FlagInv /\ StateInv /\ CountInv
    BY DEF IInv, TypeInv
  <1>2. MadeInv /\ SessionInv /\ EpochInv /\ BufferInv
    BY DEF IInv
  <1>3. FlagInv'
    BY <1>1, FlagsKept
  <1>4. StateInv'
    BY <1>1, <1>2, StatesKept
  <1>5. CountInv'
    BY <1>1, <1>2, CountsKept
  <1>6. TypeInv'
    BY <1>3, <1>4, <1>5 DEF TypeInv
  <1>7. MadeInv'
    BY <1>1, <1>2, MadeKept
  <1>8. SessionInv'
    BY <1>1, <1>2, SessionKept
  <1>9. EpochInv'
    BY <1>1, <1>2, <1>6, EpochKept
  <1>10. BufferInv'
    BY <1>1, <1>2, BufferKept
  <1>11. NothingLostSilently'
    BY NothingLost
  <1> QED
    BY <1>6, <1>7, <1>8, <1>9, <1>10, <1>11 DEF IInv

LEMMA AlwaysIInv == Spec => []IInv
  <1> QED
    BY InitIInv, Inductive, PTL DEF Spec

-----------------------------------------------------------------------------
\* Every variable of the tab and of the server stays in its range, no session is
\* of an epoch the document has not reached, and a socket in the room has a
\* resident document (collab-client.ts, collab.ts).
THEOREM TypeCorrect == Spec => []TypeOK
  <1>1. IInv => TypeOK
    <2> SUFFICES ASSUME IInv PROVE TypeOK
      OBVIOUS
    <2>1. FlagInv /\ StateInv /\ CountInv /\ MadeInv /\ SessionInv /\ EpochInv
      BY DEF IInv, TypeInv
    <2>2. {token, dirty, cooling, on, flush, keep, rebind, notice} \subseteq BOOLEAN
      BY <2>1 DEF FlagInv
    <2>3. {conn, session, next} \subseteq 0 .. epoch \cup {None}
      BY <2>1, BoundsAssumption DEF CountInv, EpochInv, Epochs
    <2>4. {saved, doc, unsynced, acks, pend, stored, recent, dropped} \subseteq SUBSET made
      BY <2>1 DEF MadeInv
    <2>5. epoch \in 0 .. MaxEpoch /\ attempts \in 0 .. MaxAttempts /\ faults \in 0 .. MaxFaults
      BY <2>1 DEF CountInv, Epochs
    <2>6. /\ share \in {"ACTIVE", "PAUSED", "REVOKED"} /\ link \in Links /\ bind \in Binds
          /\ refresh \in {"idle", "fetch", "latest"} /\ made \subseteq Edits
      BY <2>1 DEF StateInv
    <2>7. /\ live # None => live \subseteq made
          /\ unsynced \subseteq doc /\ acks \subseteq unsynced
      BY <2>1 DEF MadeInv
    <2>8. /\ (next # None) <=> (refresh = "latest")
          /\ on <=> (link # "off")
          /\ conn # None => live # None /\ link = "synced"
      BY <2>1 DEF SessionInv
    <2> QED
      BY <2>2, <2>3, <2>4, <2>5, <2>6, <2>7, <2>8 DEF TypeOK
  <1> QED
    BY <1>1, AlwaysIInv, PTL

\* No edit of the user vanishes without one of the named losses: across every
\* reconnect, refusal, refresh, pause, rewrite, reload and crash it is saved,
\* resident, buffered, in localStorage, or was dropped (collab-client.ts).
THEOREM NothingIsLost == Spec => []NothingLostSilently
  <1>1. IInv => NothingLostSilently
    BY DEF IInv
  <1> QED
    BY <1>1, AlwaysIInv, PTL

\* A tab whose link is revoked has no socket of the current epoch, whatever the
\* owner does with the share afterwards (routes.ts, resume).
THEOREM RevokedTabsStayOut == Spec => []RevokedStaysOut
  <1>1. IInv => RevokedStaysOut
    BY DEF IInv, EpochInv, RevokedStaysOut
  <1> QED
    BY <1>1, AlwaysIInv, PTL

=============================================================================
