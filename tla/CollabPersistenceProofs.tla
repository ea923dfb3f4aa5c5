---------------------- MODULE CollabPersistenceProofs ----------------------
(***************************************************************************)
(* Theorems about CollabPersistence, for any edits and any bounds.         *)
(*                                                                         *)
(* An instance is current while it carries the present generation; only a  *)
(* current one can be written, and an invalidation leaves none. Its rivals *)
(* are the copies (live, loaded, a hydration under way) that outlive it,   *)
(* and the runs of instances that were resident before the present one.    *)
(* The invariants below say how these relate to the database.              *)
(***************************************************************************)
EXTENDS CollabPersistence, TLAPS

Current(i) == dgen[i] = gen

\* live and loaded are documents whose future counts: no teardown and no
\* reload is about to discard them.
CleanLive   == live # None /\ tearing = 0 /\ ~reload
CleanLoaded == loaded # None /\ ~reload

HasRun(i) == \E r \in runs : r.inst = i /\ r.gen = gen

\* A write of i is on its way; it can be made only if i is current.
Writing(i) ==
    \/ timer # None /\ timer.inst = i
    \/ pend # None /\ pend.inst = i
    \/ HasRun(i)
    \/ i \in stores

Busy(i) == Current(i) /\ Writing(i)

-----------------------------------------------------------------------------
(***************************************************************************)
(* The inductive invariant, in the order in which its parts are proved.    *)
(***************************************************************************)
\* Every content is of edits that were made; those the database has or gave
\* are saved ones, and so is the baseline.
MadeInv ==
    /\ db.content \subseteq saved /\ db.text \subseteq saved
    /\ load # None => load.content \subseteq saved
    /\ mem[Copy] \subseteq saved
    /\ base # None => base \subseteq saved
    /\ \A i \in Instances : mem[i] \subseteq made

\* Generations: an invalidation leaves no instance current, and no document
\* resident but a copy of the history; otherwise the resident instance is current,
\* and a live one that is not about to go is current or new.
StampInv ==
    /\ \A i \in Instances : dgen[i] # None => dgen[i] <= gen
    /\ \A i \in Instances : i > count => dgen[i] = None
    /\ live # None => live <= count
    /\ reload => invalid
    /\ invalid => \A i \in Instances : ~Current(i)
    /\ load # None => live = None /\ loaded \in {None, Copy} /\ count < MaxInst
    /\ invalid /\ ~reload => loaded \in {None, Copy}
    /\ ~invalid /\ loaded \in Instances => Current(loaded)
    /\ CleanLive => dgen[live] \in {None, gen}
    /\ meta = None /\ loaded # None /\ live # None => loaded = live

\* Requests are for instances that were stamped; that of the timer is for a
\* current one and for the row too, one for the history alone is for a current
\* one, and so is a run of the present generation.
JobInv ==
    /\ timer # None => timer.gen = gen /\ timer.row /\ Current(timer.inst)
    /\ pend # None => /\ pend.gen \in {None, gen} /\ dgen[pend.inst] # None
                      /\ ~pend.row => Current(pend.inst)
    /\ \A r \in runs : r.gen <= gen /\ (r.gen = gen => Current(r.inst))
    /\ \A i \in stores : dgen[i] # None /\ (Current(i) => live = i)
    /\ flight => \E r \in runs : r.gen = gen

\* The version tells the contents of the history apart.
VerInv ==
    /\ meta # None => meta.ver <= db.ver
    /\ load # None => /\ load.ver <= db.ver
                      /\ load.ver = db.ver => load.content = db.content

\* Base is what every later part stands on.
Base == TypeOK /\ MadeInv /\ StampInv /\ JobInv /\ VerInv

\* The contents that may still be written, or served again.
View(X) ==
    \/ CleanLive /\ X = mem[live]
    \/ CleanLoaded /\ X = mem[loaded]
    \/ \E i \in Instances : Current(i) /\ X = mem[i]

\* While no document is resident at most one instance has a write on its way.
AloneInv ==
    loaded = None \/ load # None =>
        \A i \in Instances : Busy(i) =>
            /\ live # None => i = live
            /\ \A j \in Instances : Busy(j) => i = j
            /\ meta = None => /\ live = i /\ i \in stores /\ timer = None
                              /\ pend = None \/ pend.inst # i
                              /\ ~HasRun(i)

\* What a revoked document still has waiting are stores.
RevokedInv ==
    db.share = "REVOKED" =>
        timer = None /\ pend = None /\ \A i \in Instances : ~HasRun(i)

\* What was discarded was never saved, and is in nothing that may still be
\* written or served.
LostInv ==
    /\ lost \cap saved = {}
    /\ \A X \in SUBSET Edits : View(X) => X \cap lost = {}

\* What a document lacks of the history that meta takes it to have.
SeenInv ==
    meta = DbMeta =>
        /\ CleanLive => db.content \ mem[live] \subseteq unread
        /\ CleanLoaded => db.content \ mem[loaded] \subseteq unread
        /\ loaded = None => \A i \in Instances :
               Busy(i) => db.content \ mem[i] \subseteq unread

\* A run that may commit lacks of the history only what it was never compared
\* with.
LateInv ==
    \A r \in runs : r.gen = gen => db.content \ mem[r.inst] \subseteq r.late \cup unread

\* Saved, or given up in a named way.
Settled(X) == X \subseteq saved \cup lost \cup unserved

\* A resident document is written or is being written; live has nothing of
\* its own that the resident document lacks.
WriteInv ==
    /\ ~invalid /\ loaded \in Instances => Settled(mem[loaded]) \/ Writing(loaded)
    /\ CleanLive /\ loaded \in Instances => Settled(mem[live] \ mem[loaded])
    /\ CleanLive /\ loaded \in {None, Copy} =>
           Settled(mem[live]) \/ (loaded = None /\ Busy(live))

-----------------------------------------------------------------------------
(***************************************************************************)
(* The steps, by what they do to this state: persistDoc for its three      *)
(* callers, the persist that yields, the invalidations.                    *)
(***************************************************************************)
\* The request of i that persistDoc serves: that of the timer, the pending
\* one, or that of a store.
Serves(i, x, row, t, m) ==
    /\ flight \/ pend = None \/ pend.inst = i
    /\ \/ /\ timer # None /\ i = timer.inst /\ x = timer.gen /\ row = timer.row
          /\ t = None /\ m = meta /\ stores' = stores /\ unread' = unread
       \/ /\ ~flight /\ pend # None
          /\ i = pend.inst /\ x = pend.gen /\ row = pend.row
          /\ t = timer /\ m = meta /\ stores' = stores /\ unread' = unread
       \/ /\ i \in stores /\ ~Conflict(i, meta) /\ x = None /\ row
          /\ t = timer /\ m = (IF meta = None THEN DbMeta ELSE meta)
          /\ stores' = stores \ {i}
          /\ unread' = IF meta = None /\ meta' # None
                       THEN unread \cup Unseen(db, {live, loaded}) ELSE unread
    /\ UNCHANGED <<db, count, live, load, clients, tearing, clearing, release,
                   debounced, made, saved>>

\* What the three ways to finish a store leave alone.
Finishes ==
    /\ stores' \subseteq stores
    /\ UNCHANGED <<count, live, load, clients, tearing, clearing, release,
                   debounced, made, saved>>

\* persistDoc or persistOnStoreDocument finds the history ahead and takes it,
Yields(i) == YieldToRow(i) /\ RowFollows /\ Finishes /\ UNCHANGED unread

\* or finds the row ahead, applies it,
Reconciling == Reconcile /\ Finishes /\ UNCHANGED db

\* or fails to.
GivesUps(i) == GiveUp(i) /\ Finishes /\ UNCHANGED db

\* BeginInvalidate with whatever its caller also does.
Invalidates ==
    /\ \E clears \in BOOLEAN :
         \/ BeginInvalidate(clears, db)
         \/ \E share \in {"PAUSED", "REVOKED"} :
               BeginInvalidate(clears,
                   [db EXCEPT !.share = share, !.ver = @ + 1, !.epoch = @ + 1])
    /\ runs' \subseteq runs /\ stores' \subseteq stores
    /\ reload' \in {reload, FALSE} /\ debounced' = debounced

\* A persist that does not yield.
Persists ==
    \E i \in Instances, x \in Nat \cup {None}, row \in BOOLEAN,
       t \in Job \cup {None}, m \in Meta \cup {None} :
        /\ Serves(i, x, row, t, m)
        /\ \/ Queue(i, x, row, t, m) \/ Refuse(i, t) \/ Drop(i, x, row, t, m)
           \/ \E a \in BOOLEAN : Start(i, x, row, t, m, a)

Step ==
    \/ Persists
    \/ \E i \in Instances : Yields(i) \/ GivesUps(i)
    \/ Reconciling
    \/ Invalidates
    \/ EvictStale \/ Join \/ ServeLoaded \/ BeginLoad \/ EndLoad
    \/ \E e \in Edits : Edit(e) \/ EditIgnored(e) \/ RowWrite(e)
    \/ \E e \in Edits, bump \in BOOLEAN : ExternalWrite(e, bump)
    \/ \E cl \in SUBSET Nat : live # None /\ (OnStore(cl) \/ StoreIgnored(cl))
    \/ \E r \in runs : Commit(r) \/ CommitFails(r)
    \/ Resume \/ EndInvalidate \/ (Release /\ tearing = 0) \/ Unload

-----------------------------------------------------------------------------
\* Later changes nothing of a run but what came late to it.
LEMMA LaterRuns ==
    ASSUME NEW R \in SUBSET Run, NEW E \in SUBSET Edits
    PROVE  /\ Later(R, E) \subseteq Run
           /\ \A y \in Later(R, E) : \E r \in R :
                 y.inst = r.inst /\ y.gen = r.gen /\ y.late = r.late \cup E
           /\ \A r \in R : \E y \in Later(R, E) :
                 y.inst = r.inst /\ y.gen = r.gen /\ y.late = r.late \cup E
<1>1. \A r \in R : LET y == [r EXCEPT !.late = @ \cup E]
                 IN  /\ y \in Run
                     /\ y.inst = r.inst /\ y.gen = r.gen /\ y.late = r.late \cup E
  BY DEF Run
<1>2. QED BY <1>1 DEF Later

\* Clearing the history makes it the row's text.
LEMMA ClearedRow ==
    ASSUME NEW d, NEW S, d \in [content : SUBSET Edits, text : SUBSET Edits,
                                ver : Nat, epoch : Nat, share : S]
    PROVE  /\ Cleared(d) \in [content : SUBSET Edits, text : SUBSET Edits,
                              ver : Nat, epoch : Nat, share : S]
           /\ Cleared(d).content = d.text /\ Cleared(d).text = d.text
           /\ Cleared(d).ver = d.ver + 1 /\ Cleared(d).share = d.share
<1>1. d.text \in SUBSET Edits /\ d.ver + 1 \in Nat
  OBVIOUS
<1>2. QED BY <1>1 DEF Cleared

\* What an invalidation makes of the database.
LEMMA InvalidatedRow ==
    ASSUME TypeOK, Invalidates
    PROVE  /\ RowType'
           /\ db'.content \in {db.content, db.text} /\ db'.text = db.text
           /\ db' = db \/ db'.ver > db.ver
<1> DEFINE Row == [content : SUBSET Edits, text : SUBSET Edits, ver : Nat,
                  epoch : Nat, share : {"ACTIVE", "PAUSED", "REVOKED"}]
           Same(d) == /\ d.content = db.content /\ d.text = db.text
                      /\ d = db \/ d.ver = db.ver + 1
<1>1. \E d \in Row : Same(d) /\ (db' = d \/ db' = Cleared(d))
  <2>1. PICK clears \in BOOLEAN :
           \/ BeginInvalidate(clears, db)
           \/ \E share \in {"PAUSED", "REVOKED"} :
                BeginInvalidate(clears,
                    [db EXCEPT !.share = share, !.ver = @ + 1, !.epoch = @ + 1])
    BY DEF Invalidates
  <2>2. CASE BeginInvalidate(clears, db)
    BY <2>2 DEF BeginInvalidate, TypeOK, RowType
  <2>3. ASSUME NEW share \in {"PAUSED", "REVOKED"},
               BeginInvalidate(clears,
                   [db EXCEPT !.share = share, !.ver = @ + 1, !.epoch = @ + 1])
        PROVE  \E d \in Row : Same(d) /\ (db' = d \/ db' = Cleared(d))
    <3> DEFINE d == [db EXCEPT !.share = share, !.ver = @ + 1, !.epoch = @ + 1]
    <3>1. db.ver + 1 \in Nat /\ db.epoch + 1 \in Nat
      BY DEF TypeOK, RowType
    <3>2. d \in Row /\ Same(d)
      BY <3>1 DEF TypeOK, RowType
    <3>3. db' = d \/ db' = Cleared(d)
      BY <2>3 DEF BeginInvalidate
    <3> HIDE DEF d, Same, Row
    <3>4. QED BY <3>2, <3>3
  <2>4. QED BY <2>1, <2>2, <2>3
<1>2. PICK d \in Row : Same(d) /\ (db' = d \/ db' = Cleared(d))
  BY <1>1
<1>3. db.ver \in Nat /\ db.ver + 1 > db.ver /\ db.ver + 2 > db.ver
  BY DEF TypeOK, RowType
<1>4. CASE db' = d
  <2>1. RowType'
    BY <1>2, <1>4 DEF RowType
  <2>2. QED BY <1>2, <1>3, <1>4, <2>1
<1>5. CASE db' = Cleared(d)
  <2>1. /\ Cleared(d) \in Row /\ Cleared(d).content = d.text
        /\ Cleared(d).text = d.text /\ Cleared(d).ver = d.ver + 1
    BY <1>2, ClearedRow
  <2>2. RowType'
    BY <1>5, <2>1 DEF RowType
  <2>3. db'.ver > db.ver
    BY <1>2, <1>3, <1>5, <2>1
  <2>4. QED BY <1>2, <1>5, <2>1, <2>2, <2>3
<1>6. QED BY <1>2, <1>4, <1>5

\* What the end of one does.
LEMMA ClearedAgain ==
    ASSUME TypeOK, EndInvalidate
    PROVE  /\ RowType'
           /\ db'.content \in {db.content, db.text} /\ db'.text = db.text
           /\ db' = db \/ db'.ver = db.ver + 1
           /\ db'.share = db.share
<1>1. db' = db \/ db' = Cleared(db)
  BY DEF EndInvalidate
<1>2. CASE db' = db
  BY <1>2 DEF TypeOK, RowType
<1>3. CASE db' = Cleared(db)
  BY <1>3, ClearedRow DEF TypeOK, RowType
<1>4. QED BY <1>1, <1>2, <1>3

\* What the store's reload does to the row.
LEMMA FollowedRow ==
    ASSUME TypeOK, RowFollows
    PROVE  /\ RowType'
           /\ db'.content = db.content /\ db.text \cap db.content \subseteq db'.text
           /\ db' = db \/ db'.ver = db.ver + 1
           /\ db'.share = db.share
           /\ db'.text \in {db.text, db.content}
<1>1. db.ver + 1 \in Nat /\ db.content \in SUBSET Edits
  BY DEF TypeOK, RowType
<1>2. CASE db' = db
  BY <1>2 DEF TypeOK, RowType
<1>3. CASE db' = [db EXCEPT !.text = db.content, !.ver = @ + 1]
  BY <1>1, <1>3 DEF TypeOK, RowType
<1>4. QED BY <1>2, <1>3 DEF RowFollows

\* What the transaction of a run writes.
LEMMA WrittenRow ==
    ASSUME TypeOK, NEW r \in runs, Written(r)
    PROVE  /\ RowType'
           /\ db'.content \in {db.content, mem[r.inst]}
           /\ db.text \cap mem[r.inst] \subseteq db'.text
           /\ db'.text \subseteq db.text \cup mem[r.inst]
           /\ db' = db \/ db'.ver = db.ver + 1
           /\ db'.epoch = db.epoch /\ db'.share = db.share
           /\ mem[r.inst] \subseteq db'.content \cup db'.text \/ base = mem[r.inst]
<1>1. PICK keep \in BOOLEAN, kept \in SUBSET (db.text \ mem[r.inst]) :
         LET history == IF keep THEN db.content ELSE mem[r.inst]
             text    == IF r.row THEN mem[r.inst] \cup kept ELSE db.text
         IN  /\ base # None => keep = (base = mem[r.inst])
             /\ keep => base # None \/ r.row
             /\ db' = IF history = db.content /\ text = db.text THEN db
                      ELSE [db EXCEPT !.content = history, !.text = text, !.ver = @ + 1]
  BY DEF Written
<1> DEFINE history == IF keep THEN db.content ELSE mem[r.inst]
           text    == IF r.row THEN mem[r.inst] \cup kept ELSE db.text
<1>2. /\ mem[r.inst] \in SUBSET Edits /\ db.content \in SUBSET Edits
      /\ db.text \in SUBSET Edits /\ db.ver + 1 \in Nat
  BY DEF TypeOK, QueueType, Run, RoomType, RowType
<1>3. history \in SUBSET Edits /\ text \in SUBSET Edits
  BY <1>2
<1>4. /\ base # None => keep = (base = mem[r.inst])
      /\ keep => base # None \/ r.row
      /\ db' = IF history = db.content /\ text = db.text THEN db
               ELSE [db EXCEPT !.content = history, !.text = text, !.ver = @ + 1]
  BY <1>1
<1>5. /\ history \in {db.content, mem[r.inst]}
      /\ db.text \cap mem[r.inst] \subseteq text
      /\ text \subseteq db.text \cup mem[r.inst]
      /\ mem[r.inst] \subseteq history \cup text \/ base = mem[r.inst]
  BY <1>4
<1> HIDE DEF history, text
<1>6. /\ db'.content = history /\ db'.text = text
      /\ db' = db \/ db'.ver = db.ver + 1
      /\ db'.epoch = db.epoch /\ db'.share = db.share
  BY <1>2, <1>3, <1>4 DEF TypeOK, RowType
<1>7. RowType'
  BY <1>2, <1>3, <1>4 DEF TypeOK, RowType
<1>8. QED BY <1>5, <1>6, <1>7

\* And what is saved then: the document, by the write or by an earlier one.
LEMMA WrittenSaves ==
    ASSUME TypeOK, MadeInv, NEW r \in runs, Written(r)
    PROVE  /\ saved' = saved \cup mem[r.inst]
           /\ db'.content \subseteq saved' /\ db'.text \subseteq saved'
           /\ mem[r.inst] \subseteq made
<1>1. saved' = saved \cup db'.content \cup db'.text
  BY DEF Written
<1>2. r.inst \in Instances /\ mem[r.inst] \in SUBSET Edits
  BY DEF TypeOK, QueueType, Run, RoomType
<1>3. base = mem[r.inst] => mem[r.inst] \subseteq saved
  BY <1>2, ValuesAssumption DEF MadeInv
<1>4. QED BY <1>1, <1>2, <1>3, WrittenRow DEF MadeInv

\* The database keeps its type.
LEMMA RowTypeStep ==
    ASSUME TypeOK, Step
    PROVE  RowType'
<1>1. ASSUME Invalidates PROVE RowType'
  BY <1>1, InvalidatedRow
<1>2. ASSUME NEW e \in Edits, NEW bump \in BOOLEAN, ExternalWrite(e, bump)
      PROVE  RowType'
  <2>1. PICK p \in {db.epoch, db.epoch + 1} :
            db' = [db EXCEPT !.content = @ \cup {e}, !.text = @ \cup {e},
                             !.ver = @ + 1, !.epoch = p]
    BY <1>2 DEF ExternalWrite
  <2>2. /\ p \in Nat /\ db.ver + 1 \in Nat /\ db.content \cup {e} \subseteq Edits
        /\ db.text \cup {e} \subseteq Edits
    BY DEF TypeOK, RowType
  <2>3. QED BY <2>1, <2>2 DEF TypeOK, RowType
<1>3. ASSUME NEW e \in Edits, RowWrite(e) PROVE RowType'
  <2>1. db' = [db EXCEPT !.text = @ \cup {e}, !.ver = @ + 1]
    BY <1>3 DEF RowWrite
  <2>2. db.ver + 1 \in Nat /\ db.text \cup {e} \subseteq Edits
    BY DEF TypeOK, RowType
  <2>3. QED BY <2>1, <2>2 DEF TypeOK, RowType
<1>4. ASSUME NEW r \in runs, Commit(r) PROVE RowType'
  <2>1. db' = db \/ Written(r)
    BY <1>4 DEF Commit
  <2>2. QED BY <2>1, WrittenRow DEF TypeOK, RowType
<1>5. ASSUME Resume PROVE RowType'
  <2>1. db' = [db EXCEPT !.share = "ACTIVE", !.ver = @ + 1]
    BY <1>5 DEF Resume
  <2>2. db.ver + 1 \in Nat
    BY DEF TypeOK, RowType
  <2>3. QED BY <2>1, <2>2 DEF TypeOK, RowType
<1>6. ASSUME NEW i \in Instances, Yields(i) PROVE RowType'
  BY <1>6, FollowedRow DEF Yields
<1>7. ASSUME EndInvalidate PROVE RowType'
  BY <1>7, ClearedAgain
<1>8. ASSUME Persists
      PROVE  RowType'
  <2>1. UNCHANGED <<db>>
    BY <1>8 DEF Persists, Serves
  <2>2. QED BY <2>1 DEF TypeOK, RowType
<1>9. ASSUME
          \/ Reconciling
          \/ \E i \in Instances : GivesUps(i)
          \/ EvictStale
          \/ Join
          \/ ServeLoaded
          \/ BeginLoad
          \/ EndLoad
          \/ \E e \in Edits : Edit(e)
          \/ \E e \in Edits : EditIgnored(e)
          \/ \E cl \in SUBSET Nat : OnStore(cl)
          \/ \E cl \in SUBSET Nat : StoreIgnored(cl)
          \/ \E r \in runs : CommitFails(r)
          \/ Release /\ tearing = 0
          \/ Unload
      PROVE  RowType'
  <2>1. UNCHANGED <<db>>
    BY <1>9 DEF Reconciling, GivesUps, EvictStale, Join, ServeLoaded,
         BeginLoad, EndLoad, Edit, EditIgnored, OnStore, StoreIgnored,
         CommitFails, Release, Unload
  <2>2. QED BY <2>1 DEF TypeOK, RowType
<1>10. QED BY <1>1, <1>2, <1>3, <1>4, <1>5, <1>6, <1>7, <1>8, <1>9 DEF Step

\* And the documents, resident or not; there is room for the instance of a
\* hydration by StampInv.
LEMMA RoomTypeStep ==
    ASSUME TypeOK, StampInv, Step
    PROVE  RoomType'
<1>1. ASSUME NEW i \in Instances, NEW x \in Nat \cup {None},
             NEW row \in BOOLEAN,
             NEW t \in Job \cup {None}, NEW m \in Meta \cup {None},
             Serves(i, x, row, t, m), Queue(i, x, row, t, m)
      PROVE  RoomType'
  BY <1>1, BoundsAssumption, ValuesAssumption DEF Serves, Queue, Unseen,
       Unsaved, TypeOK, RoomType, Instances, Meta
<1>2. ASSUME NEW i \in Instances, NEW x \in Nat \cup {None},
             NEW row \in BOOLEAN,
             NEW t \in Job \cup {None}, NEW m \in Meta \cup {None},
             Serves(i, x, row, t, m), Refuse(i, t)
      PROVE  RoomType'
  BY <1>2, BoundsAssumption, ValuesAssumption DEF Serves, Refuse, EvictLocal,
       Unseen, Unsaved, TypeOK, RoomType, Instances, Meta
<1>3. ASSUME NEW i \in Instances, NEW x \in Nat \cup {None},
             NEW row \in BOOLEAN,
             NEW t \in Job \cup {None}, NEW m \in Meta \cup {None},
             Serves(i, x, row, t, m), Drop(i, x, row, t, m)
      PROVE  RoomType'
  BY <1>3, BoundsAssumption, ValuesAssumption DEF Serves, Drop, Stale,
       EpochMoved, Unseen, Unsaved, TypeOK, RoomType, Instances, Meta
<1>4. ASSUME NEW i \in Instances, NEW x \in Nat \cup {None},
             NEW row \in BOOLEAN,
             NEW t \in Job \cup {None}, NEW m \in Meta \cup {None},
             Serves(i, x, row, t, m), NEW a \in BOOLEAN, Start(i, x, row, t, m, a)
      PROVE  RoomType'
  BY <1>4, BoundsAssumption, ValuesAssumption DEF Serves, Start, Stale,
       EpochMoved, Conflict, Unseen, TypeOK, RoomType, Instances, Meta,
       RowType, DbMeta
<1>5. ASSUME NEW i \in Instances, Yields(i) PROVE RoomType'
  <2>1. db.content \in SUBSET Edits /\ DbMeta \in Meta
    BY DEF TypeOK, RowType, DbMeta, Meta
  <2>2. /\ mem' \in [Instances \cup {Copy} -> SUBSET Edits]
        /\ loaded' \in Instances \cup {Copy, None}
        /\ meta' \in Meta \cup {None} /\ base' \subseteq Edits
    BY <1>5, <2>1, ValuesAssumption DEF Yields, YieldToRow, TypeOK, RoomType
  <2>3. UNCHANGED <<count, live, load, clients>>
    BY <1>5 DEF Yields, Finishes
  <2>4. QED BY <2>2, <2>3 DEF TypeOK, RoomType
<1>6. ASSUME Invalidates PROVE RoomType'
  BY <1>6, BoundsAssumption, ValuesAssumption DEF Invalidates,
       BeginInvalidate, CancelWork, EvictLocal, Unsaved, TypeOK, RoomType,
       Instances, Meta
<1>7. ASSUME EvictStale PROVE RoomType'
  BY <1>7, BoundsAssumption, ValuesAssumption DEF EvictStale, CancelWork,
       EvictLocal, Unsaved, TypeOK, RoomType, Instances, Meta
<1>8. ASSUME Join PROVE RoomType'
  BY <1>8, BoundsAssumption, ValuesAssumption DEF Join, fence, queue, hocus,
       ghost, TypeOK, RoomType, Instances, Meta, RowType, DbMeta
<1>9. ASSUME ServeLoaded PROVE RoomType'
  BY <1>9, BoundsAssumption, ValuesAssumption DEF ServeLoaded, Serve, fence,
       queue, hocus, TypeOK, RoomType, Instances, Meta, RowType, DbMeta
<1>10. ASSUME BeginLoad PROVE RoomType'
  BY <1>10, BoundsAssumption, ValuesAssumption DEF BeginLoad, fence, queue,
       hocus, ghost, TypeOK, RoomType, Instances, Meta, RowType, DbMeta
<1>11. ASSUME EndLoad PROVE RoomType'
  <2>1. load.content \subseteq Edits /\ load.ver \in Nat /\ load.epoch \in Nat
    BY <1>11 DEF EndLoad, TypeOK, RoomType
  <2>2. count' \in 0 .. MaxInst /\ live' = count' /\ live' \in Instances
    BY <1>11, BoundsAssumption DEF EndLoad, Serve, TypeOK, RoomType, Instances,
         StampInv
  <2>3. mem' \in [Instances \cup {Copy} -> SUBSET Edits]
    BY <1>11, <2>1 DEF EndLoad, Serve, TypeOK, RoomType
  <2>4. /\ meta' \in Meta /\ clients' \subseteq Nat /\ base' \subseteq Edits
        /\ loaded' = Copy /\ load' = None
    BY <1>11, <2>1 DEF EndLoad, Serve, Meta
  <2>5. QED BY <2>2, <2>3, <2>4 DEF RoomType
<1>12. ASSUME NEW e \in Edits, Edit(e) PROVE RoomType'
  BY <1>12, BoundsAssumption, ValuesAssumption DEF Edit, Change, TypeOK,
       RoomType, Instances, Meta
<1>13. ASSUME NEW e \in Edits, EditIgnored(e) PROVE RoomType'
  BY <1>13, BoundsAssumption, ValuesAssumption DEF EditIgnored, Change, room,
       fence, TypeOK, RoomType, Instances, Meta
<1>14. ASSUME NEW cl \in SUBSET Nat, live # None, OnStore(cl) PROVE RoomType'
  BY <1>14, BoundsAssumption, ValuesAssumption DEF OnStore, EvictLocal,
       Unsaved, TypeOK, RoomType, Instances, Meta
<1>15. ASSUME NEW cl \in SUBSET Nat, live # None, StoreIgnored(cl)
      PROVE  RoomType'
  BY <1>15, BoundsAssumption, ValuesAssumption DEF StoreIgnored, fence,
       Unsaved, TypeOK, RoomType, Instances, Meta
<1>16. ASSUME NEW r \in runs, Commit(r) PROVE RoomType'
  <2>1. UNCHANGED <<mem, count, live, loaded, load, clients>>
    BY <1>16 DEF Commit
  <2>2. r.inst \in Instances /\ mem[r.inst] \subseteq Edits
    BY DEF TypeOK, QueueType, Run, RoomType
  <2>3. CASE UNCHANGED <<meta, base>>
    BY <2>1, <2>3 DEF TypeOK, RoomType
  <2>4. CASE Written(r)
    <3>1. meta' \in Meta /\ base' \subseteq Edits
      BY <2>2, <2>4, WrittenRow DEF Written, RowType, Meta
    <3>2. QED BY <2>1, <3>1 DEF TypeOK, RoomType
  <2>5. QED BY <1>16, <2>3, <2>4 DEF Commit
<1>17. ASSUME EndInvalidate PROVE RoomType'
  BY <1>17, BoundsAssumption, ValuesAssumption DEF EndInvalidate, Unsaved,
       TypeOK, RoomType, Instances, Meta
<1>18. ASSUME Unload PROVE RoomType'
  BY <1>18, BoundsAssumption, ValuesAssumption DEF Unload, Unloading, fence,
       queue, hocus, ghost, TypeOK, RoomType, Instances, Meta
<1>19. ASSUME
          \/ \E e \in Edits, bump \in BOOLEAN : ExternalWrite(e, bump)
          \/ \E r \in runs : CommitFails(r)
          \/ Resume
          \/ Release /\ tearing = 0
      PROVE  RoomType'
  <2>1. UNCHANGED <<mem, count, live, loaded, meta, base, load, clients>>
    BY <1>19 DEF ExternalWrite, room, CommitFails, Resume, Release
  <2>2. QED BY <2>1 DEF TypeOK, RoomType
<1>20. ASSUME NEW i \in Instances, GivesUps(i) PROVE RoomType'
  <2>1. UNCHANGED <<mem, count, live, loaded, meta, base, load, clients>>
    BY <1>20 DEF GivesUps, GiveUp, Finishes
  <2>2. QED BY <2>1 DEF TypeOK, RoomType
<1>21. ASSUME Reconciling PROVE RoomType'
  <2>1. /\ mem' \in [Instances \cup {Copy} -> SUBSET Edits]
        /\ loaded' \in Instances \cup {None}
        /\ meta' \in Meta \cup {None} /\ (base' = base \/ base' = None)
    BY <1>21 DEF Reconciling, Reconcile, EvictLocal, TypeOK, RoomType, RowType,
         DbMeta, Meta
  <2>2. UNCHANGED <<count, live, load, clients>>
    BY <1>21 DEF Reconciling, Finishes
  <2>3. QED BY <2>1, <2>2 DEF TypeOK, RoomType
<1>22. ASSUME NEW e \in Edits, RowWrite(e) PROVE RoomType'
  <2>1. UNCHANGED <<mem, count, live, loaded, meta, base, load, clients>>
    BY <1>22 DEF RowWrite, room
  <2>2. QED BY <2>1 DEF TypeOK, RoomType
<1>23. QED BY <1>1, <1>2, <1>3, <1>4, <1>5, <1>6, <1>7, <1>8, <1>9, <1>10,
       <1>11, <1>12, <1>13, <1>14, <1>15, <1>16, <1>17, <1>18, <1>19, <1>20,
       <1>21, <1>22 DEF Step, Persists

\* And the generations and the state of an invalidation.
LEMMA FenceTypeStep ==
    ASSUME TypeOK, Step
    PROVE  FenceType'
<1>1. ASSUME NEW i \in Instances, Yields(i) PROVE FenceType'
  <2>1. dgen' \in [Instances -> Nat \cup {None}]
    BY <1>1 DEF Yields, YieldToRow, TypeOK, FenceType, RoomType
  <2>2. gen' \in Nat
    BY <1>1 DEF Yields, YieldToRow, CancelWork, TypeOK, FenceType
  <2>3. /\ UNCHANGED <<tearing, clearing, release>>
        /\ invalid' = TRUE /\ reload' = TRUE
    BY <1>1 DEF Yields, YieldToRow, Finishes
  <2>4. release' \in BOOLEAN /\ tearing' \in Nat /\ clearing' \in 0 .. tearing'
    BY <2>3 DEF TypeOK, FenceType
  <2>5. QED BY <2>1, <2>2, <2>3, <2>4 DEF FenceType
<1>2. ASSUME Invalidates PROVE FenceType'
  <2>1. /\ gen' = gen + 1 /\ dgen' = dgen /\ tearing' = tearing + 1
        /\ invalid' = TRUE /\ release' = FALSE /\ reload' \in {reload, FALSE}
        /\ clearing' \in {clearing, clearing + 1}
    BY <1>2 DEF Invalidates, BeginInvalidate, CancelWork
  <2>2. gen' \in Nat /\ tearing' \in Nat /\ clearing' \in 0 .. tearing'
    BY <2>1 DEF TypeOK, FenceType
  <2>3. QED BY <2>1, <2>2 DEF TypeOK, FenceType
<1>3. ASSUME EvictStale PROVE FenceType'
  BY <1>3, BoundsAssumption, ValuesAssumption DEF EvictStale, CancelWork,
       EvictLocal, Unsaved, TypeOK, FenceType
<1>4. ASSUME NEW e \in Edits, Edit(e) PROVE FenceType'
  BY <1>4, BoundsAssumption, ValuesAssumption DEF Edit, Change, TypeOK,
       FenceType, RoomType, Instances
<1>5. ASSUME NEW cl \in SUBSET Nat, live # None, OnStore(cl) PROVE FenceType'
  BY <1>5, BoundsAssumption, ValuesAssumption DEF OnStore, EvictLocal,
       Unsaved, TypeOK, FenceType, RoomType, Instances
<1>6. ASSUME EndInvalidate PROVE FenceType'
  <2>1. /\ UNCHANGED <<gen, dgen, invalid, reload>> /\ release' = TRUE
        /\ tearing > 0 /\ tearing' = tearing - 1
        /\ \/ clearing < tearing /\ clearing' = clearing
           \/ clearing > 0 /\ clearing' = clearing - 1
    BY <1>6 DEF EndInvalidate
  <2>2. tearing' \in Nat /\ clearing' \in 0 .. tearing'
    BY <2>1 DEF TypeOK, FenceType
  <2>3. invalid
    BY <2>1 DEF TypeOK, FenceType
  <2>4. QED BY <2>1, <2>2, <2>3 DEF TypeOK, FenceType
<1>7. ASSUME Release, tearing = 0 PROVE FenceType'
  <2>1. /\ UNCHANGED <<gen, dgen, tearing, clearing, reload>>
        /\ invalid' = FALSE /\ release' = FALSE
    BY <1>7 DEF Release
  <2>2. ~(tearing' > 0)
    BY <1>7, <2>1
  <2>3. QED BY <2>1, <2>2 DEF TypeOK, FenceType
<1>8. ASSUME Persists
      PROVE  FenceType'
  <2>1. UNCHANGED <<gen, dgen, invalid, tearing, clearing, release, reload>>
    BY <1>8 DEF Persists, Serves, Queue, Refuse, Drop, Start
  <2>2. QED BY <2>1 DEF TypeOK, FenceType
<1>9. ASSUME
          \/ Join
          \/ ServeLoaded
          \/ BeginLoad
          \/ EndLoad
          \/ \E e \in Edits : EditIgnored(e)
          \/ \E e \in Edits, bump \in BOOLEAN : ExternalWrite(e, bump)
          \/ \E cl \in SUBSET Nat : StoreIgnored(cl)
          \/ \E r \in runs : Commit(r)
          \/ \E r \in runs : CommitFails(r)
          \/ Resume
          \/ Unload
      PROVE  FenceType'
  <2>1. UNCHANGED <<gen, dgen, invalid, tearing, clearing, release, reload>>
    BY <1>9 DEF Join, fence, ServeLoaded, BeginLoad, EndLoad, EditIgnored,
         ExternalWrite, StoreIgnored, Commit, CommitFails, Resume, Unload
  <2>2. QED BY <2>1 DEF TypeOK, FenceType
<1>10. ASSUME NEW i \in Instances, GivesUps(i) PROVE FenceType'
  <2>1. /\ gen' = gen + 1 /\ dgen' = dgen /\ invalid' = TRUE /\ reload' = TRUE
        /\ UNCHANGED <<tearing, clearing, release>>
    BY <1>10 DEF GivesUps, GiveUp, CancelWork, Finishes
  <2>2. gen' \in Nat /\ clearing' \in 0 .. tearing' /\ release' \in BOOLEAN
    BY <2>1 DEF TypeOK, FenceType
  <2>3. QED BY <2>1, <2>2 DEF TypeOK, FenceType
<1>11. ASSUME Reconciling PROVE FenceType'
  <2>1. dgen' \in [Instances -> Nat \cup {None}]
    BY <1>11 DEF Reconciling, Reconcile, TypeOK, FenceType, RoomType
  <2>2. UNCHANGED <<gen, invalid, tearing, clearing, release, reload>>
    BY <1>11 DEF Reconciling, Reconcile, Finishes
  <2>3. QED BY <2>1, <2>2 DEF TypeOK, FenceType
<1>12. ASSUME NEW e \in Edits, RowWrite(e) PROVE FenceType'
  <2>1. UNCHANGED <<gen, dgen, invalid, tearing, clearing, release, reload>>
    BY <1>12 DEF RowWrite, fence
  <2>2. QED BY <2>1 DEF TypeOK, FenceType
<1>13. QED BY <1>1, <1>2, <1>3, <1>4, <1>5, <1>6, <1>7, <1>8, <1>9, <1>10,
       <1>11, <1>12 DEF Step, Persists

\* And the requests.
LEMMA QueueTypeStep ==
    ASSUME TypeOK, Step
    PROVE  QueueType'
<1>1. ASSUME NEW i \in Instances, NEW x \in Nat \cup {None},
             NEW row \in BOOLEAN,
             NEW t \in Job \cup {None}, NEW m \in Meta \cup {None},
             Serves(i, x, row, t, m), Queue(i, x, row, t, m)
      PROVE  QueueType'
  BY <1>1, BoundsAssumption, ValuesAssumption DEF Serves, Queue, Unseen,
       Unsaved, TypeOK, QueueType, Job
<1>2. ASSUME NEW i \in Instances, NEW x \in Nat \cup {None},
             NEW row \in BOOLEAN,
             NEW t \in Job \cup {None}, NEW m \in Meta \cup {None},
             Serves(i, x, row, t, m), Refuse(i, t)
      PROVE  QueueType'
  BY <1>2, BoundsAssumption, ValuesAssumption DEF Serves, Refuse, EvictLocal,
       Unseen, Unsaved, TypeOK, QueueType, Job
<1>3. ASSUME NEW i \in Instances, NEW x \in Nat \cup {None},
             NEW row \in BOOLEAN,
             NEW t \in Job \cup {None}, NEW m \in Meta \cup {None},
             Serves(i, x, row, t, m), Drop(i, x, row, t, m)
      PROVE  QueueType'
  BY <1>3, BoundsAssumption, ValuesAssumption DEF Serves, Drop, Stale,
       EpochMoved, Unseen, Unsaved, TypeOK, QueueType, Job
<1>4. ASSUME NEW i \in Instances, NEW x \in Nat \cup {None},
             NEW row \in BOOLEAN,
             NEW t \in Job \cup {None}, NEW m \in Meta \cup {None},
             Serves(i, x, row, t, m), NEW a \in BOOLEAN, Start(i, x, row, t, m, a)
      PROVE  QueueType'
  <2>1. [inst |-> i, gen |-> gen, awaited |-> a, row |-> row,
         late |-> IF row /\ ~Conflict(i, m) THEN {} ELSE db.content \ mem[i]] \in Run
    BY DEF Run, TypeOK, FenceType, RowType
  <2>2. runs' \subseteq Run /\ flight' = TRUE /\ pend' = None /\ timer' = t
    BY <1>4, <2>1 DEF Start, TypeOK, QueueType
  <2>3. stores' \subseteq stores /\ debounced' = debounced
    BY <1>4 DEF Serves
  <2>4. QED BY <2>2, <2>3 DEF TypeOK, QueueType
<1>5. ASSUME NEW i \in Instances, Yields(i) PROVE QueueType'
  <2>1. /\ timer' = None /\ pend' = None /\ flight' = FALSE /\ runs' = runs
        /\ stores' \subseteq stores /\ debounced' = debounced
    BY <1>5 DEF Yields, YieldToRow, CancelWork, Finishes
  <2>2. QED BY <2>1 DEF TypeOK, QueueType
<1>6. ASSUME Invalidates PROVE QueueType'
  BY <1>6, BoundsAssumption, ValuesAssumption DEF Invalidates,
       BeginInvalidate, CancelWork, EvictLocal, Unsaved, TypeOK, QueueType,
       Job
<1>7. ASSUME EvictStale PROVE QueueType'
  BY <1>7, BoundsAssumption, ValuesAssumption DEF EvictStale, CancelWork,
       EvictLocal, Unsaved, TypeOK, QueueType, Job
<1>8. ASSUME NEW e \in Edits, Edit(e) PROVE QueueType'
  BY <1>8, BoundsAssumption, ValuesAssumption DEF Edit, Change, TypeOK,
       QueueType, Job, FenceType, RoomType, RowType
<1>9. ASSUME NEW e \in Edits, EditIgnored(e) PROVE QueueType'
  BY <1>9, BoundsAssumption, ValuesAssumption DEF EditIgnored, Change, room,
       fence, TypeOK, QueueType, Job, FenceType, RoomType
<1>10. ASSUME NEW e \in Edits, NEW bump \in BOOLEAN, ExternalWrite(e, bump)
      PROVE  QueueType'
  BY <1>10, BoundsAssumption, ValuesAssumption, LaterRuns DEF ExternalWrite,
       room, fence, hocus, TypeOK, QueueType, Job
<1>11. ASSUME NEW cl \in SUBSET Nat, live # None, OnStore(cl)
      PROVE  QueueType'
  BY <1>11, BoundsAssumption, ValuesAssumption DEF OnStore, EvictLocal,
       Unsaved, TypeOK, QueueType, Job, RoomType
<1>12. ASSUME NEW cl \in SUBSET Nat, live # None, StoreIgnored(cl)
      PROVE  QueueType'
  BY <1>12, BoundsAssumption, ValuesAssumption DEF StoreIgnored, fence,
       Unsaved, TypeOK, QueueType, Job
<1>13. ASSUME NEW r \in runs, Commit(r) PROVE QueueType'
  <2>1. flight' = FALSE /\ UNCHANGED <<timer, stores, pend, debounced>>
    BY <1>13 DEF Commit, EndRun, hocus
  <2>2. db'.content \ db.content \subseteq Edits /\ runs \ {r} \in SUBSET Run
    BY RowTypeStep, <1>13 DEF Step, RowType, TypeOK, QueueType
  <2>3. runs' \subseteq Run
    <3>1. CASE runs' = runs \ {r}
      BY <2>2, <3>1
    <3>2. CASE runs' = Later(runs \ {r}, db'.content \ db.content)
      BY <2>2, <3>2, LaterRuns
    <3>3. QED BY <1>13, <3>1, <3>2 DEF Commit, Written
  <2>4. QED BY <2>1, <2>3 DEF TypeOK, QueueType
<1>14. ASSUME NEW r \in runs, CommitFails(r) PROVE QueueType'
  BY <1>14, BoundsAssumption, ValuesAssumption DEF CommitFails, EndRun, room,
       fence, hocus, Unsaved, TypeOK, QueueType, Job, FenceType, Run
<1>15. ASSUME EndInvalidate PROVE QueueType'
  BY <1>15, BoundsAssumption, ValuesAssumption DEF EndInvalidate, Unsaved,
       TypeOK, QueueType, Job
<1>16. ASSUME
          \/ Join
          \/ ServeLoaded
          \/ BeginLoad
          \/ EndLoad
          \/ Resume
          \/ Release /\ tearing = 0
          \/ Unload
      PROVE  QueueType'
  <2>1. UNCHANGED <<timer, flight, runs, stores, pend, debounced>>
    BY <1>16 DEF Join, fence, queue, hocus, ghost, ServeLoaded, Serve,
         BeginLoad, EndLoad, Resume, room, Release, Unload, Unloading
  <2>2. QED BY <2>1 DEF TypeOK, QueueType
<1>17. ASSUME NEW i \in Instances, GivesUps(i) PROVE QueueType'
  <2>1. /\ timer' = None /\ pend' = None /\ flight' = FALSE /\ runs' = runs
        /\ stores' \subseteq stores /\ debounced' = debounced
    BY <1>17 DEF GivesUps, GiveUp, CancelWork, Finishes
  <2>2. QED BY <2>1 DEF TypeOK, QueueType
<1>18. ASSUME Reconciling PROVE QueueType'
  <2>1. live \in Instances /\ gen \in Nat /\ db.content \ db.text \subseteq Edits
    BY <1>18 DEF Reconciling, Reconcile, TypeOK, RoomType, FenceType, RowType
  <2>2. /\ [inst |-> live, gen |-> None, row |-> FALSE] \in Job
        /\ [inst |-> live, gen |-> gen, awaited |-> TRUE, row |-> FALSE,
            late |-> db.content \ db.text] \in Run
    BY <2>1 DEF Job, Run
  <2>3. /\ timer' = None /\ flight' \in BOOLEAN /\ pend' \in Job \cup {None}
        /\ runs' \subseteq Run
    BY <1>18, <2>2 DEF Reconciling, Reconcile, TypeOK, QueueType
  <2>4. stores' \subseteq stores /\ debounced' = debounced
    BY <1>18 DEF Reconciling, Finishes
  <2>5. QED BY <2>3, <2>4 DEF TypeOK, QueueType
<1>19. ASSUME NEW e \in Edits, RowWrite(e) PROVE QueueType'
  <2>1. UNCHANGED <<timer, flight, runs, stores, pend, debounced>>
    BY <1>19 DEF RowWrite, queue, hocus
  <2>2. QED BY <2>1 DEF TypeOK, QueueType
<1>20. QED BY <1>1, <1>2, <1>3, <1>4, <1>5, <1>6, <1>7, <1>8, <1>9, <1>10,
       <1>11, <1>12, <1>13, <1>14, <1>15, <1>16, <1>17, <1>18, <1>19 DEF Step,
       Persists

\* What a document has unsaved is of edits that were made.
LEMMA UnsavedMade ==
    ASSUME MadeInv, NEW i
    PROVE  Unsaved(i) \subseteq made
  BY DEF MadeInv, Unsaved

\* And the sets of edits, which are of edits that were made.
LEMMA GhostTypeStep ==
    ASSUME TypeOK, MadeInv, Step
    PROVE  GhostType'
<1>1. ASSUME NEW i \in Instances, NEW x \in Nat \cup {None},
             NEW row \in BOOLEAN,
             NEW t \in Job \cup {None}, NEW m \in Meta \cup {None},
             Serves(i, x, row, t, m), Queue(i, x, row, t, m)
      PROVE  GhostType'
  BY <1>1, BoundsAssumption, ValuesAssumption DEF Serves, Queue, Unseen,
       Unsaved, TypeOK, GhostType, MadeInv, Instances
<1>2. ASSUME NEW i \in Instances, NEW x \in Nat \cup {None},
             NEW row \in BOOLEAN,
             NEW t \in Job \cup {None}, NEW m \in Meta \cup {None},
             Serves(i, x, row, t, m), Refuse(i, t)
      PROVE  GhostType'
  BY <1>2, BoundsAssumption, ValuesAssumption DEF Serves, Refuse, EvictLocal,
       Unseen, Unsaved, TypeOK, GhostType, MadeInv, Instances
<1>3. ASSUME NEW i \in Instances, NEW x \in Nat \cup {None},
             NEW row \in BOOLEAN,
             NEW t \in Job \cup {None}, NEW m \in Meta \cup {None},
             Serves(i, x, row, t, m), Drop(i, x, row, t, m)
      PROVE  GhostType'
  BY <1>3, BoundsAssumption, ValuesAssumption DEF Serves, Drop, Stale,
       EpochMoved, Unseen, Unsaved, TypeOK, GhostType, MadeInv, Instances
<1>4. ASSUME NEW i \in Instances, NEW x \in Nat \cup {None},
             NEW row \in BOOLEAN,
             NEW t \in Job \cup {None}, NEW m \in Meta \cup {None},
             Serves(i, x, row, t, m), NEW a \in BOOLEAN, Start(i, x, row, t, m, a)
      PROVE  GhostType'
  BY <1>4, BoundsAssumption, ValuesAssumption DEF Serves, Start, Stale,
       EpochMoved, Conflict, Unseen, TypeOK, GhostType, MadeInv, Instances
<1>5. ASSUME NEW i \in Instances, Yields(i) PROVE GhostType'
  <2>1. /\ lost' = lost \cup Unsaved(i) \cup Unsaved(loaded)
        /\ UNCHANGED <<made, saved, unserved, unread>>
    BY <1>5 DEF Yields, YieldToRow, Finishes
  <2>2. QED BY <2>1, UnsavedMade DEF TypeOK, GhostType
<1>6. ASSUME Invalidates PROVE GhostType'
  BY <1>6, BoundsAssumption, ValuesAssumption DEF Invalidates,
       BeginInvalidate, CancelWork, EvictLocal, Unsaved, TypeOK, GhostType,
       MadeInv, Instances
<1>7. ASSUME EvictStale PROVE GhostType'
  BY <1>7, BoundsAssumption, ValuesAssumption DEF EvictStale, CancelWork,
       EvictLocal, Unsaved, TypeOK, GhostType, MadeInv, Instances
<1>8. ASSUME ServeLoaded PROVE GhostType'
  BY <1>8, BoundsAssumption, ValuesAssumption DEF ServeLoaded, Serve, fence,
       queue, hocus, TypeOK, GhostType, MadeInv, Instances
<1>9. ASSUME NEW e \in Edits, Edit(e) PROVE GhostType'
  BY <1>9, BoundsAssumption, ValuesAssumption DEF Edit, Change, TypeOK,
       GhostType
<1>10. ASSUME NEW e \in Edits, EditIgnored(e) PROVE GhostType'
  BY <1>10, BoundsAssumption, ValuesAssumption DEF EditIgnored, Change, room,
       fence, TypeOK, GhostType
<1>11. ASSUME NEW e \in Edits, NEW bump \in BOOLEAN, ExternalWrite(e, bump)
      PROVE  GhostType'
  BY <1>11, BoundsAssumption, ValuesAssumption DEF ExternalWrite, room,
       fence, hocus, TypeOK, GhostType
<1>12. ASSUME NEW cl \in SUBSET Nat, live # None, OnStore(cl)
      PROVE  GhostType'
  BY <1>12, BoundsAssumption, ValuesAssumption DEF OnStore, EvictLocal,
       Unsaved, TypeOK, GhostType, MadeInv, Instances
<1>13. ASSUME NEW cl \in SUBSET Nat, live # None, StoreIgnored(cl)
      PROVE  GhostType'
  BY <1>13, BoundsAssumption, ValuesAssumption DEF StoreIgnored, fence,
       Unsaved, TypeOK, GhostType, MadeInv, Instances
<1>14. ASSUME NEW r \in runs, Commit(r) PROVE GhostType'
  <2>1. UNCHANGED <<made, lost, unserved>>
    BY <1>14 DEF Commit
  <2>2. CASE UNCHANGED <<saved, unread>>
    BY <2>1, <2>2 DEF TypeOK, GhostType
  <2>3. CASE Written(r)
    <3>1. saved' \subseteq made /\ db'.content \subseteq made
      BY <2>3, WrittenSaves DEF TypeOK, GhostType
    <3>2. unread' \subseteq made
      BY <2>3, <3>1 DEF Written, Unseen, TypeOK, GhostType
    <3>3. QED BY <2>1, <3>1, <3>2 DEF TypeOK, GhostType
  <2>4. QED BY <1>14, <2>2, <2>3 DEF Commit
<1>15. ASSUME NEW r \in runs, CommitFails(r) PROVE GhostType'
  BY <1>15, BoundsAssumption, ValuesAssumption DEF CommitFails, EndRun, room,
       fence, hocus, Unsaved, TypeOK, GhostType, MadeInv, Instances
<1>16. ASSUME EndInvalidate PROVE GhostType'
  BY <1>16, BoundsAssumption, ValuesAssumption DEF EndInvalidate, Unsaved,
       TypeOK, GhostType, MadeInv, Instances
<1>17. ASSUME
          \/ Join
          \/ BeginLoad
          \/ EndLoad
          \/ Resume
          \/ Release /\ tearing = 0
          \/ Unload
      PROVE  GhostType'
  <2>1. UNCHANGED <<made, saved, lost, unserved, unread>>
    BY <1>17 DEF Join, ghost, BeginLoad, EndLoad, Resume, Release, Unload
  <2>2. QED BY <2>1 DEF TypeOK, GhostType
<1>18. ASSUME NEW i \in Instances, GivesUps(i) PROVE GhostType'
  <2>1. /\ lost' = lost \cup Unsaved(i) \cup Unsaved(loaded)
        /\ UNCHANGED <<made, saved, unserved, unread>>
    BY <1>18 DEF GivesUps, GiveUp, Finishes
  <2>2. QED BY <2>1, UnsavedMade DEF TypeOK, GhostType
<1>19. ASSUME Reconciling PROVE GhostType'
  <2>1. /\ UNCHANGED <<made, saved, lost>>
        /\ unread' = unread \cup (db.content \ db.text)
        /\ unserved' = unserved \cup Unsaved(live) \cup
               UNION {mem[job.inst] \ saved : job \in {timer, pend} \ {None}}
    BY <1>19 DEF Reconciling, Reconcile, Finishes
  <2>2. \A job \in {timer, pend} \ {None} : mem[job.inst] \subseteq made
    BY DEF TypeOK, QueueType, Job, MadeInv
  <2>3. unserved' \subseteq made
    BY <2>1, <2>2, UnsavedMade DEF TypeOK, GhostType
  <2>4. unread' \subseteq made
    BY <2>1 DEF TypeOK, GhostType, MadeInv
  <2>5. QED BY <2>1, <2>3, <2>4 DEF TypeOK, GhostType
<1>20. ASSUME NEW e \in Edits, RowWrite(e) PROVE GhostType'
  BY <1>20, BoundsAssumption, ValuesAssumption DEF RowWrite, room, fence,
       queue, hocus, TypeOK, GhostType, MadeInv, Instances, QueueType, Job,
       RoomType
<1>21. QED BY <1>1, <1>2, <1>3, <1>4, <1>5, <1>6, <1>7, <1>8, <1>9, <1>10,
       <1>11, <1>12, <1>13, <1>14, <1>15, <1>16, <1>17, <1>18, <1>19, <1>20
       DEF Step, Persists

\* Contents move, and new edits are made.
LEMMA MadeStep ==
    ASSUME TypeOK, MadeInv, Step
    PROVE  MadeInv'
<1>1. ASSUME NEW i \in Instances, Yields(i) PROVE MadeInv'
  <2>1. db'.content \subseteq saved /\ db'.text \subseteq saved
    BY <1>1, FollowedRow DEF Yields, MadeInv
  <2>2. /\ UNCHANGED <<load, made, saved>> /\ base' = db.content
        /\ mem' = mem \/ mem' = [mem EXCEPT ![Copy] = db.content]
    BY <1>1 DEF Yields, YieldToRow, Finishes
  <2>3. /\ mem'[Copy] \subseteq saved
        /\ \A j \in Instances : mem'[j] = mem[j]
    BY <2>2, ValuesAssumption DEF TypeOK, RoomType, MadeInv, Instances
  <2>4. QED BY <2>1, <2>2, <2>3 DEF MadeInv
<1>2. ASSUME Invalidates PROVE MadeInv'
  <2>1. UNCHANGED <<load, made, saved, mem>> /\ base' = None
    BY <1>2 DEF Invalidates, BeginInvalidate, EvictLocal
  <2>2. QED BY <1>2, <2>1, InvalidatedRow DEF MadeInv
<1>3. ASSUME ServeLoaded PROVE MadeInv'
  <2>1. /\ count + 1 \in Instances /\ count + 1 # Copy
        /\ mem' = [mem EXCEPT ![count + 1] = mem[loaded]]
        /\ UNCHANGED <<db, base, load, made, saved>>
    BY <1>3, BoundsAssumption, ValuesAssumption DEF ServeLoaded, Serve, TypeOK,
         RoomType, Instances
  <2>2. mem[loaded] \subseteq made
    BY <1>3 DEF ServeLoaded, MadeInv, TypeOK, RoomType, GhostType
  <2>3. /\ mem'[Copy] = mem[Copy]
        /\ \A i \in Instances : mem'[i] \in {mem[i], mem[loaded]}
    BY <2>1 DEF TypeOK, RoomType
  <2>4. QED BY <2>1, <2>2, <2>3 DEF MadeInv
<1>4. ASSUME BeginLoad PROVE MadeInv'
  BY <1>4, BoundsAssumption, ValuesAssumption DEF BeginLoad, fence, queue,
       hocus, ghost, TypeOK, MadeInv
<1>5. ASSUME EndLoad PROVE MadeInv'
  <2>1. /\ count + 1 \in Nat /\ count + 1 # Copy /\ Copy \notin Instances
        /\ mem' = [[mem EXCEPT ![Copy] = load.content]
                        EXCEPT ![count + 1] = load.content]
        /\ load # None /\ load' = None /\ base' = load.content
        /\ UNCHANGED <<db, made, saved>>
    BY <1>5, BoundsAssumption, ValuesAssumption DEF EndLoad, Serve, ghost,
         TypeOK, RoomType, Instances
  <2>2. load.content \subseteq saved /\ load.content \subseteq made
    BY <2>1 DEF MadeInv, TypeOK, GhostType
  <2>3. /\ mem'[Copy] = load.content
        /\ \A i \in Instances : mem'[i] \in {mem[i], load.content}
    BY <2>1 DEF TypeOK, RoomType
  <2>4. QED BY <2>1, <2>2, <2>3 DEF MadeInv
<1>6. ASSUME NEW e \in Edits, Edit(e) PROVE MadeInv'
  <2>1. /\ live \in Instances /\ mem' = [mem EXCEPT ![live] = @ \cup {e}]
        /\ made' = made \cup {e} /\ UNCHANGED <<db, base, load, saved>>
    BY <1>6 DEF Edit, Change, room, TypeOK, RoomType
  <2>2. /\ mem'[Copy] = mem[Copy]
        /\ \A i \in Instances : mem'[i] \subseteq mem[i] \cup {e}
    BY <2>1, ValuesAssumption DEF TypeOK, RoomType, Instances
  <2>3. QED BY <2>1, <2>2 DEF MadeInv
<1>7. ASSUME NEW e \in Edits, EditIgnored(e) PROVE MadeInv'
  <2>1. /\ live \in Instances /\ mem' = [mem EXCEPT ![live] = @ \cup {e}]
        /\ made' = made \cup {e} /\ UNCHANGED <<db, base, load, saved>>
    BY <1>7 DEF EditIgnored, Change, room, TypeOK, RoomType
  <2>2. /\ mem'[Copy] = mem[Copy]
        /\ \A i \in Instances : mem'[i] \subseteq mem[i] \cup {e}
    BY <2>1, ValuesAssumption DEF TypeOK, RoomType, Instances
  <2>3. QED BY <2>1, <2>2 DEF MadeInv
<1>8. ASSUME NEW e \in Edits, NEW bump \in BOOLEAN, ExternalWrite(e, bump)
      PROVE  MadeInv'
  BY <1>8, BoundsAssumption, ValuesAssumption DEF ExternalWrite, room, fence,
       hocus, TypeOK, MadeInv, RowType
<1>9. ASSUME NEW r \in runs, Commit(r) PROVE MadeInv'
  <2>1. UNCHANGED <<made, load, mem>>
    BY <1>9 DEF Commit
  <2>2. CASE UNCHANGED <<db, base, saved>>
    BY <2>1, <2>2 DEF MadeInv
  <2>3. CASE Written(r)
    <3>1. base' = mem[r.inst]
      BY <2>3 DEF Written
    <3>2. QED BY <2>1, <2>3, <3>1, WrittenSaves DEF MadeInv
  <2>4. QED BY <1>9, <2>2, <2>3 DEF Commit
<1>10. ASSUME Resume PROVE MadeInv'
  BY <1>10, BoundsAssumption, ValuesAssumption DEF Resume, room, fence,
       queue, hocus, ghost, TypeOK, MadeInv, RowType
<1>11. ASSUME Persists
      PROVE  MadeInv'
  <2>1. UNCHANGED <<made, saved, db, load, mem>> /\ (base' = base \/ base' = None)
    BY <1>11 DEF Persists, Serves, Queue, Refuse, EvictLocal, Drop, Start
  <2>2. QED BY <2>1 DEF MadeInv
<1>12. ASSUME
          \/ EvictStale
          \/ Join
          \/ \E cl \in SUBSET Nat : OnStore(cl)
          \/ \E cl \in SUBSET Nat : StoreIgnored(cl)
          \/ \E r \in runs : CommitFails(r)
          \/ Release /\ tearing = 0
          \/ Unload
      PROVE  MadeInv'
  <2>1. UNCHANGED <<made, saved, db, load, mem>> /\ (base' = base \/ base' = None)
    BY <1>12 DEF EvictStale, EvictLocal, Join, ghost, OnStore, StoreIgnored,
         CommitFails, room, Release, Unload
  <2>2. QED BY <2>1 DEF MadeInv
<1>13. ASSUME NEW i \in Instances, GivesUps(i) PROVE MadeInv'
  <2>1. UNCHANGED <<made, saved, db, load, mem, base>>
    BY <1>13 DEF GivesUps, GiveUp, Finishes
  <2>2. QED BY <2>1 DEF MadeInv
<1>14. ASSUME Reconciling PROVE MadeInv'
  <2>1. /\ UNCHANGED <<made, saved, db, load>> /\ (base' = base \/ base' = None)
        /\ live \in Instances /\ mem' = [mem EXCEPT ![live] = db.text]
    BY <1>14 DEF Reconciling, Reconcile, EvictLocal, Finishes, TypeOK, RoomType
  <2>2. /\ mem'[Copy] = mem[Copy] /\ mem'[live] = db.text
        /\ \A i \in Instances : i # live => mem'[i] = mem[i]
    BY <2>1, ValuesAssumption DEF TypeOK, RoomType, Instances
  <2>3. db.text \subseteq made
    BY DEF MadeInv, TypeOK, GhostType
  <2>4. QED BY <2>1, <2>2, <2>3 DEF MadeInv
<1>15. ASSUME NEW e \in Edits, RowWrite(e) PROVE MadeInv'
  BY <1>15, BoundsAssumption, ValuesAssumption DEF RowWrite, room, fence,
       queue, hocus, TypeOK, MadeInv, RoomType, Instances
<1>16. ASSUME EndInvalidate PROVE MadeInv'
  <2>1. UNCHANGED <<load, made, saved, mem, base>>
    BY <1>16 DEF EndInvalidate
  <2>2. QED BY <1>16, <2>1, ClearedAgain DEF MadeInv
<1>17. QED BY <1>1, <1>2, <1>3, <1>4, <1>5, <1>6, <1>7, <1>8, <1>9, <1>10,
       <1>11, <1>12, <1>13, <1>14, <1>15, <1>16 DEF Step, Persists

\* All the variables.
LEMMA TypeStep ==
    ASSUME TypeOK, MadeInv, StampInv, Step
    PROVE  TypeOK'
<1>1. RowType' /\ RoomType'
  BY RowTypeStep, RoomTypeStep
<1>2. FenceType' /\ QueueType'
  BY FenceTypeStep, QueueTypeStep
<1>3. GhostType'
  BY GhostTypeStep
<1>4. QED BY <1>1, <1>2, <1>3 DEF TypeOK

-----------------------------------------------------------------------------
(***************************************************************************)
(* What the steps do, for the parts of the invariant that follow.          *)
(***************************************************************************)
\* added came late to the runs R, which are the ones that remain.
LateBy(R, added) ==
    /\ \A y \in runs' : \E n \in R :
          y.inst = n.inst /\ y.gen = n.gen /\ y.late = n.late \cup added
    /\ \A n \in R : \E y \in runs' :
          y.inst = n.inst /\ y.gen = n.gen /\ y.late = n.late \cup added

\* An instance nobody has seen before, with a content of somebody else's.
New(content) ==
    /\ count < MaxInst /\ count' = count + 1
    /\ live' = count' /\ live' \in Instances /\ live' # None
    /\ mem'[live'] = content
    /\ \A i \in Instances : i # live' => mem'[i] = mem[i]
    /\ dgen[live'] = None
    /\ UNCHANGED <<db, gen, dgen, invalid, tearing, release, reload, timer,
                   flight, runs, pend, stores, debounced, made, saved, lost,
                   unserved>>

\* Each of the following says of an action what its definition comes to, one
\* variable at a time.
Commits(r) ==
    /\ r \in Run /\ r.inst \in Instances
    /\ \/ (r.gen # gen \/ invalid) /\ UNCHANGED <<db, meta, saved, unread>>
       \/ /\ r.gen = gen /\ ~invalid
          /\ db'.content \in {db.content, mem[r.inst]}
          /\ db.text \cap mem[r.inst] \subseteq db'.text
          /\ db' = db \/ db'.ver = db.ver + 1
          /\ db'.epoch = db.epoch /\ db'.share = db.share
          /\ meta' = DbMeta' /\ meta' # None
          /\ saved' = saved \cup mem[r.inst]
          /\ unread' = unread \cup Unseen(db', {live, loaded, r.inst})
    /\ LateBy(runs \ {r}, db'.content \ db.content)
    /\ flight' = FALSE
    /\ UNCHANGED <<mem, count, live, loaded, load, clients, timer, pend,
                   gen, dgen, invalid, tearing, release, reload, stores,
                   debounced, made, lost, unserved>>

\* A writer that bypasses the live document.
Writes(e) ==
    /\ e \notin made /\ made' = made \cup {e} /\ saved' = saved \cup {e}
    /\ db'.content \in {db.content, db.content \cup {e}} /\ db'.ver = db.ver + 1
    /\ db'.text = db.text \cup {e}
    /\ db'.share = db.share /\ db.share # "REVOKED"
    /\ LateBy(runs, db'.content \ db.content)
    /\ UNCHANGED <<mem, count, live, loaded, meta, load, clients, timer,
                   pend, flight, gen, dgen, invalid, tearing, release,
                   reload, stores, debounced, lost, unserved, unread>>

\* An invalidation; it may come with a change of the share, and clear the history.
Fences ==
    /\ db'.content \in {db.content, db.text} /\ db'.text = db.text
    /\ db' = db \/ db'.ver > db.ver
    /\ gen' = gen + 1 /\ timer' = None /\ flight' = FALSE /\ pend' = None
    /\ loaded' = None /\ meta' = None
    /\ invalid' = TRUE /\ release' = FALSE /\ tearing' = tearing + 1
    /\ clients' = {} /\ debounced' = debounced
    /\ lost' = lost \cup Unsaved(live) \cup Unsaved(loaded)
    /\ runs' \subseteq runs /\ stores' \subseteq stores
    /\ reload' \in {reload, FALSE}
    /\ UNCHANGED <<mem, count, live, load, dgen, made, saved, unserved, unread>>

\* The end of one.
Fenced ==
    /\ tearing > 0 /\ tearing' = tearing - 1
    /\ live' = None /\ clients' = {} /\ debounced' = None
    /\ lost' \subseteq lost \cup (Unsaved(live) \ IF loaded = None THEN {} ELSE mem[loaded])
    /\ lost \subseteq lost'
    /\ db'.content \in {db.content, db.text} /\ db'.text = db.text
    /\ db' = db \/ db'.ver = db.ver + 1
    /\ db'.share = db.share
    /\ UNCHANGED <<mem, count, loaded, meta, load, gen, dgen, invalid, reload,
                   timer, flight, runs, pend, stores, made, saved, unserved,
                   unread>>

Resumes ==
    /\ db'.content = db.content /\ db'.text = db.text /\ db'.ver = db.ver + 1
    /\ db'.share = "ACTIVE"
    /\ UNCHANGED <<mem, count, live, loaded, meta, load, clients, timer,
                   pend, runs, flight, gen, dgen, invalid, tearing, release,
                   reload, stores, debounced, made, saved, lost, unserved, unread>>

ServesLoaded ==
    /\ New(mem[loaded]) /\ mem'[Copy] = mem[Copy]
    /\ live = None /\ loaded # None /\ load = None
    /\ meta' = DbMeta /\ meta' # None
    /\ meta # None => meta = DbMeta /\ unread' = unread
    /\ meta = None => unread' = unread \cup (db.content \ mem[loaded])
    /\ clients' = {db.epoch}
    /\ UNCHANGED <<loaded, load>>

EndsLoad ==
    /\ New(load.content) /\ mem'[Copy] = load.content
    /\ live = None /\ load # None /\ loaded' = Copy /\ load' = None
    /\ load.content \subseteq Edits /\ load.ver \in Nat /\ load.epoch \in Nat
    /\ meta' = [ver |-> load.ver, epoch |-> load.epoch] /\ meta' # None
    /\ clients' = {load.epoch} /\ unread' = unread

EditsDoc(e) ==
    /\ live \in Instances /\ live # None /\ ~invalid
    /\ db.share # "REVOKED"
    /\ e \notin made /\ made' = made \cup {e}
    /\ mem'[live] = mem[live] \cup {e}
    /\ \A i \in Instances \cup {Copy} : i # live => mem'[i] = mem[i]
    /\ loaded' = live
    /\ dgen'[live] = gen /\ \A i \in Instances : i # live => dgen'[i] = dgen[i]
    /\ timer' = [inst |-> live, gen |-> gen, row |-> TRUE] /\ timer' # None
    /\ debounced' = db.epoch
    /\ UNCHANGED <<db, count, live, meta, load, clients, gen, invalid, tearing,
                   release, reload, flight, runs, stores, pend, saved, lost,
                   unserved, unread>>

Ignores(e) ==
    /\ live \in Instances /\ live # None
    /\ e \notin made /\ made' = made \cup {e}
    /\ mem'[live] = mem[live] \cup {e}
    /\ \A i \in Instances \cup {Copy} : i # live => mem'[i] = mem[i]
    /\ unserved' = unserved \cup {e}
    /\ UNCHANGED <<db, count, live, loaded, meta, load, clients, gen, dgen,
                   invalid, tearing, release, reload, timer, flight, runs,
                   stores, pend, saved, lost, unread>>

\* The generation goes on, and nothing that was requested is left.
Advances(i) ==
    /\ gen' = gen + 1 /\ timer' = None /\ flight' = FALSE /\ pend' = None
    /\ invalid' = TRUE /\ reload' = TRUE
    /\ lost' = lost \cup Unsaved(i) \cup Unsaved(loaded)
    /\ stores' \subseteq stores
    /\ UNCHANGED <<count, live, load, clients, tearing, release, debounced,
                   made, saved, unread, runs, unserved>>

\* i gives way to the history, which the row may come to follow.
Gives(i) ==
    /\ Advances(i)
    /\ db'.content = db.content /\ db.text \cap db.content \subseteq db'.text
    /\ db' = db \/ db'.ver = db.ver + 1
    /\ db'.share = db.share
    /\ \A j \in Instances : mem'[j] = mem[j] /\ dgen'[j] \in {dgen[j], gen}
    /\ \A j \in Instances : j # live => dgen'[j] = dgen[j]
    /\ live = None => loaded' = Copy
    /\ live # None => loaded' = live
    /\ meta' = DbMeta /\ meta' # None

\* i could not take the row.
GivesUp(i) == Advances(i) /\ UNCHANGED <<db, mem, loaded, meta, dgen>>

\* The live document becomes the row's, and is to be written.
Reconciles ==
    /\ live \in Instances /\ live # None /\ ~invalid
    /\ mem'[live] = db.text
    /\ \A i \in Instances \cup {Copy} : i # live => mem'[i] = mem[i]
    /\ dgen'[live] = gen /\ \A i \in Instances : i # live => dgen'[i] = dgen[i]
    /\ timer' = None
    /\ unserved \subseteq unserved'
    /\ \A job \in {timer, pend} \ {None} : mem[job.inst] \ saved \subseteq unserved'
    /\ Unsaved(live) \subseteq unserved'
    /\ unread' = unread \cup (db.content \ db.text)
    /\ \/ ~flight /\ db.share = "REVOKED" /\ loaded' = None /\ meta' = None
       \/ /\ flight \/ db.share # "REVOKED"
          /\ loaded' = live /\ meta' = DbMeta /\ meta' # None
    /\ \/ /\ flight /\ pend' # None
          /\ pend' = [inst |-> live, gen |-> None, row |-> FALSE]
          /\ UNCHANGED <<flight, runs>>
       \/ /\ ~flight /\ db.share = "REVOKED" /\ pend' = None
          /\ UNCHANGED <<flight, runs>>
       \/ /\ ~flight /\ db.share # "REVOKED" /\ pend' = None /\ flight' = TRUE
          /\ \E n \in Run : /\ n.inst = live /\ n.gen = gen
                            /\ n.late = db.content \ db.text
                            /\ runs' = runs \cup {n}
    /\ stores' \subseteq stores
    /\ UNCHANGED <<db, count, live, load, clients, gen, invalid, tearing, release,
                   reload, debounced, made, saved, lost>>

Stores(cl) ==
    /\ live \in Instances /\ live # None
    /\ \/ /\ invalid /\ timer' = None /\ loaded' = None /\ meta' = None
          /\ unserved' = unserved \cup Unsaved(live)
          /\ UNCHANGED <<dgen, stores>>
       \/ /\ ~invalid /\ dgen[live] \in {None, gen} /\ loaded' = live
          /\ dgen'[live] = gen
          /\ \A i \in Instances : i # live => dgen'[i] = dgen[i]
          /\ stores' = stores \cup {live}
          /\ UNCHANGED <<timer, meta, unserved>>
       \/ /\ ~invalid /\ dgen[live] \notin {None, gen}
          /\ UNCHANGED <<timer, loaded, meta, dgen, stores, unserved>>
    /\ clients' = cl /\ debounced' = None
    /\ UNCHANGED <<db, mem, count, live, load, gen, invalid, tearing, release,
                   reload, flight, runs, pend, made, saved, lost, unread>>

\* What Serves tells of the request of i.
Asks(i, x, row, t, m) ==
    /\ dgen[i] # None /\ x \in {None, gen} /\ Writing(i)
    /\ ~row => Current(i) /\ pend # None /\ pend.inst = i
    /\ flight \/ pend = None \/ pend.inst = i
    /\ t = timer \/ (t = None /\ timer # None /\ timer.inst = i)
    /\ stores' = stores \/ (stores' = stores \ {i} /\ i \in stores)
    /\ m = meta \/ (row /\ meta = None /\ m = DbMeta /\ db.content \subseteq mem[i])
    /\ m = meta \/ meta' = None => unread' = unread
    /\ m # meta /\ meta' # None => unread' = unread \cup Unseen(db, {live, loaded})
    /\ UNCHANGED <<db, count, live, load, clients, tearing, release,
                   debounced, made, saved>>

Starts(i, row, m, t) ==
    /\ Current(i) /\ (row => loaded \in {None, i}) /\ ~invalid /\ ~flight
    /\ db.share # "REVOKED"
    /\ flight' = TRUE /\ pend' = None /\ timer' = t
    /\ meta' = (IF row /\ m = None THEN DbMeta ELSE m)
    /\ DbMeta # None
    /\ row /\ m = None => db.content \subseteq mem[i]
    /\ \E n \in Run : /\ n.inst = i /\ n.gen = gen
                      /\ \/ db.content \ mem[i] \subseteq n.late
                         \/ row /\ m = DbMeta
                      /\ runs' = runs \cup {n}
    /\ UNCHANGED <<mem, loaded, gen, dgen, invalid, reload, lost, unserved>>

\* Step in these terms.
Does ==
    \/ \E i \in Instances, x \in Nat \cup {None}, row \in BOOLEAN,
          t \in Job \cup {None}, m \in Meta \cup {None} :
          /\ Asks(i, x, row, t, m)
          /\ \/ Queue(i, x, row, t, m) \/ Refuse(i, t) \/ Drop(i, x, row, t, m)
             \/ Starts(i, row, m, t)
    \/ \E i \in Instances : Gives(i) \/ GivesUp(i)
    \/ Reconciles \/ Fences
    \/ EvictStale \/ Join \/ ServesLoaded \/ BeginLoad \/ EndsLoad
    \/ \E e \in Edits : EditsDoc(e) \/ Ignores(e) \/ Writes(e)
    \/ \E cl \in SUBSET Nat : Stores(cl) \/ (live # None /\ StoreIgnored(cl))
    \/ \E r \in runs : Commits(r) \/ CommitFails(r)
    \/ Resumes \/ Fenced \/ (Release /\ tearing = 0) \/ Unload

\* One lemma for each action that has such a description.
LEMMA LaterBy ==
    ASSUME NEW R \in SUBSET Run, NEW E \in SUBSET Edits, runs' = Later(R, E)
    PROVE  LateBy(R, E)
<1>1. /\ \A y \in Later(R, E) : \E n \in R :
            y.inst = n.inst /\ y.gen = n.gen /\ y.late = n.late \cup E
      /\ \A n \in R : \E y \in Later(R, E) :
            y.inst = n.inst /\ y.gen = n.gen /\ y.late = n.late \cup E
  BY LaterRuns
<1>2. QED BY <1>1 DEF LateBy

LEMMA CommitEffect ==
    ASSUME TypeOK, TypeOK', MadeInv, NEW r \in runs, Commit(r)
    PROVE  Commits(r)
<1>1. r \in Run /\ r.inst \in Instances
  BY DEF TypeOK, QueueType, Run
<1>2. /\ UNCHANGED <<mem, count, live, loaded, load, clients, timer, pend,
                     gen, dgen, invalid, tearing, release, reload, stores,
                     debounced, made, lost, unserved>>
      /\ flight' = FALSE
  BY DEF Commit, EndRun, fence, hocus
<1>3. CASE r.gen # gen \/ invalid
  <2>1. UNCHANGED <<db, meta, saved, unread>> /\ runs' = runs \ {r}
    BY <1>3 DEF Commit
  <2>2. \A n \in runs : n.late \cup {} = n.late
    OBVIOUS
  <2>3. LateBy(runs \ {r}, db'.content \ db.content)
    BY <2>1, <2>2 DEF LateBy
  <2>4. QED BY <1>1, <1>2, <1>3, <2>1, <2>3 DEF Commits
<1>4. CASE ~(r.gen # gen \/ invalid)
  <2>1. Written(r)
    BY <1>4 DEF Commit
  <2>2. LateBy(runs \ {r}, db'.content \ db.content)
    <3>1. db'.content \ db.content \in SUBSET Edits /\ runs \ {r} \in SUBSET Run
      BY DEF TypeOK, RowType, QueueType
    <3>2. runs' = Later(runs \ {r}, db'.content \ db.content)
      BY <2>1 DEF Written
    <3>3. QED BY <3>1, <3>2, LaterBy
  <2>3. meta' = DbMeta' /\ unread' = unread \cup Unseen(db', {live, loaded, r.inst})
    BY <2>1 DEF Written, DbMeta
  <2>4. meta' # None
    BY <2>3, ValuesAssumption DEF DbMeta, TypeOK, RowType, Meta
  <2>5. QED BY <1>1, <1>2, <1>4, <2>1, <2>2, <2>3, <2>4, WrittenRow,
         WrittenSaves DEF Commits
<1>5. QED BY <1>3, <1>4 DEF Commits

LEMMA ExternalWriteEffect ==
    ASSUME TypeOK, MadeInv, NEW e \in Edits, NEW bump \in BOOLEAN,
           ExternalWrite(e, bump)
    PROVE  Writes(e)
<1>1. /\ db'.content = db.content \cup {e} /\ db'.ver = db.ver + 1
      /\ db'.text = db.text \cup {e} /\ db'.share = db.share
  BY DEF ExternalWrite, TypeOK, RowType
<1>2. db'.content \ db.content = {e}
  BY <1>1 DEF ExternalWrite, MadeInv, TypeOK, GhostType
<1>3. LateBy(runs, {e})
  <2>1. runs' = Later(runs, {e}) /\ runs \in SUBSET Run /\ {e} \in SUBSET Edits
    BY DEF ExternalWrite, TypeOK, QueueType
  <2>2. LateBy(runs, {e})
    BY <2>1, LaterBy
  <2>3. QED BY <2>2
<1>4. QED BY <1>1, <1>2, <1>3 DEF Writes, ExternalWrite, room, fence, hocus

LEMMA RowWriteEffect ==
    ASSUME TypeOK, NEW e \in Edits, RowWrite(e)
    PROVE  Writes(e)
<1>1. /\ db'.content = db.content /\ db'.ver = db.ver + 1
      /\ db'.text = db.text \cup {e} /\ db'.share = db.share
  BY DEF RowWrite, TypeOK, RowType
<1>2. runs' = runs /\ \A n \in runs : n.late \cup {} = n.late
  BY DEF RowWrite, queue
<1>3. LateBy(runs, db'.content \ db.content)
  BY <1>1, <1>2 DEF LateBy
<1>4. QED BY <1>1, <1>3 DEF Writes, RowWrite, room, fence, queue, hocus

LEMMA InvalidateEffect ==
    ASSUME TypeOK, Invalidates
    PROVE  Fences
<1>1. PICK clears \in BOOLEAN : \E d : BeginInvalidate(clears, d)
  BY DEF Invalidates
<1>2. PICK d : BeginInvalidate(clears, d)
  BY <1>1
<1>3. QED BY <1>2, InvalidatedRow DEF Fences, Invalidates, BeginInvalidate,
     CancelWork, EvictLocal

LEMMA EndInvalidateEffect ==
    ASSUME TypeOK, EndInvalidate
    PROVE  Fenced
  BY ClearedAgain DEF Fenced, EndInvalidate

LEMMA ResumeEffect ==
    ASSUME TypeOK, Resume
    PROVE  Resumes
<1>1. db'.content = db.content /\ db'.text = db.text
      /\ db'.ver = db.ver + 1 /\ db'.share = "ACTIVE"
  BY DEF Resume, TypeOK, RowType
<1>2. QED BY <1>1 DEF Resumes, Resume, room, fence, queue, hocus, ghost

LEMMA ServeLoadedEffect ==
    ASSUME TypeOK, StampInv, ServeLoaded
    PROVE  ServesLoaded
<1>1. /\ count < MaxInst /\ count' = count + 1 /\ live' = count'
      /\ live' \in Instances /\ live' # None /\ live' # Copy
  BY BoundsAssumption, ValuesAssumption DEF ServeLoaded, Serve, TypeOK,
       RoomType, Instances
<1>2. mem' = [mem EXCEPT ![live'] = mem[loaded]] /\ clients' = {db.epoch}
  BY DEF ServeLoaded, Serve
<1>3. /\ mem'[live'] = mem[loaded] /\ mem'[Copy] = mem[Copy]
      /\ \A i \in Instances : i # live' => mem'[i] = mem[i]
  BY <1>1, <1>2 DEF TypeOK, RoomType
<1>4. dgen[live'] = None
  BY <1>1 DEF StampInv, TypeOK, RoomType
<1>5. meta' = DbMeta /\ DbMeta # None
  BY ValuesAssumption DEF ServeLoaded, DbMeta, TypeOK, RowType, Meta
<1>6. /\ meta # None => meta = DbMeta /\ unread' = unread
      /\ meta = None => unread' = unread \cup (db.content \ mem[loaded])
      /\ live = None /\ loaded # None /\ load = None
  BY DEF ServeLoaded, MetaIsCurrent
<1>7. UNCHANGED <<db, gen, dgen, invalid, tearing, release, reload, timer, flight,
                  runs, pend, stores, debounced, made, saved, lost, unserved, loaded, load>>
  BY DEF ServeLoaded, fence, queue, hocus
<1>8. QED BY <1>1, <1>2, <1>3, <1>4, <1>5, <1>6, <1>7 DEF ServesLoaded, New

LEMMA EndLoadEffect ==
    ASSUME TypeOK, StampInv, EndLoad
    PROVE  EndsLoad
<1>1. /\ load # None /\ live = None /\ loaded' = Copy /\ load' = None
      /\ meta' = [ver |-> load.ver, epoch |-> load.epoch]
      /\ load.content \subseteq Edits /\ load.ver \in Nat /\ load.epoch \in Nat
  BY DEF EndLoad, StampInv, TypeOK, RoomType
<1>2. meta' # None
  BY <1>1, ValuesAssumption DEF Meta
<1>3. /\ count < MaxInst /\ count' = count + 1 /\ live' = count'
      /\ live' \in Instances /\ live' # None /\ live' # Copy
  BY <1>1, BoundsAssumption, ValuesAssumption DEF EndLoad, Serve, StampInv,
       TypeOK, RoomType, Instances
<1>4. /\ mem' = [[mem EXCEPT ![Copy] = load.content] EXCEPT ![live'] = load.content]
      /\ clients' = {load.epoch}
  BY DEF EndLoad, Serve
<1>5. /\ mem'[live'] = load.content /\ mem'[Copy] = load.content
      /\ \A i \in Instances : i # live' => mem'[i] = mem[i]
  BY <1>3, <1>4, ValuesAssumption DEF TypeOK, RoomType, Instances
<1>6. dgen[live'] = None
  BY <1>3 DEF StampInv, TypeOK, RoomType
<1>7. UNCHANGED <<db, gen, dgen, invalid, tearing, release, reload, timer, flight,
                  runs, pend, stores, debounced, made, saved, lost, unserved, unread>>
  BY DEF EndLoad, fence, queue, hocus, ghost
<1>8. QED BY <1>1, <1>2, <1>3, <1>4, <1>5, <1>6, <1>7 DEF EndsLoad, New

LEMMA EditEffect ==
    ASSUME TypeOK, NEW e \in Edits, Edit(e)
    PROVE  EditsDoc(e)
<1>1. live \in Instances /\ live # None /\ ~invalid /\ db.share # "REVOKED"
  BY DEF Edit, Change, TypeOK, RoomType
<1>2. timer' = [inst |-> live, gen |-> gen, row |-> TRUE]
      /\ timer' # None
  <2>1. [inst |-> live, gen |-> gen, row |-> TRUE] \in Job
    BY <1>1 DEF Job, TypeOK, FenceType
  <2>2. None \notin Job
    BY ValuesAssumption
  <2>3. QED BY <2>1, <2>2 DEF Edit
<1>3. /\ mem'[live] = mem[live] \cup {e}
      /\ \A i \in Instances \cup {Copy} : i # live => mem'[i] = mem[i]
  BY <1>1 DEF Edit, Change, TypeOK, RoomType
<1>4. dgen'[live] = gen /\ \A i \in Instances : i # live => dgen'[i] = dgen[i]
  BY <1>1 DEF Edit, TypeOK, FenceType
<1>5. QED BY <1>1, <1>2, <1>3, <1>4 DEF EditsDoc, Edit, Change

LEMMA EditIgnoredEffect ==
    ASSUME TypeOK, NEW e \in Edits, EditIgnored(e)
    PROVE  Ignores(e)
<1>1. PICK epoch \in clients : Change(e, epoch)
  BY DEF EditIgnored
<1>2. live \in Instances /\ live # None /\ e \notin made /\ made' = made \cup {e}
  BY <1>1 DEF Change, TypeOK, RoomType
<1>3. /\ mem'[live] = mem[live] \cup {e}
      /\ \A i \in Instances \cup {Copy} : i # live => mem'[i] = mem[i]
  BY <1>1, <1>2 DEF Change, TypeOK, RoomType
<1>4. QED BY <1>2, <1>3 DEF Ignores, EditIgnored, room, fence

LEMMA YieldEffect ==
    ASSUME TypeOK, NEW i \in Instances, Yields(i)
    PROVE  Gives(i)
<1>1. meta' = DbMeta /\ meta' # None
  BY ValuesAssumption DEF Yields, YieldToRow, DbMeta, TypeOK, RowType, Meta
<1>2. /\ \A j \in Instances : mem'[j] = mem[j]
      /\ live = None => loaded' = Copy
      /\ live # None => loaded' = live
  BY ValuesAssumption DEF Yields, YieldToRow, TypeOK, RoomType, Instances
<1>3. /\ \A j \in Instances : dgen'[j] \in {dgen[j], gen}
      /\ \A j \in Instances : j # live => dgen'[j] = dgen[j]
  BY DEF Yields, YieldToRow, TypeOK, FenceType, RoomType
<1>4. Advances(i)
  BY DEF Yields, YieldToRow, CancelWork, Finishes, Advances
<1>5. QED BY <1>1, <1>2, <1>3, <1>4, FollowedRow DEF Gives, Yields

LEMMA GiveUpEffect ==
    ASSUME NEW i \in Instances, GivesUps(i)
    PROVE  GivesUp(i)
  BY DEF GivesUp, GivesUps, GiveUp, CancelWork, Finishes, Advances

LEMMA ReconcileEffect ==
    ASSUME TypeOK, Reconciling
    PROVE  Reconciles
<1>1. live \in Instances /\ live # None /\ ~invalid
  BY DEF Reconciling, Reconcile, TypeOK, RoomType
<1>2. /\ mem'[live] = db.text
      /\ \A i \in Instances \cup {Copy} : i # live => mem'[i] = mem[i]
  BY <1>1 DEF Reconciling, Reconcile, TypeOK, RoomType
<1>3. dgen'[live] = gen /\ \A i \in Instances : i # live => dgen'[i] = dgen[i]
  BY <1>1 DEF Reconciling, Reconcile, TypeOK, FenceType
<1>4. /\ unserved \subseteq unserved' /\ Unsaved(live) \subseteq unserved'
      /\ \A job \in {timer, pend} \ {None} : mem[job.inst] \ saved \subseteq unserved'
      /\ unread' = unread \cup (db.content \ db.text) /\ timer' = None
  BY DEF Reconciling, Reconcile
<1>5. DbMeta # None
  BY ValuesAssumption DEF DbMeta, TypeOK, RowType, Meta
<1>6. \/ ~flight /\ db.share = "REVOKED" /\ loaded' = None /\ meta' = None
      \/ /\ flight \/ db.share # "REVOKED"
         /\ loaded' = live /\ meta' = DbMeta /\ meta' # None
  BY <1>5 DEF Reconciling, Reconcile, EvictLocal
<1>7. \/ /\ flight /\ pend' # None
         /\ pend' = [inst |-> live, gen |-> None, row |-> FALSE]
         /\ UNCHANGED <<flight, runs>>
      \/ /\ ~flight /\ db.share = "REVOKED" /\ pend' = None
         /\ UNCHANGED <<flight, runs>>
      \/ /\ ~flight /\ db.share # "REVOKED" /\ pend' = None /\ flight' = TRUE
         /\ \E n \in Run : /\ n.inst = live /\ n.gen = gen
                           /\ n.late = db.content \ db.text
                           /\ runs' = runs \cup {n}
  <2>1. CASE flight
    <3>1. [inst |-> live, gen |-> None, row |-> FALSE] \in Job
      BY <1>1 DEF Job
    <3>2. None \notin Job
      BY ValuesAssumption
    <3>3. QED BY <2>1, <3>1, <3>2 DEF Reconciling, Reconcile
  <2>2. CASE ~flight /\ db.share = "REVOKED"
    BY <2>2 DEF Reconciling, Reconcile
  <2>3. CASE ~flight /\ db.share # "REVOKED"
    <3> DEFINE n == [inst |-> live, gen |-> gen, awaited |-> TRUE, row |-> FALSE,
                     late |-> db.content \ db.text]
    <3>1. n \in Run /\ n.inst = live /\ n.gen = gen /\ n.late = db.content \ db.text
      BY <1>1 DEF Run, TypeOK, FenceType, RowType
    <3>2. flight' = TRUE /\ runs' = runs \cup {n} /\ pend' = None
      BY <2>3 DEF Reconciling, Reconcile
    <3> HIDE DEF n
    <3>3. QED BY <2>3, <3>1, <3>2
  <2>4. QED BY <2>1, <2>2, <2>3
<1>8. /\ stores' \subseteq stores
      /\ UNCHANGED <<db, count, live, load, clients, gen, invalid, tearing, release,
                     reload, debounced, made, saved, lost>>
  BY DEF Reconciling, Reconcile, Finishes
<1>9. QED BY <1>1, <1>2, <1>3, <1>4, <1>6, <1>7, <1>8 DEF Reconciles

\* A store of Hocuspocus: its instance becomes the resident one.
LEMMA OnStoreEffect ==
    ASSUME TypeOK, NEW cl \in SUBSET Nat, live # None, OnStore(cl)
    PROVE  Stores(cl)
<1>1. live \in Instances
  BY DEF TypeOK, RoomType
<1>2. /\ clients' = cl /\ debounced' = None
      /\ UNCHANGED <<db, mem, count, live, load, gen, invalid, tearing, release,
                     reload, flight, runs, pend, made, saved, lost, unread>>
  BY DEF OnStore
<1>3. CASE invalid
  <2>1. /\ timer' = None /\ loaded' = None /\ meta' = None
        /\ unserved' = unserved \cup Unsaved(live)
        /\ UNCHANGED <<dgen, stores>>
    BY <1>3 DEF OnStore, EvictLocal
  <2>2. QED BY <1>1, <1>2, <1>3, <2>1 DEF Stores
<1>4. CASE ~invalid /\ dgen[live] \in {None, gen}
  <2>1. /\ loaded' = live /\ dgen' = [dgen EXCEPT ![live] = gen]
        /\ stores' = stores \cup {live}
        /\ UNCHANGED <<timer, meta, unserved>>
    BY <1>4 DEF OnStore
  <2>2. dgen'[live] = gen /\ \A i \in Instances : i # live => dgen'[i] = dgen[i]
    BY <1>1, <2>1 DEF TypeOK, FenceType
  <2>3. QED BY <1>1, <1>2, <1>4, <2>1, <2>2 DEF Stores
<1>5. CASE ~invalid /\ dgen[live] \notin {None, gen}
  <2>1. UNCHANGED <<timer, loaded, meta, dgen, stores, unserved>>
    BY <1>5 DEF OnStore
  <2>2. QED BY <1>1, <1>2, <1>5, <2>1 DEF Stores
<1>6. QED BY <1>3, <1>4, <1>5 DEF Stores

\* What the request that persistDoc serves implies, by JobInv.
LEMMA ServedFacts ==
    ASSUME TypeOK, JobInv, NEW i \in Instances, NEW x \in Nat \cup {None},
           NEW row \in BOOLEAN, NEW t \in Job \cup {None},
           NEW m \in Meta \cup {None}, Serves(i, x, row, t, m)
    PROVE  Asks(i, x, row, t, m)
<1>1. DbMeta # None
  BY ValuesAssumption DEF DbMeta, TypeOK, RowType, Meta
<1>2. CASE timer # None /\ i = timer.inst /\ x = timer.gen /\ row = timer.row
           /\ t = None /\ m = meta /\ stores' = stores /\ unread' = unread
  BY <1>2, ValuesAssumption DEF Asks, Serves, JobInv, Current, Writing, TypeOK,
       FenceType
<1>3. CASE pend # None /\ i = pend.inst /\ x = pend.gen /\ row = pend.row
           /\ t = timer /\ m = meta /\ stores' = stores /\ unread' = unread
  BY <1>3 DEF Asks, Serves, JobInv, Writing
<1>4. CASE /\ i \in stores /\ ~Conflict(i, meta) /\ x = None /\ row
           /\ t = timer /\ m = (IF meta = None THEN DbMeta ELSE meta)
           /\ stores' = stores \ {i}
           /\ unread' = IF meta = None /\ meta' # None
                        THEN unread \cup Unseen(db, {live, loaded}) ELSE unread
  BY <1>1, <1>4 DEF Asks, Serves, JobInv, Writing, Conflict
<1>5. QED BY <1>2, <1>3, <1>4 DEF Asks, Serves

LEMMA StartEffect ==
    ASSUME TypeOK, JobInv, NEW i \in Instances, NEW x \in Nat \cup {None},
           NEW row \in BOOLEAN, NEW t \in Job \cup {None},
           NEW m \in Meta \cup {None}, NEW a \in BOOLEAN,
           Serves(i, x, row, t, m), Start(i, x, row, t, m, a)
    PROVE  Starts(i, row, m, t)
<1>1. DbMeta # None
  BY ValuesAssumption DEF DbMeta, TypeOK, RowType, Meta
<1>2. Current(i) /\ (row => loaded \in {None, i}) /\ ~invalid
  BY ServedFacts DEF Asks, Start, Stale, Current
<1>3. row /\ m = None => db.content \subseteq mem[i]
  BY <1>1 DEF Start, Conflict, RowAhead
<1>4. \E n \in Run : /\ n.inst = i /\ n.gen = gen
                     /\ \/ db.content \ mem[i] \subseteq n.late
                        \/ row /\ m = DbMeta
                     /\ runs' = runs \cup {n}
  <2> DEFINE n == [inst |-> i, gen |-> gen, awaited |-> a, row |-> row,
                   late |-> IF row /\ ~Conflict(i, m) THEN {} ELSE db.content \ mem[i]]
  <2>1. n \in Run /\ n.inst = i /\ n.gen = gen
    BY DEF Run, TypeOK, FenceType, RowType
  <2>2. db.content \ mem[i] \subseteq n.late \/ (row /\ m = DbMeta)
    BY DEF Conflict
  <2>3. runs' = runs \cup {n}
    BY DEF Start
  <2> HIDE DEF n
  <2>4. QED BY <2>1, <2>2, <2>3
<1>5. QED BY <1>1, <1>2, <1>3, <1>4 DEF Starts, Start

LEMMA StepDoes ==
    ASSUME TypeOK, TypeOK', MadeInv, StampInv, JobInv, Step
    PROVE  Does
<1>1. ASSUME NEW i \in Instances, NEW x \in Nat \cup {None},
             NEW row \in BOOLEAN,
             NEW t \in Job \cup {None}, NEW m \in Meta \cup {None},
             Serves(i, x, row, t, m), Queue(i, x, row, t, m)
      PROVE  Does
  BY <1>1, ServedFacts DEF Does
<1>2. ASSUME NEW i \in Instances, NEW x \in Nat \cup {None},
             NEW row \in BOOLEAN,
             NEW t \in Job \cup {None}, NEW m \in Meta \cup {None},
             Serves(i, x, row, t, m), Refuse(i, t)
      PROVE  Does
  BY <1>2, ServedFacts DEF Does
<1>3. ASSUME NEW i \in Instances, NEW x \in Nat \cup {None},
             NEW row \in BOOLEAN,
             NEW t \in Job \cup {None}, NEW m \in Meta \cup {None},
             Serves(i, x, row, t, m), Drop(i, x, row, t, m)
      PROVE  Does
  BY <1>3, ServedFacts DEF Does
<1>4. ASSUME NEW i \in Instances, NEW x \in Nat \cup {None},
             NEW row \in BOOLEAN,
             NEW t \in Job \cup {None}, NEW m \in Meta \cup {None},
             Serves(i, x, row, t, m), NEW a \in BOOLEAN, Start(i, x, row, t, m, a)
      PROVE  Does
  BY <1>4, ServedFacts, StartEffect DEF Does
<1>5. ASSUME NEW i \in Instances, Yields(i) PROVE Does
  BY <1>5, YieldEffect DEF Does
<1>6. ASSUME Invalidates PROVE Does
  BY <1>6, InvalidateEffect DEF Does
<1>7. ASSUME ServeLoaded PROVE Does
  BY <1>7, ServeLoadedEffect DEF Does
<1>8. ASSUME EndLoad PROVE Does
  BY <1>8, EndLoadEffect DEF Does
<1>9. ASSUME NEW e \in Edits, Edit(e) PROVE Does
  BY <1>9, EditEffect DEF Does
<1>10. ASSUME NEW e \in Edits, EditIgnored(e) PROVE Does
  BY <1>10, EditIgnoredEffect DEF Does
<1>11. ASSUME NEW e \in Edits, NEW bump \in BOOLEAN, ExternalWrite(e, bump)
      PROVE  Does
  BY <1>11, ExternalWriteEffect DEF Does
<1>12. ASSUME NEW cl \in SUBSET Nat, live # None, OnStore(cl) PROVE Does
  BY <1>12, OnStoreEffect DEF Does
<1>13. ASSUME NEW r \in runs, Commit(r) PROVE Does
  BY <1>13, CommitEffect DEF Does
<1>14. ASSUME Resume PROVE Does
  BY <1>14, ResumeEffect DEF Does
<1>15. ASSUME NEW i \in Instances, GivesUps(i) PROVE Does
  BY <1>15, GiveUpEffect DEF Does
<1>16. ASSUME Reconciling PROVE Does
  BY <1>16, ReconcileEffect DEF Does
<1>17. ASSUME NEW e \in Edits, RowWrite(e) PROVE Does
  BY <1>17, RowWriteEffect DEF Does
<1>18. ASSUME EndInvalidate PROVE Does
  BY <1>18, EndInvalidateEffect DEF Does
<1>19. ASSUME
          \/ EvictStale
          \/ Join
          \/ BeginLoad
          \/ \E cl \in SUBSET Nat : live # None /\ StoreIgnored(cl)
          \/ \E r \in runs : CommitFails(r)
          \/ Release /\ tearing = 0
          \/ Unload
      PROVE  Does
  BY <1>19 DEF Does
<1>20. ASSUME Persists PROVE Does
  BY <1>1, <1>2, <1>3, <1>4, <1>20 DEF Persists
<1>21. QED BY <1>5, <1>6, <1>7, <1>8, <1>9, <1>10, <1>11, <1>12, <1>13, <1>14,
       <1>15, <1>16, <1>17, <1>18, <1>19, <1>20 DEF Step

\* Only an invalidation, a persist that yields and an eviction advance the
\* generation, and they leave nothing resident that has the old one.
LEMMA StampStep ==
    ASSUME TypeOK, TypeOK', StampInv, JobInv, Does
    PROVE  StampInv'
<1>1. ASSUME NEW i \in Instances, NEW x \in Nat \cup {None},
             NEW row \in BOOLEAN,
             NEW t \in Job \cup {None},
             NEW m \in Meta \cup {None},
             Asks(i, x, row, t, m), Queue(i, x, row, t, m)
      PROVE  StampInv'
  BY <1>1, BoundsAssumption, ValuesAssumption DEF Asks, Queue, Unsaved,
       TypeOK, RoomType, FenceType, StampInv, Current, CleanLive, Instances
<1>2. ASSUME NEW i \in Instances, NEW x \in Nat \cup {None},
             NEW row \in BOOLEAN,
             NEW t \in Job \cup {None},
             NEW m \in Meta \cup {None}, Asks(i, x, row, t, m), Refuse(i, t)
      PROVE  StampInv'
  BY <1>2, BoundsAssumption, ValuesAssumption DEF Asks, Refuse, EvictLocal,
       Unsaved, TypeOK, RoomType, FenceType, StampInv, Current, CleanLive,
       Instances
<1>3. ASSUME NEW i \in Instances, NEW x \in Nat \cup {None},
             NEW row \in BOOLEAN,
             NEW t \in Job \cup {None},
             NEW m \in Meta \cup {None},
             Asks(i, x, row, t, m), Drop(i, x, row, t, m)
      PROVE  StampInv'
  BY <1>3, BoundsAssumption, ValuesAssumption DEF Asks, Drop, Stale,
       EpochMoved, Unsaved, TypeOK, RoomType, FenceType, StampInv, Current,
       CleanLive, Instances
<1>4. ASSUME NEW i \in Instances, NEW x \in Nat \cup {None},
             NEW row \in BOOLEAN,
             NEW t \in Job \cup {None},
             NEW m \in Meta \cup {None}, Asks(i, x, row, t, m), Starts(i, row, m, t)
      PROVE  StampInv'
  BY <1>4, BoundsAssumption, ValuesAssumption DEF Asks, Starts, TypeOK,
       RoomType, FenceType, StampInv, Current, CleanLive, Instances
<1>5. ASSUME NEW i \in Instances, Gives(i) PROVE StampInv'
  <2>1. /\ gen' = gen + 1 /\ gen \in Nat /\ invalid' = TRUE /\ reload' = TRUE
        /\ UNCHANGED <<count, live, load>> /\ meta' # None
        /\ live = None => loaded' = Copy
    BY <1>5 DEF Gives, Advances, TypeOK, FenceType
  <2>2. \A j \in Instances : dgen'[j] # None => dgen'[j] \in Nat /\ dgen'[j] <= gen
    BY <1>5, <2>1 DEF Gives, TypeOK, FenceType, StampInv
  <2>3. \A j \in Instances : dgen'[j] # gen'
    BY <2>1, <2>2, ValuesAssumption
  <2>4. \A j \in Instances : j > count => dgen'[j] = None
    <3>1. \A j \in Instances : j > count => j # live
      BY ValuesAssumption DEF StampInv, TypeOK, RoomType, Instances
    <3>2. QED BY <1>5, <3>1 DEF Gives, StampInv
  <2>5. \A j \in Instances : dgen'[j] # None => dgen'[j] <= gen'
    BY <2>1, <2>2
  <2>6. QED BY <2>1, <2>3, <2>4, <2>5 DEF StampInv, Current, CleanLive
<1>6. ASSUME Fences PROVE StampInv'
  BY <1>6, BoundsAssumption, ValuesAssumption DEF Fences, Unsaved, TypeOK,
       RoomType, FenceType, StampInv, Current, CleanLive, Instances
<1>7. ASSUME EvictStale PROVE StampInv'
  BY <1>7, BoundsAssumption, ValuesAssumption DEF EvictStale, CancelWork,
       EvictLocal, Unsaved, TypeOK, RoomType, FenceType, StampInv, Current,
       CleanLive, Instances
<1>8. ASSUME ServesLoaded PROVE StampInv'
  BY <1>8, BoundsAssumption, ValuesAssumption DEF ServesLoaded, New, TypeOK,
       RoomType, FenceType, StampInv, Current, CleanLive, Instances
<1>9. ASSUME BeginLoad PROVE StampInv'
  BY <1>9, BoundsAssumption, ValuesAssumption DEF BeginLoad, fence, queue,
       hocus, ghost, TypeOK, RoomType, FenceType, StampInv, Current,
       CleanLive, Instances
<1>10. ASSUME EndsLoad PROVE StampInv'
  BY <1>10, BoundsAssumption, ValuesAssumption DEF EndsLoad, New, TypeOK,
       RoomType, FenceType, StampInv, Current, CleanLive, Instances
<1>11. ASSUME NEW e \in Edits, EditsDoc(e) PROVE StampInv'
  BY <1>11, BoundsAssumption, ValuesAssumption DEF EditsDoc, TypeOK,
       RoomType, FenceType, StampInv, Current, CleanLive, Instances
<1>12. ASSUME NEW cl \in SUBSET Nat, Stores(cl) PROVE StampInv'
  BY <1>12, BoundsAssumption, ValuesAssumption DEF Stores, Unsaved, TypeOK,
       RoomType, FenceType, StampInv, Current, CleanLive, Instances
<1>13. ASSUME NEW r \in runs, Commits(r) PROVE StampInv'
  BY <1>13, BoundsAssumption, ValuesAssumption DEF Commits, LateBy, Unseen,
       TypeOK, RoomType, FenceType, StampInv, Current, CleanLive, Instances
<1>14. ASSUME Fenced PROVE StampInv'
  BY <1>14, BoundsAssumption, ValuesAssumption DEF Fenced, Unsaved,
       TypeOK, RoomType, FenceType, StampInv, Current, CleanLive, Instances
<1>15. ASSUME Release, tearing = 0 PROVE StampInv'
  BY <1>15, BoundsAssumption, ValuesAssumption DEF Release, room, queue,
       hocus, ghost, TypeOK, RoomType, FenceType, StampInv, Current,
       CleanLive, Instances
<1>16. ASSUME Unload PROVE StampInv'
  BY <1>16, BoundsAssumption, ValuesAssumption DEF Unload, Unloading, fence,
       queue, hocus, ghost, TypeOK, RoomType, FenceType, StampInv, Current,
       CleanLive, Instances
<1>17. ASSUME
          \/ Join
          \/ \E e \in Edits : Ignores(e)
          \/ \E e \in Edits : Writes(e)
          \/ \E cl \in SUBSET Nat : StoreIgnored(cl)
          \/ \E r \in runs : CommitFails(r)
          \/ Resumes
      PROVE  StampInv'
  <2>1. UNCHANGED <<gen, dgen, invalid, count, live, loaded, load, tearing,
           reload, meta>>
    BY <1>17 DEF Join, fence, queue, hocus, ghost, Ignores, Writes, LateBy,
         StoreIgnored, Unsaved, CommitFails, EndRun, room, Resumes
  <2>2. QED BY <2>1 DEF StampInv, Current, CleanLive
<1>18. ASSUME NEW i \in Instances, GivesUp(i) PROVE StampInv'
  BY <1>18, BoundsAssumption, ValuesAssumption DEF GivesUp, Advances, Unsaved,
       TypeOK, RoomType, FenceType, StampInv, Current, CleanLive, Instances
<1>19. ASSUME Reconciles PROVE StampInv'
  BY <1>19, BoundsAssumption, ValuesAssumption DEF Reconciles, Unsaved, TypeOK,
       RoomType, FenceType, StampInv, Current, CleanLive, Instances
<1>20. QED BY <1>1, <1>2, <1>3, <1>4, <1>5, <1>6, <1>7, <1>8, <1>9, <1>10,
       <1>11, <1>12, <1>13, <1>14, <1>15, <1>16, <1>17, <1>18, <1>19 DEF Does

\* A request is made with the generation of its time and does not survive the
\* next one, but for stores, and for runs, which the next one makes old.
LEMMA JobStep ==
    ASSUME TypeOK, TypeOK', StampInv, JobInv, Does
    PROVE  JobInv'
<1>1. ASSUME NEW i \in Instances, NEW x \in Nat \cup {None},
             NEW row \in BOOLEAN,
             NEW t \in Job \cup {None},
             NEW m \in Meta \cup {None},
             Asks(i, x, row, t, m), Queue(i, x, row, t, m)
      PROVE  JobInv'
  BY <1>1, BoundsAssumption, ValuesAssumption DEF Asks, Queue, Unsaved,
       TypeOK, FenceType, QueueType, Job, Run, Instances, StampInv, JobInv,
       Current
<1>2. ASSUME NEW i \in Instances, NEW x \in Nat \cup {None},
             NEW row \in BOOLEAN,
             NEW t \in Job \cup {None},
             NEW m \in Meta \cup {None}, Asks(i, x, row, t, m), Refuse(i, t)
      PROVE  JobInv'
  BY <1>2, BoundsAssumption, ValuesAssumption DEF Asks, Refuse, EvictLocal,
       Unsaved, TypeOK, FenceType, QueueType, Job, Run, Instances, StampInv,
       JobInv, Current
<1>3. ASSUME NEW i \in Instances, NEW x \in Nat \cup {None},
             NEW row \in BOOLEAN,
             NEW t \in Job \cup {None},
             NEW m \in Meta \cup {None},
             Asks(i, x, row, t, m), Drop(i, x, row, t, m)
      PROVE  JobInv'
  BY <1>3, BoundsAssumption, ValuesAssumption DEF Asks, Drop, Stale,
       EpochMoved, Unsaved, TypeOK, FenceType, QueueType, Job, Run,
       Instances, StampInv, JobInv, Current
<1>4. ASSUME NEW i \in Instances, NEW x \in Nat \cup {None},
             NEW row \in BOOLEAN,
             NEW t \in Job \cup {None},
             NEW m \in Meta \cup {None}, Asks(i, x, row, t, m), Starts(i, row, m, t)
      PROVE  JobInv'
  BY <1>4, BoundsAssumption, ValuesAssumption DEF Asks, Starts, TypeOK,
       FenceType, QueueType, Job, Run, Instances, StampInv, JobInv, Current
<1>5. ASSUME NEW i \in Instances, Gives(i) PROVE JobInv'
  BY <1>5, BoundsAssumption, ValuesAssumption DEF Gives, Advances, Unsaved,
       TypeOK, FenceType, QueueType, Job, Run, Instances, StampInv, JobInv,
       Current
<1>6. ASSUME Fences PROVE JobInv'
  BY <1>6, BoundsAssumption, ValuesAssumption DEF Fences, Unsaved, TypeOK,
       FenceType, QueueType, Job, Run, Instances, StampInv, JobInv, Current
<1>7. ASSUME EvictStale PROVE JobInv'
  BY <1>7, BoundsAssumption, ValuesAssumption DEF EvictStale, CancelWork,
       EvictLocal, Unsaved, TypeOK, FenceType, QueueType, Job, Run,
       Instances, StampInv, JobInv, Current
<1>8. ASSUME ServesLoaded PROVE JobInv'
  BY <1>8, BoundsAssumption, ValuesAssumption DEF ServesLoaded, New, TypeOK,
       FenceType, QueueType, Job, Run, Instances, StampInv, JobInv, Current
<1>9. ASSUME EndsLoad PROVE JobInv'
  BY <1>9, BoundsAssumption, ValuesAssumption DEF EndsLoad, New, TypeOK,
       FenceType, QueueType, Job, Run, Instances, StampInv, JobInv, Current
<1>10. ASSUME NEW e \in Edits, EditsDoc(e) PROVE JobInv'
  BY <1>10, BoundsAssumption, ValuesAssumption DEF EditsDoc, TypeOK,
       FenceType, QueueType, Job, Run, Instances, StampInv, JobInv, Current
<1>11. ASSUME NEW e \in Edits, Writes(e) PROVE JobInv'
  BY <1>11, BoundsAssumption, ValuesAssumption DEF Writes, LateBy, TypeOK,
       FenceType, QueueType, Job, Run, Instances, StampInv, JobInv, Current
<1>12. ASSUME NEW cl \in SUBSET Nat, Stores(cl) PROVE JobInv'
  BY <1>12, BoundsAssumption, ValuesAssumption DEF Stores, Unsaved, TypeOK,
       FenceType, QueueType, Job, Run, Instances, StampInv, JobInv, Current
<1>13. ASSUME NEW r \in runs, Commits(r) PROVE JobInv'
  BY <1>13, BoundsAssumption, ValuesAssumption DEF Commits, LateBy, Unseen,
       TypeOK, FenceType, QueueType, Job, Run, Instances, StampInv, JobInv,
       Current
<1>14. ASSUME NEW r \in runs, CommitFails(r) PROVE JobInv'
  BY <1>14, BoundsAssumption, ValuesAssumption DEF CommitFails, EndRun, room,
       fence, hocus, Unsaved, TypeOK, FenceType, QueueType, Job, Run,
       Instances, StampInv, JobInv, Current
<1>15. ASSUME Fenced PROVE JobInv'
  BY <1>15, BoundsAssumption, ValuesAssumption DEF Fenced, Unsaved,
       TypeOK, FenceType, QueueType, Job, Run, Instances, StampInv, JobInv,
       Current
<1>16. ASSUME Unload PROVE JobInv'
  BY <1>16, BoundsAssumption, ValuesAssumption DEF Unload, Unloading, fence,
       queue, hocus, ghost, TypeOK, FenceType, QueueType, Job, Run,
       Instances, StampInv, JobInv, Current
<1>17. ASSUME
          \/ Join
          \/ BeginLoad
          \/ \E e \in Edits : Ignores(e)
          \/ \E cl \in SUBSET Nat : StoreIgnored(cl)
          \/ Resumes
          \/ Release /\ tearing = 0
      PROVE  JobInv'
  <2>1. UNCHANGED <<gen, dgen, timer, pend, runs, stores, flight, live>>
    BY <1>17 DEF Join, fence, queue, hocus, ghost, BeginLoad, Ignores,
         StoreIgnored, Unsaved, Resumes, Release, room
  <2>2. QED BY <2>1 DEF JobInv, Current
<1>18. ASSUME NEW i \in Instances, GivesUp(i) PROVE JobInv'
  BY <1>18, BoundsAssumption, ValuesAssumption DEF GivesUp, Advances, Unsaved,
       TypeOK, FenceType, QueueType, Job, Run, Instances, StampInv, JobInv,
       Current
<1>19. ASSUME Reconciles PROVE JobInv'
  BY <1>19, BoundsAssumption, ValuesAssumption DEF Reconciles, Unsaved, TypeOK,
       FenceType, QueueType, Job, Run, Instances, StampInv, JobInv, Current
<1>20. QED BY <1>1, <1>2, <1>3, <1>4, <1>5, <1>6, <1>7, <1>8, <1>9, <1>10,
       <1>11, <1>12, <1>13, <1>14, <1>15, <1>16, <1>17, <1>18, <1>19 DEF Does

\* Whatever changes the history raises the version.
LEMMA VerStep ==
    ASSUME TypeOK, TypeOK', StampInv, JobInv, VerInv, Does
    PROVE  VerInv'
<1>1. ASSUME NEW i \in Instances, NEW x \in Nat \cup {None},
             NEW row \in BOOLEAN,
             NEW t \in Job \cup {None},
             NEW m \in Meta \cup {None},
             Asks(i, x, row, t, m), Queue(i, x, row, t, m)
      PROVE  VerInv'
  BY <1>1, BoundsAssumption, ValuesAssumption DEF Asks, Queue, Unsaved,
       TypeOK, RowType, RoomType, Meta, VerInv, DbMeta
<1>2. ASSUME NEW i \in Instances, NEW x \in Nat \cup {None},
             NEW row \in BOOLEAN,
             NEW t \in Job \cup {None},
             NEW m \in Meta \cup {None}, Asks(i, x, row, t, m), Refuse(i, t)
      PROVE  VerInv'
  BY <1>2, BoundsAssumption, ValuesAssumption DEF Asks, Refuse, EvictLocal,
       Unsaved, TypeOK, RowType, RoomType, Meta, VerInv, DbMeta
<1>3. ASSUME NEW i \in Instances, NEW x \in Nat \cup {None},
             NEW row \in BOOLEAN,
             NEW t \in Job \cup {None},
             NEW m \in Meta \cup {None},
             Asks(i, x, row, t, m), Drop(i, x, row, t, m)
      PROVE  VerInv'
  BY <1>3, BoundsAssumption, ValuesAssumption DEF Asks, Drop, Stale,
       EpochMoved, Unsaved, TypeOK, RowType, RoomType, Meta, VerInv, DbMeta
<1>4. ASSUME NEW i \in Instances, NEW x \in Nat \cup {None},
             NEW row \in BOOLEAN,
             NEW t \in Job \cup {None},
             NEW m \in Meta \cup {None}, Asks(i, x, row, t, m), Starts(i, row, m, t)
      PROVE  VerInv'
  BY <1>4, BoundsAssumption, ValuesAssumption DEF Asks, Starts, TypeOK,
       RowType, RoomType, Meta, VerInv, DbMeta
<1>5. ASSUME NEW i \in Instances, Gives(i) PROVE VerInv'
  BY <1>5, BoundsAssumption, ValuesAssumption DEF Gives, Advances, Unsaved,
       TypeOK, RowType, RoomType, Meta, VerInv, DbMeta
<1>6. ASSUME Fences PROVE VerInv'
  BY <1>6, BoundsAssumption, ValuesAssumption DEF Fences, Unsaved, TypeOK,
       RowType, RoomType, Meta, VerInv, DbMeta
<1>7. ASSUME EvictStale PROVE VerInv'
  BY <1>7, BoundsAssumption, ValuesAssumption DEF EvictStale, CancelWork,
       EvictLocal, Unsaved, TypeOK, RowType, RoomType, Meta, VerInv, DbMeta
<1>8. ASSUME ServesLoaded PROVE VerInv'
  BY <1>8, BoundsAssumption, ValuesAssumption DEF ServesLoaded, New, TypeOK,
       RowType, RoomType, Meta, VerInv, DbMeta
<1>9. ASSUME BeginLoad PROVE VerInv'
  BY <1>9, BoundsAssumption, ValuesAssumption DEF BeginLoad, fence, queue,
       hocus, ghost, TypeOK, RowType, RoomType, Meta, VerInv, DbMeta
<1>10. ASSUME EndsLoad PROVE VerInv'
  BY <1>10, BoundsAssumption, ValuesAssumption DEF EndsLoad, New, TypeOK,
       RowType, RoomType, Meta, VerInv, DbMeta
<1>11. ASSUME NEW e \in Edits, Writes(e) PROVE VerInv'
  BY <1>11, BoundsAssumption, ValuesAssumption DEF Writes, LateBy, TypeOK,
       RowType, RoomType, Meta, VerInv, DbMeta
<1>12. ASSUME NEW cl \in SUBSET Nat, Stores(cl) PROVE VerInv'
  BY <1>12, BoundsAssumption, ValuesAssumption DEF Stores, Unsaved, TypeOK,
       RowType, RoomType, Meta, VerInv, DbMeta
<1>13. ASSUME NEW r \in runs, Commits(r) PROVE VerInv'
  BY <1>13, BoundsAssumption, ValuesAssumption DEF Commits, LateBy, Unseen,
       TypeOK, RowType, RoomType, Meta, VerInv, DbMeta
<1>14. ASSUME Resumes PROVE VerInv'
  BY <1>14, BoundsAssumption, ValuesAssumption DEF Resumes, TypeOK, RowType,
       RoomType, Meta, VerInv, DbMeta
<1>15. ASSUME
          \/ Join
          \/ \E e \in Edits : EditsDoc(e)
          \/ \E e \in Edits : Ignores(e)
          \/ \E cl \in SUBSET Nat : StoreIgnored(cl)
          \/ \E r \in runs : CommitFails(r)
          \/ Release /\ tearing = 0
          \/ Unload
      PROVE  VerInv'
  <2>1. UNCHANGED <<meta, load, db>>
    BY <1>15 DEF Join, fence, queue, hocus, ghost, EditsDoc, Ignores,
         StoreIgnored, Unsaved, CommitFails, EndRun, room,
         Release, Unload, Unloading
  <2>2. QED BY <2>1 DEF VerInv
<1>16. ASSUME NEW i \in Instances, GivesUp(i) PROVE VerInv'
  BY <1>16, BoundsAssumption, ValuesAssumption DEF GivesUp, Advances, Unsaved,
       TypeOK, RowType, RoomType, Meta, VerInv, DbMeta
<1>17. ASSUME Reconciles PROVE VerInv'
  BY <1>17, BoundsAssumption, ValuesAssumption DEF Reconciles, Unsaved, TypeOK,
       RowType, RoomType, Meta, VerInv, DbMeta
<1>18. ASSUME Fenced PROVE VerInv'
  BY <1>18, BoundsAssumption, ValuesAssumption DEF Fenced, TypeOK, RowType,
       RoomType, Meta, VerInv
<1>19. QED BY <1>1, <1>2, <1>3, <1>4, <1>5, <1>6, <1>7, <1>8, <1>9, <1>10,
       <1>11, <1>12, <1>13, <1>14, <1>15, <1>16, <1>17, <1>18 DEF Does

\* Revoking invalidates, and no change or persist of a revoked document makes a
\* request.
LEMMA RevokedStep ==
    ASSUME TypeOK, TypeOK', MadeInv, StampInv, StampInv', JobInv, JobInv',
           VerInv, RevokedInv, Does
    PROVE  RevokedInv'
<1>1. ASSUME NEW i \in Instances, NEW x \in Nat \cup {None},
             NEW row \in BOOLEAN,
             NEW t \in Job \cup {None},
             NEW m \in Meta \cup {None},
             Asks(i, x, row, t, m), Queue(i, x, row, t, m)
      PROVE  RevokedInv'
  BY <1>1, BoundsAssumption, ValuesAssumption DEF Asks, Queue, Unsaved,
       TypeOK, FenceType, QueueType, Run, Instances, HasRun, JobInv,
       RevokedInv
<1>2. ASSUME NEW i \in Instances, NEW x \in Nat \cup {None},
             NEW row \in BOOLEAN,
             NEW t \in Job \cup {None},
             NEW m \in Meta \cup {None}, Asks(i, x, row, t, m), Refuse(i, t)
      PROVE  RevokedInv'
  BY <1>2, BoundsAssumption, ValuesAssumption DEF Asks, Refuse, EvictLocal,
       Unsaved, TypeOK, FenceType, QueueType, Run, Instances, HasRun, JobInv,
       RevokedInv
<1>3. ASSUME NEW i \in Instances, NEW x \in Nat \cup {None},
             NEW row \in BOOLEAN,
             NEW t \in Job \cup {None},
             NEW m \in Meta \cup {None},
             Asks(i, x, row, t, m), Drop(i, x, row, t, m)
      PROVE  RevokedInv'
  BY <1>3, BoundsAssumption, ValuesAssumption DEF Asks, Drop, Stale,
       EpochMoved, Unsaved, TypeOK, FenceType, QueueType, Run, Instances,
       HasRun, JobInv, RevokedInv
<1>4. ASSUME NEW i \in Instances, NEW x \in Nat \cup {None},
             NEW row \in BOOLEAN,
             NEW t \in Job \cup {None},
             NEW m \in Meta \cup {None}, Asks(i, x, row, t, m), Starts(i, row, m, t)
      PROVE  RevokedInv'
  BY <1>4, BoundsAssumption, ValuesAssumption DEF Asks, Starts, TypeOK,
       FenceType, QueueType, Run, Instances, HasRun, JobInv, RevokedInv
<1>5. ASSUME NEW i \in Instances, Gives(i) PROVE RevokedInv'
  BY <1>5, BoundsAssumption, ValuesAssumption DEF Gives, Advances, Unsaved,
       TypeOK, FenceType, QueueType, Run, Instances, HasRun, JobInv, RevokedInv
<1>6. ASSUME Fences PROVE RevokedInv'
  BY <1>6, BoundsAssumption, ValuesAssumption DEF Fences, Unsaved, TypeOK,
       FenceType, QueueType, Run, Instances, HasRun, JobInv, RevokedInv
<1>7. ASSUME EvictStale PROVE RevokedInv'
  BY <1>7, BoundsAssumption, ValuesAssumption DEF EvictStale, CancelWork,
       EvictLocal, Unsaved, TypeOK, FenceType, QueueType, Run, Instances,
       HasRun, JobInv, RevokedInv
<1>8. ASSUME NEW e \in Edits, EditsDoc(e) PROVE RevokedInv'
  BY <1>8, BoundsAssumption, ValuesAssumption DEF EditsDoc, TypeOK,
       FenceType, QueueType, Run, Instances, HasRun, JobInv, RevokedInv
<1>9. ASSUME NEW e \in Edits, Writes(e) PROVE RevokedInv'
  BY <1>9, BoundsAssumption, ValuesAssumption DEF Writes, LateBy, TypeOK,
       FenceType, QueueType, Run, Instances, HasRun, JobInv, RevokedInv
<1>10. ASSUME NEW cl \in SUBSET Nat, Stores(cl) PROVE RevokedInv'
  BY <1>10, BoundsAssumption, ValuesAssumption DEF Stores, Unsaved, TypeOK,
       FenceType, QueueType, Run, Instances, HasRun, JobInv, RevokedInv
<1>11. ASSUME NEW r \in runs, Commits(r) PROVE RevokedInv'
  BY <1>11, BoundsAssumption, ValuesAssumption DEF Commits, LateBy, Unseen,
       TypeOK, FenceType, QueueType, Run, Instances, HasRun, JobInv,
       RevokedInv
<1>12. ASSUME NEW r \in runs, CommitFails(r) PROVE RevokedInv'
  BY <1>12, BoundsAssumption, ValuesAssumption DEF CommitFails, EndRun, room,
       fence, hocus, Unsaved, TypeOK, FenceType, QueueType, Run, Instances,
       HasRun, JobInv, RevokedInv
<1>13. ASSUME Resumes PROVE RevokedInv'
  BY <1>13, BoundsAssumption, ValuesAssumption DEF Resumes, TypeOK,
       FenceType, QueueType, Run, Instances, HasRun, JobInv, RevokedInv
<1>14. ASSUME
          \/ Join
          \/ ServesLoaded
          \/ BeginLoad
          \/ EndsLoad
          \/ \E e \in Edits : Ignores(e)
          \/ \E cl \in SUBSET Nat : StoreIgnored(cl)
          \/ Release /\ tearing = 0
          \/ Unload
      PROVE  RevokedInv'
  <2>1. UNCHANGED <<db, timer, pend, runs, gen>>
    BY <1>14 DEF Join, fence, queue, hocus, ghost, ServesLoaded, New,
         BeginLoad, EndsLoad, Ignores, StoreIgnored, Unsaved,
         Release, room, Unload, Unloading
  <2>2. QED BY <2>1 DEF RevokedInv, HasRun
<1>15. ASSUME NEW i \in Instances, GivesUp(i) PROVE RevokedInv'
  BY <1>15, BoundsAssumption, ValuesAssumption DEF GivesUp, Advances, Unsaved,
       TypeOK, FenceType, QueueType, Run, Instances, HasRun, JobInv, RevokedInv
<1>16. ASSUME Reconciles PROVE RevokedInv'
  BY <1>16, BoundsAssumption, ValuesAssumption DEF Reconciles, Unsaved, TypeOK,
       FenceType, QueueType, Run, Instances, HasRun, JobInv, RevokedInv
<1>17. ASSUME Fenced PROVE RevokedInv'
  BY <1>17 DEF Fenced, RevokedInv, HasRun
<1>18. QED BY <1>1, <1>2, <1>3, <1>4, <1>5, <1>6, <1>7, <1>8, <1>9, <1>10,
       <1>11, <1>12, <1>13, <1>14, <1>15, <1>16, <1>17 DEF Does

\* A second instance is served only after the resident one was evicted, with its
\* requests, or becomes the resident one by a change or a store.
LEMMA AloneStep ==
    ASSUME TypeOK, TypeOK', MadeInv, StampInv, StampInv', JobInv, JobInv',
           VerInv, RevokedInv, AloneInv, Does
    PROVE  AloneInv'
<1>1. ASSUME NEW i \in Instances, NEW x \in Nat \cup {None},
             NEW row \in BOOLEAN,
             NEW t \in Job \cup {None},
             NEW m \in Meta \cup {None},
             Asks(i, x, row, t, m), Queue(i, x, row, t, m)
      PROVE  AloneInv'
  <2>1. \A j \in Instances : Busy(j)' => Busy(j)
    BY <1>1 DEF Asks, Queue, Busy, Current, Writing, HasRun
  <2>2. ASSUME loaded = None \/ load # None, NEW j \in Instances, Busy(j)
        PROVE  meta # None
    <3>1. PICK r \in runs : r.gen = gen
      BY <1>1 DEF Queue, JobInv
    <3>2. r.inst \in Instances /\ Busy(r.inst) /\ HasRun(r.inst)
      BY <3>1 DEF Busy, Writing, HasRun, JobInv, TypeOK, QueueType, Run
    <3>3. QED BY <2>2, <3>2 DEF AloneInv
  <2>3. QED BY <1>1, <2>1, <2>2 DEF Asks, Queue, AloneInv
<1>2. ASSUME NEW i \in Instances, NEW x \in Nat \cup {None},
             NEW row \in BOOLEAN,
             NEW t \in Job \cup {None},
             NEW m \in Meta \cup {None}, Asks(i, x, row, t, m), Refuse(i, t)
      PROVE  AloneInv'
  BY <1>2, BoundsAssumption, ValuesAssumption DEF Asks, Refuse, EvictLocal,
       Unsaved, TypeOK, RoomType, FenceType, QueueType, Instances, StampInv,
       JobInv, RevokedInv, AloneInv, Busy, Writing, HasRun, Current
<1>3. ASSUME NEW i \in Instances, NEW x \in Nat \cup {None},
             NEW row \in BOOLEAN,
             NEW t \in Job \cup {None},
             NEW m \in Meta \cup {None},
             Asks(i, x, row, t, m), Drop(i, x, row, t, m)
      PROVE  AloneInv'
  BY <1>3, BoundsAssumption, ValuesAssumption DEF Asks, Drop, Stale,
       EpochMoved, Unsaved, TypeOK, RoomType, FenceType, QueueType,
       Instances, StampInv, JobInv, RevokedInv, AloneInv, Busy, Writing,
       HasRun, Current
<1>4. ASSUME NEW i \in Instances, NEW x \in Nat \cup {None},
             NEW row \in BOOLEAN,
             NEW t \in Job \cup {None},
             NEW m \in Meta \cup {None}, Asks(i, x, row, t, m), Starts(i, row, m, t)
      PROVE  AloneInv'
  BY <1>4, BoundsAssumption, ValuesAssumption DEF Asks, Starts, TypeOK,
       RoomType, FenceType, QueueType, Instances, StampInv, JobInv,
       RevokedInv, AloneInv, Busy, Writing, HasRun, Current
<1>5. ASSUME NEW i \in Instances, Gives(i) PROVE AloneInv'
  BY <1>5, BoundsAssumption, ValuesAssumption DEF Gives, Advances, Unsaved,
       TypeOK, RoomType, FenceType, QueueType, Instances, StampInv, JobInv,
       RevokedInv, AloneInv, Busy, Writing, HasRun, Current
<1>6. ASSUME Fences PROVE AloneInv'
  BY <1>6, BoundsAssumption, ValuesAssumption DEF Fences, Unsaved, TypeOK,
       RoomType, FenceType, QueueType, Instances, StampInv, JobInv,
       RevokedInv, AloneInv, Busy, Writing, HasRun, Current
<1>7. ASSUME EvictStale PROVE AloneInv'
  BY <1>7, BoundsAssumption, ValuesAssumption DEF EvictStale, CancelWork,
       EvictLocal, Unsaved, TypeOK, RoomType, FenceType, QueueType,
       Instances, StampInv, JobInv, RevokedInv, AloneInv, Busy, Writing,
       HasRun, Current
<1>8. ASSUME ServesLoaded PROVE AloneInv'
  BY <1>8, BoundsAssumption, ValuesAssumption DEF ServesLoaded, New, TypeOK,
       RoomType, FenceType, QueueType, Instances, StampInv, JobInv,
       RevokedInv, AloneInv, Busy, Writing, HasRun, Current
<1>9. ASSUME BeginLoad PROVE AloneInv'
  BY <1>9, BoundsAssumption, ValuesAssumption DEF BeginLoad, fence, queue,
       hocus, ghost, TypeOK, RoomType, FenceType, QueueType, Instances,
       StampInv, JobInv, RevokedInv, AloneInv, Busy, Writing, HasRun, Current
<1>10. ASSUME EndsLoad PROVE AloneInv'
  BY <1>10, BoundsAssumption, ValuesAssumption DEF EndsLoad, New, TypeOK,
       RoomType, FenceType, QueueType, Instances, StampInv, JobInv,
       RevokedInv, AloneInv, Busy, Writing, HasRun, Current
<1>11. ASSUME NEW e \in Edits, EditsDoc(e) PROVE AloneInv'
  BY <1>11, BoundsAssumption, ValuesAssumption DEF EditsDoc, TypeOK,
       RoomType, FenceType, QueueType, Instances, StampInv, JobInv,
       RevokedInv, AloneInv, Busy, Writing, HasRun, Current
<1>12. ASSUME NEW e \in Edits, Ignores(e) PROVE AloneInv'
  BY <1>12, BoundsAssumption, ValuesAssumption DEF Ignores, TypeOK, RoomType,
       FenceType, QueueType, Instances, StampInv, JobInv, RevokedInv,
       AloneInv, Busy, Writing, HasRun, Current
<1>13. ASSUME NEW e \in Edits, Writes(e) PROVE AloneInv'
  <2>1. /\ UNCHANGED <<live, loaded, load, meta, gen, dgen, timer, pend, stores>>
        /\ \A j \in Instances : HasRun(j)' <=> HasRun(j)
    BY <1>13 DEF Writes, LateBy, HasRun
  <2>2. \A j \in Instances : Busy(j)' <=> Busy(j)
    BY <2>1 DEF Busy, Writing, Current
  <2>3. QED BY <2>1, <2>2 DEF AloneInv
<1>14. ASSUME NEW cl \in SUBSET Nat, Stores(cl) PROVE AloneInv'
  BY <1>14, BoundsAssumption, ValuesAssumption DEF Stores, Unsaved, TypeOK,
       RoomType, FenceType, QueueType, Instances, StampInv, JobInv,
       RevokedInv, AloneInv, Busy, Writing, HasRun, Current
<1>15. ASSUME NEW r \in runs, Commits(r) PROVE AloneInv'
  <2>1. \A j \in Instances : Busy(j)' => Busy(j)
    BY <1>15 DEF Commits, LateBy, Busy, Current, Writing, HasRun
  <2>2. \A j \in Instances : HasRun(j)' => HasRun(j)
    BY <1>15 DEF Commits, LateBy, HasRun
  <2>3. CASE meta' = meta
    BY <1>15, <2>1, <2>2, <2>3 DEF Commits, AloneInv
  <2>4. CASE meta' # None
    BY <1>15, <2>1, <2>4 DEF Commits, AloneInv
  <2>5. QED BY <1>15, <2>3, <2>4 DEF Commits
<1>16. ASSUME NEW r \in runs, CommitFails(r) PROVE AloneInv'
  <2>1. r.inst \in Instances /\ Busy(r.inst) /\ HasRun(r.inst)
    BY <1>16 DEF CommitFails, EndRun, Busy, Writing, HasRun, JobInv, TypeOK,
         QueueType, Run
  <2>2. \A j \in Instances : Busy(j)' => Busy(j)
    BY <1>16, <2>1 DEF CommitFails, EndRun, fence, hocus, Busy, Current,
         Writing, HasRun
  <2>3. UNCHANGED <<db, mem, live, loaded, load, meta>>
    BY <1>16 DEF CommitFails, room
  <2>4. loaded = None \/ load # None => meta # None
    BY <2>1 DEF AloneInv
  <2>5. QED BY <2>2, <2>3, <2>4 DEF AloneInv
<1>17. ASSUME Resumes PROVE AloneInv'
  BY <1>17, BoundsAssumption, ValuesAssumption DEF Resumes, TypeOK, RoomType,
       FenceType, QueueType, Instances, StampInv, JobInv, RevokedInv,
       AloneInv, Busy, Writing, HasRun, Current
<1>18. ASSUME Fenced PROVE AloneInv'
  BY <1>18, BoundsAssumption, ValuesAssumption DEF Fenced, Unsaved,
       TypeOK, RoomType, FenceType, QueueType, Instances, StampInv, JobInv,
       RevokedInv, AloneInv, Busy, Writing, HasRun, Current
<1>19. ASSUME Unload PROVE AloneInv'
  BY <1>19, BoundsAssumption, ValuesAssumption DEF Unload, Unloading, fence,
       queue, hocus, ghost, TypeOK, RoomType, FenceType, QueueType,
       Instances, StampInv, JobInv, RevokedInv, AloneInv, Busy, Writing,
       HasRun, Current
<1>20. ASSUME
          \/ Join
          \/ \E cl \in SUBSET Nat : StoreIgnored(cl)
          \/ Release /\ tearing = 0
      PROVE  AloneInv'
  <2>1. UNCHANGED <<db, mem, loaded, load, live, meta, dgen, gen, timer,
           pend, runs, stores>>
    BY <1>20 DEF Join, fence, queue, hocus, ghost, StoreIgnored, Unsaved,
         Release, room
  <2>2. QED BY <2>1 DEF AloneInv, Busy, Writing, HasRun, Current
<1>21. ASSUME NEW i \in Instances, GivesUp(i) PROVE AloneInv'
  BY <1>21, BoundsAssumption, ValuesAssumption DEF GivesUp, Advances, Unsaved,
       TypeOK, RoomType, FenceType, QueueType, Instances, StampInv, JobInv,
       RevokedInv, AloneInv, Busy, Writing, HasRun, Current
<1>22. ASSUME Reconciles PROVE AloneInv'
  BY <1>22, BoundsAssumption, ValuesAssumption DEF Reconciles, Unsaved, TypeOK,
       RoomType, FenceType, QueueType, Instances, StampInv, JobInv, RevokedInv,
       AloneInv, Busy, Writing, HasRun, Current
<1>23. QED BY <1>1, <1>2, <1>3, <1>4, <1>5, <1>6, <1>7, <1>8, <1>9, <1>10,
       <1>11, <1>12, <1>13, <1>14, <1>15, <1>16, <1>17, <1>18, <1>19, <1>20,
       <1>21, <1>22 DEF Does

\* What is discarded was never saved, and is of documents that are no more; what
\* is saved is what a current document has.
LEMMA LostStep ==
    ASSUME TypeOK, TypeOK', MadeInv, StampInv, StampInv', JobInv, JobInv',
           VerInv, AloneInv, LostInv, Does
    PROVE  LostInv'
<1>1. ASSUME NEW i \in Instances, NEW x \in Nat \cup {None},
             NEW row \in BOOLEAN,
             NEW t \in Job \cup {None},
             NEW m \in Meta \cup {None}, Asks(i, x, row, t, m), Refuse(i, t)
      PROVE  LostInv'
  BY <1>1, BoundsAssumption, ValuesAssumption DEF Asks, Refuse, EvictLocal,
       Unsaved, TypeOK, RowType, RoomType, FenceType, QueueType, GhostType,
       Run, Instances, MadeInv, StampInv, JobInv, LostInv, View,
       CleanLive, CleanLoaded, Current
<1>2. ASSUME NEW i \in Instances, Gives(i) PROVE LostInv'
  BY <1>2, BoundsAssumption, ValuesAssumption DEF Gives, Advances, Unsaved,
       TypeOK, RoomType, FenceType, Instances, StampInv, LostInv, View,
       CleanLive, CleanLoaded, Current
<1>3. ASSUME Fences PROVE LostInv'
  BY <1>3, BoundsAssumption, ValuesAssumption DEF Fences, Unsaved, TypeOK,
       RowType, RoomType, FenceType, QueueType, GhostType, Run, Instances,
       MadeInv, StampInv, JobInv, LostInv, View, CleanLive,
       CleanLoaded, Current
<1>4. ASSUME EvictStale PROVE LostInv'
  BY <1>4, BoundsAssumption, ValuesAssumption DEF EvictStale, CancelWork,
       EvictLocal, Unsaved, TypeOK, RowType, RoomType, FenceType, QueueType,
       GhostType, Run, Instances, MadeInv, StampInv, JobInv,
       LostInv, View, CleanLive, CleanLoaded, Current
<1>5. ASSUME ServesLoaded PROVE LostInv'
  BY <1>5, BoundsAssumption, ValuesAssumption DEF ServesLoaded, New, TypeOK,
       RowType, RoomType, FenceType, QueueType, GhostType, Run, Instances,
       MadeInv, StampInv, JobInv, LostInv, View, CleanLive,
       CleanLoaded, Current
<1>6. ASSUME BeginLoad PROVE LostInv'
  BY <1>6, BoundsAssumption, ValuesAssumption DEF BeginLoad, fence, queue,
       hocus, ghost, TypeOK, RowType, RoomType, FenceType, QueueType,
       GhostType, Run, Instances, MadeInv, StampInv, JobInv,
       LostInv, View, CleanLive, CleanLoaded, Current
<1>7. ASSUME EndsLoad PROVE LostInv'
  BY <1>7, BoundsAssumption, ValuesAssumption DEF EndsLoad, New, TypeOK,
       RowType, RoomType, FenceType, QueueType, GhostType, Run, Instances,
       MadeInv, StampInv, JobInv, LostInv, View, CleanLive,
       CleanLoaded, Current
<1>8. ASSUME NEW e \in Edits, EditsDoc(e) PROVE LostInv'
  <2>1. CleanLive /\ mem[live] \in SUBSET Edits /\ View(mem[live])
    BY <1>8 DEF EditsDoc, CleanLive, View, TypeOK, FenceType, RoomType, StampInv
  <2>2. ASSUME NEW X, View(X)'
        PROVE  X = mem[live] \cup {e} \/ View(X)
    BY <1>8, <2>1, <2>2 DEF EditsDoc, View, CleanLive, CleanLoaded, Current,
         StampInv
  <2>3. e \notin lost /\ lost' = lost /\ saved' = saved
    BY <1>8 DEF EditsDoc, TypeOK, GhostType
  <2>4. QED BY <2>1, <2>2, <2>3 DEF LostInv
<1>9. ASSUME NEW e \in Edits, Ignores(e) PROVE LostInv'
  <2>1. ASSUME NEW X, View(X)'
        PROVE  \/ View(X)
               \/ mem[live] \in SUBSET Edits /\ View(mem[live]) /\ X = mem[live] \cup {e}
    BY <1>9, <2>1 DEF Ignores, View, CleanLive, CleanLoaded, Current, StampInv,
         TypeOK, RoomType
  <2>2. e \notin lost /\ lost' = lost /\ saved' = saved
    BY <1>9 DEF Ignores, TypeOK, GhostType
  <2>3. QED BY <2>1, <2>2 DEF LostInv
<1>10. ASSUME NEW e \in Edits, Writes(e) PROVE LostInv'
  BY <1>10, BoundsAssumption, ValuesAssumption DEF Writes, LateBy, TypeOK,
       RowType, RoomType, FenceType, QueueType, GhostType, Run, Instances,
       MadeInv, StampInv, JobInv, LostInv, View, CleanLive,
       CleanLoaded, Current
<1>11. ASSUME NEW cl \in SUBSET Nat, Stores(cl) PROVE LostInv'
  BY <1>11, BoundsAssumption, ValuesAssumption DEF Stores, Unsaved, TypeOK,
       RowType, RoomType, FenceType, QueueType, GhostType, Run, Instances,
       MadeInv, StampInv, JobInv, LostInv, View, CleanLive,
       CleanLoaded, Current
<1>12. ASSUME NEW r \in runs, Commits(r) PROVE LostInv'
  BY <1>12, BoundsAssumption, ValuesAssumption DEF Commits, LateBy, Unseen,
       TypeOK, RowType, RoomType, FenceType, QueueType, GhostType, Run,
       Instances, MadeInv, StampInv, JobInv, LostInv, View,
       CleanLive, CleanLoaded, Current
<1>13. ASSUME Resumes PROVE LostInv'
  BY <1>13, BoundsAssumption, ValuesAssumption DEF Resumes, TypeOK, RowType,
       RoomType, FenceType, QueueType, GhostType, Run, Instances, MadeInv,
       StampInv, JobInv, LostInv, View, CleanLive, CleanLoaded,
       Current
<1>14. ASSUME Fenced PROVE LostInv'
  BY <1>14, BoundsAssumption, ValuesAssumption DEF Fenced, Unsaved,
       TypeOK, RowType, RoomType, FenceType, QueueType, GhostType, Run,
       Instances, MadeInv, StampInv, JobInv, LostInv, View,
       CleanLive, CleanLoaded, Current
<1>15. ASSUME Unload PROVE LostInv'
  BY <1>15, BoundsAssumption, ValuesAssumption DEF Unload, Unloading, fence,
       queue, hocus, ghost, TypeOK, RowType, RoomType, FenceType, QueueType,
       GhostType, Run, Instances, MadeInv, StampInv, JobInv,
       LostInv, View, CleanLive, CleanLoaded, Current
<1>16. ASSUME
          \/ \E i \in Instances, x \in Nat \cup {None}, row \in BOOLEAN,
                t \in Job \cup {None},
                m \in Meta \cup {None} :
                /\ Asks(i, x, row, t, m)
                /\ Queue(i, x, row, t, m) \/ Drop(i, x, row, t, m) \/ Starts(i, row, m, t)
      PROVE  LostInv'
  <2>1. UNCHANGED <<mem, loaded, live, dgen, gen, tearing, reload, lost, saved>>
    BY <1>16 DEF Asks, Queue, Unsaved, Drop, Stale, EpochMoved, Starts, room
  <2>2. QED BY <2>1 DEF LostInv, View, CleanLive, CleanLoaded, Current
<1>17. ASSUME
          \/ Join
          \/ \E cl \in SUBSET Nat : StoreIgnored(cl)
          \/ \E r \in runs : CommitFails(r)
          \/ Release /\ tearing = 0
      PROVE  LostInv'
  <2>1. UNCHANGED <<mem, loaded, live, dgen, gen, tearing, reload, lost, saved>>
    BY <1>17 DEF Join, fence, queue, hocus, ghost, StoreIgnored, Unsaved,
         CommitFails, EndRun, room, Release
  <2>2. QED BY <2>1 DEF LostInv, View, CleanLive, CleanLoaded, Current
<1>18. ASSUME NEW i \in Instances, GivesUp(i) PROVE LostInv'
  BY <1>18, BoundsAssumption, ValuesAssumption DEF GivesUp, Advances, Unsaved,
       TypeOK, RowType, RoomType, FenceType, QueueType, GhostType, Run,
       Instances, MadeInv, StampInv, JobInv, LostInv, View, CleanLive,
       CleanLoaded, Current
<1>19. ASSUME Reconciles PROVE LostInv'
  <2>1. ASSUME NEW X, View(X)'
        PROVE  X = db.text \/ View(X)
    BY <1>19, <2>1 DEF Reconciles, View, CleanLive, CleanLoaded, Current
  <2>2. lost' = lost /\ saved' = saved /\ db.text \cap lost = {}
    BY <1>19 DEF Reconciles, MadeInv, LostInv
  <2>3. QED BY <2>1, <2>2 DEF LostInv
<1>20. QED BY <1>1, <1>2, <1>3, <1>4, <1>5, <1>6, <1>7, <1>8, <1>9, <1>10,
       <1>11, <1>12, <1>13, <1>14, <1>15, <1>16, <1>17, <1>18, <1>19 DEF Does

\* meta is set to the present version by a read of the history, by a commit, and
\* by those who pretend, which is what unread records.
LEMMA SeenStep ==
    ASSUME TypeOK, TypeOK', MadeInv, StampInv, StampInv', JobInv, JobInv',
           VerInv, RevokedInv, AloneInv, SeenInv, Does
    PROVE  SeenInv'
<1>1. ASSUME NEW i \in Instances, NEW x \in Nat \cup {None},
             NEW row \in BOOLEAN,
             NEW t \in Job \cup {None},
             NEW m \in Meta \cup {None},
             Asks(i, x, row, t, m), Queue(i, x, row, t, m)
      PROVE  SeenInv'
  <2>1. \A j \in Instances : Busy(j)' => Busy(j)
    BY <1>1 DEF Asks, Queue, Busy, Current, Writing, HasRun
  <2>2. /\ meta' = m /\ UNCHANGED <<db, mem, live, loaded, tearing, reload>>
    BY <1>1 DEF Asks, Queue
  <2>3. CASE m = meta
    <3>1. unread' = unread
      BY <1>1, <2>3 DEF Asks
    <3>2. QED BY <2>1, <2>2, <2>3, <3>1 DEF SeenInv, DbMeta, CleanLive,
         CleanLoaded
  <2>4. CASE meta = None /\ m = DbMeta /\ m # meta /\ db.content \subseteq mem[i]
    <3>1. \A j \in {live, loaded} \ {None} : db.content \ mem[j] \subseteq unread'
      BY <1>1, <2>2, <2>4 DEF Asks, Unseen
    <3>2. ASSUME loaded = None, NEW j \in Instances, Busy(j)
          PROVE  db.content \ mem[j] \subseteq unread'
      <4>1. j = live /\ live # None
        BY <2>4, <3>2, ValuesAssumption DEF AloneInv, Instances
      <4>2. QED BY <3>1, <4>1
    <3>3. QED BY <2>1, <2>2, <3>1, <3>2 DEF SeenInv, CleanLive, CleanLoaded
  <2>5. QED BY <1>1, <2>3, <2>4 DEF Asks
<1>2. ASSUME NEW i \in Instances, NEW x \in Nat \cup {None},
             NEW row \in BOOLEAN,
             NEW t \in Job \cup {None},
             NEW m \in Meta \cup {None}, Asks(i, x, row, t, m), Refuse(i, t)
      PROVE  SeenInv'
  BY <1>2, BoundsAssumption, ValuesAssumption DEF Asks, Refuse, EvictLocal,
       Unsaved, TypeOK, RowType, RoomType, FenceType, QueueType, Run,
       Instances, MadeInv, StampInv, JobInv, VerInv, AloneInv, SeenInv,
       DbMeta, Meta, CleanLive, CleanLoaded, Busy, Writing, HasRun, Current
<1>3. ASSUME NEW i \in Instances, NEW x \in Nat \cup {None},
             NEW row \in BOOLEAN,
             NEW t \in Job \cup {None},
             NEW m \in Meta \cup {None},
             Asks(i, x, row, t, m), Drop(i, x, row, t, m)
      PROVE  SeenInv'
  <2>1. \A j \in Instances : Busy(j)' => Busy(j)
    BY <1>3 DEF Asks, Drop, Busy, Current, Writing, HasRun
  <2>2. /\ meta' = m /\ UNCHANGED <<db, mem, live, loaded, tearing, reload>>
    BY <1>3 DEF Asks, Drop
  <2>3. CASE m = meta
    <3>1. unread' = unread
      BY <1>3, <2>3 DEF Asks
    <3>2. QED BY <2>1, <2>2, <2>3, <3>1 DEF SeenInv, DbMeta, CleanLive,
         CleanLoaded
  <2>4. CASE meta = None /\ m = DbMeta /\ m # meta /\ db.content \subseteq mem[i]
    <3>1. \A j \in {live, loaded} \ {None} : db.content \ mem[j] \subseteq unread'
      BY <1>3, <2>2, <2>4 DEF Asks, Unseen
    <3>2. ASSUME loaded = None, NEW j \in Instances, Busy(j)
          PROVE  db.content \ mem[j] \subseteq unread'
      <4>1. j = live /\ live # None
        BY <2>4, <3>2, ValuesAssumption DEF AloneInv, Instances
      <4>2. QED BY <3>1, <4>1
    <3>3. QED BY <2>1, <2>2, <3>1, <3>2 DEF SeenInv, CleanLive, CleanLoaded
  <2>5. QED BY <1>3, <2>3, <2>4 DEF Asks
<1>4. ASSUME NEW i \in Instances, NEW x \in Nat \cup {None},
             NEW row \in BOOLEAN,
             NEW t \in Job \cup {None},
             NEW m \in Meta \cup {None}, Asks(i, x, row, t, m), Starts(i, row, m, t)
      PROVE  SeenInv'
  BY <1>4, BoundsAssumption, ValuesAssumption DEF Asks, Starts, TypeOK,
       RowType, RoomType, FenceType, QueueType, Run, Instances, MadeInv,
       StampInv, JobInv, VerInv, AloneInv, SeenInv, DbMeta, Meta, CleanLive,
       CleanLoaded, Busy, Writing, HasRun, Current
<1>5. ASSUME NEW i \in Instances, Gives(i) PROVE SeenInv'
  BY <1>5, BoundsAssumption, ValuesAssumption DEF Gives, Advances, Unsaved,
       TypeOK, RowType, RoomType, FenceType, QueueType, Run, Instances,
       MadeInv, StampInv, JobInv, VerInv, AloneInv, SeenInv, DbMeta, Meta,
       CleanLive, CleanLoaded, Busy, Writing, HasRun, Current
<1>6. ASSUME Fences PROVE SeenInv'
  BY <1>6, BoundsAssumption, ValuesAssumption DEF Fences, Unsaved, TypeOK,
       RowType, RoomType, FenceType, QueueType, Run, Instances, MadeInv,
       StampInv, JobInv, VerInv, AloneInv, SeenInv, DbMeta, Meta, CleanLive,
       CleanLoaded, Busy, Writing, HasRun, Current
<1>7. ASSUME EvictStale PROVE SeenInv'
  BY <1>7, BoundsAssumption, ValuesAssumption DEF EvictStale, CancelWork,
       EvictLocal, Unsaved, TypeOK, RowType, RoomType, FenceType, QueueType,
       Run, Instances, MadeInv, StampInv, JobInv, VerInv, AloneInv, SeenInv,
       DbMeta, Meta, CleanLive, CleanLoaded, Busy, Writing, HasRun, Current
<1>8. ASSUME ServesLoaded PROVE SeenInv'
  BY <1>8, BoundsAssumption, ValuesAssumption DEF ServesLoaded, New, TypeOK,
       RowType, RoomType, FenceType, QueueType, Run, Instances, MadeInv,
       StampInv, JobInv, VerInv, AloneInv, SeenInv, DbMeta, Meta, CleanLive,
       CleanLoaded, Busy, Writing, HasRun, Current
<1>9. ASSUME BeginLoad PROVE SeenInv'
  BY <1>9, BoundsAssumption, ValuesAssumption DEF BeginLoad, fence, queue,
       hocus, ghost, TypeOK, RowType, RoomType, FenceType, QueueType, Run,
       Instances, MadeInv, StampInv, JobInv, VerInv, AloneInv, SeenInv,
       DbMeta, Meta, CleanLive, CleanLoaded, Busy, Writing, HasRun, Current
<1>10. ASSUME EndsLoad PROVE SeenInv'
  BY <1>10, BoundsAssumption, ValuesAssumption DEF EndsLoad, New, TypeOK,
       RowType, RoomType, FenceType, QueueType, Run, Instances, MadeInv,
       StampInv, JobInv, VerInv, AloneInv, SeenInv, DbMeta, Meta, CleanLive,
       CleanLoaded, Busy, Writing, HasRun, Current
<1>11. ASSUME NEW e \in Edits, EditsDoc(e) PROVE SeenInv'
  BY <1>11, BoundsAssumption, ValuesAssumption DEF EditsDoc, TypeOK, RowType,
       RoomType, FenceType, QueueType, Run, Instances, MadeInv, StampInv,
       JobInv, VerInv, AloneInv, SeenInv, DbMeta, Meta, CleanLive,
       CleanLoaded, Busy, Writing, HasRun, Current
<1>12. ASSUME NEW e \in Edits, Ignores(e) PROVE SeenInv'
  <2>1. /\ UNCHANGED <<db, meta, unread, live, loaded, tearing, reload, gen, dgen,
                       timer, pend, runs, stores>>
        /\ \A i \in Instances \cup {Copy} : mem[i] \subseteq mem'[i]
    BY <1>12 DEF Ignores
  <2>2. /\ CleanLive' => CleanLive /\ live \in Instances
        /\ CleanLoaded' => CleanLoaded /\ loaded \in Instances \cup {Copy}
        /\ \A i \in Instances : Busy(i)' => Busy(i)
    BY <2>1 DEF CleanLive, CleanLoaded, Busy, Writing, HasRun, Current, TypeOK,
         RoomType
  <2>3. DbMeta' = DbMeta
    BY <2>1 DEF DbMeta
  <2>4. QED BY <2>1, <2>2, <2>3 DEF SeenInv
<1>13. ASSUME NEW e \in Edits, Writes(e) PROVE SeenInv'
  BY <1>13, BoundsAssumption, ValuesAssumption DEF Writes, LateBy, TypeOK,
       RowType, RoomType, FenceType, QueueType, Run, Instances, MadeInv,
       StampInv, JobInv, VerInv, AloneInv, SeenInv, DbMeta, Meta, CleanLive,
       CleanLoaded, Busy, Writing, HasRun, Current
<1>14. ASSUME NEW cl \in SUBSET Nat, Stores(cl) PROVE SeenInv'
  BY <1>14, BoundsAssumption, ValuesAssumption DEF Stores, Unsaved, TypeOK,
       RowType, RoomType, FenceType, QueueType, Run, Instances, MadeInv,
       StampInv, JobInv, VerInv, AloneInv, SeenInv, DbMeta, Meta, CleanLive,
       CleanLoaded, Busy, Writing, HasRun, Current
<1>15. ASSUME NEW r \in runs, Commits(r) PROVE SeenInv'
  <2>1. /\ UNCHANGED <<mem, live, loaded, tearing, reload, gen, dgen>>
        /\ \A j \in Instances : Busy(j)' => Busy(j)
    BY <1>15 DEF Commits, LateBy, Busy, Writing, HasRun, Current
  <2>2. (CleanLive' <=> CleanLive) /\ (CleanLoaded' <=> CleanLoaded)
    BY <2>1 DEF CleanLive, CleanLoaded
  <2>3. CASE UNCHANGED <<db, meta, unread>>
    BY <2>1, <2>2, <2>3 DEF SeenInv, DbMeta
  <2>4. CASE r.gen = gen /\ unread' = unread \cup Unseen(db', {live, loaded, r.inst})
    <3>1. r.inst \in Instances /\ r.inst # None /\ Busy(r.inst)
      BY <1>15, <2>4, ValuesAssumption DEF Commits, JobInv, Busy, Writing, HasRun,
           Instances
    <3>2. \A j \in {live, loaded, r.inst} \ {None} : db'.content \ mem[j] \subseteq unread'
      BY <2>4 DEF Unseen
    <3>3. loaded = None => \A j \in Instances : Busy(j) => j = r.inst
      BY <3>1 DEF AloneInv
    <3>4. /\ CleanLive => db'.content \ mem[live] \subseteq unread'
          /\ CleanLoaded => db'.content \ mem[loaded] \subseteq unread'
      BY <3>2 DEF CleanLive, CleanLoaded
    <3>5. loaded = None => \A j \in Instances : Busy(j)' => db'.content \ mem[j] \subseteq unread'
      BY <2>1, <3>1, <3>2, <3>3
    <3>6. QED BY <2>1, <2>2, <3>4, <3>5 DEF SeenInv
  <2>5. QED BY <1>15, <2>3, <2>4 DEF Commits
<1>16. ASSUME NEW r \in runs, CommitFails(r) PROVE SeenInv'
  BY <1>16, BoundsAssumption, ValuesAssumption DEF CommitFails, EndRun, room,
       fence, hocus, Unsaved, TypeOK, RowType, RoomType, FenceType,
       QueueType, Run, Instances, MadeInv, StampInv, JobInv, VerInv,
       AloneInv, SeenInv, DbMeta, Meta, CleanLive, CleanLoaded, Busy,
       Writing, HasRun, Current
<1>17. ASSUME Resumes PROVE SeenInv'
  BY <1>17, BoundsAssumption, ValuesAssumption DEF Resumes, TypeOK, RowType,
       RoomType, FenceType, QueueType, Run, Instances, MadeInv, StampInv,
       JobInv, VerInv, AloneInv, SeenInv, DbMeta, Meta, CleanLive,
       CleanLoaded, Busy, Writing, HasRun, Current
<1>18. ASSUME Fenced PROVE SeenInv'
  BY <1>18, BoundsAssumption, ValuesAssumption DEF Fenced, Unsaved,
       TypeOK, RowType, RoomType, FenceType, QueueType, Run, Instances,
       MadeInv, StampInv, JobInv, VerInv, AloneInv, SeenInv, DbMeta, Meta,
       CleanLive, CleanLoaded, Busy, Writing, HasRun, Current
<1>19. ASSUME Unload PROVE SeenInv'
  BY <1>19, BoundsAssumption, ValuesAssumption DEF Unload, Unloading, fence,
       queue, hocus, ghost, TypeOK, RowType, RoomType, FenceType, QueueType,
       Run, Instances, MadeInv, StampInv, JobInv, VerInv, AloneInv, SeenInv,
       DbMeta, Meta, CleanLive, CleanLoaded, Busy, Writing, HasRun, Current
<1>20. ASSUME
          \/ Join
          \/ \E cl \in SUBSET Nat : StoreIgnored(cl)
          \/ Release /\ tearing = 0
      PROVE  SeenInv'
  <2>1. UNCHANGED <<db, meta, mem, loaded, load, live, dgen, gen, timer,
           pend, runs, stores, tearing, reload, unread>>
    BY <1>20 DEF Join, fence, queue, hocus, ghost, StoreIgnored, Unsaved,
         Release, room
  <2>2. QED BY <2>1 DEF SeenInv, DbMeta, CleanLive, CleanLoaded, Busy,
       Writing, HasRun, Current
<1>21. ASSUME NEW i \in Instances, GivesUp(i) PROVE SeenInv'
  BY <1>21, BoundsAssumption, ValuesAssumption DEF GivesUp, Advances, Unsaved,
       TypeOK, RowType, RoomType, FenceType, QueueType, Run, Instances,
       MadeInv, StampInv, JobInv, VerInv, AloneInv, SeenInv, DbMeta, Meta,
       CleanLive, CleanLoaded, Busy, Writing, HasRun, Current
<1>22. ASSUME Reconciles PROVE SeenInv'
  BY <1>22, BoundsAssumption, ValuesAssumption DEF Reconciles, Unsaved, TypeOK,
       RowType, RoomType, FenceType, QueueType, Run, Instances, MadeInv,
       StampInv, JobInv, VerInv, AloneInv, SeenInv, DbMeta, Meta, CleanLive,
       CleanLoaded, Busy, Writing, HasRun, Current
<1>23. QED BY <1>1, <1>2, <1>3, <1>4, <1>5, <1>6, <1>7, <1>8, <1>9, <1>10,
       <1>11, <1>12, <1>13, <1>14, <1>15, <1>16, <1>17, <1>18, <1>19, <1>20,
       <1>21, <1>22 DEF Does

\* A run begins when meta is the present one (SeenInv), when the document has all
\* of the history, or else all it lacks is late to it; so is what later commits
\* and other writers add.
LEMMA LateStep ==
    ASSUME TypeOK, TypeOK', MadeInv, StampInv, StampInv', JobInv, JobInv',
           VerInv, AloneInv, SeenInv, LateInv, Does
    PROVE  LateInv'
<1>1. ASSUME NEW i \in Instances, NEW x \in Nat \cup {None},
             NEW row \in BOOLEAN,
             NEW t \in Job \cup {None},
             NEW m \in Meta \cup {None},
             Asks(i, x, row, t, m), Queue(i, x, row, t, m)
      PROVE  LateInv'
  BY <1>1, BoundsAssumption, ValuesAssumption DEF Asks, Queue, Unsaved,
       TypeOK, RowType, RoomType, FenceType, QueueType, Run, Instances,
       JobInv, SeenInv, LateInv, CleanLoaded, Busy, Writing, HasRun, Current
<1>2. ASSUME NEW i \in Instances, NEW x \in Nat \cup {None},
             NEW row \in BOOLEAN,
             NEW t \in Job \cup {None},
             NEW m \in Meta \cup {None}, Asks(i, x, row, t, m), Refuse(i, t)
      PROVE  LateInv'
  BY <1>2, BoundsAssumption, ValuesAssumption DEF Asks, Refuse, EvictLocal,
       Unsaved, TypeOK, RowType, RoomType, FenceType, QueueType, Run,
       Instances, JobInv, SeenInv, LateInv, CleanLoaded, Busy, Writing,
       HasRun, Current
<1>3. ASSUME NEW i \in Instances, NEW x \in Nat \cup {None},
             NEW row \in BOOLEAN,
             NEW t \in Job \cup {None},
             NEW m \in Meta \cup {None},
             Asks(i, x, row, t, m), Drop(i, x, row, t, m)
      PROVE  LateInv'
  BY <1>3, BoundsAssumption, ValuesAssumption DEF Asks, Drop, Stale,
       EpochMoved, Unsaved, TypeOK, RowType, RoomType, FenceType, QueueType,
       Run, Instances, JobInv, SeenInv, LateInv, CleanLoaded, Busy, Writing,
       HasRun, Current
<1>4. ASSUME NEW i \in Instances, NEW x \in Nat \cup {None},
             NEW row \in BOOLEAN,
             NEW t \in Job \cup {None},
             NEW m \in Meta \cup {None}, Asks(i, x, row, t, m), Starts(i, row, m, t)
      PROVE  LateInv'
  <2>1. PICK n \in Run : /\ n.inst = i /\ n.gen = gen
                         /\ \/ db.content \ mem[i] \subseteq n.late
                            \/ row /\ m = DbMeta
                         /\ runs' = runs \cup {n}
    BY <1>4 DEF Starts
  <2>2. UNCHANGED <<db, mem, gen>> /\ unread \subseteq unread'
    BY <1>4 DEF Asks, Starts
  <2>3. ASSUME row, m = DbMeta
        PROVE  db.content \ mem[i] \subseteq unread
    <3>1. CASE db.content \subseteq mem[i]
      BY <3>1
    <3>2. CASE m = meta
      <4>1. (loaded = i /\ CleanLoaded) \/ (loaded = None /\ Busy(i))
        BY <1>4, <2>3, ValuesAssumption DEF Asks, Starts, Busy, CleanLoaded,
             StampInv, Instances
      <4>2. QED BY <2>3, <3>2, <4>1 DEF SeenInv
    <3>3. QED BY <1>4, <3>1, <3>2 DEF Asks
  <2>4. QED BY <2>1, <2>2, <2>3 DEF LateInv
<1>5. ASSUME NEW i \in Instances, Gives(i) PROVE LateInv'
  BY <1>5, BoundsAssumption, ValuesAssumption DEF Gives, Advances, Unsaved,
       TypeOK, RowType, RoomType, FenceType, QueueType, Run, Instances, JobInv,
       SeenInv, LateInv, CleanLoaded, Busy, Writing, HasRun, Current
<1>6. ASSUME Fences PROVE LateInv'
  BY <1>6, BoundsAssumption, ValuesAssumption DEF Fences, Unsaved, TypeOK,
       RowType, RoomType, FenceType, QueueType, Run, Instances, JobInv,
       SeenInv, LateInv, CleanLoaded, Busy, Writing, HasRun, Current
<1>7. ASSUME EvictStale PROVE LateInv'
  BY <1>7, BoundsAssumption, ValuesAssumption DEF EvictStale, CancelWork,
       EvictLocal, Unsaved, TypeOK, RowType, RoomType, FenceType, QueueType,
       Run, Instances, JobInv, SeenInv, LateInv, CleanLoaded, Busy, Writing,
       HasRun, Current
<1>8. ASSUME ServesLoaded PROVE LateInv'
  BY <1>8, BoundsAssumption, ValuesAssumption DEF ServesLoaded, New, TypeOK,
       RowType, RoomType, FenceType, QueueType, Run, Instances, JobInv,
       SeenInv, LateInv, CleanLoaded, Busy, Writing, HasRun, Current
<1>9. ASSUME EndsLoad PROVE LateInv'
  BY <1>9, BoundsAssumption, ValuesAssumption DEF EndsLoad, New, TypeOK,
       RowType, RoomType, FenceType, QueueType, Run, Instances, JobInv,
       SeenInv, LateInv, CleanLoaded, Busy, Writing, HasRun, Current
<1>10. ASSUME NEW e \in Edits, EditsDoc(e) PROVE LateInv'
  BY <1>10, BoundsAssumption, ValuesAssumption DEF EditsDoc, TypeOK, RowType,
       RoomType, FenceType, QueueType, Run, Instances, JobInv, SeenInv,
       LateInv, CleanLoaded, Busy, Writing, HasRun, Current
<1>11. ASSUME NEW e \in Edits, Ignores(e) PROVE LateInv'
  BY <1>11, BoundsAssumption, ValuesAssumption DEF Ignores, TypeOK, RowType,
       RoomType, FenceType, QueueType, Run, Instances, JobInv, SeenInv,
       LateInv, CleanLoaded, Busy, Writing, HasRun, Current
<1>12. ASSUME NEW e \in Edits, Writes(e) PROVE LateInv'
  BY <1>12, BoundsAssumption, ValuesAssumption DEF Writes, LateBy, TypeOK,
       RowType, RoomType, FenceType, QueueType, Run, Instances, JobInv,
       SeenInv, LateInv, CleanLoaded, Busy, Writing, HasRun, Current
<1>13. ASSUME NEW r \in runs, Commits(r) PROVE LateInv'
  BY <1>13, BoundsAssumption, ValuesAssumption DEF Commits, LateBy, Unseen,
       TypeOK, RowType, RoomType, FenceType, QueueType, Run, Instances,
       JobInv, SeenInv, LateInv, CleanLoaded, Busy, Writing, HasRun, Current
<1>14. ASSUME NEW r \in runs, CommitFails(r) PROVE LateInv'
  BY <1>14, BoundsAssumption, ValuesAssumption DEF CommitFails, EndRun, room,
       fence, hocus, Unsaved, TypeOK, RowType, RoomType, FenceType,
       QueueType, Run, Instances, JobInv, SeenInv, LateInv, CleanLoaded,
       Busy, Writing, HasRun, Current
<1>15. ASSUME Resumes PROVE LateInv'
  BY <1>15, BoundsAssumption, ValuesAssumption DEF Resumes, TypeOK, RowType,
       RoomType, FenceType, QueueType, Run, Instances, JobInv, SeenInv,
       LateInv, CleanLoaded, Busy, Writing, HasRun, Current
<1>16. ASSUME
          \/ Join
          \/ BeginLoad
          \/ \E cl \in SUBSET Nat : Stores(cl)
          \/ \E cl \in SUBSET Nat : StoreIgnored(cl)
          \/ Release /\ tearing = 0
          \/ Unload
      PROVE  LateInv'
  <2>1. UNCHANGED <<db, mem, gen, runs, unread>>
    BY <1>16 DEF Join, fence, queue, hocus, ghost, BeginLoad, Stores, Unsaved,
         StoreIgnored, Release, room, Unload, Unloading
  <2>2. QED BY <2>1 DEF LateInv
<1>17. ASSUME NEW i \in Instances, GivesUp(i) PROVE LateInv'
  BY <1>17, BoundsAssumption, ValuesAssumption DEF GivesUp, Advances, Unsaved,
       TypeOK, RowType, RoomType, FenceType, QueueType, Run, Instances, JobInv,
       SeenInv, LateInv, CleanLoaded, Busy, Writing, HasRun, Current
<1>18. ASSUME Reconciles PROVE LateInv'
  BY <1>18, BoundsAssumption, ValuesAssumption DEF Reconciles, Unsaved, TypeOK,
       RowType, RoomType, FenceType, QueueType, Run, Instances, JobInv,
       SeenInv, LateInv, CleanLoaded, Busy, Writing, HasRun, Current
<1>19. ASSUME Fenced PROVE LateInv'
  <2>1. invalid /\ runs' = runs /\ gen' = gen
    BY <1>19 DEF Fenced, TypeOK, FenceType
  <2>2. QED BY <2>1 DEF LateInv, StampInv, JobInv, Current, TypeOK, QueueType,
         Run
<1>20. QED BY <1>1, <1>2, <1>3, <1>4, <1>5, <1>6, <1>7, <1>8, <1>9, <1>10,
       <1>11, <1>12, <1>13, <1>14, <1>15, <1>16, <1>17, <1>18, <1>19 DEF Does

\* A request ends with the write, with another request for the same instance, or
\* with giving its edits up.
LEMMA WriteStep ==
    ASSUME TypeOK, TypeOK', MadeInv, StampInv, StampInv', JobInv, JobInv',
           VerInv, RevokedInv, AloneInv, WriteInv, Does
    PROVE  WriteInv'
<1>1. ASSUME NEW i \in Instances, NEW x \in Nat \cup {None},
             NEW row \in BOOLEAN,
             NEW t \in Job \cup {None},
             NEW m \in Meta \cup {None},
             Asks(i, x, row, t, m), Queue(i, x, row, t, m)
      PROVE  WriteInv'
  <2>1. \A X : Settled(X) => Settled(X)'
    BY <1>1 DEF Asks, Queue, Settled
  <2>2. ASSUME NEW j \in Instances, Writing(j)
        PROVE  Writing(j)' \/ Settled(mem[j])'
    <3>1. pend' = [inst |-> i, gen |-> x, row |-> row] /\ pend' # None
      <4>1. [inst |-> i, gen |-> x, row |-> row] \in Job /\ None \notin Job
        BY ValuesAssumption DEF Job
      <4>2. QED BY <1>1, <4>1 DEF Queue
    <3>2. CASE pend # None /\ pend.inst = j /\ j # i
      <4>1. unserved' = unserved \cup Unsaved(j) /\ UNCHANGED <<saved, mem>>
        BY <1>1, <3>2 DEF Asks, Queue
      <4>2. QED BY <4>1 DEF Settled, Unsaved
    <3>3. CASE ~(pend # None /\ pend.inst = j /\ j # i)
      BY <1>1, <2>2, <3>1, <3>3 DEF Asks, Queue, Writing, HasRun
    <3>4. QED BY <3>2, <3>3
  <2>3. UNCHANGED <<mem, live, loaded, load, invalid, dgen, gen, tearing,
                    reload>>
    BY <1>1 DEF Asks, Queue
  <2>4. QED BY <2>1, <2>2, <2>3, ValuesAssumption DEF WriteInv, CleanLive,
         Busy, Current, TypeOK, RoomType
<1>2. ASSUME NEW i \in Instances, NEW x \in Nat \cup {None},
             NEW row \in BOOLEAN,
             NEW t \in Job \cup {None},
             NEW m \in Meta \cup {None}, Asks(i, x, row, t, m), Refuse(i, t)
      PROVE  WriteInv'
  BY <1>2, BoundsAssumption, ValuesAssumption DEF Asks, Refuse, EvictLocal,
       Unsaved, TypeOK, RowType, RoomType, FenceType, QueueType, GhostType,
       Run, Instances, MadeInv, StampInv, JobInv, RevokedInv, AloneInv,
       WriteInv, Settled, CleanLive, Busy, Writing, HasRun, Current
<1>3. ASSUME NEW i \in Instances, NEW x \in Nat \cup {None},
             NEW row \in BOOLEAN,
             NEW t \in Job \cup {None},
             NEW m \in Meta \cup {None},
             Asks(i, x, row, t, m), Drop(i, x, row, t, m)
      PROVE  WriteInv'
  BY <1>3, BoundsAssumption, ValuesAssumption DEF Asks, Drop, Stale,
       EpochMoved, Unsaved, TypeOK, RowType, RoomType, FenceType, QueueType,
       GhostType, Run, Instances, MadeInv, StampInv, JobInv, RevokedInv,
       AloneInv, WriteInv, Settled, CleanLive, Busy, Writing, HasRun, Current
<1>4. ASSUME NEW i \in Instances, NEW x \in Nat \cup {None},
             NEW row \in BOOLEAN,
             NEW t \in Job \cup {None},
             NEW m \in Meta \cup {None}, Asks(i, x, row, t, m), Starts(i, row, m, t)
      PROVE  WriteInv'
  BY <1>4, BoundsAssumption, ValuesAssumption DEF Asks, Starts, TypeOK,
       RowType, RoomType, FenceType, QueueType, GhostType, Run, Instances,
       MadeInv, StampInv, JobInv, RevokedInv, AloneInv, WriteInv, Settled,
       CleanLive, Busy, Writing, HasRun, Current
<1>5. ASSUME NEW i \in Instances, Gives(i) PROVE WriteInv'
  BY <1>5, BoundsAssumption, ValuesAssumption DEF Gives, Advances, Unsaved,
       TypeOK, RowType, RoomType, FenceType, QueueType, GhostType, Run,
       Instances, MadeInv, StampInv, JobInv, RevokedInv, AloneInv, WriteInv,
       Settled, CleanLive, Busy, Writing, HasRun, Current
<1>6. ASSUME Fences PROVE WriteInv'
  BY <1>6, BoundsAssumption, ValuesAssumption DEF Fences, Unsaved, TypeOK,
       RowType, RoomType, FenceType, QueueType, GhostType, Run, Instances,
       MadeInv, StampInv, JobInv, RevokedInv, AloneInv, WriteInv, Settled,
       CleanLive, Busy, Writing, HasRun, Current
<1>7. ASSUME EvictStale PROVE WriteInv'
  BY <1>7, BoundsAssumption, ValuesAssumption DEF EvictStale, CancelWork,
       EvictLocal, Unsaved, TypeOK, RowType, RoomType, FenceType, QueueType,
       GhostType, Run, Instances, MadeInv, StampInv, JobInv, RevokedInv,
       AloneInv, WriteInv, Settled, CleanLive, Busy, Writing, HasRun, Current
<1>8. ASSUME ServesLoaded PROVE WriteInv'
  BY <1>8, BoundsAssumption, ValuesAssumption DEF ServesLoaded, New, TypeOK,
       RowType, RoomType, FenceType, QueueType, GhostType, Run, Instances,
       MadeInv, StampInv, JobInv, RevokedInv, AloneInv, WriteInv, Settled,
       CleanLive, Busy, Writing, HasRun, Current
<1>9. ASSUME BeginLoad PROVE WriteInv'
  BY <1>9, BoundsAssumption, ValuesAssumption DEF BeginLoad, fence, queue,
       hocus, ghost, TypeOK, RowType, RoomType, FenceType, QueueType,
       GhostType, Run, Instances, MadeInv, StampInv, JobInv, RevokedInv,
       AloneInv, WriteInv, Settled, CleanLive, Busy, Writing, HasRun, Current
<1>10. ASSUME EndsLoad PROVE WriteInv'
  BY <1>10, BoundsAssumption, ValuesAssumption DEF EndsLoad, New, TypeOK,
       RowType, RoomType, FenceType, QueueType, GhostType, Run, Instances,
       MadeInv, StampInv, JobInv, RevokedInv, AloneInv, WriteInv, Settled,
       CleanLive, Busy, Writing, HasRun, Current
<1>11. ASSUME NEW e \in Edits, EditsDoc(e) PROVE WriteInv'
  BY <1>11, BoundsAssumption, ValuesAssumption DEF EditsDoc, TypeOK, RowType,
       RoomType, FenceType, QueueType, GhostType, Run, Instances, MadeInv,
       StampInv, JobInv, RevokedInv, AloneInv, WriteInv, Settled, CleanLive,
       Busy, Writing, HasRun, Current
<1>12. ASSUME NEW e \in Edits, Ignores(e) PROVE WriteInv'
  <2>1. /\ live \in Instances /\ mem'[live] = mem[live] \cup {e}
        /\ \A i \in Instances \cup {Copy} : i # live => mem'[i] = mem[i]
        /\ UNCHANGED <<saved, live, loaded, load, lost, invalid, tearing, reload>>
        /\ unserved' = unserved \cup {e}
    BY <1>12 DEF Ignores
  <2>2. \A i : (Writing(i)' <=> Writing(i)) /\ (Busy(i)' <=> Busy(i))
    BY <1>12 DEF Ignores, Writing, HasRun, Busy, Current
  <2>3. load = None /\ (CleanLive' <=> CleanLive) /\ Copy \notin Instances
    BY <2>1, ValuesAssumption DEF StampInv, CleanLive, Instances
  <2>5. \A i \in Instances : Settled(mem[i]) => Settled(mem[i])'
    BY <2>1 DEF Settled
  <2>6. \A i \in Instances :
           Settled(mem[live] \ mem[i]) => Settled(mem[live] \ mem[i])'
    BY <2>1 DEF Settled
  <2>7. QED BY <2>1, <2>2, <2>3, <2>5, <2>6 DEF WriteInv
<1>13. ASSUME NEW e \in Edits, Writes(e) PROVE WriteInv'
  BY <1>13, BoundsAssumption, ValuesAssumption DEF Writes, LateBy, TypeOK,
       RowType, RoomType, FenceType, QueueType, GhostType, Run, Instances,
       MadeInv, StampInv, JobInv, RevokedInv, AloneInv, WriteInv, Settled,
       CleanLive, Busy, Writing, HasRun, Current
<1>14. ASSUME NEW cl \in SUBSET Nat, Stores(cl) PROVE WriteInv'
  BY <1>14, BoundsAssumption, ValuesAssumption DEF Stores, Unsaved, TypeOK,
       RowType, RoomType, FenceType, QueueType, GhostType, Run, Instances,
       MadeInv, StampInv, JobInv, RevokedInv, AloneInv, WriteInv, Settled,
       CleanLive, Busy, Writing, HasRun, Current
<1>15. ASSUME NEW cl \in SUBSET Nat, live # None, StoreIgnored(cl)
      PROVE  WriteInv'
  BY <1>15, BoundsAssumption, ValuesAssumption DEF StoreIgnored, fence,
       Unsaved, TypeOK, RowType, RoomType, FenceType, QueueType, GhostType,
       Run, Instances, MadeInv, StampInv, JobInv, RevokedInv, AloneInv,
       WriteInv, Settled, CleanLive, Busy, Writing, HasRun, Current
<1>16. ASSUME NEW r \in runs, Commits(r) PROVE WriteInv'
  <2>1. \A X : Settled(X) => Settled(X)'
    BY <1>16 DEF Commits, Settled
  <2>2. ASSUME NEW j \in Instances, Writing(j)
        PROVE  Writing(j)' \/ Settled(mem[j])'
    <3>1. CASE r.gen = gen /\ r.inst = j
      <4>1. mem[j] \subseteq saved' /\ mem' = mem
        BY <1>16, <3>1 DEF Commits, StampInv, JobInv
      <4>2. QED BY <4>1 DEF Settled
    <3>2. CASE ~(r.gen = gen /\ r.inst = j)
      BY <1>16, <2>2, <3>2 DEF Commits, LateBy, Writing, HasRun
    <3>3. QED BY <3>1, <3>2
  <2>3. UNCHANGED <<mem, live, loaded, load, invalid, dgen, gen, tearing,
                    reload>>
    BY <1>16 DEF Commits
  <2>4. QED BY <2>1, <2>2, <2>3, ValuesAssumption DEF WriteInv, CleanLive,
         Busy, Current, TypeOK, RoomType
<1>17. ASSUME NEW r \in runs, CommitFails(r) PROVE WriteInv'
  <2>1. \A X : Settled(X) => Settled(X)'
    BY <1>17 DEF CommitFails, Settled
  <2>2. UNCHANGED <<db, saved, mem, live, loaded, load, meta, invalid, dgen, gen, tearing,
                    reload, pend, stores>>
    BY <1>17 DEF CommitFails, room, fence, hocus
  <2>3. /\ r.inst \in Instances /\ Busy(r.inst)
        /\ timer' = [inst |-> r.inst, gen |-> gen, row |-> TRUE] /\ timer' # None
    <3>1. r.inst \in Instances /\ Busy(r.inst)
      BY <1>17 DEF CommitFails, EndRun, Busy, Writing, HasRun, JobInv, TypeOK,
           QueueType, Run
    <3>2. [inst |-> r.inst, gen |-> gen, row |-> TRUE] \in Job /\ None \notin Job
      BY <3>1, ValuesAssumption DEF Job, TypeOK, FenceType
    <3>3. QED BY <1>17, <3>1, <3>2 DEF CommitFails
  <2>4. ASSUME NEW j \in Instances, Writing(j),
               j = loaded \/ (loaded = None /\ Busy(j))
        PROVE  Writing(j)' \/ Settled(mem[j])'
    <3>1. CASE j = r.inst
      BY <2>3, <3>1 DEF Writing
    <3>2. CASE j # r.inst
      <4>1. j = loaded /\ loaded # None
        BY <2>3, <2>4, <3>2, ValuesAssumption DEF AloneInv, Instances
      <4>2. Unsaved(j) \subseteq unserved'
        BY <1>17, <3>2, <4>1 DEF CommitFails
      <4>3. QED BY <2>2, <4>2 DEF Settled, Unsaved
    <3>3. QED BY <3>1, <3>2
  <2>5. QED BY <2>1, <2>2, <2>4, ValuesAssumption DEF WriteInv, CleanLive,
         Busy, Current, TypeOK, RoomType
<1>18. ASSUME Resumes PROVE WriteInv'
  BY <1>18, BoundsAssumption, ValuesAssumption DEF Resumes, TypeOK, RowType,
       RoomType, FenceType, QueueType, GhostType, Run, Instances, MadeInv,
       StampInv, JobInv, RevokedInv, AloneInv, WriteInv, Settled, CleanLive,
       Busy, Writing, HasRun, Current
<1>19. ASSUME Fenced PROVE WriteInv'
  BY <1>19, BoundsAssumption, ValuesAssumption DEF Fenced, Unsaved,
       TypeOK, RowType, RoomType, FenceType, QueueType, GhostType, Run,
       Instances, MadeInv, StampInv, JobInv, RevokedInv, AloneInv, WriteInv,
       Settled, CleanLive, Busy, Writing, HasRun, Current
<1>20. ASSUME Release, tearing = 0 PROVE WriteInv'
  BY <1>20, BoundsAssumption, ValuesAssumption DEF Release, room, queue,
       hocus, ghost, TypeOK, RowType, RoomType, FenceType, QueueType,
       GhostType, Run, Instances, MadeInv, StampInv, JobInv, RevokedInv,
       AloneInv, WriteInv, Settled, CleanLive, Busy, Writing, HasRun, Current
<1>21. ASSUME Unload PROVE WriteInv'
  BY <1>21, BoundsAssumption, ValuesAssumption DEF Unload, Unloading, fence,
       queue, hocus, ghost, TypeOK, RowType, RoomType, FenceType, QueueType,
       GhostType, Run, Instances, MadeInv, StampInv, JobInv, RevokedInv,
       AloneInv, WriteInv, Settled, CleanLive, Busy, Writing, HasRun, Current
<1>22. ASSUME
          \/ Join
      PROVE  WriteInv'
  <2>1. UNCHANGED <<saved, mem, loaded, live, invalid, dgen, gen, timer,
           pend, runs, stores, tearing, reload, lost, unserved>>
    BY <1>22 DEF Join, fence, queue, hocus, ghost, room
  <2>2. QED BY <2>1 DEF WriteInv, Settled, CleanLive, Busy, Writing, HasRun,
       Current
<1>23. ASSUME NEW i \in Instances, GivesUp(i) PROVE WriteInv'
  BY <1>23, BoundsAssumption, ValuesAssumption DEF GivesUp, Advances, Unsaved,
       TypeOK, RowType, RoomType, FenceType, QueueType, GhostType, Run,
       Instances, MadeInv, StampInv, JobInv, RevokedInv, AloneInv, WriteInv,
       Settled, CleanLive, Busy, Writing, HasRun, Current
<1>24. ASSUME Reconciles PROVE WriteInv'
  BY <1>24, BoundsAssumption, ValuesAssumption DEF Reconciles, Unsaved, TypeOK,
       RowType, RoomType, FenceType, QueueType, GhostType, Run, Instances,
       MadeInv, StampInv, JobInv, RevokedInv, AloneInv, WriteInv, Settled,
       CleanLive, Busy, Writing, HasRun, Current
<1>25. QED BY <1>1, <1>2, <1>3, <1>4, <1>5, <1>6, <1>7, <1>8, <1>9, <1>10,
       <1>11, <1>12, <1>13, <1>14, <1>15, <1>16, <1>17, <1>18, <1>19, <1>20,
       <1>21, <1>22, <1>23, <1>24 DEF Does

-----------------------------------------------------------------------------
(***************************************************************************)
(* Every step of the specification is one of those.                        *)
(***************************************************************************)
\* persistDoc of any caller.
LEMMA PersistCases ==
    ASSUME TypeOK, JobInv, NEW i \in Instances, NEW x \in Nat \cup {None},
           NEW row \in BOOLEAN, NEW t \in Job \cup {None},
           NEW m \in Meta \cup {None}, NEW a \in BOOLEAN,
           Serves(i, x, row, t, m), PersistDoc(i, x, row, t, m, a)
    PROVE  Step
<1>1. CASE Yield(i, x, row, m)
  <2>1. m # DbMeta /\ YieldToRow(i)
    BY <1>1 DEF Yield, MayConflict
  <2>2. unread' = unread /\ stores' \subseteq stores
    BY <2>1, ServedFacts DEF Asks
  <2>3. UNCHANGED <<db, count, live, load, clients, tearing, clearing, release,
                    debounced, made, saved>>
    BY DEF Serves
  <2>4. Yields(i)
    BY <2>1, <2>2, <2>3 DEF Yields, Finishes, RowFollows
  <2>5. QED BY <2>4 DEF Step
<1>2. CASE ~Yield(i, x, row, m)
  <2>1. \/ Queue(i, x, row, t, m) \/ Refuse(i, t) \/ Drop(i, x, row, t, m)
        \/ Start(i, x, row, t, m, a)
    BY <1>2 DEF PersistDoc
  <2>2. QED BY <2>1 DEF Step, Persists
<1>3. QED BY <1>1, <1>2

\* The callers of persistDoc: the timer,
LEMMA TimerCase ==
    ASSUME TypeOK, JobInv, ~Urgent, TimerFires
    PROVE  Step
<1>1. /\ timer # None /\ timer.inst \in Instances /\ timer.gen \in Nat \cup {None}
      /\ timer.row \in BOOLEAN
      /\ None \in Job \cup {None} /\ meta \in Meta \cup {None}
      /\ PersistDoc(timer.inst, timer.gen, timer.row, None, meta, FALSE)
  BY DEF TimerFires, TypeOK, QueueType, RoomType, Job
<1>2. /\ stores' = stores /\ unread' = unread
      /\ UNCHANGED <<db, count, live, load, clients, tearing, clearing, release,
                     debounced, made, saved>>
  BY DEF TimerFires, hocus
<1>3. Serves(timer.inst, timer.gen, timer.row, None, meta)
  BY <1>1, <1>2 DEF Serves, Urgent
<1>4. QED BY <1>1, <1>3, PersistCases

\* the run before,
LEMMA PendingCase ==
    ASSUME TypeOK, JobInv, RunPending
    PROVE  Step
<1>1. /\ ~flight /\ pend # None /\ pend.inst \in Instances
      /\ pend.gen \in Nat \cup {None} /\ pend.row \in BOOLEAN
      /\ timer \in Job \cup {None} /\ meta \in Meta \cup {None}
      /\ PersistDoc(pend.inst, pend.gen, pend.row, timer, meta, FALSE)
  BY DEF RunPending, TypeOK, QueueType, RoomType, Job
<1>2. /\ stores' = stores /\ unread' = unread
      /\ UNCHANGED <<db, count, live, load, clients, tearing, clearing, release,
                     debounced, made, saved>>
  BY DEF RunPending, hocus
<1>3. Serves(pend.inst, pend.gen, pend.row, timer, meta)
  BY <1>1, <1>2 DEF Serves
<1>4. QED BY <1>1, <1>3, PersistCases

\* and a store, which may also yield or reconcile before.
LEMMA StoreCase ==
    ASSUME TypeOK, JobInv, ~Urgent, NEW i \in stores, FinishStore(i)
    PROVE  Step
<1> DEFINE m == IF meta = None THEN DbMeta ELSE meta
<1>1. /\ i \in Instances /\ timer \in Job \cup {None} /\ None \in Nat \cup {None}
      /\ m \in Meta \cup {None}
  BY DEF TypeOK, QueueType, DbMeta, Meta, RowType, RoomType
<1>2. /\ stores' = stores \ {i} /\ debounced' = debounced
      /\ UNCHANGED <<count, live, load, clients, tearing, clearing, release, made,
                     saved>>
  BY DEF FinishStore
<1>3. Finishes
  BY <1>2 DEF Finishes
<1>4. CASE YieldToRow(i) /\ RowFollows /\ UNCHANGED unread
  <2>1. Yields(i)
    BY <1>3, <1>4 DEF Yields
  <2>2. QED BY <1>1, <2>1 DEF Step
<1>5. CASE (Reconcile \/ GiveUp(i)) /\ UNCHANGED db
  <2>1. Reconciling \/ GivesUps(i)
    BY <1>3, <1>5 DEF Reconciling, GivesUps
  <2>2. QED BY <1>1, <2>1 DEF Step
<1>6. CASE /\ ~Conflict(i, meta) /\ PersistDoc(i, None, TRUE, timer, m, TRUE)
           /\ unread' = IF meta = None /\ meta' # None
                        THEN unread \cup Unseen(db, {live, loaded}) ELSE unread
           /\ UNCHANGED db
  <2>1. Serves(i, None, TRUE, timer, m)
    BY <1>2, <1>6 DEF Serves, Urgent
  <2> HIDE DEF m
  <2>2. QED BY <1>1, <1>6, <2>1, PersistCases
<1>7. QED BY <1>4, <1>5, <1>6 DEF FinishStore

\* The invalidations.
LEMMA FenceCases ==
    ASSUME \/ \E clears \in BOOLEAN : Invalidate(clears)
           \/ \E r \in runs : BlockCollapse(r)
           \/ \E i \in stores : StoreCollapse(i)
           \/ ReloadFires
           \/ \E share \in {"PAUSED", "REVOKED"} : Close(share)
    PROVE  Invalidates
<1>1. ASSUME NEW clears \in BOOLEAN, Invalidate(clears) PROVE Invalidates
  BY <1>1 DEF Invalidate, Invalidates, hocus
<1>2. ASSUME NEW r \in runs, BlockCollapse(r) PROVE Invalidates
  BY <1>2 DEF BlockCollapse, Invalidates, hocus
<1>3. ASSUME NEW i \in stores, StoreCollapse(i) PROVE Invalidates
  BY <1>3 DEF StoreCollapse, Invalidates
<1>4. CASE ReloadFires
  BY <1>4 DEF ReloadFires, Invalidates, hocus
<1>5. ASSUME NEW share \in {"PAUSED", "REVOKED"}, Close(share) PROVE Invalidates
  BY <1>5 DEF Close, Invalidates, hocus
<1>6. QED BY <1>1, <1>2, <1>3, <1>4, <1>5

\* All of Next.
LEMMA StepCases ==
    ASSUME TypeOK, JobInv, Next
    PROVE  Step
<1>1. CASE RunPending
  BY <1>1, PendingCase
<1>2. CASE Unload
  BY <1>2 DEF Step
<1>3. CASE ~Urgent /\ Continuation
  <2>1. CASE EvictStale \/ Join \/ ServeLoaded \/ BeginLoad \/ EndLoad \/ Resume
             \/ EndInvalidate
    BY <2>1 DEF Step
  <2>2. CASE \E e \in Edits : RowWrite(e) \/ \E bump \in BOOLEAN : ExternalWrite(e, bump)
    BY <2>2 DEF Step
  <2>3. ASSUME NEW i \in stores, FinishStore(i) PROVE Step
    BY <1>3, <2>3, StoreCase
  <2>4. ASSUME NEW r \in runs, Commit(r) \/ CommitFails(r) PROVE Step
    BY <2>4 DEF Step
  <2>5. CASE \/ \E clears \in BOOLEAN : Invalidate(clears)
             \/ \E r \in runs : BlockCollapse(r)
             \/ \E i \in stores : StoreCollapse(i)
             \/ \E share \in {"PAUSED", "REVOKED"} : Close(share)
    BY <2>5, FenceCases DEF Step
  <2>6. QED BY <1>3, <2>1, <2>2, <2>3, <2>4, <2>5 DEF Continuation
<1>4. CASE ~Urgent /\ tearing = 0 /\ Event
  <2>1. CASE TimerFires
    BY <1>4, <2>1, TimerCase
  <2>2. CASE ReloadFires
    BY <2>2, FenceCases DEF Step
  <2>3. CASE Release
    BY <1>4, <2>3 DEF Step
  <2>4. CASE Store \/ Leave
    <3>1. clients \in SUBSET Nat /\ {} \in SUBSET Nat
      BY DEF TypeOK, RoomType
    <3>2. \E cl \in SUBSET Nat : live # None /\ (OnStore(cl) \/ StoreIgnored(cl))
      BY <2>4, <3>1 DEF Store, Leave
    <3>3. QED BY <3>2 DEF Step
  <2>5. CASE \E e \in Edits : Edit(e) \/ EditIgnored(e)
    BY <2>5 DEF Step
  <2>6. QED BY <1>4, <2>1, <2>2, <2>3, <2>4, <2>5 DEF Event
<1>5. QED BY <1>1, <1>2, <1>3, <1>4 DEF Next

-----------------------------------------------------------------------------
(***************************************************************************)
(* The theorems.                                                           *)
(***************************************************************************)
IInv ==
    /\ Base
    /\ RevokedInv /\ AloneInv /\ LostInv
    /\ SeenInv /\ LateInv /\ WriteInv

LEMMA Initially == Init => IInv
<1> SUFFICES ASSUME Init PROVE IInv
  OBVIOUS
<1>1. TypeOK
  <2>1. RowType
    BY DEF Init, RowType
  <2>2. RoomType
    BY BoundsAssumption DEF Init, RoomType
  <2>3. FenceType
    <3>1. gen \in Nat /\ tearing \in Nat /\ ~(tearing > 0)
      BY DEF Init
    <3>2. dgen \in [Instances -> Nat \cup {None}]
      BY DEF Init
    <3>3. clearing = 0 /\ tearing = 0 /\ 0 \in 0 .. 0
      BY DEF Init
    <3>4. QED BY <3>1, <3>2, <3>3 DEF Init, FenceType
  <2>4. QueueType /\ GhostType
    BY DEF Init, QueueType, GhostType
  <2>5. QED BY <2>1, <2>2, <2>3, <2>4 DEF TypeOK
<1>2. MadeInv /\ VerInv
  BY DEF Init, MadeInv, VerInv
<1>3. StampInv /\ JobInv
  BY BoundsAssumption, ValuesAssumption DEF Init, StampInv, JobInv, Current,
       CleanLive, Instances
<1>4. RevokedInv /\ AloneInv
  BY ValuesAssumption DEF Init, RevokedInv, AloneInv, HasRun, Busy,
       Writing
<1>5. LostInv /\ LateInv
  BY DEF Init, LostInv, LateInv
<1>6. SeenInv
  BY DEF Init, SeenInv, CleanLive, CleanLoaded
<1>7. WriteInv
  BY ValuesAssumption DEF Init, WriteInv, CleanLive, Instances
<1>8. QED BY <1>1, <1>2, <1>3, <1>4, <1>5, <1>6, <1>7 DEF IInv, Base

LEMMA Inductive == IInv /\ [Next]_vars => IInv'
<1>1. ASSUME IInv, Next PROVE IInv'
  <2>1. Step
    BY <1>1, StepCases DEF IInv, Base
  <2>2. TypeOK' /\ MadeInv'
    BY <1>1, <2>1, TypeStep, MadeStep DEF IInv, Base
  <2>3. Does
    BY <1>1, <2>1, <2>2, StepDoes DEF IInv, Base
  <2>4. StampInv' /\ JobInv' /\ VerInv'
    BY <1>1, <2>2, <2>3, StampStep, JobStep, VerStep DEF IInv, Base
  <2>5. RevokedInv' /\ AloneInv'
    BY <1>1, <2>2, <2>3, <2>4, RevokedStep, AloneStep DEF IInv, Base
  <2>6. LostInv' /\ SeenInv' /\ LateInv'
    BY <1>1, <2>2, <2>3, <2>4, LostStep, SeenStep, LateStep DEF IInv, Base
  <2>7. WriteInv'
    BY <1>1, <2>2, <2>3, <2>4, WriteStep DEF IInv, Base
  <2>8. QED BY <2>2, <2>4, <2>5, <2>6, <2>7 DEF IInv, Base
<1>2. ASSUME IInv, UNCHANGED vars PROVE IInv'
  <2>1. UNCHANGED <<db, mem, count, live, loaded, meta, base, load, clients, gen,
                    dgen, invalid, tearing, clearing, release, reload, timer, flight,
                    runs, pend, stores, debounced, made, saved, lost, unserved,
                    unread>>
    BY <1>2 DEF vars, room, fence, queue, hocus, ghost
  <2>2. Base'
    BY <1>2, <2>1 DEF IInv, Base, TypeOK, RowType, RoomType, FenceType,
         QueueType, GhostType, MadeInv, StampInv, JobInv, VerInv, Current,
         CleanLive
  <2>3. RevokedInv' /\ AloneInv' /\ LostInv'
    BY <1>2, <2>1 DEF IInv, RevokedInv, AloneInv, LostInv, View,
         CleanLive, CleanLoaded, Busy, Writing, HasRun, Current
  <2>4. SeenInv' /\ LateInv' /\ WriteInv'
    BY <1>2, <2>1 DEF IInv, SeenInv, LateInv, WriteInv, Settled, DbMeta,
         CleanLive, CleanLoaded, Busy, Writing, HasRun, Current
  <2>5. QED BY <2>2, <2>3, <2>4 DEF IInv
<1>3. QED BY <1>1, <1>2

LEMMA Invariance == Spec => []IInv
  BY Initially, Inductive, PTL DEF Spec

\* The types of the variables (collab.ts), for any edits and any bounds.
THEOREM TypeCorrect == Spec => []TypeOK
<1>1. IInv => TypeOK
  BY DEF IInv, Base
<1>2. QED BY <1>1, Invariance, PTL

\* An edit that the server discarded does not come back to the
\* history or the row: the fence of
\* persistGeneration and docPersistGenerations, with the eviction of every copy
\* that an invalidation leaves.
THEOREM DiscardedStayOut == Spec => []DiscardedStaysDiscarded
<1>1. IInv => DiscardedStaysDiscarded
  BY DEF IInv, Base, MadeInv, LostInv, DiscardedStaysDiscarded
<1>2. QED BY <1>1, Invariance, PTL

\* An edit of the live document that was neither saved nor given up has a
\* write on its way (schedulePersistDoc, persistPending, the finally of persistDoc,
\* onStoreDocument).
THEOREM UnsavedHasItsWrite == Spec => []UnsavedIsOnTheWay
<1>1. IInv => UnsavedIsOnTheWay
  <2>1. SUFFICES ASSUME IInv, live # None, ~invalid,
                        NEW e \in Unsaved(live) \ (lost \cup unserved)
                 PROVE  \E i \in Instances : e \in mem[i] /\ OnTheWay(i)
    BY DEF UnsavedIsOnTheWay
  <2>2. \A i \in Instances : Writing(i) => OnTheWay(i)
    BY DEF Writing, HasRun, OnTheWay
  <2>3. live \in Instances /\ CleanLive
    BY <2>1 DEF IInv, Base, TypeOK, RoomType, FenceType, StampInv, CleanLive
  <2>4. e \in mem[live] /\ e \notin saved \cup lost \cup unserved
    BY <2>1, <2>3 DEF Unsaved
  <2>5. CASE loaded \in Instances
    <3>1. e \in mem[loaded]
      <4>1. Settled(mem[live] \ mem[loaded])
        BY <2>1, <2>3, <2>5 DEF IInv, WriteInv
      <4>2. QED BY <2>4, <4>1 DEF Settled
    <3>2. Writing(loaded)
      BY <2>1, <2>4, <2>5, <3>1 DEF IInv, WriteInv, Settled
    <3>3. QED BY <2>2, <2>5, <3>1, <3>2
  <2>6. CASE loaded \in {None, Copy}
    <3>1. Writing(live)
      BY <2>1, <2>3, <2>4, <2>6 DEF IInv, WriteInv, Settled, Busy
    <3>2. QED BY <2>2, <2>3, <2>4, <3>1
  <2>7. QED BY <2>1, <2>5, <2>6 DEF IInv, Base, TypeOK, RoomType
<1>2. QED BY <1>1, Invariance, PTL

\* The history loses content only to a run that writes its instance, what came
\* while that run waited or what meta takes a document to have, or when an
\* invalidation clears it; what the history has leaves the row with such a run
\* only (resolveOnStoreConflict, the version of loadedDocDbMeta, evictions).
THEOREM SavedSurvives == Spec => SavedSurvivesPersist
<1> DEFINE Both == db.content \cap db.text
           Keeps == db.content \subseteq db'.content /\ Both \subseteq db'.text
           Takes == \E r \in runs :
               /\ \/ db.content \subseteq db'.content
                  \/ /\ db'.content = mem[r.inst]
                     /\ MayDrop(r, db.content \ db'.content)
               /\ MayDrop(r, Both \ db'.text)
           History ==
               \/ db.content \subseteq db'.content
               \/ \E r \in runs : /\ db'.content = mem[r.inst]
                                  /\ MayDrop(r, db.content \ db'.content)
               \/ invalid' /\ db'.content = db.text
           Row == \/ db.content \cap db.text \subseteq db'.text
                  \/ \E r \in runs : MayDrop(r, (db.content \cap db.text) \ db'.text)
           Clears == invalid' /\ db'.content \in {db.content, db.text} /\ db'.text = db.text
<1>1. ASSUME IInv, Next PROVE Keeps \/ Takes \/ Clears
  <2>1. Step /\ TypeOK'
    BY <1>1, StepCases, TypeStep DEF IInv, Base
  <2>2. Does
    BY <1>1, <2>1, StepDoes DEF IInv, Base
  <2>3. ASSUME NEW r \in runs, Commits(r) PROVE Keeps \/ Takes
    <3>1. CASE r.gen = gen /\ ~invalid
      <4>1. db.content \ mem[r.inst] \subseteq r.late \cup unread
        BY <1>1, <3>1 DEF IInv, LateInv
      <4>2. /\ db'.content \in {db.content, mem[r.inst]}
            /\ db.text \cap mem[r.inst] \subseteq db'.text
        BY <2>3, <3>1 DEF Commits
      <4>3. QED BY <3>1, <4>1, <4>2 DEF MayDrop
    <3>2. CASE db' = db
      BY <3>2
    <3>3. QED BY <2>3, <3>1, <3>2 DEF Commits
  <2>4. CASE Fences \/ Fenced
    BY <1>1, <2>4 DEF Fences, Fenced, IInv, Base, TypeOK, FenceType
  <2>5. CASE \A r \in runs : ~Commits(r)
    <3>1. CASE db' = db
      BY <3>1
    <3>2. CASE Resumes \/ (\E e \in Edits : Writes(e)) \/ \E i \in Instances : Gives(i)
      BY <3>2 DEF Resumes, Writes, Gives
    <3>3. CASE (\E i \in Instances : GivesUp(i)) \/ Reconciles
      BY <3>3 DEF GivesUp, Reconciles
    <3>4. CASE ServesLoaded \/ EndsLoad \/ \E e \in Edits : EditsDoc(e) \/ Ignores(e)
      BY <3>4 DEF ServesLoaded, EndsLoad, New, EditsDoc, Ignores
    <3>5. CASE \/ EvictStale \/ Join \/ BeginLoad
               \/ (Release /\ tearing = 0) \/ Unload
      BY <3>5 DEF EvictStale, Join, BeginLoad, Release, Unload
    <3>6. CASE \/ \E cl \in SUBSET Nat : Stores(cl) \/ (live # None /\ StoreIgnored(cl))
               \/ \E r \in runs : CommitFails(r)
      BY <3>6 DEF Stores, StoreIgnored, CommitFails
    <3>7. CASE \E i \in Instances, x \in Nat \cup {None}, row \in BOOLEAN,
                  t \in Job \cup {None}, m \in Meta \cup {None} : Asks(i, x, row, t, m)
      BY <3>7 DEF Asks
    <3>8. QED BY <2>2, <2>4, <2>5, <3>1, <3>2, <3>3, <3>4, <3>5, <3>6, <3>7
           DEF Does
  <2>6. QED BY <2>3, <2>5
<1>2. Keeps \/ Takes \/ Clears => History /\ Row
  OBVIOUS
<1>3. IInv /\ [Next]_vars => [History /\ Row]_vars
  BY <1>1, <1>2
<1>4. QED BY <1>3, Invariance, PTL DEF Spec, SavedSurvivesPersist

=============================================================================
