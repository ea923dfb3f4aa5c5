------------------------- MODULE CanonicalMutationProofs -------------------------
(***************************************************************************)
(* Theorems about CanonicalMutation, for any calls, kinds of callers and    *)
(* edits, and any number of instances.                                     *)
(*                                                                         *)
(* What a mutation may write is decided by what it has read, so the         *)
(* invariant says of each place content is read from (the row, the live     *)
(* document, loadedDocs, the bases handlers have) how it relates to the     *)
(* row, and which discarded content it may still have.                     *)
(***************************************************************************)
EXTENDS CanonicalMutation, TLAPS

Documents == Instances \cup {Copy}

RowInv == row \in [content : SUBSET Item, rev : Nat, stamp : Nat, epoch : Nat]
MemInv == mem \in [Documents -> SUBSET Item] /\ count \in 0 .. MaxInst

RoomInv ==
  /\ live \in Instances \cup {None} /\ loaded \in Documents \cup {None}
  /\ tickets \subseteq Nat /\ held \subseteq Mutations
  /\ dirty \subseteq Instances /\ debounced \in Nat \cup {None}
  /\ invalid \in BOOLEAN /\ closing \in BOOLEAN /\ locked \in BOOLEAN

MetaInv == meta \in {None, RowMeta}

CallInv ==
  /\ pc \in [Mutations -> Places]
  /\ arg \in [Mutations -> Arg]
  /\ answer \in [Mutations -> Answers \cup {None}]

GhostInv ==
  /\ made \subseteq Edits /\ lost \subseteq made /\ taken \subseteq made
  /\ astray \subseteq Item

TypeInv == RowInv /\ MemInv /\ RoomInv /\ MetaInv /\ CallInv /\ GhostInv

Bad == {"stale", "failed", "unavailable"}
Failed(m) == answer[m] \in Bad

\* Content that was discarded is not in S, unless a mutation had read it.
Clean(S) == /\ \A e \in Edits : e \in S /\ e \in lost => e \in taken
            /\ \A m \in Mutations : m \in S => ~Failed(m)

\* A mutation is answered at its end, and is nowhere before it is applied.
PlacedInv ==
  \A n \in Mutations :
    /\ answer[n] # None => pc[n] = "done"
    /\ pc[n] \notin {"applied", "done"} =>
         /\ n \notin row.content
         /\ \A i \in Documents : n \notin mem[i]
         /\ \A m \in Mutations : n \notin arg[m].read.content

\* The edits a mutation will write have been taken, and no failed mutation is
\* among what it has read. All edits there are have been made.
ReadInv ==
  /\ \A m \in Mutations, e \in Edits : e \in arg[m].read.content => e \in taken
  /\ \A m, n \in Mutations : n \in arg[m].read.content => ~Failed(n)
  /\ \A i \in Documents, e \in Edits : e \in mem[i] => e \in made
  /\ \A e \in Edits : e \in row.content => e \in made

\* A teardown has nothing to save, a rewrite neither, and what was loaded since
\* the teardown began is the row.
QuietInv ==
  /\ closing => invalid
  /\ closing \/ locked \/ loaded = None => dirty = {}
  /\ closing /\ loaded # None => mem[loaded] = row.content

\* Where discarded content is not.
CleanInv ==
  /\ Clean(row.content)
  /\ loaded # None => Clean(mem[loaded])
  /\ live # None /\ ~closing => Clean(mem[live])
  /\ \A i \in dirty : Clean(mem[i])

\* What the row has and S lacks went past the live document.
Has(S) == \A x \in row.content : x \in S \/ x \in astray

HasInv ==
  /\ loaded # None => Has(mem[loaded])
  /\ live # None => Has(mem[live]) \/ \E m \in Mutations : m \in mem[live] /\ Failed(m)
  /\ live # None /\ loaded # None =>
       \A x \in mem[loaded] : x \in mem[live] \/ x \in astray

\* What a base that is still current says of the row.
Based(m) ==
  /\ arg[m].rev <= row.rev /\ arg[m].stamp <= row.stamp
  /\ Kind[m] = "accept" /\ pc[m] \in {"read", "begun", "resolved", "loaded"} /\ arg[m].rev = row.rev =>
       Has(arg[m].read.content)
  /\ Kind[m] = "updatedAt" /\ pc[m] = "read" /\ arg[m].stamp = row.stamp =>
       Has(arg[m].read.content)
  /\ Kind[m] = "updatedAt" /\ pc[m] \in {"begun", "resolved", "loaded"} /\ arg[m].rev = row.rev =>
       Has(arg[m].read.content)
  /\ Kind[m] = "token" /\ pc[m] \in {"resolved", "loaded"} =>
       /\ arg[m].seen = arg[m].read
       /\ arg[m].rev = row.rev => Has(arg[m].read.content)
  /\ pc[m] = "loaded" => arg[m].handle \in Documents /\ arg[m].handle # None

BaseInv == \A m \in Mutations : Based(m)

IInv == /\ TypeInv /\ PlacedInv /\ ReadInv /\ QuietInv /\ CleanInv /\ HasInv /\ BaseInv

-----------------------------------------------------------------------------
(***************************************************************************)
(* What steps do to the room.                                              *)
(***************************************************************************)
\* Documents in use stay as they are; some may have nothing left to save.
Calm ==
  /\ UNCHANGED <<row, loaded, closing, lost, made, astray>>
  /\ \/ mem' = mem
     \/ /\ live = None /\ loaded = None
        /\ \A i \in Documents : mem'[i] = mem[i] \/ mem'[i] = row.content
  /\ live' \in {live, None} /\ dirty' \subseteq dirty
  /\ taken \subseteq taken'
  /\ locked' => locked
  /\ closing => invalid'

\* An invalidation begins, and the epoch may be raised.
Evicts ==
  /\ row'.content = row.content /\ row'.rev = row.rev /\ row.stamp <= row'.stamp
  /\ UNCHANGED <<mem, live, made, taken, astray>>
  /\ loaded' = None /\ dirty' = {} /\ invalid' /\ closing'
  /\ lost' = lost \cup Unsaved(live) \cup Unsaved(loaded)

\* What a document that is opened is made from.
Source == IF loaded = None THEN row.content ELSE mem[loaded]

\* The live document is made from that in loadedDocs, which may be new too.
Opens ==
  /\ UNCHANGED <<row, dirty, lost, made, taken, astray, closing, invalid, locked>>
  /\ live = None /\ live' \in Instances
  /\ loaded' \in Documents /\ (loaded # None => loaded' = loaded)
  /\ mem'[live'] = Source /\ mem'[loaded'] = Source
  /\ \A i \in Documents : mem'[i] = mem[i] \/ mem'[i] = Source

\* Only the mutation m goes on.
Only(m) ==
  \A n \in Mutations : n # m => pc'[n] = pc[n] /\ arg'[n] = arg[n] /\ answer'[n] = answer[n]

\* m is answered, with a failure only if it has not been applied.
Settles(m) ==
  /\ Only(m) /\ pc[m] \notin {"idle", "done"} /\ pc'[m] = "done" /\ arg'[m] = arg[m]
  /\ answer'[m] \in Answers
  /\ answer'[m] \in Bad => pc[m] # "applied"
  /\ answer'[m] = "unconfirmed" => pc[m] = "applied"

\* m goes on towards its commit.
Advances(m) ==
  /\ Only(m) /\ pc[m] \in {"read", "barred", "begun", "resolved"}
  /\ pc'[m] \in {"barred", "begun", "resolved", "loaded"}
  /\ arg'[m].read = arg[m].read /\ answer'[m] = answer[m]

Passing == \/ UNCHANGED call
           \/ \E m \in Mutations : Settles(m) \/ (Advances(m) /\ Based(m)')

LEMMA Values ==
  /\ Bad \subseteq Answers
  /\ {"ok", "unconfirmed"} \subseteq Answers \ Bad
  /\ "done" \in Places /\ "applied" \in Places /\ "read" \in Places /\ "barred" \in Places
  /\ "begun" \in Places /\ "resolved" \in Places /\ "loaded" \in Places
  BY DEF Bad, Answers, Places

LEMMA ArgForm ==
  ASSUME CallInv, NEW m \in Mutations
  PROVE  /\ pc[m] \in Places /\ answer[m] \in Answers \cup {None}
         /\ arg[m] \in Arg
         /\ arg[m].read \in Base /\ arg[m].read.content \in SUBSET Item /\ arg[m].read.epoch \in Nat
         /\ arg[m].stamp \in Nat /\ arg[m].rev \in Nat
         /\ arg[m].need \in BOOLEAN /\ arg[m].bump \in BOOLEAN
         /\ arg[m].seen \in Base /\ arg[m].handle \in Documents \cup {None}
  <1>1. arg[m] \in Arg /\ pc[m] \in Places /\ answer[m] \in Answers \cup {None}
    BY DEF CallInv
  <1>2. /\ arg[m].read \in Base /\ arg[m].stamp \in Nat /\ arg[m].rev \in Nat
        /\ arg[m].need \in BOOLEAN /\ arg[m].bump \in BOOLEAN
        /\ arg[m].seen \in Base /\ arg[m].handle \in Documents \cup {None}
    BY <1>1 DEF Arg, Documents
  <1>3. arg[m].read.content \in SUBSET Item /\ arg[m].read.epoch \in Nat
    BY <1>2 DEF Base
  <1> QED
    BY <1>1, <1>2, <1>3

LEMMA RowForm ==
  ASSUME RowInv
  PROVE  /\ row.content \in SUBSET Item /\ row.rev \in Nat /\ row.stamp \in Nat
         /\ row.epoch \in Nat
  BY DEF RowInv

\* What readers are given is content.
LEMMA BaseForm ==
  ASSUME RowInv, MemInv, RoomInv
  PROVE  /\ Authoritative \in SUBSET Item
         /\ AuthoritativeBase \in Base
         /\ AuthoritativeBase.content = Authoritative
         /\ live # None => live \in Documents
         /\ loaded # None => loaded \in Documents
         /\ Source \in SUBSET Item
  <1>1. live # None => live \in Documents /\ mem[live] \in SUBSET Item
    BY DEF RoomInv, MemInv, Documents
  <1>2. loaded # None => loaded \in Documents /\ mem[loaded] \in SUBSET Item
    BY DEF RoomInv, MemInv
  <1>3. Authoritative \in SUBSET Item /\ Source \in SUBSET Item
    BY <1>1, <1>2, RowForm DEF Authoritative, Source
  <1>4. AuthoritativeBase = [content |-> Authoritative, epoch |-> row.epoch]
    BY DEF AuthoritativeBase
  <1> HIDE DEF Authoritative
  <1> QED
    BY <1>1, <1>2, <1>3, <1>4, RowForm DEF Base

\* Handlers keep their types when one of them goes on.
LEMMA CallMoves ==
  ASSUME CallInv, NEW m \in Mutations, NEW place \in Places,
         NEW a \in Answers \cup {None}, NEW g \in Arg,
         pc' = [pc EXCEPT ![m] = place],
         answer' = [answer EXCEPT ![m] = a] \/ (answer' = answer /\ a = answer[m]),
         arg' = [arg EXCEPT ![m] = g] \/ (arg' = arg /\ g = arg[m])
  PROVE  /\ CallInv' /\ Only(m)
         /\ pc'[m] = place /\ answer'[m] = a /\ arg'[m] = g
  BY DEF CallInv, Only

LEMMA GotoMoves ==
  ASSUME CallInv, NEW m \in Mutations, NEW place \in Places, Goto(m, place),
         answer' = answer, arg' = arg
  PROVE  /\ CallInv' /\ Only(m)
         /\ pc'[m] = place /\ answer'[m] = answer[m] /\ arg'[m] = arg[m]
  <1>1. answer[m] \in Answers \cup {None} /\ arg[m] \in Arg
    BY ArgForm
  <1> QED
    BY <1>1, CallMoves DEF Goto

LEMMA HandlerMoves ==
  ASSUME CallInv, NEW m \in Mutations, NEW place \in Places, NEW g \in Arg,
         pc' = [pc EXCEPT ![m] = place], arg' = [arg EXCEPT ![m] = g], answer' = answer
  PROVE  /\ CallInv' /\ Only(m)
         /\ pc'[m] = place /\ answer'[m] = answer[m] /\ arg'[m] = g
  <1>1. answer[m] \in Answers \cup {None}
    BY ArgForm
  <1> DEFINE a == answer[m]
  <1>2. a \in Answers \cup {None} /\ answer' = answer /\ a = answer[m]
    BY <1>1
  <1> HIDE DEF a
  <1>3. /\ CallInv' /\ Only(m)
        /\ pc'[m] = place /\ answer'[m] = a /\ arg'[m] = g
    BY <1>2, CallMoves
  <1> QED
    BY <1>2, <1>3

LEMMA FinishMoves ==
  ASSUME CallInv, NEW m \in Mutations, NEW a \in Answers, Finish(m, a), arg' = arg
  PROVE  /\ CallInv' /\ Only(m)
         /\ pc'[m] = "done" /\ answer'[m] = a /\ arg'[m] = arg[m]
         /\ held' \subseteq held
  <1>1. arg[m] \in Arg /\ "done" \in Places /\ a \in Answers \cup {None}
    BY ArgForm, Values
  <1>2. /\ pc' = [pc EXCEPT ![m] = "done"] /\ answer' = [answer EXCEPT ![m] = a]
        /\ held' \subseteq held
    BY DEF Finish, Goto
  <1> QED
    BY <1>1, <1>2, CallMoves


\* The types of what a step leaves alone.
LEMMA TypesKept ==
  ASSUME TypeInv
  PROVE  /\ row' = row => RowInv'
         /\ mem' = mem /\ count' = count => MemInv'
         /\ UNCHANGED <<live, loaded, tickets, held, dirty, debounced, invalid, closing, locked>> => RoomInv'
         /\ row' = row /\ meta' \in {meta, None} => MetaInv'
         /\ UNCHANGED call => CallInv'
         /\ UNCHANGED ghost => GhostInv'
  BY DEF TypeInv, RowInv, MemInv, RoomInv, MetaInv, CallInv, GhostInv, RowMeta, call, ghost

\* Clients, timers and Hocuspocus, where no content moves.
LEMMA CalmEvents ==
  ASSUME TypeInv, QuietInv,
         Join \/ Leave \/ Release \/ LockExpires \/ UNCHANGED vars
  PROVE  TypeInv' /\ Calm /\ UNCHANGED call
  <1>1. CASE Join
    <2>1. tickets' \subseteq Nat
      BY <1>1, RowForm DEF TypeInv, RoomInv, Join
    <2> QED
      BY <1>1, <2>1, TypesKept DEF TypeInv, RoomInv, QuietInv, Join, Calm, call, ghost, fence
  <1>2. CASE Leave
    BY <1>2, TypesKept DEF TypeInv, RoomInv, QuietInv, Leave, Calm, call, ghost, fence
  <1>3. CASE Release
    BY <1>3, TypesKept DEF TypeInv, RoomInv, QuietInv, Release, Event, Calm, call, ghost, room
  <1>4. CASE LockExpires
    BY <1>4, TypesKept DEF TypeInv, RoomInv, QuietInv, LockExpires, Calm, call, ghost, room
  <1>5. CASE UNCHANGED vars
    BY <1>5, TypesKept DEF TypeInv, RoomInv, QuietInv, vars, Calm, call, ghost, room, fence
  <1> QED
    BY <1>1, <1>2, <1>3, <1>4, <1>5

\* A handler that only answers.
LEMMA Refuses ==
  ASSUME TypeInv, QuietInv, NEW m \in Mutations, NEW a \in Answers, Refuse(m, a),
         pc[m] \notin {"idle", "done"}, a \in Bad => pc[m] # "applied",
         a = "unconfirmed" => pc[m] = "applied"
  PROVE  TypeInv' /\ Calm /\ Settles(m)
  <1>1. /\ Finish(m, a) /\ UNCHANGED arg
        /\ UNCHANGED <<row, mem, count, live, loaded, meta, tickets, dirty, debounced>>
        /\ UNCHANGED <<invalid, closing, locked>> /\ UNCHANGED ghost
    BY DEF Refuse, fence
  <1>2. /\ CallInv' /\ Only(m) /\ pc'[m] = "done" /\ answer'[m] = a /\ arg'[m] = arg[m]
        /\ held' \subseteq held
    BY <1>1, FinishMoves DEF TypeInv
  <1>3. TypeInv'
    BY <1>1, <1>2, TypesKept DEF TypeInv, RoomInv
  <1>4. Calm
    BY <1>1 DEF Calm, QuietInv, ghost
  <1>5. Settles(m)
    BY <1>2 DEF Settles
  <1> QED
    BY <1>3, <1>4, <1>5

LEMMA RefusedSteps ==
  ASSUME TypeInv, QuietInv, NEW m \in Mutations,
         \/ BeginStale(m) \/ NoLiveDoc(m) \/ ResolveStale(m) \/ RevalidateStale(m)
         \/ Verify(m) \/ VerifyRewrite(m)
  PROVE  TypeInv' /\ Calm /\ Settles(m)
  <1>1. \E a \in Answers : /\ Refuse(m, a) /\ pc[m] \notin {"idle", "done"}
                           /\ a \in Bad => pc[m] # "applied"
                           /\ a = "unconfirmed" => pc[m] = "applied"
    <2>1. CASE BeginStale(m)
      BY <2>1 DEF BeginStale, Answers
    <2>2. CASE NoLiveDoc(m)
      BY <2>2 DEF NoLiveDoc, Answers
    <2>3. CASE ResolveStale(m)
      BY <2>3 DEF ResolveStale, Answers
    <2>4. CASE RevalidateStale(m)
      BY <2>4 DEF RevalidateStale, Answers
    <2>5. CASE Verify(m)
      <3>1. \E a \in {"ok", "unconfirmed"} : Refuse(m, a)
        BY <2>5 DEF Verify
      <3> QED
        BY <2>5, <3>1 DEF Verify, Answers, Bad
    <2>6. CASE VerifyRewrite(m)
      BY <2>6 DEF VerifyRewrite, Answers, Bad
    <2> QED
      BY <2>1, <2>2, <2>3, <2>4, <2>5, <2>6
  <1> QED
    BY <1>1, Refuses

\* The invariant, for the steps that need some of it.
LEMMA Parts ==
  ASSUME IInv
  PROVE  /\ TypeInv /\ RowInv /\ MemInv /\ RoomInv /\ MetaInv /\ CallInv /\ GhostInv
         /\ PlacedInv /\ ReadInv /\ QuietInv /\ CleanInv /\ HasInv /\ BaseInv
  BY DEF IInv, TypeInv

\* The row is read, and has what the base has.
LEMMA BeginSteps ==
  ASSUME IInv, NEW m \in Mutations, Begin(m)
  PROVE  TypeInv' /\ Calm /\ Advances(m) /\ Based(m)'
  <1>1. PICK counted \in BOOLEAN :
          arg' = [arg EXCEPT ![m].rev = row.rev, ![m].need = Strict(m) /\ counted,
                             ![m].bump = Strict(m) /\ ~counted]
    BY DEF Begin
  <1> DEFINE need == Strict(m) /\ counted
  <1> DEFINE bump == Strict(m) /\ ~counted
  <1>2. need \in BOOLEAN /\ bump \in BOOLEAN
    BY DEF Strict
  <1>3. arg' = [arg EXCEPT ![m].rev = row.rev, ![m].need = need, ![m].bump = bump]
    BY <1>1
  <1> HIDE DEF need, bump
  <1> DEFINE g == [arg[m] EXCEPT !.rev = row.rev, !.need = need, !.bump = bump]
  <1>4. arg' = [arg EXCEPT ![m] = g]
    BY <1>3, Parts DEF CallInv
  <1>5. /\ g \in Arg /\ g.read = arg[m].read /\ g.stamp = arg[m].stamp
        /\ g.rev = row.rev
    BY <1>2, Parts, ArgForm, RowForm DEF Arg
  <1> HIDE DEF g
  <1>6. /\ row' = row /\ UNCHANGED answer /\ UNCHANGED ghost
        /\ UNCHANGED <<mem, count, live, loaded, meta, tickets, held, dirty, debounced>>
        /\ UNCHANGED <<invalid, closing, locked>>
        /\ pc' = [pc EXCEPT ![m] = "begun"] /\ SameRow(m)
        /\ pc[m] \in {"read", "barred"}
    BY DEF Begin, room, fence, Goto
  <1>7. /\ CallInv' /\ Only(m) /\ pc'[m] = "begun" /\ answer'[m] = answer[m]
        /\ arg'[m].read = arg[m].read /\ arg'[m].stamp = arg[m].stamp
        /\ arg'[m].rev = row.rev
    <2>1. pc' = [pc EXCEPT ![m] = "begun"] /\ answer' = answer /\ "begun" \in Places
      BY <1>6, Values
    <2>2. /\ CallInv' /\ Only(m) /\ pc'[m] = "begun" /\ answer'[m] = answer[m]
          /\ arg'[m] = g
      BY <1>4, <1>5, <2>1, Parts, HandlerMoves
    <2> QED
      BY <1>5, <2>2
  <1>8. TypeInv'
    BY <1>6, <1>7, Parts, TypesKept DEF TypeInv
  <1>9. Calm
    BY <1>6, Parts DEF Calm, QuietInv, ghost
  <1>10. Advances(m)
    BY <1>6, <1>7 DEF Advances
  <1>11. Based(m)
    BY Parts DEF BaseInv
  <1>12. /\ Kind[m] = "accept" => Has(arg[m].read.content)
         /\ Kind[m] = "updatedAt" => Has(arg[m].read.content)
    BY <1>6, <1>11 DEF Based, SameRow, Begin
  <1>13. row'.rev = row.rev /\ row'.stamp = row.stamp /\ row.rev \in Nat
    BY <1>6, Parts, RowForm
  <1>14. Based(m)'
    BY <1>7, <1>11, <1>12, <1>13, <1>6 DEF Based, Has, ghost
  <1> QED
    BY <1>8, <1>9, <1>10, <1>14

\* What a reader is given has what the row has, unless the reader is given
\* content that will be discarded.
LEMMA ReadersHaveTheRow ==
  ASSUME IInv
  PROVE  \/ Has(Authoritative)
         \/ live # None /\ Authoritative = mem[live] /\ \E m \in Mutations : m \in mem[live] /\ Failed(m)
  BY Parts DEF HasInv, Authoritative, Has

LEMMA ResolveSteps ==
  ASSUME IInv, NEW m \in Mutations, Resolve(m)
  PROVE  TypeInv' /\ Calm /\ Advances(m) /\ Based(m)'
  <1> DEFINE g == [arg[m] EXCEPT !.seen = AuthoritativeBase]
  <1>1. arg' = [arg EXCEPT ![m] = g]
    BY Parts DEF Resolve, CallInv
  <1>2. /\ g \in Arg /\ g.read = arg[m].read /\ g.stamp = arg[m].stamp
        /\ g.rev = arg[m].rev /\ g.seen = AuthoritativeBase
    BY Parts, ArgForm, BaseForm DEF Arg
  <1> HIDE DEF g
  <1>3. /\ row' = row /\ UNCHANGED answer /\ UNCHANGED ghost
        /\ UNCHANGED <<mem, count, live, loaded, meta, tickets, dirty, debounced>>
        /\ UNCHANGED <<invalid, closing, locked>>
        /\ held' \subseteq held
        /\ pc' = [pc EXCEPT ![m] = "resolved"]
        /\ pc[m] = "begun"
        /\ Kind[m] = "token" => AuthoritativeBase = arg[m].read
    BY DEF Resolve, fence, Goto
  <1>4. /\ CallInv' /\ Only(m) /\ pc'[m] = "resolved" /\ answer'[m] = answer[m]
        /\ arg'[m].read = arg[m].read /\ arg'[m].stamp = arg[m].stamp
        /\ arg'[m].rev = arg[m].rev /\ arg'[m].seen = AuthoritativeBase
    <2>1. pc' = [pc EXCEPT ![m] = "resolved"] /\ answer' = answer /\ "resolved" \in Places
      BY <1>3, Values
    <2>2. /\ CallInv' /\ Only(m) /\ pc'[m] = "resolved" /\ answer'[m] = answer[m]
          /\ arg'[m] = g
      BY <1>1, <1>2, <2>1, Parts, HandlerMoves
    <2> QED
      BY <1>2, <2>2
  <1>5. TypeInv'
    BY <1>3, <1>4, Parts, TypesKept DEF TypeInv, RoomInv
  <1>6. Calm
    BY <1>3, Parts DEF Calm, QuietInv, ghost
  <1>7. Advances(m)
    BY <1>3, <1>4 DEF Advances
  <1>8. Based(m)
    BY Parts DEF BaseInv
  <1>9. Kind[m] = "token" => Has(arg[m].read.content)
    <2>1. ASSUME Kind[m] = "token" PROVE Authoritative = arg[m].read.content
      BY <2>1, <1>3, Parts, BaseForm
    <2> QED
      BY <2>1, Parts, ReadersHaveTheRow DEF ReadInv
  <1>10. Based(m)'
    BY <1>3, <1>4, <1>8, <1>9 DEF Based, Has, ghost
  <1> QED
    BY <1>5, <1>6, <1>7, <1>10

\* The document to write to is one that is used, or a copy of the row.
LEMMA LoadSteps ==
  ASSUME IInv, NEW m \in Mutations, Load(m)
  PROVE  TypeInv' /\ Calm /\ Advances(m) /\ Based(m)'
  <1> DEFINE h == IF live # None THEN live ELSE IF loaded # None THEN loaded ELSE Copy
  <1> DEFINE g == [arg[m] EXCEPT !.handle = h]
  <1>1. arg' = [arg EXCEPT ![m] = g]
    BY Parts DEF Load, CallInv
  <1>2. h \in Documents /\ h # None
    BY Parts, BaseForm, CopyAssumption DEF Documents
  <1> HIDE DEF h
  <1>3. /\ g \in Arg /\ g.read = arg[m].read /\ g.stamp = arg[m].stamp
        /\ g.rev = arg[m].rev /\ g.seen = arg[m].seen /\ g.handle = h
    BY <1>2, Parts, ArgForm DEF Arg, Documents
  <1> HIDE DEF g
  <1>4. /\ row' = row /\ UNCHANGED answer /\ UNCHANGED ghost
        /\ UNCHANGED <<count, live, loaded, meta, tickets, held, dirty, debounced>>
        /\ UNCHANGED <<invalid, closing, locked>>
        /\ pc' = [pc EXCEPT ![m] = "loaded"]
        /\ pc[m] = "resolved"
        /\ mem' = IF live = None /\ loaded = None
                  THEN [mem EXCEPT ![Copy] = row.content] ELSE mem
    BY DEF Load, fence, Goto
  <1>5. /\ CallInv' /\ Only(m) /\ pc'[m] = "loaded" /\ answer'[m] = answer[m]
        /\ arg'[m].read = arg[m].read /\ arg'[m].stamp = arg[m].stamp
        /\ arg'[m].rev = arg[m].rev /\ arg'[m].seen = arg[m].seen /\ arg'[m].handle = h
    <2>1. pc' = [pc EXCEPT ![m] = "loaded"] /\ answer' = answer /\ "loaded" \in Places
      BY <1>4, Values
    <2>2. /\ CallInv' /\ Only(m) /\ pc'[m] = "loaded" /\ answer'[m] = answer[m]
          /\ arg'[m] = g
      BY <1>1, <1>3, <2>1, Parts, HandlerMoves
    <2> QED
      BY <1>3, <2>2
  <1>6. /\ mem' \in [Documents -> SUBSET Item]
        /\ \/ mem' = mem
           \/ /\ live = None /\ loaded = None
              /\ \A i \in Documents : mem'[i] = mem[i] \/ mem'[i] = row.content
    BY <1>4, Parts, RowForm DEF MemInv
  <1>7. TypeInv'
    BY <1>4, <1>5, <1>6, Parts, TypesKept DEF TypeInv, MemInv
  <1>8. Calm
    BY <1>4, <1>6, Parts DEF Calm, QuietInv, ghost
  <1>9. Advances(m)
    BY <1>4, <1>5 DEF Advances
  <1>10. Based(m)
    BY Parts DEF BaseInv
  <1>11. Based(m)'
    BY <1>2, <1>4, <1>5, <1>10 DEF Based, Has, ghost
  <1> QED
    BY <1>7, <1>8, <1>9, <1>11

\* What a caller reads.
Reads(m) ==
  /\ ~closing
  /\ Only(m) /\ pc[m] = "idle" /\ pc'[m] = "read" /\ answer'[m] = answer[m]
  /\ arg'[m].read.content = Authoritative
  /\ arg'[m].rev = row.rev /\ arg'[m].stamp = row.stamp
  /\ taken' = taken \cup (Authoritative \cap Edits)

LEMMA ReadSteps ==
  ASSUME IInv, NEW m \in Mutations, Read(m)
  PROVE  TypeInv' /\ Calm /\ Reads(m)
  <1> DEFINE g == [arg[m] EXCEPT !.read = AuthoritativeBase, !.rev = row.rev,
                                 !.stamp = row.stamp]
  <1>1. arg' = [arg EXCEPT ![m] = g]
    BY Parts DEF Read, CallInv
  <1>2. /\ g \in Arg /\ g.read = AuthoritativeBase /\ g.stamp = row.stamp
        /\ g.rev = row.rev
    BY Parts, ArgForm, BaseForm, RowForm DEF Arg
  <1> HIDE DEF g
  <1>3. /\ row' = row /\ UNCHANGED answer /\ UNCHANGED <<made, lost, astray>>
        /\ UNCHANGED <<mem, count, live, loaded, meta, tickets, held, dirty, debounced>>
        /\ UNCHANGED <<invalid, closing, locked>>
        /\ pc' = [pc EXCEPT ![m] = "read"]
        /\ pc[m] = "idle" /\ ~closing
        /\ taken' = taken \cup (Authoritative \cap Edits)
    BY DEF Read, room, fence, Goto, Event
  <1>4. /\ CallInv' /\ Only(m) /\ pc'[m] = "read" /\ answer'[m] = answer[m]
        /\ arg'[m] = g
    <2>1. pc' = [pc EXCEPT ![m] = "read"] /\ answer' = answer /\ "read" \in Places
      BY <1>3, Values
    <2> QED
      BY <1>1, <1>2, <2>1, Parts, HandlerMoves
  <1>5. Authoritative \cap Edits \subseteq made
    BY Parts, BaseForm DEF ReadInv, Authoritative
  <1>6. GhostInv'
    BY <1>3, <1>5, Parts DEF GhostInv
  <1>7. TypeInv'
    BY <1>3, <1>4, <1>6, Parts, TypesKept DEF TypeInv
  <1>8. Calm
    BY <1>3, Parts DEF Calm, QuietInv
  <1>9. Reads(m)
    BY <1>2, <1>3, <1>4, Parts, BaseForm DEF Reads
  <1> QED
    BY <1>7, <1>8, <1>9

LEMMA UnsavedForm ==
  ASSUME IInv
  PROVE  Unsaved(live) \subseteq made /\ Unsaved(loaded) \subseteq made
  BY Parts, BaseForm DEF ReadInv, Unsaved

\* What an invalidation leaves.
LEMMA Invalidates ==
  ASSUME IInv, BeginInvalidate,
         row'.content = row.content, row'.rev = row.rev, row'.stamp \in Nat, row.stamp <= row'.stamp,
         RowInv', UNCHANGED <<mem, count, live, debounced, made, taken, astray>>,
         held' \subseteq held, locked' \in BOOLEAN, CallInv'
  PROVE  TypeInv' /\ Evicts
  <1>1. /\ loaded' = None /\ meta' = None /\ dirty' = {} /\ tickets' = {}
        /\ invalid' = TRUE /\ closing' = TRUE
        /\ lost' = lost \cup Unsaved(live) \cup Unsaved(loaded)
    BY DEF BeginInvalidate
  <1>2. GhostInv'
    BY <1>1, Parts, UnsavedForm DEF GhostInv
  <1>3. RoomInv' /\ MetaInv'
    BY <1>1, Parts DEF RoomInv, MetaInv
  <1>4. MemInv'
    BY Parts DEF MemInv
  <1> QED
    BY <1>1, <1>2, <1>3, <1>4 DEF TypeInv, Evicts

\* The epoch is raised.
LEMMA RaiseForm ==
  ASSUME RowInv, row' = [row EXCEPT !.epoch = @ + 1, !.stamp = @ + 1]
  PROVE  /\ RowInv' /\ row'.content = row.content /\ row'.rev = row.rev
         /\ row'.stamp = row.stamp + 1
  <1> DEFINE Row == [content : SUBSET Item, rev : Nat, stamp : Nat, epoch : Nat]
  <1>1. row \in Row /\ row.epoch + 1 \in Nat /\ row.stamp + 1 \in Nat
    BY RowForm DEF RowInv
  <1> DEFINE e == row.epoch + 1
  <1> DEFINE s == row.stamp + 1
  <1>2. row' = [row EXCEPT !.epoch = e, !.stamp = s]
    OBVIOUS
  <1>3. e \in Nat /\ s \in Nat
    BY <1>1
  <1> HIDE DEF e, s
  <1>4. /\ row' \in Row /\ row'.content = row.content /\ row'.rev = row.rev
        /\ row'.stamp = s
    BY <1>1, <1>2, <1>3
  <1> QED
    BY <1>4 DEF RowInv, s

LEMMA BarrierSteps ==
  ASSUME IInv, NEW m \in Mutations, Barrier(m)
  PROVE  TypeInv' /\ Evicts /\ Advances(m) /\ Based(m)'
  <1>1. /\ pc[m] = "read" /\ Kind[m] = "rewrite" /\ Goto(m, "barred")
        /\ locked' = TRUE /\ BeginInvalidate
        /\ row' = [row EXCEPT !.epoch = @ + 1, !.stamp = @ + 1]
        /\ UNCHANGED <<mem, count, live, held, debounced, arg, answer, made, taken, astray>>
    BY DEF Barrier
  <1>2. /\ CallInv' /\ Only(m)
        /\ pc'[m] = "barred" /\ answer'[m] = answer[m] /\ arg'[m] = arg[m]
    BY <1>1, Parts, Values, GotoMoves
  <1>3. /\ RowInv' /\ row'.content = row.content /\ row'.rev = row.rev
        /\ row'.stamp = row.stamp + 1
    BY <1>1, Parts, RaiseForm
  <1>4. row'.stamp \in Nat /\ row.stamp <= row'.stamp
    BY <1>3, Parts, RowForm
  <1>5. TypeInv' /\ Evicts
    BY <1>1, <1>2, <1>3, <1>4, Invalidates
  <1>6. Based(m) /\ arg[m].stamp \in Nat
    BY Parts, ArgForm DEF BaseInv
  <1>7. Based(m)'
    BY <1>1, <1>2, <1>3, <1>6, Parts, RowForm DEF Based
  <1> QED
    BY <1>1, <1>2, <1>5, <1>7 DEF Advances

LEMMA BarrierFailsSteps ==
  ASSUME IInv, NEW m \in Mutations, BarrierFails(m)
  PROVE  TypeInv' /\ Evicts /\ Settles(m)
  <1>1. /\ pc[m] = "barred" /\ Finish(m, "unavailable") /\ BeginInvalidate
        /\ UNCHANGED <<row, mem, count, live, debounced, locked, arg, made, taken, astray>>
    BY DEF BarrierFails
  <1>2. /\ CallInv' /\ Only(m) /\ held' \subseteq held
        /\ pc'[m] = "done" /\ answer'[m] = "unavailable" /\ arg'[m] = arg[m]
    BY <1>1, Parts, FinishMoves DEF Answers
  <1>3. RowInv' /\ row'.stamp \in Nat /\ row.stamp <= row'.stamp /\ locked' \in BOOLEAN
    BY <1>1, Parts, RowForm DEF RowInv, RoomInv
  <1>4. TypeInv' /\ Evicts
    BY <1>1, <1>2, <1>3, Invalidates
  <1> QED
    BY <1>1, <1>2, <1>4 DEF Settles, Answers

LEMMA FinishAcceptSteps ==
  ASSUME IInv, NEW m \in Mutations, FinishAccept(m)
  PROVE  TypeInv' /\ Evicts /\ Settles(m)
  <1>1. /\ pc[m] = "applied" /\ Finish(m, "ok") /\ BeginInvalidate
        /\ row' = IF arg[m].bump THEN [row EXCEPT !.epoch = @ + 1, !.stamp = @ + 1] ELSE row
        /\ UNCHANGED <<mem, count, live, debounced, locked, arg, made, taken, astray>>
    BY DEF FinishAccept
  <1>2. /\ CallInv' /\ Only(m) /\ held' \subseteq held
        /\ pc'[m] = "done" /\ answer'[m] = "ok" /\ arg'[m] = arg[m]
    BY <1>1, Parts, FinishMoves DEF Answers
  <1>3. /\ RowInv' /\ row'.content = row.content /\ row'.rev = row.rev
        /\ row'.stamp \in {row.stamp, row.stamp + 1} /\ locked' \in BOOLEAN
    <2>1. CASE arg[m].bump
      BY <1>1, <2>1, Parts, RaiseForm DEF RoomInv
    <2>2. CASE ~arg[m].bump
      BY <1>1, <2>2, Parts DEF RowInv, RoomInv
    <2> QED
      BY <2>1, <2>2
  <1>4. row'.stamp \in Nat /\ row.stamp <= row'.stamp
    BY <1>3, Parts, RowForm
  <1>5. TypeInv' /\ Evicts
    BY <1>1, <1>2, <1>3, <1>4, Invalidates
  <1> QED
    BY <1>1, <1>2, <1>5 DEF Settles, Answers, Bad

LEMMA GuardedSteps ==
  ASSUME IInv, NEW m \in Mutations, Guarded(m)
  PROVE  TypeInv' /\ (Evicts \/ Calm) /\ Settles(m)
  <1>1. /\ pc[m] = "loaded" /\ Finish(m, "failed")
        /\ UNCHANGED <<row, mem, count, live, debounced, locked, arg, made, taken, astray>>
        /\ \/ BeginInvalidate
           \/ UNCHANGED <<loaded, meta, dirty, tickets, invalid, closing, lost>>
    BY DEF Guarded, Ready
  <1>2. /\ CallInv' /\ Only(m) /\ held' \subseteq held
        /\ pc'[m] = "done" /\ answer'[m] = "failed" /\ arg'[m] = arg[m]
    BY <1>1, Parts, FinishMoves DEF Answers
  <1>3. RowInv' /\ row'.stamp \in Nat /\ row.stamp <= row'.stamp /\ locked' \in BOOLEAN
    BY <1>1, Parts, RowForm DEF RowInv, RoomInv
  <1>4. CASE BeginInvalidate
    BY <1>1, <1>2, <1>3, <1>4, Invalidates DEF Settles, Answers
  <1>5. CASE UNCHANGED <<loaded, meta, dirty, tickets, invalid, closing, lost>>
    <2>1. TypeInv'
      BY <1>1, <1>2, <1>5, Parts, TypesKept DEF TypeInv, RoomInv, ghost
    <2>2. Calm
      BY <1>1, <1>5, Parts DEF Calm, QuietInv
    <2> QED
      BY <1>1, <1>2, <2>1, <2>2 DEF Settles, Answers
  <1> QED
    BY <1>1, <1>4, <1>5

\* A client changes the live document, which may become the loaded one.
Changes(e) ==
  /\ ~closing /\ live # None /\ e \in Edits /\ e \notin made
  /\ UNCHANGED <<row, live, closing, invalid, locked, lost, taken, astray>>
  /\ made' = made \cup {e}
  /\ mem'[live] = mem[live] \cup {e}
  /\ \A i \in Documents : i # live => mem'[i] = mem[i]
  /\ (~locked /\ Schedule) \/ UNCHANGED <<loaded, dirty>>

\* Hocuspocus stores the live document, or it is let go as the loaded one.
Stores ==
  /\ ~closing /\ live # None
  /\ UNCHANGED <<row, mem, live, closing, invalid, locked, made, taken, astray>>
  /\ \/ ~locked /\ Schedule /\ lost' = lost
     \/ loaded' = None /\ dirty' = {} /\ lost' = lost \cup (Unsaved(loaded) \ mem[live])
     \/ UNCHANGED <<loaded, dirty, lost>>

\* A persist writes the loaded document to the row.
WritesBack ==
  /\ ~closing /\ ~locked /\ loaded # None /\ loaded \in dirty
  /\ UNCHANGED <<mem, live, loaded, closing, invalid, locked, made, lost, taken, astray>>
  /\ dirty' = dirty \ {loaded}
  /\ row'.content = mem[loaded]
  /\ row' = row \/ (row'.rev = row.rev + 1 /\ row'.stamp = row.stamp + 1)

\* The teardown ends.
Ends ==
  /\ closing /\ ~closing' /\ live' = None
  /\ lost' = lost \cup Unsaved(live)
  /\ UNCHANGED <<row, mem, loaded, dirty, invalid, locked, made, taken, astray>>

LEMMA OpenSteps ==
  ASSUME IInv, Open, tickets' \subseteq Nat, held' \subseteq Mutations,
         UNCHANGED <<row, debounced, fence, call, ghost>>
  PROVE  TypeInv' /\ Opens /\ UNCHANGED call
  <1>1. /\ live = None /\ count' = count + 1 /\ live' = count' /\ count < MaxInst
        /\ meta' = IF loaded = None \/ meta = None THEN RowMeta ELSE meta
        /\ UNCHANGED <<row, debounced, dirty, invalid, closing, locked, made, lost, taken, astray>>
    BY DEF Open, fence, ghost
  <1>2. count' \in 0 .. MaxInst /\ live' \in Instances
    BY <1>1, Parts, InstAssumption DEF MemInv, Instances
  <1>3. /\ loaded' \in Documents /\ (loaded # None => loaded' = loaded)
        /\ loaded = None => /\ loaded' = Copy
                            /\ mem' = [mem EXCEPT ![Copy] = row.content, ![live'] = row.content]
        /\ loaded # None => mem' = [mem EXCEPT ![live'] = mem[loaded]]
    BY <1>1, Parts, BaseForm DEF Open, Documents
  <1>4. /\ mem' \in [Documents -> SUBSET Item]
        /\ mem'[live'] = Source /\ mem'[loaded'] = Source
        /\ \A i \in Documents : mem'[i] = mem[i] \/ mem'[i] = Source
    <2>0. live' \in Documents /\ Copy \in Documents /\ row.content \in SUBSET Item
      BY <1>2, Parts, RowForm DEF Documents
    <2>1. CASE loaded = None
      BY <1>3, <2>0, <2>1, Parts DEF MemInv, Source
    <2>2. CASE loaded # None
      BY <1>3, <2>0, <2>2, Parts, BaseForm DEF MemInv, Source
    <2> QED
      BY <2>1, <2>2
  <1>5. MemInv' /\ RoomInv' /\ MetaInv'
    BY <1>1, <1>2, <1>3, <1>4, Parts DEF MemInv, RoomInv, MetaInv, RowMeta
  <1>6. TypeInv'
    BY <1>1, <1>5, Parts, TypesKept DEF TypeInv
  <1>7. Opens
    BY <1>1, <1>2, <1>3, <1>4 DEF Opens
  <1> QED
    BY <1>6, <1>7, <1>1

LEMMA OpeningSteps ==
  ASSUME IInv, JoinFirst \/ \E m \in Mutations : OpenDirect(m)
  PROVE  TypeInv' /\ Opens /\ UNCHANGED call
  <1>1. CASE JoinFirst
    BY <1>1, Parts, RowForm, OpenSteps DEF JoinFirst, RoomInv
  <1>2. ASSUME NEW m \in Mutations, OpenDirect(m) PROVE TypeInv' /\ Opens /\ UNCHANGED call
    BY <1>2, Parts, OpenSteps DEF OpenDirect, RoomInv
  <1> QED
    BY <1>1, <1>2

LEMMA EditSteps ==
  ASSUME IInv, NEW e \in Edits, NEW epoch \in tickets, Edit(e, epoch)
  PROVE  TypeInv' /\ Changes(e) /\ UNCHANGED call
  <1>1. /\ ~closing /\ live # None /\ e \notin made
        /\ made' = made \cup {e} /\ debounced' = epoch
        /\ mem' = [mem EXCEPT ![live] = mem[live] \cup {e}]
        /\ (~locked /\ Schedule) \/ UNCHANGED <<loaded, dirty>>
        /\ UNCHANGED <<row, count, live, meta, tickets, held, invalid, closing, locked, call, lost, taken, astray>>
    BY DEF Edit, Event, Saved, fence
  <1>2. live \in Documents /\ live \in Instances /\ e \in Item /\ epoch \in Nat
    BY <1>1, Parts DEF RoomInv, Documents, Item
  <1>3. /\ mem' \in [Documents -> SUBSET Item]
        /\ mem'[live] = mem[live] \cup {e}
        /\ \A i \in Documents : i # live => mem'[i] = mem[i]
    BY <1>1, <1>2, Parts DEF MemInv
  <1>4. MemInv' /\ RoomInv' /\ MetaInv' /\ GhostInv'
    BY <1>1, <1>2, <1>3, Parts DEF MemInv, RoomInv, MetaInv, RowMeta, GhostInv, Schedule, Documents
  <1>5. TypeInv'
    BY <1>1, <1>4, Parts, TypesKept DEF TypeInv
  <1>6. Changes(e)
    BY <1>1, <1>3 DEF Changes
  <1> QED
    BY <1>1, <1>5, <1>6

LEMMA StoreSteps ==
  ASSUME IInv, Store
  PROVE  TypeInv' /\ Stores /\ UNCHANGED call
  <1>1. /\ ~closing /\ live # None /\ debounced' = None
        /\ UNCHANGED <<row, mem, count, live, tickets, held, invalid, closing, locked, call, made, taken, astray>>
        /\ \/ ~locked /\ Schedule /\ UNCHANGED <<meta, lost>>
           \/ /\ loaded' = None /\ meta' = None /\ dirty' = {}
              /\ lost' = lost \cup (Unsaved(loaded) \ mem[live])
           \/ UNCHANGED <<loaded, meta, dirty, lost>>
    BY DEF Store, Event, Saved, fence
  <1>2. live \in Documents /\ live \in Instances
    BY <1>1, Parts DEF RoomInv, Documents
  <1>3. RoomInv' /\ MetaInv' /\ GhostInv'
    BY <1>1, <1>2, Parts, UnsavedForm DEF RoomInv, MetaInv, RowMeta, GhostInv, Schedule
  <1>4. TypeInv'
    BY <1>1, <1>3, Parts, TypesKept DEF TypeInv
  <1>5. Stores
    BY <1>1 DEF Stores
  <1> QED
    BY <1>1, <1>4, <1>5

LEMMA PersistSteps ==
  ASSUME IInv, NEW i \in dirty, Persist(i)
  PROVE  TypeInv' /\ (Calm \/ Evicts \/ WritesBack) /\ UNCHANGED call
  <1>1. /\ ~closing
        /\ UNCHANGED <<mem, count, live, held, debounced, locked, call, made, taken, astray>>
    BY DEF Persist, Event
  <1>2. CASE /\ Droppable(i) /\ dirty' = dirty \ {i}
             /\ UNCHANGED <<row, loaded, meta, tickets, invalid, closing, lost>>
    <2>1. TypeInv'
      BY <1>1, <1>2, Parts, TypesKept DEF TypeInv, RoomInv, ghost
    <2>2. Calm
      BY <1>1, <1>2, Parts DEF Calm, QuietInv
    <2> QED
      BY <1>1, <2>1, <2>2
  <1>3. CASE ~Droppable(i) /\ BeginInvalidate /\ UNCHANGED row
    <2>1. RowInv' /\ row'.stamp \in Nat /\ row.stamp <= row'.stamp /\ locked' \in BOOLEAN /\ held' \subseteq held
      BY <1>1, <1>3, Parts, RowForm DEF RowInv, RoomInv
    <2>2. CallInv'
      BY <1>1, Parts, TypesKept
    <2> QED
      BY <1>1, <1>3, <2>1, <2>2, Invalidates
  <1>4. CASE /\ ~Droppable(i) /\ WriteBack(i) /\ dirty' = dirty \ {i}
             /\ UNCHANGED <<loaded, tickets, invalid, closing, lost>>
    <2>1. ~invalid /\ loaded = i /\ loaded # None /\ ~locked
      BY <1>4, Parts DEF Droppable, QuietInv
    <2>2. /\ row' = IF mem[i] = row.content THEN row
                    ELSE [row EXCEPT !.content = mem[i], !.rev = @ + 1, !.stamp = @ + 1]
          /\ meta' = RowMeta'
      BY <1>4 DEF WriteBack, RowMeta
    <2>3. /\ RowInv' /\ row'.content = mem[i]
          /\ row' = row \/ (row'.rev = row.rev + 1 /\ row'.stamp = row.stamp + 1)
      <3>1. CASE mem[i] = row.content
        BY <3>1, <2>2, Parts DEF RowInv
      <3>2. CASE mem[i] # row.content
        <4> DEFINE Row == [content : SUBSET Item, rev : Nat, stamp : Nat, epoch : Nat]
        <4> DEFINE r == row.rev + 1
        <4> DEFINE s == row.stamp + 1
        <4> DEFINE c == mem[i]
        <4>1. row \in Row /\ r \in Nat /\ s \in Nat
          BY Parts, RowForm DEF RowInv
        <4>2. c \in SUBSET Item
          BY Parts DEF MemInv, RoomInv, Documents
        <4>3. row' = [row EXCEPT !.content = c, !.rev = r, !.stamp = s]
          BY <3>2, <2>2
        <4> HIDE DEF r, s, c
        <4>4. row' \in Row /\ row'.content = c /\ row'.rev = r /\ row'.stamp = s
          BY <4>1, <4>2, <4>3
        <4> QED
          BY <4>4 DEF RowInv, r, s, c
      <3> QED
        BY <3>1, <3>2
    <2>4. RoomInv' /\ MetaInv'
      BY <1>1, <1>4, <2>2, Parts DEF RoomInv, MetaInv
    <2>5. TypeInv'
      BY <1>1, <1>4, <2>3, <2>4, Parts, TypesKept DEF TypeInv, ghost
    <2>6. WritesBack
      BY <1>1, <1>4, <2>1, <2>3 DEF WritesBack
    <2> QED
      BY <1>1, <2>5, <2>6
  <1> QED
    BY <1>2, <1>3, <1>4 DEF Persist

LEMMA EndSteps ==
  ASSUME IInv, EndInvalidate
  PROVE  TypeInv' /\ Ends /\ UNCHANGED call
  <1>1. /\ closing /\ closing' = FALSE
        /\ live' = None /\ tickets' = {} /\ held' = {} /\ debounced' = None
        /\ lost' = lost \cup Unsaved(live)
        /\ UNCHANGED <<row, mem, count, loaded, meta, dirty, invalid, locked, call,
                       made, taken, astray>>
    BY DEF EndInvalidate
  <1>2. RoomInv' /\ GhostInv'
    BY <1>1, Parts, UnsavedForm DEF RoomInv, GhostInv
  <1>3. TypeInv'
    BY <1>1, <1>2, Parts, TypesKept DEF TypeInv
  <1> QED
    BY <1>1, <1>3 DEF Ends

\* The document a mutation has loaded gets its text.
Puts(m) ==
  /\ arg[m].handle \in Documents /\ arg[m].handle # None
  /\ mem'[arg[m].handle] = New(m)
  /\ \A i \in Documents : i # arg[m].handle => mem'[i] = mem[i]

\* m commits: its document becomes the loaded one, or is invalidated.
Writes(m) ==
  /\ Only(m) /\ pc[m] = "loaded" /\ row.rev = arg[m].rev
  /\ arg[m].need => live # None /\ AuthoritativeBase = arg[m].seen
  /\ Puts(m)
  /\ row'.content = New(m) /\ row'.rev = row.rev + 1 /\ row'.stamp = row.stamp + 1
  /\ UNCHANGED <<live, locked, made, taken>>
  /\ astray \subseteq astray' /\ (live \notin {arg[m].handle, None} => New(m) \ mem[live] \subseteq astray')
  /\ arg'[m].read = arg[m].read /\ arg'[m].rev = arg[m].rev /\ arg'[m].stamp = arg[m].stamp
  /\ \/ /\ loaded' = arg[m].handle /\ UNCHANGED <<dirty, closing, invalid, lost>>
        /\ pc'[m] = "applied" /\ answer'[m] = answer[m]
     \/ /\ loaded' = None /\ dirty' = {} /\ invalid' /\ closing'
        /\ lost' = lost \cup Unsaved(live) \cup Unsaved(loaded)
        /\ pc'[m] = "done" /\ answer'[m] = "unconfirmed"

\* m fails with its text in a document, which is invalidated.
Spoils(m) ==
  /\ Only(m) /\ pc[m] = "loaded" /\ pc'[m] = "done" /\ answer'[m] \in Bad
  /\ arg'[m] = arg[m]
  /\ Puts(m)
  /\ UNCHANGED <<row, live, locked, made, taken, astray>>
  /\ loaded' = None /\ dirty' = {} /\ invalid' /\ closing'
  /\ lost' = lost \cup Unsaved(live) \cup Unsaved(loaded)

LEMMA NewForm ==
  ASSUME CallInv, NEW m \in Mutations
  PROVE  New(m) \in SUBSET Item
  BY ArgForm DEF New, Item

LEMMA PutForm ==
  ASSUME IInv, NEW m \in Mutations, pc[m] = "loaded",
         mem' = [mem EXCEPT ![arg[m].handle] = New(m)]
  PROVE  mem' \in [Documents -> SUBSET Item] /\ Puts(m)
  <1>1. arg[m].handle \in Documents /\ arg[m].handle # None
    BY Parts DEF BaseInv, Based
  <1>2. New(m) \in SUBSET Item /\ mem \in [Documents -> SUBSET Item]
    BY Parts, NewForm DEF MemInv
  <1> QED
    BY <1>1, <1>2 DEF Puts

LEMMA CommitForm ==
  ASSUME IInv, NEW m \in Mutations, Commit(m)
  PROVE  /\ pc[m] = "loaded" /\ row.rev = arg[m].rev
         /\ arg[m].need => live # None /\ AuthoritativeBase = arg[m].seen
         /\ mem' \in [Documents -> SUBSET Item] /\ Puts(m) /\ MemInv'
         /\ RowInv' /\ row'.content = New(m) /\ row'.rev = row.rev + 1 /\ row'.stamp = row.stamp + 1
         /\ UNCHANGED <<count, live, debounced, locked, made, taken>>
         /\ astray \subseteq astray' /\ astray' \subseteq Item
         /\ live \notin {arg[m].handle, None} => New(m) \ mem[live] \subseteq astray'
  <1>1. /\ pc[m] = "loaded" /\ row.rev = arg[m].rev
        /\ arg[m].need => live # None /\ AuthoritativeBase = arg[m].seen
        /\ mem' = [mem EXCEPT ![arg[m].handle] = New(m)]
        /\ UNCHANGED <<count, live, debounced, locked, made, taken>>
        /\ astray' = IF live \in {arg[m].handle, None} THEN astray
                     ELSE astray \cup (New(m) \ mem[live])
    BY DEF Commit, Ready, LiveIfNeeded
  <1> DEFINE e == row.epoch + (IF arg[m].bump THEN 1 ELSE 0)
  <1>2. row' = [content |-> New(m), rev |-> row.rev + 1, stamp |-> row.stamp + 1, epoch |-> e]
    BY DEF Commit
  <1>3. e \in Nat
    BY Parts, RowForm
  <1> HIDE DEF e
  <1>4. New(m) \in SUBSET Item
    BY Parts, NewForm
  <1>5. RowInv' /\ row'.content = New(m) /\ row'.rev = row.rev + 1 /\ row'.stamp = row.stamp + 1
    BY <1>2, <1>3, <1>4, Parts, RowForm DEF RowInv
  <1>6. mem' \in [Documents -> SUBSET Item] /\ Puts(m) /\ MemInv'
    BY <1>1, Parts, PutForm DEF MemInv
  <1>7. /\ astray \subseteq astray' /\ astray' \subseteq Item
        /\ live \notin {arg[m].handle, None} => New(m) \ mem[live] \subseteq astray'
    BY <1>1, <1>4, Parts DEF GhostInv
  <1> QED
    BY <1>1, <1>5, <1>6, <1>7

LEMMA ApplySteps ==
  ASSUME IInv, NEW m \in Mutations, Apply(m)
  PROVE  TypeInv' /\ Writes(m)
  <1> DEFINE b == row'.epoch = arg[m].read.epoch
  <1> DEFINE g == [arg[m] EXCEPT !.bump = b]
  <1>1. /\ Commit(m) /\ Goto(m, "applied") /\ loaded' = arg[m].handle
        /\ meta' = RowMeta'
        /\ arg' = [arg EXCEPT ![m].bump = b]
        /\ UNCHANGED <<tickets, held, dirty, invalid, closing, answer, lost>>
    BY DEF Apply, RowMeta
  <1>2. b \in BOOLEAN
    OBVIOUS
  <1> HIDE DEF b
  <1>3. arg' = [arg EXCEPT ![m] = g]
    BY <1>1, Parts DEF CallInv
  <1>4. g \in Arg /\ g.read = arg[m].read /\ g.stamp = arg[m].stamp /\ g.rev = arg[m].rev
    BY <1>2, Parts, ArgForm DEF Arg
  <1> HIDE DEF g
  <1>5. /\ CallInv' /\ Only(m) /\ pc'[m] = "applied" /\ answer'[m] = answer[m]
        /\ arg'[m] = g
    <2>1. pc' = [pc EXCEPT ![m] = "applied"] /\ answer' = answer /\ "applied" \in Places
      BY <1>1, Values DEF Goto
    <2> QED
      BY <1>3, <1>4, <2>1, Parts, HandlerMoves
  <1>6. GhostInv' /\ RoomInv' /\ MetaInv'
    BY <1>1, CommitForm, Parts DEF GhostInv, RoomInv, Puts, MetaInv
  <1>7. TypeInv'
    BY <1>1, <1>5, <1>6, CommitForm DEF TypeInv
  <1>8. Writes(m)
    BY <1>1, <1>4, <1>5, CommitForm DEF Writes
  <1> QED
    BY <1>7, <1>8

LEMMA DivergeSteps ==
  ASSUME IInv, NEW m \in Mutations, ApplyDiverges(m)
  PROVE  TypeInv' /\ Writes(m)
  <1>1. /\ Commit(m) /\ Finish(m, "unconfirmed") /\ BeginInvalidate /\ UNCHANGED arg
    BY DEF ApplyDiverges
  <1>2. /\ CallInv' /\ Only(m) /\ held' \subseteq held
        /\ pc'[m] = "done" /\ answer'[m] = "unconfirmed" /\ arg'[m] = arg[m]
    BY <1>1, Parts, FinishMoves DEF Answers
  <1>3. /\ loaded' = None /\ meta' = None /\ dirty' = {} /\ tickets' = {}
        /\ invalid' = TRUE /\ closing' = TRUE
        /\ lost' = lost \cup Unsaved(live) \cup Unsaved(loaded)
    BY <1>1 DEF BeginInvalidate
  <1>4. GhostInv' /\ RoomInv' /\ MetaInv'
    BY <1>1, <1>2, <1>3, CommitForm, Parts, UnsavedForm DEF GhostInv, RoomInv, MetaInv
  <1>5. TypeInv'
    BY <1>1, <1>2, <1>4, CommitForm DEF TypeInv
  <1>6. Writes(m)
    BY <1>1, <1>2, <1>3, CommitForm DEF Writes
  <1> QED
    BY <1>5, <1>6

LEMMA FailSteps ==
  ASSUME IInv, NEW m \in Mutations, ApplyFails(m)
  PROVE  TypeInv' /\ Spoils(m)
  <1>1. /\ pc[m] = "loaded" /\ BeginInvalidate
        /\ mem' = [mem EXCEPT ![arg[m].handle] = New(m)]
        /\ UNCHANGED <<row, count, live, debounced, locked, arg, made, taken, astray>>
    BY DEF ApplyFails, Ready
  <1>2. PICK a \in {"failed", "stale"} : Finish(m, a)
    BY DEF ApplyFails
  <1>3. a \in Answers /\ a \in Bad
    BY DEF Answers, Bad
  <1>4. /\ CallInv' /\ Only(m) /\ held' \subseteq held
        /\ pc'[m] = "done" /\ answer'[m] = a /\ arg'[m] = arg[m]
    BY <1>1, <1>2, <1>3, Parts, FinishMoves
  <1>5. mem' \in [Documents -> SUBSET Item] /\ Puts(m)
    BY <1>1, PutForm
  <1>6. /\ loaded' = None /\ meta' = None /\ dirty' = {} /\ tickets' = {}
        /\ invalid' = TRUE /\ closing' = TRUE
        /\ lost' = lost \cup Unsaved(live) \cup Unsaved(loaded)
    BY <1>1 DEF BeginInvalidate
  <1>7. GhostInv' /\ RoomInv' /\ MetaInv' /\ MemInv'
    BY <1>1, <1>4, <1>5, <1>6, Parts, UnsavedForm DEF GhostInv, RoomInv, MetaInv, MemInv
  <1>8. TypeInv'
    BY <1>1, <1>4, <1>7, Parts, TypesKept DEF TypeInv
  <1>9. Spoils(m)
    BY <1>1, <1>3, <1>4, <1>5, <1>6 DEF Spoils
  <1> QED
    BY <1>8, <1>9

\* What a step does to the room when no mutation changes a document.
Around == \/ Calm \/ Evicts \/ Opens \/ Stores \/ WritesBack \/ Ends
          \/ \E e \in Edits : Changes(e)

\* The types are kept, and every step is of one of four kinds.
LEMMA StepKinds ==
  ASSUME IInv, [Next]_vars
  PROVE  /\ TypeInv'
         /\ \/ Around /\ Passing
            \/ \E m \in Mutations : Calm /\ Reads(m)
            \/ \E m \in Mutations : Writes(m)
            \/ \E m \in Mutations : Spoils(m)
  <1> USE Parts
  <1>1. ASSUME NEW m \in Mutations, Step(m)
        PROVE  /\ TypeInv'
               /\ \/ Around /\ Passing
                  \/ Calm /\ Reads(m)
                  \/ Writes(m)
                  \/ Spoils(m)
    <2>1. CASE Read(m)
      BY <2>1, ReadSteps
    <2>2. CASE Barrier(m)
      BY <2>2, BarrierSteps DEF Around, Passing
    <2>3. CASE BarrierFails(m)
      BY <2>3, BarrierFailsSteps DEF Around, Passing
    <2>4. CASE Begin(m)
      BY <2>4, BeginSteps DEF Around, Passing
    <2>5. CASE Resolve(m)
      BY <2>5, ResolveSteps DEF Around, Passing
    <2>6. CASE Load(m)
      BY <2>6, LoadSteps DEF Around, Passing
    <2>7. CASE OpenDirect(m)
      BY <2>7, OpeningSteps DEF Around, Passing
    <2>8. CASE \/ BeginStale(m) \/ NoLiveDoc(m) \/ ResolveStale(m) \/ RevalidateStale(m)
               \/ Verify(m) \/ VerifyRewrite(m)
      BY <2>8, RefusedSteps DEF Around, Passing
    <2>9. CASE Guarded(m)
      BY <2>9, GuardedSteps DEF Around, Passing
    <2>10. CASE Apply(m)
      BY <2>10, ApplySteps
    <2>11. CASE ApplyDiverges(m)
      BY <2>11, DivergeSteps
    <2>12. CASE ApplyFails(m)
      BY <2>12, FailSteps
    <2>13. CASE FinishAccept(m)
      BY <2>13, FinishAcceptSteps DEF Around, Passing
    <2> QED
      BY <1>1, <2>1, <2>2, <2>3, <2>4, <2>5, <2>6, <2>7, <2>8, <2>9, <2>10, <2>11,
         <2>12, <2>13 DEF Step
  <1>2. CASE Join \/ Leave \/ Release \/ LockExpires \/ UNCHANGED vars
    BY <1>2, CalmEvents DEF Around, Passing
  <1>3. CASE JoinFirst
    BY <1>3, OpeningSteps DEF Around, Passing
  <1>4. CASE Store
    BY <1>4, StoreSteps DEF Around, Passing
  <1>5. ASSUME NEW e \in Edits, NEW epoch \in tickets, Edit(e, epoch)
        PROVE  TypeInv' /\ Around /\ Passing
    BY <1>5, EditSteps DEF Around, Passing
  <1>6. ASSUME NEW i \in dirty, Persist(i)
        PROVE  TypeInv' /\ Around /\ Passing
    BY <1>6, PersistSteps DEF Around, Passing
  <1>7. CASE EndInvalidate
    BY <1>7, EndSteps DEF Around, Passing
  <1> QED
    BY <1>1, <1>2, <1>3, <1>4, <1>5, <1>6, <1>7 DEF Next

\* What handlers that pass by do not do.
LEMMA PassingBy ==
  ASSUME IInv, Passing \/ \E m \in Mutations : Reads(m)
  PROVE  \A n \in Mutations :
           /\ pc'[n] \notin {"applied", "done"} => pc[n] \notin {"applied", "done"}
           /\ answer'[n] # None => pc'[n] = "done"
           /\ Failed(n) => Failed(n)'
           /\ Failed(n)' => Failed(n) \/ pc[n] \notin {"applied", "done"}
           /\ Passing => arg'[n].read = arg[n].read
  <1> SUFFICES ASSUME NEW n \in Mutations
               PROVE  /\ pc'[n] \notin {"applied", "done"} => pc[n] \notin {"applied", "done"}
                      /\ answer'[n] # None => pc'[n] = "done"
                      /\ Failed(n) => Failed(n)'
                      /\ Failed(n)' => Failed(n) \/ pc[n] \notin {"applied", "done"}
                      /\ Passing => arg'[n].read = arg[n].read
    OBVIOUS
  <1>1. \A m \in Mutations : answer[m] # None => pc[m] = "done"
    BY Parts DEF PlacedInv
  <1>2. CASE UNCHANGED call
    BY <1>1, <1>2 DEF call, Failed
  <1>3. ASSUME NEW m \in Mutations, Settles(m)
        PROVE  /\ pc'[n] \notin {"applied", "done"} => pc[n] \notin {"applied", "done"}
               /\ answer'[n] # None => pc'[n] = "done"
               /\ Failed(n) => Failed(n)'
               /\ Failed(n)' => Failed(n) \/ pc[n] \notin {"applied", "done"}
               /\ arg'[n].read = arg[n].read
    <2>1. CASE n = m
      <3>1. ~Failed(n)
        BY <1>1, <1>3, <2>1, AnswerAssumption, Values DEF Failed, Settles
      <3> QED
        BY <3>1, <1>3, <2>1 DEF Settles, Failed
    <2>2. CASE n # m
      BY <1>1, <1>3, <2>2 DEF Settles, Only, Failed
    <2> QED
      BY <2>1, <2>2
  <1>4. ASSUME NEW m \in Mutations, Advances(m)
        PROVE  /\ pc'[n] \notin {"applied", "done"} => pc[n] \notin {"applied", "done"}
               /\ answer'[n] # None => pc'[n] = "done"
               /\ Failed(n) => Failed(n)'
               /\ Failed(n)' => Failed(n) \/ pc[n] \notin {"applied", "done"}
               /\ arg'[n].read = arg[n].read
    <2>1. CASE n = m
      BY <1>1, <1>4, <2>1 DEF Advances, Failed
    <2>2. CASE n # m
      BY <1>1, <1>4, <2>2 DEF Advances, Only, Failed
    <2> QED
      BY <2>1, <2>2
  <1>5. ASSUME NEW m \in Mutations, Reads(m)
        PROVE  /\ pc'[n] \notin {"applied", "done"} => pc[n] \notin {"applied", "done"}
               /\ answer'[n] # None => pc'[n] = "done"
               /\ Failed(n) => Failed(n)'
               /\ Failed(n)' => Failed(n) \/ pc[n] \notin {"applied", "done"}
    <2>1. CASE n = m
      BY <1>1, <1>5, <2>1 DEF Reads, Failed
    <2>2. CASE n # m
      BY <1>1, <1>5, <2>2 DEF Reads, Only, Failed
    <2> QED
      BY <2>1, <2>2
  <1> QED
    BY <1>2, <1>3, <1>4, <1>5 DEF Passing

\* Documents and the row get content from one another only, and from clients.
LEMMA WhereFrom ==
  ASSUME IInv, Around
  PROVE  /\ \A i \in Documents : \A x \in mem'[i] :
              \/ x \in row.content \/ \E j \in Documents : x \in mem[j]
              \/ x \in Edits /\ x \in made'
         /\ \A x \in row'.content : x \in row.content \/ \E j \in Documents : x \in mem[j]
         /\ made \subseteq made' /\ taken \subseteq taken'
  <1>1. /\ loaded # None => loaded \in Documents
        /\ live # None => live \in Documents
    BY Parts, BaseForm
  <1>2. \A x \in Source : x \in row.content \/ \E j \in Documents : x \in mem[j]
    BY <1>1 DEF Source
  <1>3. CASE Calm
    BY <1>3 DEF Calm
  <1>4. CASE Evicts
    BY <1>4 DEF Evicts
  <1>5. CASE Opens
    BY <1>2, <1>5 DEF Opens
  <1>6. CASE Stores
    BY <1>6 DEF Stores
  <1>7. CASE WritesBack
    BY <1>1, <1>7 DEF WritesBack
  <1>8. CASE Ends
    BY <1>8 DEF Ends
  <1>9. ASSUME NEW e \in Edits, Changes(e)
        PROVE  /\ \A i \in Documents : \A x \in mem'[i] :
                    \/ x \in row.content \/ \E j \in Documents : x \in mem[j]
                    \/ x \in Edits /\ x \in made'
               /\ \A x \in row'.content : x \in row.content \/ \E j \in Documents : x \in mem[j]
               /\ made \subseteq made' /\ taken \subseteq taken'
    BY <1>1, <1>9 DEF Changes
  <1> QED
    BY <1>3, <1>4, <1>5, <1>6, <1>7, <1>8, <1>9 DEF Around

\* What a caller reads is in the row or a document.
LEMMA ReadFrom ==
  ASSUME IInv
  PROVE  \A x \in Authoritative : x \in row.content \/ \E j \in Documents : x \in mem[j]
  BY Parts, BaseForm DEF Authoritative

\* A text is what was read and the mutation itself.
LEMMA PutFrom ==
  ASSUME NEW m \in Mutations, Puts(m)
  PROVE  \A i \in Documents : \A x \in mem'[i] :
           x = m \/ x \in arg[m].read.content \/ x \in mem[i]
  BY DEF Puts, New

\* What goes on in the handler m alone.
LEMMA Alone ==
  ASSUME IInv, NEW m \in Mutations, Writes(m) \/ Spoils(m)
  PROVE  /\ pc'[m] \in {"applied", "done"} /\ pc[m] = "loaded" /\ ~Failed(m)
         /\ answer'[m] # None => pc'[m] = "done"
         /\ \A n \in Mutations : arg'[n].read = arg[n].read
         /\ \A n \in Mutations : n # m => /\ pc'[n] = pc[n] /\ answer'[n] = answer[n]
                                          /\ arg'[n] = arg[n]
         /\ Writes(m) => ~Failed(m)'
         /\ UNCHANGED <<live, made, taken>>
  <1>1. ~Failed(m) /\ answer[m] = None /\ pc[m] = "loaded"
    BY Parts, AnswerAssumption, Values DEF PlacedInv, Failed, Writes, Spoils
  <1>2. Writes(m) => ~Failed(m)'
    BY <1>1, Values DEF Writes, Failed
  <1> QED
    BY <1>1, <1>2 DEF Writes, Spoils, Only

LEMMA PlacedKept ==
  ASSUME IInv, \/ Around /\ Passing
               \/ \E m \in Mutations : (Calm /\ Reads(m)) \/ Writes(m) \/ Spoils(m)
  PROVE  PlacedInv'
  <1> SUFFICES ASSUME NEW n \in Mutations
               PROVE  /\ answer'[n] # None => pc'[n] = "done"
                      /\ pc'[n] \notin {"applied", "done"} =>
                           /\ n \notin row'.content
                           /\ \A i \in Documents : n \notin mem'[i]
                           /\ \A m \in Mutations : n \notin arg'[m].read.content
    BY DEF PlacedInv
  <1>1. /\ answer[n] # None => pc[n] = "done"
        /\ pc[n] \notin {"applied", "done"} =>
             /\ n \notin row.content
             /\ \A i \in Documents : n \notin mem[i]
             /\ \A m \in Mutations : n \notin arg[m].read.content
    BY Parts DEF PlacedInv
  <1>2. n \notin Edits
    BY ItemAssumption
  <1>3. ASSUME Around, Passing \/ \E m \in Mutations : Reads(m)
        PROVE  /\ answer'[n] # None => pc'[n] = "done"
               /\ pc'[n] \notin {"applied", "done"} =>
                    /\ pc[n] \notin {"applied", "done"}
                    /\ n \notin row'.content
                    /\ \A i \in Documents : n \notin mem'[i]
    BY <1>1, <1>2, <1>3, WhereFrom, PassingBy
  <1>4. CASE Around /\ Passing
    BY <1>1, <1>3, <1>4, PassingBy
  <1>5. ASSUME NEW m \in Mutations, Calm, Reads(m)
        PROVE  pc'[n] \notin {"applied", "done"} =>
                 \A k \in Mutations : n \notin arg'[k].read.content
    <2>1. \A k \in Mutations : k # m => arg'[k] = arg[k]
      BY <1>5 DEF Reads, Only
    <2>2. arg'[m].read.content = Authoritative
      BY <1>5 DEF Reads
    <2> QED
      BY <1>1, <1>3, <1>5, <2>1, <2>2, ReadFrom DEF Around
  <1>6. ASSUME NEW m \in Mutations, Writes(m) \/ Spoils(m)
        PROVE  /\ answer'[n] # None => pc'[n] = "done"
               /\ pc'[n] \notin {"applied", "done"} =>
                    /\ n \notin row'.content
                    /\ \A i \in Documents : n \notin mem'[i]
                    /\ \A k \in Mutations : n \notin arg'[k].read.content
    <2>1. CASE n = m
      BY <1>6, <2>1, Alone
    <2>2. CASE n # m
      <3>1. /\ pc'[n] = pc[n] /\ answer'[n] = answer[n]
            /\ \A k \in Mutations : arg'[k].read = arg[k].read
        BY <1>6, <2>2, Alone
      <3>2. row'.content \subseteq row.content \cup New(m) /\ Puts(m)
        BY <1>6 DEF Writes, Spoils
      <3> QED
        BY <1>1, <2>2, <3>1, <3>2, PutFrom DEF New
    <2> QED
      BY <2>1, <2>2
  <1> QED
    BY <1>3, <1>4, <1>5, <1>6 DEF Around

LEMMA ReadKept ==
  ASSUME IInv, \/ Around /\ Passing
               \/ \E m \in Mutations : (Calm /\ Reads(m)) \/ Writes(m) \/ Spoils(m)
  PROVE  ReadInv'
  <1>1. /\ \A m \in Mutations, e \in Edits : e \in arg[m].read.content => e \in taken
        /\ \A m, n \in Mutations : n \in arg[m].read.content => ~Failed(n)
        /\ \A i \in Documents, e \in Edits : e \in mem[i] => e \in made
        /\ \A e \in Edits : e \in row.content => e \in made
    BY Parts DEF ReadInv
  <1>2. /\ \A n \in Mutations : pc[n] \notin {"applied", "done"} =>
             \A m \in Mutations : n \notin arg[m].read.content
        /\ \A n \in Mutations : pc[n] \notin {"applied", "done"} => n \notin Authoritative
    BY Parts, ReadFrom DEF PlacedInv
  <1>3. ASSUME Around
        PROVE  /\ \A i \in Documents, e \in Edits : e \in mem'[i] => e \in made'
               /\ \A e \in Edits : e \in row'.content => e \in made'
               /\ taken \subseteq taken'
    BY <1>1, <1>3, WhereFrom
  <1>4. CASE Around /\ Passing
    BY <1>1, <1>2, <1>3, <1>4, PassingBy DEF ReadInv
  <1>5. ASSUME NEW m \in Mutations, Calm, Reads(m) PROVE ReadInv'
    <2>1. /\ \A k \in Mutations : k # m => arg'[k] = arg[k]
          /\ arg'[m].read.content = Authoritative
          /\ taken' = taken \cup (Authoritative \cap Edits)
          /\ ~closing
      BY <1>5 DEF Reads, Only
    <2>2. \A n \in Mutations : n \in Authoritative => ~Failed(n)
      BY <2>1, Parts DEF CleanInv, Clean, Authoritative
    <2>3. \A k, n \in Mutations : n \in arg'[k].read.content => ~Failed(n)'
      BY <1>1, <1>2, <1>5, <2>1, <2>2, PassingBy
    <2>4. \A k \in Mutations, e \in Edits : e \in arg'[k].read.content => e \in taken'
      BY <1>1, <2>1
    <2> QED
      BY <1>3, <1>5, <2>3, <2>4 DEF ReadInv, Around
  <1>6. ASSUME NEW m \in Mutations, Writes(m) \/ Spoils(m) PROVE ReadInv'
    <2>1. /\ \A n \in Mutations : arg'[n].read = arg[n].read
          /\ \A n \in Mutations : n # m => answer'[n] = answer[n]
          /\ UNCHANGED <<made, taken>> /\ pc[m] = "loaded"
      BY <1>6, Alone
    <2>2. row'.content \subseteq row.content \cup New(m) /\ Puts(m)
      BY <1>6 DEF Writes, Spoils
    <2>3. \A e \in Edits : e \in New(m) => e \in made
      BY <1>1, Parts, ItemAssumption DEF New, GhostInv
    <2>4. /\ \A i \in Documents, e \in Edits : e \in mem'[i] => e \in made'
          /\ \A e \in Edits : e \in row'.content => e \in made'
      BY <1>1, <2>1, <2>2, <2>3 DEF Puts
    <2>5. \A k, n \in Mutations : n \in arg'[k].read.content => ~Failed(n)'
      BY <1>1, <1>2, <2>1 DEF Failed
    <2> QED
      BY <1>1, <2>1, <2>4, <2>5 DEF ReadInv
  <1> QED
    BY <1>4, <1>5, <1>6

LEMMA QuietKept ==
  ASSUME IInv, Around \/ \E m \in Mutations : Writes(m) \/ Spoils(m)
  PROVE  QuietInv'
  <1>1. /\ closing => invalid
        /\ closing \/ locked \/ loaded = None => dirty = {}
        /\ closing /\ loaded # None => mem[loaded] = row.content
        /\ loaded # None => loaded \in Documents
    BY Parts, BaseForm DEF QuietInv
  <1>2. CASE Calm
    BY <1>1, <1>2 DEF Calm, QuietInv
  <1>3. CASE Evicts
    BY <1>3 DEF Evicts, QuietInv
  <1>4. CASE Opens
    BY <1>1, <1>4 DEF Opens, QuietInv, Source
  <1>5. CASE Stores
    BY <1>1, <1>5 DEF Stores, Schedule, QuietInv
  <1>6. CASE WritesBack
    BY <1>1, <1>6 DEF WritesBack, QuietInv
  <1>7. CASE Ends
    BY <1>1, <1>7 DEF Ends, QuietInv
  <1>8. ASSUME NEW e \in Edits, Changes(e) PROVE QuietInv'
    BY <1>1, <1>8 DEF Changes, Schedule, QuietInv
  <1>9. ASSUME NEW m \in Mutations, Writes(m) PROVE QuietInv'
    BY <1>1, <1>9 DEF Writes, Puts, QuietInv
  <1>10. ASSUME NEW m \in Mutations, Spoils(m) PROVE QuietInv'
    BY <1>10 DEF Spoils, QuietInv
  <1> QED
    BY <1>2, <1>3, <1>4, <1>5, <1>6, <1>7, <1>8, <1>9, <1>10 DEF Around

\* What is discarded is not in the row, nor, of what Hocuspocus stores in
\* vain, in the live document.
LEMMA UnsavedIsOut ==
  ASSUME NEW i
  PROVE  \A x \in Unsaved(i) : x \notin row.content /\ x \in Edits
  BY DEF Unsaved

\* Clean content stays clean, if it has nothing of what is discarded now.
LEMMA CleanStays ==
  ASSUME IInv, NEW S, Clean(S),
         Passing \/ \E m \in Mutations : Reads(m),
         \A n \in Mutations : pc[n] \notin {"applied", "done"} => n \notin S,
         \A e \in Edits : e \in S /\ e \in lost' => e \in lost,
         taken \subseteq taken'
  PROVE  /\ \A e \in Edits : e \in S /\ e \in lost' => e \in taken'
         /\ \A m \in Mutations : m \in S => ~Failed(m)'
  BY PassingBy DEF Clean

LEMMA CleanKept ==
  ASSUME IInv, \/ Around /\ Passing
               \/ \E m \in Mutations : (Calm /\ Reads(m)) \/ Writes(m) \/ Spoils(m)
  PROVE  CleanInv'
  <1> DEFINE CleanP(T) == /\ \A e \in Edits : e \in T /\ e \in lost' => e \in taken'
                          /\ \A m \in Mutations : m \in T => ~Failed(m)'
  <1>a. /\ Clean(row.content)
        /\ loaded # None => Clean(mem[loaded])
        /\ live # None /\ ~closing => Clean(mem[live])
        /\ \A i \in dirty : Clean(mem[i])
        /\ loaded # None => loaded \in Documents
        /\ live # None => live \in Documents
        /\ dirty \subseteq Documents
    BY Parts, BaseForm DEF CleanInv, RoomInv, Documents
  <1>b. ASSUME /\ CleanP(row'.content)
               /\ loaded' # None => CleanP(mem'[loaded'])
               /\ live' # None /\ ~closing' => CleanP(mem'[live'])
               /\ \A i \in dirty' : CleanP(mem'[i])
        PROVE  CleanInv'
    BY <1>b DEF CleanInv, Clean, Failed
  <1>c. \A n \in Mutations : pc[n] \notin {"applied", "done"} =>
             /\ n \notin row.content
             /\ \A i \in Documents : n \notin mem[i]
             /\ \A m \in Mutations : n \notin arg[m].read.content
    BY Parts DEF PlacedInv
  <1>d. \A e \in Edits : e \in lost => e \in made
    BY Parts DEF GhostInv
  <1>1. ASSUME Calm \/ Opens \/ (\E e \in Edits : Changes(e)) \/ WritesBack,
               Passing \/ \E m \in Mutations : Reads(m),
               NEW S, Clean(S),
               \A n \in Mutations : pc[n] \notin {"applied", "done"} => n \notin S
        PROVE  CleanP(S)
    <2>1. lost' = lost /\ taken \subseteq taken'
      BY <1>1 DEF Calm, Opens, Changes, WritesBack
    <2> QED
      BY <1>1, <2>1, CleanStays
  <1>2. ASSUME Calm, Passing \/ \E m \in Mutations : Reads(m)
        PROVE  CleanInv'
    <2>1. /\ CleanP(row.content)
          /\ loaded # None => CleanP(mem[loaded])
          /\ live # None /\ ~closing => CleanP(mem[live])
          /\ \A i \in dirty : CleanP(mem[i])
      BY <1>a, <1>c, <1>1, <1>2
    <2>2. /\ UNCHANGED <<row, loaded, closing>> /\ live' \in {live, None} /\ dirty' \subseteq dirty
          /\ live # None \/ loaded # None => mem' = mem
          /\ \A i \in Documents : mem'[i] = mem[i] \/ mem'[i] = row.content
      BY <1>2 DEF Calm
    <2> HIDE DEF CleanP
    <2>3. /\ CleanP(row'.content)
          /\ loaded' # None => CleanP(mem'[loaded'])
          /\ live' # None /\ ~closing' => CleanP(mem'[live'])
          /\ \A i \in dirty' : CleanP(mem'[i])
      BY <1>a, <2>1, <2>2
    <2> QED
      BY <2>3, <1>b
  <1>3. CASE Opens /\ Passing
    <2>1. Clean(Source) /\ \A n \in Mutations : pc[n] \notin {"applied", "done"} => n \notin Source
      BY <1>a, <1>c DEF Source
    <2>2. /\ CleanP(row.content)
          /\ CleanP(Source)
          /\ \A i \in dirty : CleanP(mem[i])
      BY <1>a, <1>c, <2>1, <1>1, <1>3
    <2>3. /\ UNCHANGED <<row, dirty>>
          /\ mem'[live'] = Source /\ mem'[loaded'] = Source
          /\ \A i \in Documents : mem'[i] = mem[i] \/ mem'[i] = Source
      BY <1>3 DEF Opens
    <2> HIDE DEF CleanP
    <2>4. /\ CleanP(row'.content)
          /\ loaded' # None => CleanP(mem'[loaded'])
          /\ live' # None /\ ~closing' => CleanP(mem'[live'])
          /\ \A i \in dirty' : CleanP(mem'[i])
      BY <1>a, <2>2, <2>3
    <2> QED
      BY <2>4, <1>b
  <1>4. CASE WritesBack /\ Passing
    <2>1. /\ CleanP(mem[loaded])
          /\ live # None /\ ~closing => CleanP(mem[live])
          /\ \A i \in dirty : CleanP(mem[i])
      BY <1>a, <1>c, <1>1, <1>4 DEF WritesBack
    <2>2. /\ row'.content = mem[loaded] /\ UNCHANGED <<mem, live, loaded, closing>>
          /\ dirty' \subseteq dirty
      BY <1>4 DEF WritesBack
    <2> HIDE DEF CleanP
    <2>3. /\ CleanP(row'.content)
          /\ loaded' # None => CleanP(mem'[loaded'])
          /\ live' # None /\ ~closing' => CleanP(mem'[live'])
          /\ \A i \in dirty' : CleanP(mem'[i])
      BY <2>1, <2>2
    <2> QED
      BY <2>3, <1>b
  <1>5. ASSUME NEW e \in Edits, Changes(e), Passing
        PROVE  CleanInv'
    <2>1. /\ CleanP(row.content)
          /\ loaded # None => CleanP(mem[loaded])
          /\ CleanP(mem[live])
          /\ \A i \in dirty : CleanP(mem[i])
      BY <1>a, <1>c, <1>1, <1>5 DEF Changes
    <2>2. /\ UNCHANGED <<row, live, lost>> /\ live # None
          /\ mem'[live] = mem[live] \cup {e}
          /\ \A i \in Documents : i # live => mem'[i] = mem[i]
          /\ (loaded' = live /\ dirty' = dirty \cup {live}) \/ UNCHANGED <<loaded, dirty>>
      BY <1>5 DEF Changes, Schedule
    <2>3. e \notin lost' /\ e \notin Mutations
      BY <1>5, <1>d, ItemAssumption DEF Changes
    <2>4. CleanP(mem[live] \cup {e})
      BY <2>1, <2>3
    <2> HIDE DEF CleanP
    <2>5. \A i \in Documents : CleanP(mem[i]) => CleanP(mem'[i])
      BY <2>2, <2>4
    <2>6. CleanP(mem'[live])
      BY <2>2, <2>4
    <2>7. /\ CleanP(row'.content)
          /\ loaded' # None => CleanP(mem'[loaded'])
          /\ live' # None /\ ~closing' => CleanP(mem'[live'])
          /\ \A i \in dirty' : CleanP(mem'[i])
      BY <1>a, <2>1, <2>2, <2>5, <2>6
    <2> QED
      BY <2>7, <1>b
  <1>6. CASE Evicts /\ Passing
    <2>1. lost' = lost \cup Unsaved(live) \cup Unsaved(loaded) /\ UNCHANGED taken
      BY <1>6 DEF Evicts
    <2>2. \A e \in Edits : e \in row.content /\ e \in lost' => e \in lost
      BY <2>1, UnsavedIsOut
    <2>3. CleanP(row.content)
      BY <1>a, <1>c, <1>6, <2>1, <2>2, CleanStays
    <2>4. /\ row'.content = row.content
          /\ loaded' = None /\ closing' /\ dirty' = {}
      BY <1>6 DEF Evicts
    <2> HIDE DEF CleanP
    <2> QED
      BY <2>3, <2>4, <1>b
  <1>7. CASE Ends /\ Passing
    <2>1. /\ lost' = lost \cup Unsaved(live)
          /\ UNCHANGED <<row, mem, loaded, taken, dirty>>
          /\ closing /\ live' = None
      BY <1>7 DEF Ends
    <2>2. \A e \in Edits : e \in row.content /\ e \in lost' => e \in lost
      BY <2>1, UnsavedIsOut
    <2>3. CleanP(row.content)
      BY <1>a, <1>c, <1>7, <2>1, <2>2, CleanStays
    <2>4. dirty = {} /\ (loaded # None => mem[loaded] = row.content)
      BY <2>1, Parts DEF QuietInv
    <2> HIDE DEF CleanP
    <2> QED
      BY <2>1, <2>3, <2>4, <1>b
  <1>8. CASE Stores /\ Passing
    <2>1. /\ UNCHANGED <<row, mem, live, taken>> /\ live # None /\ ~closing
          /\ \/ loaded' = live /\ dirty' = dirty \cup {live} /\ lost' = lost
             \/ loaded' = None /\ dirty' = {} /\ lost' = lost \cup (Unsaved(loaded) \ mem[live])
             \/ UNCHANGED <<loaded, dirty, lost>>
      BY <1>8 DEF Stores, Schedule
    <2>2. /\ \A e \in Edits : e \in row.content /\ e \in lost' => e \in lost
          /\ \A e \in Edits : e \in mem[live] /\ e \in lost' => e \in lost
      BY <2>1, UnsavedIsOut
    <2>3. CleanP(row.content) /\ CleanP(mem[live])
      BY <1>a, <1>c, <1>8, <2>1, <2>2, CleanStays
    <2>4. CASE lost' = lost
      <3>1. /\ loaded # None => CleanP(mem[loaded])
            /\ \A i \in dirty : CleanP(mem[i])
        BY <1>a, <1>c, <1>8, <2>1, <2>4, CleanStays
      <3> HIDE DEF CleanP
      <3>2. /\ CleanP(row'.content)
            /\ loaded' # None => CleanP(mem'[loaded'])
            /\ live' # None /\ ~closing' => CleanP(mem'[live'])
            /\ \A i \in dirty' : CleanP(mem'[i])
        BY <2>1, <2>3, <3>1
      <3> QED
        BY <3>2, <1>b
    <2>5. CASE loaded' = None /\ dirty' = {}
      <3> HIDE DEF CleanP
      <3> QED
        BY <2>1, <2>3, <2>5, <1>b
    <2> QED
      BY <2>1, <2>4, <2>5
  <1>9. ASSUME NEW m \in Mutations, Writes(m)
        PROVE  CleanInv'
    <2>1. /\ \A n \in Mutations : n # m => answer'[n] = answer[n]
          /\ ~Failed(m)' /\ UNCHANGED <<live, taken>> /\ pc[m] = "loaded"
      BY <1>9, Alone
    <2>2. /\ \A e \in Edits : e \in New(m) => e \in taken
          /\ \A n \in Mutations : n \in New(m) => ~Failed(n)'
      BY <2>1, Parts, ItemAssumption DEF ReadInv, New, Failed
    <2>3. CleanP(New(m))
      BY <2>1, <2>2
    <2>4. \A S : Clean(S) /\ lost' = lost => CleanP(S)
      BY <2>1 DEF Clean, Failed
    <2>5. /\ row'.content = New(m)
          /\ arg[m].handle \in Documents
          /\ mem'[arg[m].handle] = New(m)
          /\ \A i \in Documents : i # arg[m].handle => mem'[i] = mem[i]
          /\ \/ loaded' = arg[m].handle /\ UNCHANGED <<dirty, closing, lost>>
             \/ loaded' = None /\ dirty' = {} /\ closing'
      BY <1>9 DEF Writes, Puts
    <2>6. \A i \in Documents : Clean(mem[i]) /\ lost' = lost => CleanP(mem'[i])
      <3> SUFFICES ASSUME NEW i \in Documents, Clean(mem[i]), lost' = lost
                   PROVE  CleanP(mem'[i])
        OBVIOUS
      <3>1. CASE i = arg[m].handle
        BY <2>3, <2>5, <3>1
      <3>2. CASE i # arg[m].handle
        BY <2>4, <2>5, <3>2
      <3> QED
        BY <3>1, <3>2
    <2> HIDE DEF CleanP
    <2>7. /\ CleanP(row'.content)
          /\ loaded' # None => CleanP(mem'[loaded'])
          /\ live' # None /\ ~closing' => CleanP(mem'[live'])
          /\ \A i \in dirty' : CleanP(mem'[i])
      BY <1>a, <2>1, <2>3, <2>5, <2>6
    <2> QED
      BY <2>7, <1>b
  <1>10. ASSUME NEW m \in Mutations, Spoils(m)
         PROVE  CleanInv'
    <2>1. /\ \A n \in Mutations : n # m => answer'[n] = answer[n]
          /\ pc[m] = "loaded" /\ taken' = taken
      BY <1>10, Alone
    <2>2. /\ row'.content = row.content /\ loaded' = None /\ dirty' = {} /\ closing'
          /\ lost' = lost \cup Unsaved(live) \cup Unsaved(loaded)
      BY <1>10 DEF Spoils
    <2>3. m \notin row.content
      BY <1>c, <2>1
    <2>4. CleanP(row.content)
      BY <1>a, <2>1, <2>2, <2>3, UnsavedIsOut DEF Clean, Failed
    <2> HIDE DEF CleanP
    <2> QED
      BY <2>2, <2>4, <1>b
  <1> QED
    BY <1>2, <1>3, <1>4, <1>5, <1>6, <1>7, <1>8, <1>9, <1>10 DEF Around

\* A row with the same revision, or the same updated_at, has the same content.
LEMMA RowSteps ==
  ASSUME IInv, Around \/ \E m \in Mutations : Writes(m) \/ Spoils(m)
  PROVE  /\ row.rev <= row'.rev /\ row.stamp <= row'.stamp
         /\ row'.rev = row.rev => row'.content = row.content
         /\ row'.stamp = row.stamp => row'.content = row.content
         /\ row.rev \in Nat /\ row.stamp \in Nat
         /\ astray \subseteq astray'
  <1>1. row.rev \in Nat /\ row.stamp \in Nat
    BY Parts, RowForm
  <1>2. CASE Calm
    BY <1>1, <1>2 DEF Calm
  <1>3. CASE Evicts
    BY <1>1, <1>3 DEF Evicts
  <1>4. CASE Opens
    BY <1>1, <1>4 DEF Opens
  <1>5. CASE Stores
    BY <1>1, <1>5 DEF Stores
  <1>6. CASE WritesBack
    BY <1>1, <1>6 DEF WritesBack
  <1>7. CASE Ends
    BY <1>1, <1>7 DEF Ends
  <1>8. ASSUME NEW e \in Edits, Changes(e)
        PROVE  UNCHANGED <<row, astray>>
    BY <1>8 DEF Changes
  <1>9. ASSUME NEW m \in Mutations, Writes(m)
        PROVE  row'.rev = row.rev + 1 /\ row'.stamp = row.stamp + 1 /\ astray \subseteq astray'
    BY <1>9 DEF Writes
  <1>10. ASSUME NEW m \in Mutations, Spoils(m)
         PROVE  UNCHANGED <<row, astray>>
    BY <1>10 DEF Spoils
  <1> QED
    BY <1>1, <1>2, <1>3, <1>4, <1>5, <1>6, <1>7, <1>8, <1>9, <1>10 DEF Around

LEMMA HasKept ==
  ASSUME IInv, \/ Around /\ Passing
               \/ \E m \in Mutations : (Calm /\ Reads(m)) \/ Writes(m) \/ Spoils(m)
  PROVE  HasInv'
  <1> DEFINE HasP(S) == \A x \in row'.content : x \in S \/ x \in astray'
  <1> DEFINE Spoilt(S) == \E m \in Mutations : m \in S /\ Failed(m)
  <1> DEFINE SpoiltP(S) == \E m \in Mutations : m \in S /\ Failed(m)'
  <1>a. /\ loaded # None => Has(mem[loaded])
        /\ live # None => Has(mem[live]) \/ Spoilt(mem[live])
        /\ live # None /\ loaded # None =>
             \A x \in mem[loaded] : x \in mem[live] \/ x \in astray
        /\ live # None /\ ~closing => ~Spoilt(mem[live])
        /\ loaded # None => loaded \in Documents
        /\ live # None => live \in Documents
    BY Parts, BaseForm DEF HasInv, CleanInv, Clean
  <1>b. ASSUME /\ loaded' # None => HasP(mem'[loaded'])
               /\ live' # None => HasP(mem'[live']) \/ SpoiltP(mem'[live'])
               /\ live' # None /\ loaded' # None =>
                    \A x \in mem'[loaded'] : x \in mem'[live'] \/ x \in astray'
        PROVE  HasInv'
    BY <1>b DEF HasInv, Has, Failed
  <1>c. astray \subseteq astray'
    BY RowSteps DEF Around
  <1>d. ASSUME Around, Passing \/ \E m \in Mutations : Reads(m)
        PROVE  \A S : Spoilt(S) => SpoiltP(S)
    BY <1>d, PassingBy
  <1>e. \A S : row'.content = row.content /\ Has(S) => HasP(S)
    BY <1>c DEF Has
  <1>1. ASSUME Calm, Passing \/ \E m \in Mutations : Reads(m)
        PROVE  HasInv'
    <2>1. \A S : Spoilt(S) => SpoiltP(S)
      BY <1>1, <1>d DEF Around
    <2>2. /\ UNCHANGED <<row, loaded, astray>> /\ live' \in {live, None}
          /\ live # None \/ loaded # None => mem' = mem
      BY <1>1 DEF Calm
    <2> HIDE DEF HasP, Spoilt, SpoiltP
    <2> QED
      BY <1>a, <1>b, <1>e, <2>1, <2>2
  <1>2. CASE Evicts /\ Passing
    <2>1. \A S : Spoilt(S) => SpoiltP(S)
      BY <1>2, <1>d DEF Around
    <2>2. /\ row'.content = row.content /\ loaded' = None /\ live' = live
          /\ mem' = mem
      BY <1>2 DEF Evicts
    <2> HIDE DEF HasP, Spoilt, SpoiltP
    <2> QED
      BY <1>a, <1>b, <1>e, <2>1, <2>2
  <1>3. CASE Opens /\ Passing
    <2>1. Has(Source)
      BY <1>a DEF Source, Has
    <2>2. row' = row /\ mem'[live'] = Source /\ mem'[loaded'] = Source
      BY <1>3 DEF Opens
    <2>3. HasP(Source)
      BY <1>e, <2>1, <2>2
    <2> HIDE DEF HasP, Spoilt, SpoiltP
    <2> QED
      BY <1>b, <2>2, <2>3
  <1>4. CASE Stores /\ Passing
    <2>1. /\ UNCHANGED <<row, mem, live>> /\ live # None /\ ~closing
          /\ loaded' \in {live, None, loaded}
      BY <1>4 DEF Stores, Schedule
    <2>2. Has(mem[live])
      BY <1>a, <2>1
    <2>3. HasP(mem[live]) /\ (loaded # None => HasP(mem[loaded]))
      BY <1>a, <1>e, <2>1, <2>2
    <2> HIDE DEF HasP, Spoilt, SpoiltP
    <2> QED
      BY <1>a, <1>b, <1>c, <2>1, <2>3
  <1>5. CASE WritesBack /\ Passing
    <2>1. /\ UNCHANGED <<mem, live, loaded, astray>> /\ loaded # None
          /\ row'.content = mem[loaded]
      BY <1>5 DEF WritesBack
    <2>2. HasP(mem[loaded]) /\ (live # None => HasP(mem[live]))
      BY <1>a, <2>1
    <2> HIDE DEF HasP, Spoilt, SpoiltP
    <2> QED
      BY <1>a, <1>b, <2>1, <2>2
  <1>6. CASE Ends /\ Passing
    <2>1. UNCHANGED <<row, mem, loaded, astray>> /\ live' = None
      BY <1>6 DEF Ends
    <2> HIDE DEF HasP, Spoilt, SpoiltP
    <2> QED
      BY <1>a, <1>b, <1>e, <2>1
  <1>7. ASSUME NEW e \in Edits, Changes(e), Passing
        PROVE  HasInv'
    <2>1. /\ UNCHANGED <<row, live, astray>> /\ live # None /\ ~closing
          /\ mem'[live] = mem[live] \cup {e}
          /\ \A i \in Documents : i # live => mem'[i] = mem[i]
          /\ loaded' \in {live, loaded}
      BY <1>7 DEF Changes, Schedule
    <2>2. Has(mem[live])
      BY <1>a, <2>1
    <2>3. HasP(mem[live]) /\ (loaded # None => HasP(mem[loaded]))
      BY <1>a, <1>e, <2>1, <2>2
    <2>4. HasP(mem'[live])
      BY <2>1, <2>3
    <2>5. CASE loaded' = live
      <3> HIDE DEF HasP, Spoilt, SpoiltP
      <3> QED
        BY <1>b, <2>1, <2>4, <2>5
    <2>6. CASE loaded' # live
      <3>1. loaded' # None => mem'[loaded'] = mem[loaded]
        BY <1>a, <2>1, <2>6
      <3> HIDE DEF HasP, Spoilt, SpoiltP
      <3> QED
        BY <1>a, <1>b, <2>1, <2>3, <2>4, <2>6, <3>1
    <2> QED
      BY <2>5, <2>6
  <1>8. ASSUME NEW m \in Mutations, Writes(m)
        PROVE  HasInv'
    <2>1. /\ row'.content = New(m) /\ live' = live
          /\ arg[m].handle \in Documents
          /\ mem'[arg[m].handle] = New(m)
          /\ \A i \in Documents : i # arg[m].handle => mem'[i] = mem[i]
          /\ live \notin {arg[m].handle, None} => New(m) \ mem[live] \subseteq astray'
          /\ loaded' \in {arg[m].handle, None}
      BY <1>8 DEF Writes, Puts
    <2>2. live # None => \A x \in New(m) : x \in mem'[live] \/ x \in astray'
      BY <1>a, <2>1
    <2>3. live # None => HasP(mem'[live])
      BY <2>1, <2>2
    <2>4. HasP(New(m))
      BY <2>1
    <2> HIDE DEF HasP, Spoilt, SpoiltP
    <2> QED
      BY <1>b, <2>1, <2>2, <2>3, <2>4
  <1>9. ASSUME NEW m \in Mutations, Spoils(m)
        PROVE  HasInv'
    <2>1. /\ UNCHANGED <<row, live, astray>> /\ loaded' = None
          /\ mem'[arg[m].handle] = New(m)
          /\ \A i \in Documents : i # arg[m].handle => mem'[i] = mem[i]
          /\ Failed(m)'
      BY <1>9 DEF Spoils, Puts, Failed
    <2>2. \A n \in Mutations : n # m => answer'[n] = answer[n]
      BY <1>9, Alone
    <2>3. \A S : Spoilt(S) => SpoiltP(S)
      BY <2>1, <2>2 DEF Failed
    <2>4. SpoiltP(New(m))
      BY <2>1 DEF New
    <2>5. live # None => HasP(mem'[live]) \/ SpoiltP(mem'[live])
      <3>1. CASE live = arg[m].handle
        BY <2>1, <2>4, <3>1
      <3>2. CASE live # arg[m].handle
        <4> HIDE DEF HasP, Spoilt, SpoiltP
        <4> QED
          BY <1>a, <1>e, <2>1, <2>3, <3>2
      <3> QED
        BY <3>1, <3>2
    <2> HIDE DEF HasP, Spoilt, SpoiltP
    <2> QED
      BY <1>b, <2>1, <2>5
  <1> QED
    BY <1>1, <1>2, <1>3, <1>4, <1>5, <1>6, <1>7, <1>8, <1>9 DEF Around

\* The base of a handler that does not move keeps what it is known to have.
LEMMA BasedStays ==
  ASSUME IInv, TypeInv', Around \/ \E m \in Mutations : Writes(m) \/ Spoils(m),
         NEW n \in Mutations, pc'[n] = pc[n], arg'[n] = arg[n]
  PROVE  Based(n)'
  <1>1. Based(n) /\ arg[n].rev \in Nat /\ arg[n].stamp \in Nat
    BY Parts, ArgForm DEF BaseInv
  <1>2. \A S : Has(S) /\ row'.content = row.content =>
                 \A x \in row'.content : x \in S \/ x \in astray'
    BY RowSteps DEF Has
  <1>3. /\ arg[n].rev <= row'.rev /\ arg[n].stamp <= row'.stamp
        /\ arg[n].rev = row'.rev => arg[n].rev = row.rev /\ row'.content = row.content
        /\ arg[n].stamp = row'.stamp => arg[n].stamp = row.stamp /\ row'.content = row.content
    <2>1. row'.rev \in Nat /\ row'.stamp \in Nat
      BY DEF TypeInv, RowInv
    <2> QED
      BY <1>1, <2>1, RowSteps DEF Based
  <1> QED
    BY <1>1, <1>2, <1>3 DEF Based, Has

\* A handler that has applied or is done has no base to keep.
LEMMA BasedAtTheEnd ==
  ASSUME IInv, TypeInv', Around \/ \E m \in Mutations : Writes(m) \/ Spoils(m),
         NEW n \in Mutations, pc'[n] \in {"applied", "done"},
         arg'[n].rev = arg[n].rev, arg'[n].stamp = arg[n].stamp
  PROVE  Based(n)'
  <1>1. /\ Based(n) /\ arg[n].rev \in Nat /\ arg[n].stamp \in Nat
        /\ row'.rev \in Nat /\ row'.stamp \in Nat
    BY Parts, ArgForm DEF BaseInv, TypeInv, RowInv
  <1>2. arg[n].rev <= row'.rev /\ arg[n].stamp <= row'.stamp
    BY <1>1, RowSteps DEF Based
  <1> QED
    BY <1>2 DEF Based

LEMMA BaseKept ==
  ASSUME IInv, TypeInv',
         \/ Around /\ Passing
         \/ \E m \in Mutations : (Calm /\ Reads(m)) \/ Writes(m) \/ Spoils(m)
  PROVE  BaseInv'
  <1> SUFFICES ASSUME NEW n \in Mutations PROVE Based(n)'
    BY DEF BaseInv
  <1>1. CASE Around /\ UNCHANGED call
    BY <1>1, BasedStays DEF call
  <1>2. ASSUME Around, NEW m \in Mutations, Settles(m) PROVE Based(n)'
    <2>1. CASE n = m
      BY <1>2, <2>1, BasedAtTheEnd DEF Settles
    <2>2. CASE n # m
      BY <1>2, <2>2, BasedStays DEF Settles, Only
    <2> QED
      BY <2>1, <2>2
  <1>3. ASSUME Around, NEW m \in Mutations, Advances(m), Based(m)' PROVE Based(n)'
    <2>1. CASE n = m
      BY <1>3, <2>1
    <2>2. CASE n # m
      BY <1>3, <2>2, BasedStays DEF Advances, Only
    <2> QED
      BY <2>1, <2>2
  <1>4. ASSUME NEW m \in Mutations, Calm, Reads(m) PROVE Based(n)'
    <2>1. CASE n = m
      <3>1. /\ ~closing /\ pc'[m] = "read"
            /\ arg'[m].read.content = Authoritative
            /\ arg'[m].rev = row.rev /\ arg'[m].stamp = row.stamp
            /\ row' = row /\ astray' = astray
        BY <1>4 DEF Reads, Calm
      <3>2. Has(Authoritative)
        BY <3>1, Parts, ReadersHaveTheRow DEF CleanInv, Clean
      <3>3. \A x \in row'.content : x \in arg'[m].read.content \/ x \in astray'
        BY <3>1, <3>2 DEF Has
      <3>4. row.rev <= row.rev /\ row.stamp <= row.stamp
        BY Parts, RowForm
      <3> QED
        BY <2>1, <3>1, <3>3, <3>4 DEF Based, Has
    <2>2. CASE n # m
      BY <1>4, <2>2, BasedStays DEF Reads, Only, Around
    <2> QED
      BY <2>1, <2>2
  <1>5. ASSUME NEW m \in Mutations, Writes(m) PROVE Based(n)'
    <2>1. CASE n = m
      BY <1>5, <2>1, BasedAtTheEnd DEF Writes
    <2>2. CASE n # m
      BY <1>5, <2>2, BasedStays DEF Writes, Only
    <2> QED
      BY <2>1, <2>2
  <1>6. ASSUME NEW m \in Mutations, Spoils(m) PROVE Based(n)'
    <2>1. CASE n = m
      BY <1>6, <2>1, BasedAtTheEnd DEF Spoils, Bad
    <2>2. CASE n # m
      BY <1>6, <2>2, BasedStays DEF Spoils, Only
    <2> QED
      BY <2>1, <2>2
  <1> QED
    BY <1>1, <1>2, <1>3, <1>4, <1>5, <1>6 DEF Passing

-----------------------------------------------------------------------------
LEMMA InitIInv == Init => IInv
  <1> SUFFICES ASSUME Init PROVE IInv
    OBVIOUS
  <1> DEFINE nothing == [content |-> {}, epoch |-> 0]
  <1> DEFINE g == [read |-> nothing, stamp |-> 0, rev |-> 0, need |-> FALSE,
                   bump |-> FALSE, seen |-> nothing, handle |-> None]
  <1>1. /\ row = [content |-> {}, rev |-> 0, stamp |-> 0, epoch |-> 0]
        /\ mem = [i \in Documents |-> {}] /\ count = 0
        /\ live = None /\ loaded = None /\ meta = None
        /\ tickets = {} /\ held = {} /\ dirty = {} /\ debounced = None
        /\ invalid = FALSE /\ closing = FALSE /\ locked = FALSE
        /\ pc = [m \in Mutations |-> "idle"]
        /\ arg = [m \in Mutations |-> g]
        /\ answer = [m \in Mutations |-> None]
        /\ made = {} /\ lost = {} /\ taken = {} /\ astray = {}
    BY DEF Init, Documents
  <1>2. /\ g \in Arg /\ g.read.content = {} /\ g.rev = 0 /\ g.stamp = 0
    BY DEF Arg, Base
  <1> HIDE DEF g
  <1>3. TypeInv
    <2>1. RowInv
      BY <1>1 DEF RowInv
    <2>2. MemInv
      BY <1>1, InstAssumption DEF MemInv
    <2>3. RoomInv /\ MetaInv /\ GhostInv
      BY <1>1 DEF RoomInv, MetaInv, GhostInv
    <2>4. CallInv
      BY <1>1, <1>2 DEF CallInv, Places
    <2> QED
      BY <2>1, <2>2, <2>3, <2>4 DEF TypeInv
  <1>4. /\ \A m \in Mutations : pc[m] = "idle" /\ ~Failed(m) /\ arg[m] = g /\ answer[m] = None
        /\ row.content = {} /\ row.rev = 0 /\ row.stamp = 0
        /\ \A i \in Documents : mem[i] = {}
    BY <1>1, AnswerAssumption, Values DEF Failed
  <1>5. PlacedInv /\ ReadInv /\ QuietInv
    BY <1>1, <1>2, <1>4 DEF PlacedInv, ReadInv, QuietInv
  <1>6. CleanInv /\ HasInv
    BY <1>1, <1>4 DEF CleanInv, Clean, HasInv
  <1>7. BaseInv
    BY <1>2, <1>4 DEF BaseInv, Based
  <1> QED
    BY <1>3, <1>5, <1>6, <1>7 DEF IInv

LEMMA Inductive == IInv /\ [Next]_vars => IInv'
  <1> SUFFICES ASSUME IInv, [Next]_vars PROVE IInv'
    OBVIOUS
  <1>1. /\ TypeInv'
        /\ \/ Around /\ Passing
           \/ \E m \in Mutations : (Calm /\ Reads(m)) \/ Writes(m) \/ Spoils(m)
    BY StepKinds
  <1>2. Around \/ \E m \in Mutations : Writes(m) \/ Spoils(m)
    BY <1>1 DEF Around
  <1> QED
    BY <1>1, <1>2, PlacedKept, ReadKept, QuietKept, CleanKept, HasKept, BaseKept DEF IInv

LEMMA AlwaysIInv == Spec => []IInv
  BY InitIInv, Inductive, PTL DEF Spec

-----------------------------------------------------------------------------
\* Rows, documents, metadata and handlers have the types that the code gives
\* them, and the metadata of the loaded document is the version of the row or
\* missing, whichever of persistDoc, mutateCanonicalDocument and
\* prepareRewriteCollabBarrier wrote the row last.
THEOREM TypeCorrect == Spec => []TypeOK
  <1>1. IInv => TypeOK
    <2> SUFFICES ASSUME IInv PROVE TypeOK
      OBVIOUS
    <2>1. /\ row \in [content : SUBSET Item, rev : Nat, stamp : Nat, epoch : Nat]
          /\ mem \in [Instances \cup {Copy} -> SUBSET Item]
          /\ count \in 0 .. MaxInst
      BY Parts DEF RowInv, MemInv, Documents
    <2>2. /\ live \in Instances \cup {None}
          /\ loaded \in Instances \cup {Copy, None}
          /\ tickets \subseteq Nat /\ held \subseteq Mutations
          /\ dirty \subseteq Instances /\ debounced \in Nat \cup {None}
          /\ {invalid, closing, locked} \subseteq BOOLEAN /\ (closing => invalid)
      BY Parts DEF RoomInv, QuietInv, Documents
    <2>3. meta \in {None, [stamp |-> row.stamp, epoch |-> row.epoch]}
      BY Parts DEF MetaInv, RowMeta
    <2>4. /\ pc \in [Mutations -> Places]
          /\ arg \in [Mutations -> Arg]
          /\ answer \in [Mutations -> Answers \cup {None}]
          /\ made \subseteq Edits /\ lost \cup taken \subseteq made /\ astray \subseteq Item
      BY Parts DEF CallInv, GhostInv
    <2> QED
      BY <2>1, <2>2, <2>3, <2>4 DEF TypeOK
  <1> QED
    BY <1>1, AlwaysIInv, PTL

\* A mutation that was refused or failed is not in the row, although
\* mutateCanonicalDocument may have changed the live document before it failed,
\* and an edit that an invalidation discarded is there only if a mutation had
\* read it.
THEOREM RefusedStaysOut == Spec => []DiscardedStaysOut
  <1>1. IInv => DiscardedStaysOut
    BY Parts DEF CleanInv, Clean, GhostInv, DiscardedStaysOut, Discarded, Failed, Bad
  <1> QED
    BY <1>1, AlwaysIInv, PTL

\* Only the steps that write the row commit a mutation.
LEMMA CommitsAreWrites ==
  ASSUME IInv, NEW m \in Mutations, Commits(m),
         \/ Around /\ Passing
         \/ \E n \in Mutations : (Calm /\ Reads(n)) \/ Writes(n) \/ Spoils(n)
  PROVE  Writes(m)
  <1>1. pc[m] = "loaded" /\ (pc'[m] = "applied" \/ answer'[m] = "unconfirmed")
    BY DEF Commits
  <1>2. answer[m] = None /\ None # "unconfirmed"
    BY <1>1, Parts, AnswerAssumption, Values DEF PlacedInv
  <1>3. ASSUME NEW n \in Mutations, n # m, Only(n) PROVE FALSE
    BY <1>1, <1>2, <1>3 DEF Only
  <1>4. ~UNCHANGED call
    BY <1>1, <1>2 DEF call
  <1>5. ASSUME NEW n \in Mutations, Settles(n) PROVE FALSE
    BY <1>1, <1>3, <1>5 DEF Settles
  <1>6. ASSUME NEW n \in Mutations, Advances(n) PROVE FALSE
    BY <1>1, <1>3, <1>6 DEF Advances
  <1>7. ASSUME NEW n \in Mutations, Reads(n) PROVE FALSE
    BY <1>1, <1>3, <1>7 DEF Reads
  <1>8. ASSUME NEW n \in Mutations, Spoils(n) PROVE FALSE
    <2>1. n = m
      BY <1>3, <1>8 DEF Spoils
    <2> QED
      BY <1>1, <1>8, <2>1 DEF Spoils, Bad
  <1>9. ASSUME NEW n \in Mutations, Writes(n) PROVE n = m
    BY <1>3, <1>9 DEF Writes
  <1> QED
    BY <1>4, <1>5, <1>6, <1>7, <1>8, <1>9 DEF Passing

\* What a step takes from the row.
LEMMA RowTaken ==
  ASSUME IInv, [Next]_vars
  PROVE  /\ row.content \ row'.content \subseteq astray \/ Rewrites
         /\ locked /\ row'.content # row.content => \E m \in Mutations : Commits(m)
  <1>1. CASE Around
    <2>1. row'.content = row.content \/ WritesBack
      BY <1>1 DEF Around, Calm, Evicts, Opens, Stores, Ends, Changes
    <2>2. ASSUME WritesBack PROVE row.content \ row'.content \subseteq astray /\ ~locked
      BY <2>2, Parts DEF WritesBack, HasInv, Has
    <2> QED
      BY <2>1, <2>2
  <1>2. ASSUME NEW m \in Mutations, Writes(m)
        PROVE  Commits(m) /\ (row.content \ row'.content \subseteq astray \/ Rewrites)
    <2>1. Commits(m) /\ pc[m] = "loaded" /\ arg[m].rev = row.rev /\ row'.content = New(m)
      BY <1>2 DEF Writes, Commits
    <2>2. CASE Kind[m] = "rewrite"
      BY <2>1, <2>2 DEF Rewrites
    <2>3. CASE Kind[m] # "rewrite"
      <3>1. Kind[m] \in {"token", "updatedAt", "accept"}
        BY <2>3, KindAssumption
      <3>2. Has(arg[m].read.content)
        BY <2>1, <3>1, Parts DEF BaseInv, Based
      <3> QED
        BY <2>1, <3>2 DEF Has, New
    <2> QED
      BY <2>1, <2>2, <2>3
  <1>3. ASSUME NEW m \in Mutations, Spoils(m) PROVE row' = row
    BY <1>3 DEF Spoils
  <1> QED
    BY <1>1, <1>2, <1>3, StepKinds DEF Around

\* A commit of mutateCanonicalDocument or a persist removes nothing from the row
\* but what went past the live document; a rewrite may.
THEOREM RowIsNotOverwritten == Spec => NothingIsOverwritten
  <1>1. IInv /\ [Next]_vars => [row.content \ row'.content \subseteq astray \/ Rewrites]_vars
    BY RowTaken
  <1> QED
    BY <1>1, AlwaysIInv, PTL DEF Spec, NothingIsOverwritten

\* While the rewrite lock is held, no persist of what clients did changes the
\* text of the row: onChange and onStoreDocument schedule none, and
\* prepareRewriteCollabBarrier has dropped those that were.
THEOREM RewritesAreAlone == Spec => RewriteIsAlone
  <1>1. IInv /\ [Next]_vars =>
          [locked /\ row'.content # row.content => \E m \in Mutations : Commits(m)]_vars
    BY RowTaken
  <1> QED
    BY <1>1, AlwaysIInv, PTL DEF Spec, RewriteIsAlone

\* mutateCanonicalDocument resolves a live document it requires again before it
\* commits: an edit that is not in the base of a mutation with a base token is
\* not removed from it.
THEOREM TokensSeeLive == Spec => TokenSeesLive
  <1>1. IInv /\ [Next]_vars =>
          [\A m \in Mutations : Kind[m] = "token" /\ arg[m].need => Overwritten(m) = {}]_vars
    <2> SUFFICES ASSUME IInv, [Next]_vars, NEW m \in Mutations, Kind[m] = "token", arg[m].need
                 PROVE  Overwritten(m) = {}
      OBVIOUS
    <2>1. CASE Commits(m) /\ live # None
      <3>1. Writes(m)
        BY <2>1, StepKinds, CommitsAreWrites
      <3>2. /\ AuthoritativeBase = arg[m].seen /\ pc[m] = "loaded" /\ Puts(m)
        BY <3>1 DEF Writes
      <3>3. AuthoritativeBase = arg[m].read
        BY <3>2, Parts DEF BaseInv, Based
      <3>4. mem[live] = arg[m].read.content /\ live \in Documents
        BY <2>1, <3>3, Parts, BaseForm DEF Authoritative
      <3>5. mem[live] \subseteq mem'[live]
        BY <3>2, <3>4 DEF Puts, New
      <3> QED
        BY <3>5 DEF Overwritten
    <2>2. CASE ~(Commits(m) /\ live # None)
      BY <2>2 DEF Overwritten
    <2> QED
      BY <2>1, <2>2
  <1> QED
    BY <1>1, AlwaysIInv, PTL DEF Spec, TokenSeesLive

=============================================================================
