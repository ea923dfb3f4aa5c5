-------------------------- MODULE ReviewRunsProofs --------------------------
(***************************************************************************)
(* Theorems about ReviewRuns, for any number of runs, requests under way,  *)
(* credentials and outputs.  What a handler goes on to do tells what it    *)
(* has done: an operation is applied only by the handler whose reservation *)
(* of the output holds, and nothing but the last statement of that handler *)
(* gives the reservation up.                                               *)
(***************************************************************************)
EXTENDS ReviewRuns, FiniteSetTheorems, TLAPS

Handler == [op : Ops, run : Runs \cup {None}, cred : Creds \cup {None},
            token : Tokens, key : Keys \cup {None}, swept : SUBSET Runs,
            count : 0 .. Cardinality(Keys), todo : Seq(Statements)]

Outcomes == {"recordApplied", "recordFailed"}
Submits  == {"apply"} \cup Outcomes

\* What may stand in the rest of a script.
WellFormed(hs) ==
    \A i \in 1 .. Len(hs.todo) :
        LET x == hs.todo[i] IN
        /\ x = "claim" => hs.op = "claim"
        /\ x \notin {"sweep", "revokeSwept"} => hs.run \in Runs
        /\ x \in Submits \cup {"reserve"} => hs.key \in Keys
        /\ x = "reserve" => i + 1 \in 1 .. Len(hs.todo) /\ hs.todo[i + 1] = "apply"
        /\ x = "apply" /\ i > 1 => hs.todo[i - 1] = "reserve"
        /\ x \in Outcomes => i = 1

RunsOK ==
    /\ run \in [Runs -> [status : Active \cup Ended \cup {"none"}, token : Tokens,
                         lapsed : BOOLEAN, result : 0 .. Cardinality(Keys)]]
    /\ \A r \in Runs : /\ run[r].token # 0 <=> run[r].status \in Held
                       /\ run[r].lapsed => run[r].status \in Held

CredsOK ==
    /\ cred \in [Creds -> [run : Runs \cup {None},
                           status : {"none", "active", "revoked", "expired"}]]
    /\ \A c \in Creds : cred[c].status = "active" => cred[c].run \in Runs

OutputsOK ==
    /\ output \in [Runs -> [Keys -> {"none", "pending", "applied", "failed"}]]
    /\ marks \in [Runs -> [Keys -> 0 .. 2]]
    /\ misled \subseteq Runs \X Keys
    /\ orphaned \subseteq Runs \X Keys

HandlersOK == h \in [Slots -> Handler] /\ \A s \in Slots : WellFormed(h[s])

\* A claim under way finds a token left for it.
TokensOK == issued \in Nat /\ issued + Cardinality(ClaimsUnderWay) <= MaxToken

\* A handler goes on with a statement.
Does(hs, x)  == hs.todo # <<>> /\ Head(hs.todo) = x
Works(hs)    == \E x \in Submits : Does(hs, x)
On(hs, r, k) == hs.run = r /\ hs.key = k

\* The reservation of an output is held by the one handler that submits it.
ReservedInv ==
    /\ \A s, t \in Slots : Works(h[s]) /\ Works(h[t]) /\ On(h[t], h[s].run, h[s].key) => s = t
    /\ \A s \in Slots : Works(h[s]) => output[h[s].run][h[s].key] = "pending"
    /\ \A r \in Runs, k \in Keys : output[r][k] = "pending" =>
          <<r, k>> \in orphaned \/ \E s \in Slots : Works(h[s]) /\ On(h[s], r, k)

\* An output that can be reserved has no mark, nor has one before it is applied.
MarksInv ==
    /\ \A r \in Runs, k \in Keys :
          /\ output[r][k] = "applied" => marks[r][k] > 0
          /\ <<r, k>> \notin misled =>
                marks[r][k] <= 1 /\ (marks[r][k] > 0 => output[r][k] \in {"applied", "pending"})
    /\ \A s \in Slots :
          /\ Does(h[s], "recordApplied") => marks[h[s].run][h[s].key] > 0
          /\ Does(h[s], "apply") \/ Does(h[s], "recordFailed") =>
                <<h[s].run, h[s].key>> \in misled \/ marks[h[s].run][h[s].key] = 0

Marked(r) == {k \in Keys : marks[r][k] > 0}

CountsInv ==
    /\ \A s \in Slots, r \in Runs : h[s].run = r => h[s].count <= Cardinality(Marked(r))
    /\ \A r \in Runs : run[r].result <= Cardinality(Marked(r))

TypeInv == RunsOK /\ CredsOK /\ OutputsOK /\ HandlersOK /\ TokensOK

IInv == TypeInv /\ ReservedInv /\ MarksInv /\ CountsInv

-----------------------------------------------------------------------------
USE TokenAssumption, FiniteAssumption, NoneAssumption

LEMMA Finite ==
    /\ Cardinality(Keys) \in Nat
    /\ \A S \in SUBSET Keys : /\ IsFiniteSet(S) /\ Cardinality(S) \in Nat
                              /\ Cardinality(S) <= Cardinality(Keys)
    /\ \A S \in SUBSET Slots : IsFiniteSet(S) /\ Cardinality(S) \in Nat
  BY FS_Subset, FS_CardinalityType

(* Handlers.                                                               *)

LEMMA IdleIsHandler == Idle \in Handler /\ WellFormed(Idle) /\ ~Works(Idle) /\ Idle.run = None
                       /\ Idle.op = "list" /\ Idle.todo = <<>> /\ Idle.count = 0
  <1>1. "list" \in Ops
    BY DEF Ops, Script
  <1>2. Idle \in Handler
    BY <1>1, Finite DEF Idle, Handler, Tokens
  <1> QED
    BY <1>2 DEF Idle, WellFormed, Works, Does

\* What the first statement of a script tells.
LEMMA HeadOfScript ==
    ASSUME NEW hs \in Handler, WellFormed(hs), NEW x, Does(hs, x)
    PROVE  /\ x \in Statements
           /\ x = "claim" => hs.op = "claim"
           /\ x \notin {"sweep", "revokeSwept"} => hs.run \in Runs
           /\ x \in Submits \cup {"reserve"} => hs.key \in Keys
  <1>1. hs.todo \in Seq(Statements) /\ hs.todo # <<>>
    BY DEF Handler, Does
  <1>2. 1 \in 1 .. Len(hs.todo) /\ hs.todo[1] = x /\ hs.todo[1] \in Statements
    BY <1>1 DEF Does
  <1> QED
    BY <1>2 DEF WellFormed

LEMMA HeadIsFirst ==
    ASSUME NEW S, NEW t \in Seq(S), Len(t) > 0
    PROVE  t # <<>> /\ Head(t) = t[1]
  OBVIOUS

\* What is left when the first statement is done.
LEMMA RestOfScript ==
    ASSUME NEW hs \in Handler, WellFormed(hs), NEW x, Does(hs, x),
           NEW g \in Handler, g.todo = Tail(hs.todo),
           g.op = hs.op, g.run = hs.run, g.key = hs.key
    PROVE  /\ WellFormed(g)
           /\ g.todo # hs.todo
           /\ x = "reserve" => Does(g, "apply")
           /\ x # "reserve" => ~Works(g)
  <1>1. hs.todo \in Seq(Statements) /\ hs.todo # <<>> /\ hs.todo[1] = x
    BY DEF Handler, Does
  <1>2. /\ Len(hs.todo) \in Nat \ {0} /\ Len(g.todo) = Len(hs.todo) - 1
        /\ \A i \in 1 .. Len(g.todo) : g.todo[i] = hs.todo[i + 1]
    BY <1>1
  <1>3. ASSUME NEW i \in 1 .. Len(g.todo)
        PROVE  LET y == g.todo[i] IN
               /\ y = "claim" => g.op = "claim"
               /\ y \notin {"sweep", "revokeSwept"} => g.run \in Runs
               /\ y \in Submits \cup {"reserve"} => g.key \in Keys
               /\ y = "reserve" => i + 1 \in 1 .. Len(g.todo) /\ g.todo[i + 1] = "apply"
               /\ y = "apply" /\ i > 1 => g.todo[i - 1] = "reserve"
               /\ y \notin Outcomes
    <2>1. /\ i + 1 \in 1 .. Len(hs.todo) /\ g.todo[i] = hs.todo[i + 1]
          /\ i + 1 > 1 /\ i + 1 # 1 /\ (i + 1) - 1 = i
          /\ i > 1 => g.todo[i - 1] = hs.todo[i]
      BY <1>2
    <2>2. (i + 1) + 1 \in 1 .. Len(hs.todo) =>
              i + 1 \in 1 .. Len(g.todo) /\ g.todo[i + 1] = hs.todo[(i + 1) + 1]
      BY <1>2
    <2> QED
      BY <2>1, <2>2 DEF WellFormed
  <1>4. WellFormed(g)
    BY <1>3 DEF WellFormed
  <1>5. g.todo # hs.todo
    <2>1. Len(g.todo) # Len(hs.todo)
      BY <1>2
    <2> QED
      BY <2>1
  <1>6. ASSUME x = "reserve" PROVE Does(g, "apply")
    <2>1. 1 + 1 \in 1 .. Len(hs.todo) /\ hs.todo[1 + 1] = "apply"
      BY <1>1, <1>2, <1>6 DEF WellFormed
    <2>2. g.todo \in Seq(Statements) /\ Len(g.todo) > 0 /\ g.todo[1] = "apply"
      BY <1>2, <2>1 DEF Handler
    <2>3. g.todo # <<>> /\ Head(g.todo) = g.todo[1]
      BY <2>2, HeadIsFirst
    <2> QED
      BY <2>2, <2>3 DEF Does
  <1>7. ASSUME NEW y \in Submits, Does(g, y) PROVE x = "reserve"
    <2>1. g.todo \in Seq(Statements) /\ 1 \in 1 .. Len(g.todo) /\ g.todo[1] = y
      BY <1>7 DEF Does, Handler
    <2>2. y = "apply"
      BY <1>3, <2>1 DEF Submits
    <2>3. 1 + 1 \in 1 .. Len(hs.todo) /\ hs.todo[1 + 1] = "apply" /\ 1 + 1 > 1 /\ (1 + 1) - 1 = 1
      BY <1>2, <2>1, <2>2
    <2> QED
      BY <1>1, <2>3 DEF WellFormed
  <1> QED
    BY <1>4, <1>5, <1>6, <1>7 DEF Works

\* A script has the form from the start, and begins with nothing to submit.
LEMMA ScriptIsWellFormed ==
    ASSUME NEW hs \in Handler, hs.todo = Script[hs.op],
           hs.op # "list" => hs.run \in Runs,
           hs.op \in {"output", "shared"} => hs.key \in Keys
    PROVE  /\ WellFormed(hs)
           /\ ~Works(hs)
           /\ hs.todo # <<>>
  <1> USE DEF WellFormed, Works, Does, Submits, Outcomes
  <1>1. CASE hs.op = "list"
    <2>1. hs.todo = <<"sweep">>
      BY <1>1 DEF Script
    <2> QED
      BY <2>1, <1>1
  <1>2. CASE hs.op = "create"
    <2>1. hs.todo = <<"sweep", "create">>
      BY <1>2 DEF Script
    <2> QED
      BY <2>1, <1>2
  <1>3. CASE hs.op = "retry"
    <2>1. hs.todo = <<"requeue", "revoke">>
      BY <1>3 DEF Script
    <2> QED
      BY <2>1, <1>3
  <1>4. CASE hs.op = "cancel"
    <2>1. hs.todo = <<"cancel", "revoke">>
      BY <1>4 DEF Script
    <2> QED
      BY <2>1, <1>4
  <1>5. CASE hs.op = "mint"
    <2>1. hs.todo = <<"check", "revoke", "mint">>
      BY <1>5 DEF Script
    <2> QED
      BY <2>1, <1>5
  <1>0. hs.todo \in Seq(Statements) /\ hs.op \in Ops
    BY DEF Handler
  <1>6. CASE hs.op = "shared"
    <2>1. hs.todo = <<"sweep", "validate", "reserve", "apply">>
      BY <1>6 DEF Script
    <2> QED
      BY <2>1, <1>6
  <1>7. CASE hs.op = "claim"
    <2>1. hs.todo = Auth \o <<"sweep", "claim">>
      BY <1>7 DEF Script
    <2>2. /\ Len(hs.todo) = 4
          /\ hs.todo[1] = "sweep" /\ hs.todo[2] = "inspect" /\ hs.todo[3] = "sweep"
          /\ hs.todo[4] = "claim"
      BY <1>0, <2>1 DEF Auth
    <2> QED
      BY <1>0, <1>7, <2>2
  <1>8. CASE hs.op = "heartbeat"
    <2>1. hs.todo = Claimed \o <<"renew">>
      BY <1>8 DEF Script
    <2>2. /\ Len(hs.todo) = 5
          /\ hs.todo[1] = "sweep" /\ hs.todo[2] = "inspect" /\ hs.todo[3] = "sweep"
          /\ hs.todo[4] = "validate" /\ hs.todo[5] = "renew"
      BY <1>0, <2>1 DEF Claimed, Auth
    <2> QED
      BY <1>0, <1>8, <2>2
  <1>9. CASE hs.op = "complete"
    <2>1. hs.todo = Claimed \o <<"count", "complete", "revoke">>
      BY <1>9 DEF Script
    <2>2. /\ Len(hs.todo) = 7
          /\ hs.todo[1] = "sweep" /\ hs.todo[2] = "inspect" /\ hs.todo[3] = "sweep"
          /\ hs.todo[4] = "validate" /\ hs.todo[5] = "count" /\ hs.todo[6] = "complete" /\ hs.todo[7] = "revoke"
      BY <1>0, <2>1 DEF Claimed, Auth
    <2> QED
      BY SMTT(30), <1>0, <1>9, <2>2
  <1>10. CASE hs.op = "fail"
    <2>1. hs.todo = Claimed \o <<"fail", "revoke">>
      BY <1>10 DEF Script
    <2>2. /\ Len(hs.todo) = 6
          /\ hs.todo[1] = "sweep" /\ hs.todo[2] = "inspect" /\ hs.todo[3] = "sweep"
          /\ hs.todo[4] = "validate" /\ hs.todo[5] = "fail" /\ hs.todo[6] = "revoke"
      BY <1>0, <2>1 DEF Claimed, Auth
    <2>3. hs.todo # <<>> /\ ~Works(hs)
      BY <1>0, <2>2
    <2>4. 1 .. Len(hs.todo) = {1, 2, 3, 4, 5, 6}
      BY <2>2
    <2> QED
      BY <1>10, <2>2, <2>3, <2>4
  <1>11. CASE hs.op = "release"
    <2>1. hs.todo = Claimed \o <<"release", "revoke">>
      BY <1>11 DEF Script
    <2>2. /\ Len(hs.todo) = 6
          /\ hs.todo[1] = "sweep" /\ hs.todo[2] = "inspect" /\ hs.todo[3] = "sweep"
          /\ hs.todo[4] = "validate" /\ hs.todo[5] = "release" /\ hs.todo[6] = "revoke"
      BY <1>0, <2>1 DEF Claimed, Auth
    <2>3. hs.todo # <<>> /\ ~Works(hs)
      BY <1>0, <2>2
    <2>4. 1 .. Len(hs.todo) = {1, 2, 3, 4, 5, 6}
      BY <2>2
    <2> QED
      BY <1>11, <2>2, <2>3, <2>4
  <1>12. CASE hs.op = "output"
    <2>1. hs.todo = Claimed \o <<"reserve", "apply">>
      BY <1>12 DEF Script
    <2>2. /\ Len(hs.todo) = 6
          /\ hs.todo[1] = "sweep" /\ hs.todo[2] = "inspect" /\ hs.todo[3] = "sweep"
          /\ hs.todo[4] = "validate" /\ hs.todo[5] = "reserve" /\ hs.todo[6] = "apply"
      BY <1>0, <2>1 DEF Claimed, Auth
    <2>3. hs.todo # <<>> /\ ~Works(hs)
      BY <1>0, <2>2
    <2>4. 1 .. Len(hs.todo) = {1, 2, 3, 4, 5, 6}
      BY <2>2
    <2> QED
      BY <1>12, <2>2, <2>3, <2>4
  <1> QED
    BY <1>0, <1>1, <1>2, <1>3, <1>4, <1>5, <1>6, <1>7, <1>8, <1>9, <1>10, <1>11, <1>12 DEF Ops, Script

\* A handler is given a request, or goes on.
Moved(s, this) ==
    /\ h' = [h EXCEPT ![s] = this]
    /\ this \in Handler
    /\ WellFormed(this)
    /\ this # h[s]

SameRequest(s, this) ==
    /\ this.op = "claim" => h[s].op = "claim"
    /\ this.run \in Runs => this.run = h[s].run

\* Nothing is submitted.
Calm(s, this) ==
    /\ ~Works(h[s])
    /\ ~Works(this)
    /\ UNCHANGED <<output, marks, misled, orphaned>>

LEMMA MovedHandlers ==
    ASSUME HandlersOK, NEW s \in Slots, NEW this, Moved(s, this)
    PROVE  HandlersOK' /\ h'[s] = this /\ \A t \in Slots : t # s => h'[t] = h[t]
  <1>1. h'[s] = this /\ \A t \in Slots : t # s => h'[t] = h[t]
    BY DEF Moved, HandlersOK
  <1>2. h' \in [Slots -> Handler]
    BY DEF Moved, HandlersOK
  <1>3. ASSUME NEW t \in Slots PROVE WellFormed(h'[t])
    BY <1>1 DEF HandlersOK, Moved
  <1> QED
    BY <1>1, <1>2, <1>3 DEF HandlersOK, WellFormed

LEMMA Answers ==
    ASSUME HandlersOK, NEW s \in Slots, NEW x, At(s, x), Answer(s)
    PROVE  /\ Moved(s, Idle) /\ SameRequest(s, Idle) /\ Idle.count = 0 /\ ~Works(Idle)
  <1>1. h[s] # Idle
    BY IdleIsHandler DEF At
  <1>2. "list" # "claim" /\ None \notin Runs
    OBVIOUS
  <1> QED
    BY <1>1, <1>2, IdleIsHandler DEF Moved, SameRequest, Answer

\* A handler after its statement.
LEMMA RestIsHandler ==
    ASSUME HandlersOK, NEW s \in Slots, NEW x, At(s, x)
    PROVE  LET this == Left(s, Tail(h[s].todo)) IN
           /\ this \in Handler /\ WellFormed(this) /\ this # h[s]
           /\ SameRequest(s, this) /\ this.count \in {0, h[s].count}
           /\ x # "reserve" => ~Works(this)
           /\ x = "reserve" => Does(this, "apply") /\ On(this, h[s].run, h[s].key)
  <1> DEFINE rest == Tail(h[s].todo)
             g == [h[s] EXCEPT !.swept = {}, !.todo = rest]
             this == Left(s, rest)
  <1>1. h[s] \in Handler /\ WellFormed(h[s]) /\ Does(h[s], x)
    BY DEF HandlersOK, At, Does
  <1>2. h[s].todo \in Seq(Statements) /\ h[s].todo # <<>> /\ rest \in Seq(Statements)
    BY <1>1 DEF Handler, Does
  <1>3. {} \in SUBSET Runs
    OBVIOUS
  <1>4. /\ g \in Handler /\ g.todo = rest /\ g.op = h[s].op /\ g.run = h[s].run
        /\ g.key = h[s].key /\ g.count = h[s].count
    <2> HIDE DEF rest
    <2> QED
      BY <1>1, <1>2, <1>3 DEF Handler
  <1> HIDE DEF g
  <1>5. /\ WellFormed(g) /\ g # h[s]
        /\ x = "reserve" => Does(g, "apply")
        /\ x # "reserve" => ~Works(g)
    BY <1>1, <1>4, RestOfScript
  <1>6. CASE rest = <<>>
    <2>1. this = Idle
      BY <1>6 DEF Left
    <2>2. x # "reserve"
      BY <1>4, <1>5, <1>6 DEF Does
    <2>3. Idle # h[s]
      BY <1>2, IdleIsHandler
    <2>4. Idle.run \notin Runs /\ Idle.op # "claim"
      BY IdleIsHandler
    <2> QED
      BY <2>1, <2>2, <2>3, <2>4, IdleIsHandler DEF SameRequest
  <1>7. CASE rest # <<>>
    <2>1. this = g
      BY <1>7 DEF Left, g
    <2> QED
      BY <1>4, <1>5, <2>1 DEF SameRequest, On
  <1> QED
    BY <1>6, <1>7

\* What every statement but those of an output does to its handler.
LEMMA StatementMoves ==
    ASSUME HandlersOK, NEW s \in Slots,
           \/ Sweep(s) \/ RevokeSwept(s) \/ Revoke(s) \/ Inspect(s)
           \/ InsertRun(s) \/ Requeue(s) \/ CancelRun(s)
           \/ Check(s) \/ InsertCredential(s) \/ Claim(s) \/ Validate(s) \/ Renew(s)
           \/ Count(s) \/ Complete(s) \/ Fail(s) \/ Release(s)
    PROVE  \E this : /\ Moved(s, this) /\ SameRequest(s, this) /\ Calm(s, this)
                     /\ this.run \in Runs =>
                          this.count \in {0, h[s].count, Cardinality(Applied(h[s].run))}
  <1>0. h[s] \in Handler /\ WellFormed(h[s])
    BY DEF HandlersOK
  <1>1. PICK x \in Statements \ (Submits \cup {"reserve"}) :
            At(s, x) /\ UNCHANGED <<output, marks, misled, orphaned>>
    BY DEF Sweep, RevokeSwept, Revoke, Inspect, InsertRun, Requeue, CancelRun, Check,
           InsertCredential, Claim, Validate, Renew, Count, Complete, Fail, Release, GiveUp,
           Statements, Submits, Outcomes, rows
  <1>2. ~Works(h[s])
    BY <1>1 DEF Works, Does, At
  <1> DEFINE rest == Left(s, Tail(h[s].todo))
             Goal == \E this : /\ Moved(s, this) /\ SameRequest(s, this) /\ Calm(s, this)
                               /\ this.run \in Runs =>
                                    this.count \in {0, h[s].count, Cardinality(Applied(h[s].run))}
  <1>3. /\ rest \in Handler /\ WellFormed(rest) /\ rest # h[s] /\ SameRequest(s, rest)
        /\ rest.count \in {0, h[s].count} /\ ~Works(rest)
    BY <1>1, RestIsHandler
  <1>4. ASSUME Continue(s) PROVE Goal
    BY <1>1, <1>2, <1>3, <1>4 DEF Continue, Moved, Calm
  <1>5. ASSUME Answer(s) PROVE Goal
    BY <1>1, <1>2, <1>5, Answers DEF Calm
  <1>6. CASE Sweep(s) /\ Lapsed # {}
    <2> DEFINE todo == <<"revokeSwept">> \o Tail(h[s].todo)
               this == [h[s] EXCEPT !.swept = Lapsed, !.todo = todo]
    <2>1. h' = [h EXCEPT ![s] = this] /\ Does(h[s], "sweep")
      BY <1>6 DEF Sweep, At, Does
    <2>2. Lapsed \in SUBSET Runs
      BY DEF Lapsed
    <2>3. h[s].todo \in Seq(Statements) /\ h[s].todo # <<>> /\ h[s].todo[1] = "sweep"
      BY <1>0, <2>1 DEF Handler, Does
    <2>4. /\ todo \in Seq(Statements) /\ Len(todo) = Len(h[s].todo) /\ Len(todo) > 0
          /\ todo[1] = "revokeSwept"
          /\ \A i \in 1 .. Len(todo) : i # 1 => todo[i] = h[s].todo[i]
      <3>1. /\ Tail(h[s].todo) \in Seq(Statements)
            /\ Len(Tail(h[s].todo)) = Len(h[s].todo) - 1
            /\ \A i \in 1 .. Len(h[s].todo) : i # 1 => Tail(h[s].todo)[i - 1] = h[s].todo[i]
        BY <2>3
      <3>2. <<"revokeSwept">> \in Seq(Statements) /\ Len(<<"revokeSwept">>) = 1
            /\ <<"revokeSwept">>[1] = "revokeSwept"
        BY DEF Statements
      <3>3. Len(h[s].todo) \in Nat \ {0}
        BY <2>3
      <3> QED
        BY <3>1, <3>2, <3>3
    <2> HIDE DEF todo
    <2>5. /\ this \in Handler /\ this.todo = todo /\ this.op = h[s].op /\ this.run = h[s].run
          /\ this.key = h[s].key /\ this.count = h[s].count
      BY <1>0, <2>2, <2>4 DEF Handler
    <2> HIDE DEF this
    <2>6. WellFormed(this)
      <3>1. ASSUME NEW i \in 1 .. Len(todo), i > 1, i # 1
            PROVE  /\ i - 1 \in 1 .. Len(todo) /\ todo[i] = h[s].todo[i]
                   /\ todo[i] = "apply" => i - 1 # 1
        BY <1>0, <2>3, <2>4, <3>1 DEF WellFormed
      <3>2. ASSUME NEW i \in 1 .. Len(todo), i + 1 \in 1 .. Len(todo)
            PROVE  todo[i + 1] = h[s].todo[i + 1]
        BY <2>4, <3>2
      <3>3. ASSUME NEW i \in 1 .. Len(todo), i # 1 PROVE i > 1
        BY <3>3
      <3> QED
        BY <1>0, <2>3, <2>4, <2>5, <3>1, <3>2, <3>3 DEF WellFormed, Submits, Outcomes
    <2>7. this # h[s] /\ ~Works(this)
      <3>1. Head(todo) = "revokeSwept"
        BY <2>4, HeadIsFirst
      <3> QED
        BY <2>3, <2>4, <2>5, <3>1 DEF Works, Does, Submits, Outcomes
    <2> QED
      BY <1>1, <1>2, <2>1, <2>5, <2>6, <2>7 DEF Moved, SameRequest, Calm
  <1>7. CASE Inspect(s) /\ Resolves(h[s].cred)
    <2> DEFINE this == [rest EXCEPT !.cred = None]
    <2>1. h' = [h EXCEPT ![s] = this] /\ At(s, "inspect")
      BY <1>7 DEF Inspect
    <2> HIDE DEF rest
    <2>2. /\ this \in Handler /\ this.todo = rest.todo /\ this.op = rest.op
          /\ this.run = rest.run /\ this.key = rest.key /\ this.count = rest.count
      BY <1>3 DEF Handler
    <2> HIDE DEF this
    <2>3. WellFormed(this) /\ ~Works(this)
      BY <1>3, <2>2 DEF WellFormed, Works, Does
    <2>4. this # h[s]
      <3>1. CASE Tail(h[s].todo) = <<>>
        BY <2>1, <2>2, <3>1, IdleIsHandler DEF rest, Left, At
      <3>2. CASE Tail(h[s].todo) # <<>>
        <4>1. rest.todo = Tail(h[s].todo)
          BY <1>0, <3>2 DEF rest, Left, Handler
        <4>2. h[s].todo \in Seq(Statements) /\ h[s].todo # <<>>
          BY <1>0, <2>1 DEF Handler, At
        <4>3. Len(Tail(h[s].todo)) # Len(h[s].todo)
          BY <4>2
        <4> QED
          BY <2>2, <4>1, <4>3
      <3> QED
        BY <3>1, <3>2
    <2> QED
      BY <1>1, <1>2, <1>3, <2>1, <2>2, <2>3, <2>4 DEF Moved, SameRequest, Calm
  <1>8. CASE Count(s)
    <2> DEFINE count == Cardinality(Applied(h[s].run))
               todo == Tail(h[s].todo)
               this == [h[s] EXCEPT !.count = count, !.todo = todo]
    <2>1. h' = [h EXCEPT ![s] = this] /\ Does(h[s], "count")
      BY <1>8 DEF Count, At, Does
    <2>2. count \in 0 .. Cardinality(Keys)
      <3>1. Applied(h[s].run) \in SUBSET Keys
        BY DEF Applied
      <3> QED
        BY <3>1, Finite
    <2>3. todo \in Seq(Statements)
      BY <1>0, <2>1 DEF Handler, Does
    <2> HIDE DEF count, todo
    <2>4. /\ this \in Handler /\ this.todo = todo /\ this.op = h[s].op /\ this.run = h[s].run
          /\ this.key = h[s].key /\ this.count = count
      BY <1>0, <2>2, <2>3 DEF Handler
    <2> HIDE DEF this
    <2>5. WellFormed(this) /\ ~Works(this) /\ this # h[s]
      BY <1>0, <2>1, <2>4, RestOfScript DEF todo
    <2> QED
      BY <1>1, <1>2, <2>1, <2>4, <2>5 DEF Moved, SameRequest, Calm, count
  <1>9. \/ Continue(s) \/ Answer(s) \/ Count(s)
        \/ Sweep(s) /\ Lapsed # {}
        \/ Inspect(s) /\ Resolves(h[s].cred)
    <2>1. ASSUME Sweep(s), Lapsed = {} PROVE Continue(s)
      BY <2>1 DEF Sweep
    <2>2. ASSUME Inspect(s), ~Resolves(h[s].cred) PROVE Answer(s)
      BY <2>2 DEF Inspect, Answer
    <2> QED
      BY <2>1, <2>2 DEF RevokeSwept, Revoke, InsertRun, Requeue, CancelRun, Check,
           InsertCredential, Claim, Validate, Renew, Complete, Fail, Release, GiveUp, Proceed
  <1> QED
    BY <1>4, <1>5, <1>6, <1>7, <1>8, <1>9

\* What a request that arrives does to its handler.
LEMMA StartMoves ==
    ASSUME HandlersOK, issued \in Nat, issued <= MaxToken, NEW s \in Slots, NEW op \in Ops,
           NEW r \in Runs \cup {None}, NEW c \in Creds \cup {None}, NEW t \in 0 .. issued,
           NEW k \in Keys \cup {None}, Start(s, op, r, c, t, k),
           op # "list" => r \in Runs, op \in {"output", "shared"} => k \in Keys
    PROVE  \E this : /\ Moved(s, this) /\ Calm(s, this) /\ this.count = 0
                     /\ this.op = op /\ h[s].op = "list"
  <1> DEFINE todo == Script[op]
             this == [Idle EXCEPT !.op = op, !.run = r, !.cred = c, !.token = t,
                                  !.key = k, !.todo = todo]
  <1>1. h' = [h EXCEPT ![s] = this] /\ h[s] = Idle
        /\ UNCHANGED <<output, marks, misled, orphaned>>
    BY DEF Start, rows
  <1>2. todo \in Seq(Statements)
    <2>1. Auth \in Seq(Statements) /\ Claimed \in Seq(Statements)
      BY DEF Auth, Claimed, Statements
    <2>2. /\ Script["list"] \in Seq(Statements) /\ Script["create"] \in Seq(Statements)
          /\ Script["retry"] \in Seq(Statements) /\ Script["cancel"] \in Seq(Statements)
          /\ Script["mint"] \in Seq(Statements) /\ Script["shared"] \in Seq(Statements)
      BY DEF Script, Statements
    <2>3. /\ Script["claim"] \in Seq(Statements) /\ Script["heartbeat"] \in Seq(Statements)
          /\ Script["complete"] \in Seq(Statements) /\ Script["fail"] \in Seq(Statements)
          /\ Script["release"] \in Seq(Statements) /\ Script["output"] \in Seq(Statements)
      BY <2>1 DEF Script, Statements
    <2>4. op \in {"list", "create", "retry", "cancel", "mint", "claim", "heartbeat",
                 "complete", "fail", "release", "output", "shared"}
      BY DEF Ops, Script
    <2> QED
      BY <2>2, <2>3, <2>4
  <1>3. t \in Tokens
    BY DEF Tokens
  <1> HIDE DEF todo
  <1>4. /\ this \in Handler /\ this.todo = todo /\ this.op = op /\ this.run = r
        /\ this.key = k /\ this.count = 0
    BY <1>2, <1>3, IdleIsHandler DEF Handler
  <1> HIDE DEF this
  <1>5. WellFormed(this) /\ ~Works(this) /\ this.todo # <<>>
    BY <1>4, ScriptIsWellFormed DEF todo
  <1>6. this # h[s] /\ ~Works(h[s]) /\ h[s].op = "list"
    BY <1>1, <1>5, IdleIsHandler
  <1> QED
    BY <1>1, <1>4, <1>5, <1>6 DEF Moved, Calm

\* The claims under way, and the tokens they may need.
LEMMA TokensKept ==
    ASSUME HandlersOK, TokensOK, NEW s \in Slots, NEW this, Moved(s, this),
           this.op = "claim" => h[s].op = "claim", issued' = issued
    PROVE  TokensOK'
  <1>1. h'[s] = this /\ \A t \in Slots : t # s => h'[t] = h[t]
    BY MovedHandlers
  <1>2. ClaimsUnderWay' \subseteq ClaimsUnderWay /\ ClaimsUnderWay \in SUBSET Slots
    BY <1>1 DEF ClaimsUnderWay
  <1>3. /\ Cardinality(ClaimsUnderWay) \in Nat /\ Cardinality(ClaimsUnderWay') \in Nat
        /\ Cardinality(ClaimsUnderWay') <= Cardinality(ClaimsUnderWay)
    <2>1. IsFiniteSet(ClaimsUnderWay) /\ ClaimsUnderWay' \in SUBSET ClaimsUnderWay
          /\ ClaimsUnderWay' \in SUBSET Slots
      BY <1>2, Finite
    <2> QED
      BY <1>2, <2>1, Finite, FS_Subset
  <1> QED
    BY <1>3 DEF TokensOK

LEMMA TokensOfCallClaim ==
    ASSUME HandlersOK, TokensOK, NEW s \in Slots, NEW this, Moved(s, this), issued' = issued,
           issued + Cardinality(ClaimsUnderWay) < MaxToken
    PROVE  TokensOK'
  <1>1. h'[s] = this /\ \A t \in Slots : t # s => h'[t] = h[t]
    BY MovedHandlers
  <1>2. /\ ClaimsUnderWay \in SUBSET Slots /\ ClaimsUnderWay' \in SUBSET (ClaimsUnderWay \cup {s})
        /\ ClaimsUnderWay' \in SUBSET Slots
    BY <1>1 DEF ClaimsUnderWay
  <1>3. /\ Cardinality(ClaimsUnderWay) \in Nat /\ Cardinality(ClaimsUnderWay') \in Nat
        /\ IsFiniteSet(ClaimsUnderWay)
    BY <1>2, Finite
  <1>4. /\ IsFiniteSet(ClaimsUnderWay \cup {s})
        /\ Cardinality(ClaimsUnderWay \cup {s}) =
             IF s \in ClaimsUnderWay THEN Cardinality(ClaimsUnderWay)
             ELSE Cardinality(ClaimsUnderWay) + 1
    BY <1>3, FS_AddElement
  <1>5. Cardinality(ClaimsUnderWay') <= Cardinality(ClaimsUnderWay \cup {s})
    BY <1>2, <1>4, FS_Subset
  <1> QED
    BY <1>3, <1>4, <1>5 DEF TokensOK

LEMMA TokensOfClaim ==
    ASSUME HandlersOK, TokensOK, NEW s \in Slots, Claim(s)
    PROVE  TokensOK' /\ issued' \in Nat /\ issued + 1 \in 1 .. MaxToken
  <1>1. At(s, "claim") /\ Answer(s) /\ issued' \in {issued, issued + 1}
    BY DEF Claim
  <1>2. h[s] \in Handler /\ WellFormed(h[s]) /\ Does(h[s], "claim")
    BY <1>1 DEF HandlersOK, At, Does
  <1>3. h[s].op = "claim"
    BY <1>2, HeadOfScript
  <1>4. Moved(s, Idle)
    BY <1>1, Answers
  <1>5. h'[s] = Idle /\ \A t \in Slots : t # s => h'[t] = h[t]
    BY <1>4, MovedHandlers
  <1>6. s \in ClaimsUnderWay /\ ClaimsUnderWay' = ClaimsUnderWay \ {s}
    BY <1>3, <1>5, IdleIsHandler DEF ClaimsUnderWay
  <1>7. ClaimsUnderWay \in SUBSET Slots
    BY DEF ClaimsUnderWay
  <1>8. IsFiniteSet(ClaimsUnderWay) /\ Cardinality(ClaimsUnderWay) \in Nat
    BY <1>7, Finite
  <1>9. Cardinality(ClaimsUnderWay \ {s}) = Cardinality(ClaimsUnderWay) - 1
    BY <1>6, <1>8, FS_RemoveElement
  <1>10. Cardinality(ClaimsUnderWay \ {s}) \in Nat
    <2>1. ClaimsUnderWay \ {s} \in SUBSET Slots
      BY <1>7
    <2> QED
      BY <2>1, Finite
  <1> QED
    BY <1>1, <1>6, <1>8, <1>9, <1>10 DEF TokensOK

-----------------------------------------------------------------------------
(* Outputs and their marks.                                                *)

\* Who submits nothing before and after, has no part in it.
LEMMA CalmKeeps ==
    ASSUME HandlersOK, ReservedInv, MarksInv, NEW s \in Slots, NEW this,
           Moved(s, this), Calm(s, this)
    PROVE  ReservedInv' /\ MarksInv'
  <1>1. h'[s] = this /\ \A t \in Slots : t # s => h'[t] = h[t]
    BY MovedHandlers
  <1>2. /\ ~Works(h[s]) /\ ~Works(h'[s])
        /\ output' = output /\ marks' = marks /\ misled' = misled /\ orphaned' = orphaned
    BY <1>1 DEF Calm
  <1>3. ASSUME NEW t \in Slots, Works(h'[t]) PROVE t # s /\ h'[t] = h[t] /\ Works(h[t])
    BY <1>1, <1>2, <1>3
  <1>4. ASSUME NEW t \in Slots, Works(h[t]) PROVE t # s /\ h'[t] = h[t] /\ Works(h'[t])
    BY <1>1, <1>2, <1>4
  <1>5. \A t \in Slots : \A x \in Submits : Does(h'[t], x) => Works(h'[t])
    BY DEF Works
  <1>6. ReservedInv'
    BY <1>2, <1>3, <1>4 DEF ReservedInv, Works, On, Does
  <1>7. MarksInv'
    <2>1. ASSUME NEW t \in Slots
          PROVE  /\ Does(h'[t], "recordApplied") => marks'[h'[t].run][h'[t].key] > 0
                 /\ Does(h'[t], "apply") \/ Does(h'[t], "recordFailed") =>
                      \/ <<h'[t].run, h'[t].key>> \in misled'
                      \/ marks'[h'[t].run][h'[t].key] = 0
      <3>1. CASE Works(h'[t])
        BY <1>2, <1>3, <3>1 DEF MarksInv
      <3>2. CASE ~Works(h'[t])
        BY <1>5, <3>2 DEF Submits, Outcomes
      <3> QED
        BY <3>1, <3>2
    <2> QED
      BY <1>2, <2>1 DEF MarksInv, Does
  <1> QED
    BY <1>6, <1>7

\* A handler goes on with its request or is over; a count it keeps was that of
\* the outputs it found applied.
Goes(s) ==
    \E this : /\ Moved(s, this)
              /\ SameRequest(s, this)
              /\ this.run \in Runs =>
                   this.count \in {0, h[s].count, Cardinality(Applied(h[s].run))}

LEMMA AnswerGoes ==
    ASSUME HandlersOK, NEW s \in Slots, NEW x, At(s, x), Answer(s)
    PROVE  Goes(s)
  BY Answers DEF Goes

LEMMA ReserveKeeps ==
    ASSUME HandlersOK, OutputsOK, ReservedInv, MarksInv, NEW s \in Slots, Reserve(s)
    PROVE  OutputsOK' /\ ReservedInv' /\ MarksInv' /\ Goes(s)
  <1> DEFINE r == h[s].run
             k == h[s].key
             this == Left(s, Tail(h[s].todo))
  <1>1. /\ At(s, "reserve") /\ Does(h[s], "reserve") /\ h[s] \in Handler /\ WellFormed(h[s])
        /\ marks' = marks /\ misled' = misled /\ orphaned' = orphaned
    BY DEF Reserve, At, Does, HandlersOK
  <1>2. r \in Runs /\ k \in Keys
    BY <1>1, HeadOfScript
  <1>3. ~Works(h[s])
    BY <1>1 DEF Works, Does, Submits, Outcomes
  <1>4. CASE ~Reservable(output[r][k])
    <2>1. Answer(s) /\ output' = output
      BY <1>4 DEF Reserve, Proceed
    <2>2. Moved(s, Idle) /\ Calm(s, Idle) /\ Goes(s)
      BY <1>1, <1>3, <2>1, Answers, AnswerGoes DEF Calm
    <2> QED
      BY <1>1, <2>1, <2>2, CalmKeeps DEF OutputsOK
  <1>5. CASE Reservable(output[r][k])
    <2>1. /\ output' = [output EXCEPT ![r][k] = "pending"]
          /\ h' = [h EXCEPT ![s] = this]
      BY <1>5 DEF Reserve, Proceed, Continue
    <2>2. /\ this \in Handler /\ WellFormed(this) /\ this # h[s] /\ SameRequest(s, this)
          /\ this.count \in {0, h[s].count} /\ Does(this, "apply") /\ On(this, r, k)
      BY <1>1, RestIsHandler
    <2> HIDE DEF this
    <2>3. Moved(s, this) /\ Goes(s)
      BY <2>1, <2>2 DEF Moved, Goes
    <2>4. h'[s] = this /\ \A t \in Slots : t # s => h'[t] = h[t]
      BY <2>3, MovedHandlers
    <2>5. output[r][k] \in {"none", "failed"}
      BY <1>5 DEF Reservable
    <2>6. /\ output' \in [Runs -> [Keys -> {"none", "pending", "applied", "failed"}]]
          /\ output'[r][k] = "pending"
          /\ \A q \in Runs, j \in Keys : <<q, j>> # <<r, k>> => output'[q][j] = output[q][j]
      BY <1>2, <2>1 DEF OutputsOK
    <2>7. OutputsOK'
      BY <1>1, <2>6 DEF OutputsOK
    <2>8. ASSUME NEW t \in Slots, Works(h[t])
          PROVE  h[t].run \in Runs /\ h[t].key \in Keys
                 /\ <<h[t].run, h[t].key>> # <<r, k>> /\ h'[t] = h[t]
      <3>1. h[t].run \in Runs /\ h[t].key \in Keys
        BY <2>8, HeadOfScript DEF HandlersOK, Works, Submits, Outcomes
      <3>2. output[h[t].run][h[t].key] = "pending"
        BY <2>8 DEF ReservedInv
      <3>3. t # s
        BY <1>3, <2>8
      <3> QED
        BY <2>4, <2>5, <3>1, <3>2, <3>3
    <2>9. Works(this) /\ ~Does(this, "recordApplied") /\ ~Does(this, "recordFailed")
          /\ this.run = r /\ this.key = k
      BY <2>2 DEF Works, Does, Submits, On
    <2>10. ReservedInv'
      <3>1. ASSUME NEW t \in Slots, NEW u \in Slots, Works(h'[t]), Works(h'[u]),
                   On(h'[u], h'[t].run, h'[t].key)
            PROVE  t = u
        <4>1. CASE t # s /\ u # s
          BY <2>4, <3>1, <4>1 DEF ReservedInv
        <4>2. CASE t = s /\ u # s
          BY <2>4, <2>8, <2>9, <3>1, <4>2 DEF On
        <4>3. CASE t # s /\ u = s
          BY <2>4, <2>8, <2>9, <3>1, <4>3 DEF On
        <4> QED
          BY <4>1, <4>2, <4>3
      <3>2. ASSUME NEW t \in Slots, Works(h'[t])
            PROVE  output'[h'[t].run][h'[t].key] = "pending"
        <4>1. CASE t = s
          BY <2>4, <2>6, <2>9, <4>1
        <4>2. CASE t # s
          BY <2>4, <2>6, <2>8, <3>2, <4>2 DEF ReservedInv
        <4> QED
          BY <4>1, <4>2
      <3>3. ASSUME NEW q \in Runs, NEW j \in Keys, output'[q][j] = "pending"
            PROVE  <<q, j>> \in orphaned' \/ \E t \in Slots : Works(h'[t]) /\ On(h'[t], q, j)
        <4>1. CASE <<q, j>> = <<r, k>>
          BY <2>4, <2>9, <4>1 DEF On
        <4>2. CASE <<q, j>> # <<r, k>>
          BY <1>1, <2>6, <2>8, <3>3, <4>2 DEF ReservedInv
        <4> QED
          BY <4>1, <4>2
      <3> QED
        BY <3>1, <3>2, <3>3 DEF ReservedInv, Works, Does, On
    <2>11. MarksInv'
      <3>1. ASSUME NEW q \in Runs, NEW j \in Keys
            PROVE  /\ output'[q][j] = "applied" => marks'[q][j] > 0
                   /\ <<q, j>> \notin misled' =>
                        /\ marks'[q][j] <= 1
                        /\ marks'[q][j] > 0 => output'[q][j] \in {"applied", "pending"}
        <4>1. CASE <<q, j>> = <<r, k>>
          BY <1>1, <2>6, <4>1 DEF MarksInv
        <4>2. CASE <<q, j>> # <<r, k>>
          BY <1>1, <2>6, <4>2 DEF MarksInv
        <4> QED
          BY <4>1, <4>2
      <3>2. <<r, k>> \in misled \/ marks[r][k] = 0
        <4>1. marks[r][k] \in 0 .. 2
          BY <1>2 DEF OutputsOK
        <4>2. <<r, k>> \in misled \/ ~(marks[r][k] > 0)
          BY <1>2, <2>5 DEF MarksInv
        <4> QED
          BY <4>1, <4>2
      <3>3. ASSUME NEW t \in Slots
            PROVE  /\ Does(h'[t], "recordApplied") => marks'[h'[t].run][h'[t].key] > 0
                   /\ Does(h'[t], "apply") \/ Does(h'[t], "recordFailed") =>
                        \/ <<h'[t].run, h'[t].key>> \in misled'
                        \/ marks'[h'[t].run][h'[t].key] = 0
        <4>1. CASE t = s
          BY <1>1, <2>4, <2>9, <3>2, <4>1
        <4>2. CASE t # s
          BY <1>1, <2>4, <4>2 DEF MarksInv
        <4> QED
          BY <4>1, <4>2
      <3> QED
        BY <3>1, <3>3 DEF MarksInv, Does
    <2> QED
      BY <2>3, <2>7, <2>10, <2>11
  <1> QED
    BY <1>4, <1>5

\* The handler of a reserved output makes its mark, or not, and goes on to record it.
LEMMA ApplyKeeps ==
    ASSUME HandlersOK, OutputsOK, ReservedInv, MarksInv, NEW s \in Slots, Apply(s)
    PROVE  /\ OutputsOK' /\ ReservedInv' /\ MarksInv' /\ Goes(s)
           /\ \A q \in Runs, j \in Keys : marks'[q][j] >= marks[q][j]
  <1> DEFINE r == h[s].run
             k == h[s].key
             More == [marks EXCEPT ![r][k] = IF @ < 2 THEN @ + 1 ELSE @]
  <1>1. /\ Does(h[s], "apply") /\ h[s] \in Handler /\ WellFormed(h[s])
        /\ output' = output /\ orphaned' = orphaned
    BY DEF Apply, At, Does, HandlersOK, rows
  <1>2. r \in Runs /\ k \in Keys
    BY <1>1, HeadOfScript DEF Submits
  <1>3. Works(h[s])
    BY <1>1 DEF Works, Submits
  <1>4. PICK outcome \in Outcomes :
            /\ Report(s, outcome)
            /\ \/ marks' = More /\ outcome = "recordApplied" /\ misled' = misled
               \/ marks' = marks /\ outcome = "recordFailed" /\ misled' = misled
               \/ marks' = More /\ outcome = "recordFailed" /\ misled' = misled \cup {<<r, k>>}
    BY DEF Apply, Outcomes
  <1> DEFINE todo == <<outcome>>
             this == [h[s] EXCEPT !.todo = todo]
  <1>5. h' = [h EXCEPT ![s] = this]
    BY <1>4 DEF Report
  <1>6. /\ todo \in Seq(Statements) /\ Len(todo) = 1 /\ todo[1] = outcome
        /\ todo # <<>> /\ Head(todo) = outcome
    <2>1. outcome \in Statements
      BY DEF Outcomes, Statements
    <2>2. todo \in Seq(Statements) /\ Len(todo) = 1 /\ todo[1] = outcome
      BY <2>1
    <2> HIDE DEF todo
    <2> QED
      BY <2>2, HeadIsFirst
  <1> HIDE DEF todo
  <1>7. /\ this \in Handler /\ this.todo = todo /\ this.op = h[s].op /\ this.run = r
        /\ this.key = k /\ this.count = h[s].count
    BY <1>1, <1>6 DEF Handler
  <1> HIDE DEF this
  <1>8. WellFormed(this) /\ this # h[s] /\ Works(this) /\ Does(this, outcome)
        /\ \A x \in Submits \ {outcome} : ~Does(this, x)
    <2>1. \A i \in 1 .. Len(todo) : i = 1
      BY <1>6
    <2>2. WellFormed(this)
      BY <1>2, <1>6, <1>7, <2>1 DEF WellFormed, Outcomes
    <2>3. Does(this, outcome) /\ \A x \in Submits \ {outcome} : ~Does(this, x)
      BY <1>6, <1>7 DEF Does
    <2>4. outcome \in Submits /\ outcome # "apply"
      BY DEF Submits, Outcomes
    <2> QED
      BY <1>1, <2>2, <2>3, <2>4 DEF Works, Does
  <1>9. Moved(s, this) /\ Goes(s)
    BY <1>5, <1>7, <1>8 DEF Moved, Goes, SameRequest
  <1>10. h'[s] = this /\ \A t \in Slots : t # s => h'[t] = h[t]
    BY <1>9, MovedHandlers
  <1>11. \A t \in Slots : (Works(h'[t]) <=> Works(h[t])) /\ h'[t].run = h[t].run /\ h'[t].key = h[t].key
    BY <1>3, <1>7, <1>8, <1>10
  <1>12. ReservedInv'
    BY <1>1, <1>11 DEF ReservedInv, Works, Does, On
  <1>13. ASSUME NEW t \in Slots, t # s, Works(h[t])
         PROVE  h[t].run \in Runs /\ h[t].key \in Keys /\ <<h[t].run, h[t].key>> # <<r, k>>
    <2>1. h[t].run \in Runs /\ h[t].key \in Keys
      BY <1>13, HeadOfScript DEF HandlersOK, Works, Submits, Outcomes
    <2>2. ~On(h[t], r, k)
      BY <1>3, <1>13 DEF ReservedInv
    <2> QED
      BY <2>1, <2>2 DEF On
  <1>14. marks[r][k] \in 0 .. 2
    BY <1>2 DEF OutputsOK
  <1>15. /\ More \in [Runs -> [Keys -> 0 .. 2]] /\ More[r][k] > 0 /\ More[r][k] >= marks[r][k]
         /\ marks[r][k] = 0 => More[r][k] = 1
         /\ \A q \in Runs, j \in Keys : <<q, j>> # <<r, k>> => More[q][j] = marks[q][j]
    <2> DEFINE more == IF marks[r][k] < 2 THEN marks[r][k] + 1 ELSE marks[r][k]
    <2>1. more \in 0 .. 2 /\ more > 0 /\ more >= marks[r][k] /\ (marks[r][k] = 0 => more = 1)
      BY <1>14
    <2>2. More = [marks EXCEPT ![r][k] = more]
      BY <1>2 DEF OutputsOK
    <2> HIDE DEF more, More
    <2>3. More[r][k] = more /\ More \in [Runs -> [Keys -> 0 .. 2]]
          /\ \A q \in Runs, j \in Keys : <<q, j>> # <<r, k>> => More[q][j] = marks[q][j]
      BY <1>2, <2>1, <2>2 DEF OutputsOK
    <2> QED
      BY <2>1, <2>3
  <1> HIDE DEF More
  <1>16. /\ marks' \in [Runs -> [Keys -> 0 .. 2]]
         /\ \A q \in Runs, j \in Keys : <<q, j>> # <<r, k>> => marks'[q][j] = marks[q][j]
         /\ marks'[r][k] \in {marks[r][k], More[r][k]}
         /\ misled \subseteq misled' /\ misled' \subseteq misled \cup {<<r, k>>}
    BY <1>4, <1>15 DEF OutputsOK
  <1>17. OutputsOK'
    BY <1>1, <1>2, <1>16 DEF OutputsOK
  <1>18. ASSUME NEW q \in Runs, NEW j \in Keys PROVE marks'[q][j] >= marks[q][j]
    <2>1. marks[q][j] \in 0 .. 2
      BY DEF OutputsOK
    <2>2. CASE <<q, j>> = <<r, k>>
      BY <1>14, <1>15, <1>16, <2>2
    <2>3. CASE <<q, j>> # <<r, k>>
      BY <1>16, <2>1, <2>3
    <2> QED
      BY <2>2, <2>3
  <1>19. <<r, k>> \in misled \/ marks[r][k] = 0
    BY <1>1 DEF MarksInv
  <1>20. output[r][k] = "pending"
    BY <1>3 DEF ReservedInv
  <1>21. ASSUME NEW q \in Runs, NEW j \in Keys
         PROVE  /\ output'[q][j] = "applied" => marks'[q][j] > 0
                /\ <<q, j>> \notin misled' =>
                     /\ marks'[q][j] <= 1
                     /\ marks'[q][j] > 0 => output'[q][j] \in {"applied", "pending"}
    <2>1. CASE <<q, j>> = <<r, k>>
      <3>1. <<r, k>> \notin misled' => marks'[r][k] \in {0, 1}
        BY <1>15, <1>16, <1>19
      <3> QED
        BY <1>1, <1>20, <2>1, <3>1
    <2>2. CASE <<q, j>> # <<r, k>>
      BY <1>1, <1>16, <2>2 DEF MarksInv
    <2> QED
      BY <2>1, <2>2
  <1>22. ASSUME NEW t \in Slots
         PROVE  /\ Does(h'[t], "recordApplied") => marks'[h'[t].run][h'[t].key] > 0
                /\ Does(h'[t], "apply") \/ Does(h'[t], "recordFailed") =>
                     \/ <<h'[t].run, h'[t].key>> \in misled'
                     \/ marks'[h'[t].run][h'[t].key] = 0
    <2>1. CASE t = s
      <3>1. h'[t].run = r /\ h'[t].key = k
        BY <1>7, <1>10, <2>1
      <3>2. outcome = "recordApplied" => marks'[r][k] > 0
        BY <1>4, <1>15
      <3>3. outcome = "recordFailed" => <<r, k>> \in misled' \/ marks'[r][k] = 0
        BY <1>4, <1>19
      <3>4. /\ Does(h'[t], "recordApplied") => outcome = "recordApplied"
            /\ Does(h'[t], "apply") \/ Does(h'[t], "recordFailed") => outcome = "recordFailed"
        BY <1>8, <1>10, <2>1 DEF Submits, Outcomes
      <3> QED
        BY <3>1, <3>2, <3>3, <3>4
    <2>2. CASE t # s /\ Works(h[t])
      <3>1. h'[t] = h[t] /\ marks'[h[t].run][h[t].key] = marks[h[t].run][h[t].key]
        BY <1>10, <1>13, <1>16, <2>2
      <3> QED
        BY <1>16, <3>1 DEF MarksInv
    <2>3. CASE t # s /\ ~Works(h[t])
      BY <1>10, <2>3 DEF Works, Submits, Outcomes
    <2> QED
      BY <2>1, <2>2, <2>3
  <1>23. MarksInv'
    BY <1>21, <1>22 DEF MarksInv, Does
  <1> QED
    BY <1>9, <1>12, <1>17, <1>18, <1>23

\* The handler that records what came of an output is its only one; whether it
\* comes to that or dies before, no other handler is affected.
LEMMA RecordKeeps ==
    ASSUME HandlersOK, OutputsOK, ReservedInv, MarksInv, NEW s \in Slots,
           RecordApplied(s) \/ RecordFailed(s)
    PROVE  OutputsOK' /\ ReservedInv' /\ MarksInv' /\ Goes(s)
  <1> DEFINE r == h[s].run
             k == h[s].key
  <1>1. PICK x \in Outcomes, status \in {"applied", "failed"} :
            /\ At(s, x) /\ output' = [output EXCEPT ![r][k] = status] /\ Answer(s)
            /\ x = "recordApplied" <=> status = "applied"
    BY DEF RecordApplied, RecordFailed, Record, Outcomes
  <1>2. /\ Does(h[s], x) /\ h[s] \in Handler /\ WellFormed(h[s])
        /\ marks' = marks /\ misled' = misled /\ orphaned' = orphaned
    BY <1>1 DEF RecordApplied, RecordFailed, Record, At, Does, HandlersOK
  <1>3. x \in Submits /\ x \notin {"sweep", "revokeSwept"}
    BY DEF Submits, Outcomes
  <1>4. r \in Runs /\ k \in Keys /\ Works(h[s])
    BY <1>2, <1>3, HeadOfScript DEF Works
  <1>5. Moved(s, Idle) /\ Goes(s)
    BY <1>1, Answers, AnswerGoes
  <1>6. h'[s] = Idle /\ \A t \in Slots : t # s => h'[t] = h[t]
    BY <1>5, MovedHandlers
  <1>7. /\ output' \in [Runs -> [Keys -> {"none", "pending", "applied", "failed"}]]
        /\ output'[r][k] = status
        /\ \A q \in Runs, j \in Keys : <<q, j>> # <<r, k>> => output'[q][j] = output[q][j]
    BY <1>1, <1>4 DEF OutputsOK
  <1>8. OutputsOK'
    BY <1>2, <1>7 DEF OutputsOK
  <1>9. ASSUME NEW t \in Slots, Works(h'[t])
        PROVE  /\ t # s /\ h'[t] = h[t] /\ Works(h[t]) /\ h[t].run \in Runs /\ h[t].key \in Keys
               /\ <<h[t].run, h[t].key>> # <<r, k>>
    <2>1. t # s /\ h'[t] = h[t] /\ Works(h[t])
      BY <1>6, <1>9, IdleIsHandler
    <2>2. h[t].run \in Runs /\ h[t].key \in Keys
      BY <2>1, HeadOfScript DEF HandlersOK, Works, Submits, Outcomes
    <2>3. ~On(h[t], r, k)
      BY <1>4, <2>1 DEF ReservedInv
    <2> QED
      BY <2>1, <2>2, <2>3 DEF On
  <1>10. ASSUME NEW t \in Slots, Works(h[t]), t # s PROVE Works(h'[t]) /\ h'[t] = h[t]
    BY <1>6, <1>10
  <1>11. ReservedInv'
    <2>1. ASSUME NEW q \in Runs, NEW j \in Keys, output'[q][j] = "pending"
          PROVE  <<q, j>> \in orphaned' \/ \E t \in Slots : Works(h'[t]) /\ On(h'[t], q, j)
      <3>1. <<q, j>> # <<r, k>> /\ output[q][j] = "pending"
        BY <1>7, <2>1
      <3>2. <<q, j>> \in orphaned \/ \E t \in Slots : Works(h[t]) /\ On(h[t], q, j)
        BY <3>1 DEF ReservedInv
      <3>3. ASSUME NEW t \in Slots, Works(h[t]), On(h[t], q, j)
            PROVE  Works(h'[t]) /\ On(h'[t], q, j)
        BY <1>10, <3>1, <3>3 DEF On
      <3> QED
        BY <1>2, <3>2, <3>3
    <2> QED
      BY <1>7, <1>9, <2>1 DEF ReservedInv, Works, Does, On
  <1>12. MarksInv'
    <2>1. /\ status = "applied" => marks[r][k] > 0
          /\ status = "failed" => <<r, k>> \in misled \/ marks[r][k] = 0
      BY <1>1, <1>2 DEF MarksInv, Outcomes
    <2>2. ASSUME NEW q \in Runs, NEW j \in Keys
          PROVE  /\ output'[q][j] = "applied" => marks'[q][j] > 0
                 /\ <<q, j>> \notin misled' =>
                      /\ marks'[q][j] <= 1
                      /\ marks'[q][j] > 0 => output'[q][j] \in {"applied", "pending"}
      <3>1. CASE <<q, j>> = <<r, k>>
        <4>1. <<r, k>> \notin misled => marks[r][k] <= 1
          BY <1>4 DEF MarksInv
        <4> QED
          BY <1>2, <1>7, <2>1, <3>1, <4>1
      <3>2. CASE <<q, j>> # <<r, k>>
        BY <1>2, <1>7, <3>2 DEF MarksInv
      <3> QED
        BY <3>1, <3>2
    <2>3. ASSUME NEW t \in Slots
          PROVE  /\ Does(h'[t], "recordApplied") => marks'[h'[t].run][h'[t].key] > 0
                 /\ Does(h'[t], "apply") \/ Does(h'[t], "recordFailed") =>
                      \/ <<h'[t].run, h'[t].key>> \in misled'
                      \/ marks'[h'[t].run][h'[t].key] = 0
      <3>1. CASE Works(h'[t])
        BY <1>2, <1>9, <3>1 DEF MarksInv
      <3>2. CASE ~Works(h'[t])
        BY <3>2 DEF Works, Submits, Outcomes
      <3> QED
        BY <3>1, <3>2
    <2> QED
      BY <2>2, <2>3 DEF MarksInv, Does
  <1> QED
    BY <1>5, <1>8, <1>11, <1>12

LEMMA DieKeeps ==
    ASSUME HandlersOK, OutputsOK, ReservedInv, MarksInv, NEW s \in Slots, Die(s)
    PROVE  OutputsOK' /\ ReservedInv' /\ MarksInv' /\ Goes(s)
  <1>1. /\ h' = [h EXCEPT ![s] = Idle] /\ Idle # h[s]
        /\ output' = output /\ marks' = marks /\ misled' = misled
        /\ h[s] \in Handler /\ WellFormed(h[s])
    BY DEF Die, Answer, HandlersOK, rows
  <1>2. Moved(s, Idle) /\ Goes(s)
    <2>1. "list" # "claim" /\ None \notin Runs
      OBVIOUS
    <2> QED
      BY <1>1, <2>1, IdleIsHandler DEF Moved, Goes, SameRequest
  <1>3. h'[s] = Idle /\ \A t \in Slots : t # s => h'[t] = h[t]
    BY <1>2, MovedHandlers
  <1>4. Submitting(s) <=> Works(h[s])
    BY DEF Submitting, Works, At, Does, Submits, Outcomes
  <1>5. Works(h[s]) => h[s].run \in Runs /\ h[s].key \in Keys
    BY <1>1, HeadOfScript DEF Works, Submits, Outcomes
  <1>6. /\ orphaned \subseteq orphaned' /\ orphaned' \subseteq Runs \X Keys
        /\ Works(h[s]) => <<h[s].run, h[s].key>> \in orphaned'
    BY <1>4, <1>5 DEF Die, OutputsOK
  <1>7. OutputsOK'
    BY <1>1, <1>6 DEF OutputsOK
  <1>8. ASSUME NEW t \in Slots, Works(h'[t])
        PROVE  t # s /\ h'[t] = h[t] /\ Works(h[t])
    BY <1>3, <1>8, IdleIsHandler
  <1>9. ReservedInv'
    <2>1. ASSUME NEW q \in Runs, NEW j \in Keys, output'[q][j] = "pending"
          PROVE  <<q, j>> \in orphaned' \/ \E t \in Slots : Works(h'[t]) /\ On(h'[t], q, j)
      <3>1. <<q, j>> \in orphaned \/ \E t \in Slots : Works(h[t]) /\ On(h[t], q, j)
        BY <1>1, <2>1 DEF ReservedInv
      <3>2. ASSUME NEW t \in Slots, Works(h[t]), On(h[t], q, j)
            PROVE  <<q, j>> \in orphaned' \/ (Works(h'[t]) /\ On(h'[t], q, j))
        <4>1. CASE t = s
          <5>1. h[s].run = q /\ h[s].key = j /\ Works(h[s])
            BY <3>2, <4>1 DEF On
          <5>2. <<h[s].run, h[s].key>> \in orphaned'
            BY <1>6, <5>1
          <5> QED
            BY <5>1, <5>2
        <4>2. CASE t # s
          BY <1>3, <3>2, <4>2
        <4> QED
          BY <4>1, <4>2
      <3> QED
        BY <1>6, <3>1, <3>2
    <2> QED
      BY <1>1, <1>8, <2>1 DEF ReservedInv, Works, Does, On
  <1>10. MarksInv'
    <2>1. ASSUME NEW t \in Slots
          PROVE  /\ Does(h'[t], "recordApplied") => marks'[h'[t].run][h'[t].key] > 0
                 /\ Does(h'[t], "apply") \/ Does(h'[t], "recordFailed") =>
                      \/ <<h'[t].run, h'[t].key>> \in misled'
                      \/ marks'[h'[t].run][h'[t].key] = 0
      <3>1. CASE Works(h'[t])
        BY <1>1, <1>8, <3>1 DEF MarksInv
      <3>2. CASE ~Works(h'[t])
        BY <3>2 DEF Works, Submits, Outcomes
      <3> QED
        BY <3>1, <3>2
    <2> QED
      BY <1>1, <2>1 DEF MarksInv, Does
  <1> QED
    BY <1>2, <1>7, <1>9, <1>10

-----------------------------------------------------------------------------
(* Runs, credentials and the result count.                                 *)

RunRecord == [status : Active \cup Ended \cup {"none"}, token : Tokens,
              lapsed : BOOLEAN, result : 0 .. Cardinality(Keys)]

\* A run has a token exactly while it is held.
RunOK(x) ==
    /\ x \in RunRecord
    /\ x.token # 0 <=> x.status \in Held
    /\ x.lapsed => x.status \in Held

\* Who may end the claim of a run, or make it running.
Decided(s, r) ==
    run[r].status \in Held /\ run'[r].status # run[r].status =>
        \/ run'[r].status = "cancelled"
        \/ run'[r].status = "lease_expired" /\ run[r].lapsed
        \/ /\ h[s].run = r /\ h[s].token = run[r].token
           /\ run'[r].status \in {"completed", "running"} => ~run[r].lapsed

\* What a statement of s may do to the runs.
RunsMove(s) ==
    /\ RunsOK'
    /\ \A r \in Runs : /\ Decided(s, r)
                       /\ \/ run'[r].result = run[r].result
                          \/ h[s].run = r /\ run'[r].result = h[s].count

LEMMA RunIsOK ==
    ASSUME RunsOK, NEW r \in Runs
    PROVE  RunOK(run[r])
  BY DEF RunsOK, RunOK, RunRecord

LEMMA SameRuns ==
    ASSUME RunsOK, NEW s \in Slots, run' = run
    PROVE  RunsMove(s)
  BY DEF RunsMove, RunsOK, Decided

\* An UPDATE of one run.
LEMMA OneRun ==
    ASSUME RunsOK, NEW s \in Slots, NEW r \in Runs, NEW x, RunOK(x),
           run' = [run EXCEPT ![r] = x],
           x.result = run[r].result \/ (h[s].run = r /\ x.result = h[s].count),
           run[r].status \in Held /\ x.status # run[r].status =>
               \/ x.status = "cancelled"
               \/ /\ h[s].run = r /\ h[s].token = run[r].token
                  /\ x.status \in {"completed", "running"} => ~run[r].lapsed
    PROVE  RunsMove(s)
  <1>1. run'[r] = x /\ \A q \in Runs : q # r => run'[q] = run[q]
    BY DEF RunsOK
  <1>2. \A q \in Runs : RunOK(run'[q])
    BY <1>1, RunIsOK
  <1>3. RunsOK'
    <2>1. run' \in [Runs -> RunRecord]
      BY DEF RunsOK, RunOK, RunRecord
    <2> QED
      BY <1>2, <2>1 DEF RunsOK, RunOK, RunRecord
  <1>4. ASSUME NEW q \in Runs
        PROVE  /\ Decided(s, q)
               /\ \/ run'[q].result = run[q].result
                  \/ h[s].run = q /\ run'[q].result = h[s].count
    <2>1. CASE q = r
      <3>1. run'[q] = x
        BY <1>1, <2>1
      <3>2. Decided(s, q)
        BY <2>1, <3>1 DEF Decided
      <3> QED
        BY <2>1, <3>1, <3>2
    <2>2. CASE q # r
      <3>1. run'[q] = run[q]
        BY <1>1, <2>2
      <3> QED
        BY <3>1 DEF Decided
    <2> QED
      BY <2>1, <2>2
  <1> QED
    BY <1>3, <1>4 DEF RunsMove

LEMMA ClearedRun ==
    ASSUME RunsOK, NEW r \in Runs,
           NEW status \in {"queued", "cancelled", "lease_expired", "failed", "completed"}
    PROVE  /\ RunOK(Cleared(r, status)) /\ Cleared(r, status).status = status
           /\ Cleared(r, status).result = run[r].result
  <1>1. run[r] \in RunRecord
    BY RunIsOK DEF RunOK
  <1>2. /\ 0 \in Tokens /\ status \in Active \cup Ended \cup {"none"} /\ status \notin Held
    BY DEF Tokens, Active, Ended, Held
  <1>3. /\ Cleared(r, status) \in RunRecord /\ Cleared(r, status).status = status
        /\ Cleared(r, status).token = 0 /\ Cleared(r, status).lapsed = FALSE
        /\ Cleared(r, status).result = run[r].result
    BY <1>1, <1>2 DEF Cleared, RunRecord
  <1> QED
    BY <1>2, <1>3 DEF RunOK

\* The handler of a statement about a run has one.
LEMMA RunOfStatement ==
    ASSUME HandlersOK, NEW s \in Slots, NEW x, At(s, x), x \notin {"sweep", "revokeSwept"}
    PROVE  h[s].run \in Runs /\ h[s].count \in 0 .. Cardinality(Keys)
  <1>1. h[s] \in Handler /\ WellFormed(h[s]) /\ Does(h[s], x)
    BY DEF HandlersOK, At, Does
  <1> QED
    BY <1>1, HeadOfScript DEF Handler

LEMMA SweepMoves ==
    ASSUME RunsOK, NEW s \in Slots, Sweep(s)
    PROVE  RunsMove(s)
  <1>1. run' = [r \in Runs |-> IF r \in Lapsed THEN Cleared(r, "lease_expired") ELSE run[r]]
    BY DEF Sweep
  <1>2. \A r \in Runs : run'[r] = IF r \in Lapsed THEN Cleared(r, "lease_expired") ELSE run[r]
    BY <1>1
  <1>3. \A r \in Runs : RunOK(run'[r]) /\ run'[r].result = run[r].result
    BY <1>2, RunIsOK, ClearedRun
  <1>4. run' \in [Runs -> RunRecord]
    <2>1. \A r \in Runs : (IF r \in Lapsed THEN Cleared(r, "lease_expired") ELSE run[r]) \in RunRecord
      BY <1>2, <1>3 DEF RunOK
    <2> QED
      BY <1>1, <2>1
  <1>5. RunsOK'
    BY <1>3, <1>4 DEF RunsOK, RunOK, RunRecord
  <1>6. ASSUME NEW r \in Runs PROVE Decided(s, r)
    <2>1. CASE r \in Lapsed
      <3>1. run'[r].status = "lease_expired" /\ run[r].lapsed
        BY <1>2, <2>1, ClearedRun DEF Lapsed
      <3> QED
        BY <3>1 DEF Decided
    <2>2. CASE r \notin Lapsed
      BY <1>2, <2>2 DEF Decided
    <2> QED
      BY <2>1, <2>2
  <1> QED
    BY <1>3, <1>5, <1>6 DEF RunsMove

LEMMA StatementRuns ==
    ASSUME RunsOK, HandlersOK, TokensOK, NEW s \in Slots, Step(s)
    PROVE  RunsMove(s)
  <1> DEFINE r == h[s].run
  <1>1. ASSUME run' = run PROVE RunsMove(s)
    BY <1>1, SameRuns
  <1>2. ASSUME InsertRun(s) PROVE RunsMove(s)
    <2>1. At(s, "create") /\ r \in Runs
      <3>1. At(s, "create")
        BY <1>2 DEF InsertRun
      <3> QED
        BY <3>1, RunOfStatement
    <2> DEFINE x == [run[r] EXCEPT !.status = "queued"]
    <2>2. CASE run[r].status = "none" /\ run' = [run EXCEPT ![r] = x]
      <3>1. RunOK(run[r]) /\ run[r] \in RunRecord
        BY <2>1, RunIsOK DEF RunOK
      <3>2. x \in RunRecord /\ x.status = "queued" /\ x.token = run[r].token
            /\ x.lapsed = run[r].lapsed /\ x.result = run[r].result
        BY <3>1 DEF RunRecord, Active
      <3> HIDE DEF x
      <3>3. run[r].status \notin Held
        BY <2>2 DEF Held
      <3>4. RunOK(x)
        <4>1. x.token = 0 /\ ~x.lapsed
          BY <3>1, <3>2, <3>3 DEF RunOK
        <4> QED
          BY <3>2, <4>1 DEF RunOK, Held
      <3> QED
        BY <2>1, <2>2, <3>2, <3>3, <3>4, OneRun
    <2>3. run' = run \/ (run[r].status = "none" /\ run' = [run EXCEPT ![r] = x])
      BY <1>2 DEF InsertRun
    <2> QED
      BY <1>1, <2>2, <2>3
  <1>3. ASSUME Requeue(s) PROVE RunsMove(s)
    <2>1. At(s, "requeue")
      BY <1>3 DEF Requeue
    <2>2. r \in Runs
      BY <2>1, RunOfStatement
    <2>3. run' = run \/ (run[r].status \in {"failed", "cancelled", "lease_expired"}
                         /\ run' = [run EXCEPT ![r] = Cleared(r, "queued")])
      BY <1>3 DEF Requeue
    <2>4. run[r].status \in {"failed", "cancelled", "lease_expired"} => run[r].status \notin Held
      BY DEF Held
    <2> QED
      BY <1>1, <2>2, <2>3, <2>4, ClearedRun, OneRun
  <1>4. ASSUME CancelRun(s) PROVE RunsMove(s)
    <2>1. At(s, "cancel")
      BY <1>4 DEF CancelRun
    <2>2. r \in Runs
      BY <2>1, RunOfStatement
    <2>3. run' = run \/ run' = [run EXCEPT ![r] = Cleared(r, "cancelled")]
      BY <1>4 DEF CancelRun
    <2> QED
      BY <1>1, <2>2, <2>3, ClearedRun, OneRun
  <1>5. ASSUME Claim(s) PROVE RunsMove(s)
    <2>1. At(s, "claim")
      BY <1>5 DEF Claim
    <2>2. r \in Runs
      BY <2>1, RunOfStatement
    <2>3. issued + 1 \in 1 .. MaxToken
      BY <1>5, TokensOfClaim
    <2> DEFINE token == issued + 1
               x == [run[r] EXCEPT !.status = "claimed", !.token = token, !.lapsed = FALSE]
    <2>4. run' = run \/ (run[r].status = "queued" /\ run' = [run EXCEPT ![r] = x])
      BY <1>5 DEF Claim
    <2>5. token \in Tokens /\ token # 0
      BY <2>3 DEF Tokens
    <2> HIDE DEF token
    <2>6. run[r] \in RunRecord
      BY <2>2, RunIsOK DEF RunOK
    <2>7. x \in RunRecord /\ x.status = "claimed" /\ x.token = token /\ x.result = run[r].result
      BY <2>5, <2>6 DEF RunRecord, Active, Held
    <2> HIDE DEF x
    <2>8. RunOK(x)
      BY <2>5, <2>7 DEF RunOK, Held
    <2>9. run[r].status = "queued" => run[r].status \notin Held
      BY DEF Held
    <2> QED
      BY <1>1, <2>2, <2>4, <2>7, <2>8, <2>9, OneRun
  <1>6. ASSUME Renew(s) PROVE RunsMove(s)
    <2>1. At(s, "renew")
      BY <1>6 DEF Renew
    <2>2. r \in Runs
      BY <2>1, RunOfStatement
    <2> DEFINE x == [run[r] EXCEPT !.status = "running"]
    <2>3. run' = run \/ (WithinLease(s) /\ run' = [run EXCEPT ![r] = x])
      BY <1>6 DEF Renew
    <2>4. RunOK(run[r]) /\ run[r] \in RunRecord
      BY <2>2, RunIsOK DEF RunOK
    <2>5. x \in RunRecord /\ x.status = "running" /\ x.token = run[r].token
          /\ x.lapsed = run[r].lapsed /\ x.result = run[r].result
      BY <2>4 DEF RunRecord, Active, Held
    <2> HIDE DEF x
    <2>6. ASSUME WithinLease(s), run' = [run EXCEPT ![r] = x] PROVE RunsMove(s)
      <3>1. run[r].token = h[s].token /\ run[r].status \in Held /\ ~run[r].lapsed
        BY <2>6 DEF WithinLease, Holds
      <3>2. RunOK(x)
        <4>1. x.token # 0 /\ x.status \in Held
          BY <2>4, <2>5, <3>1 DEF RunOK, Held
        <4> QED
          BY <2>5, <4>1 DEF RunOK
      <3> QED
        BY <2>2, <2>5, <2>6, <3>1, <3>2, OneRun
    <2> QED
      BY <1>1, <2>3, <2>6
  <1>7. ASSUME Complete(s) PROVE RunsMove(s)
    <2>1. At(s, "complete")
      BY <1>7 DEF Complete
    <2>2. r \in Runs /\ h[s].count \in 0 .. Cardinality(Keys)
      BY <2>1, RunOfStatement
    <2> DEFINE cleared == Cleared(r, "completed")
               x == [cleared EXCEPT !.result = h[s].count]
    <2>3. run' = run \/ (WithinLease(s) /\ run' = [run EXCEPT ![r] = x])
      BY <1>7 DEF Complete
    <2>4. RunOK(cleared) /\ cleared \in RunRecord /\ cleared.status = "completed"
      BY <2>2, ClearedRun DEF RunOK
    <2> HIDE DEF cleared
    <2>5. x \in RunRecord /\ x.status = "completed" /\ x.token = cleared.token
          /\ x.lapsed = cleared.lapsed /\ x.result = h[s].count
      BY <2>2, <2>4 DEF RunRecord
    <2> HIDE DEF x
    <2>6. ASSUME WithinLease(s), run' = [run EXCEPT ![r] = x] PROVE RunsMove(s)
      <3>1. run[r].token = h[s].token /\ ~run[r].lapsed
        BY <2>6 DEF WithinLease, Holds
      <3>2. RunOK(x)
        BY <2>4, <2>5 DEF RunOK
      <3> QED
        BY <2>2, <2>5, <2>6, <3>1, <3>2, OneRun
    <2> QED
      BY <1>1, <2>3, <2>6
  <1>8. ASSUME Fail(s) \/ Release(s) PROVE RunsMove(s)
    <2>1. PICK x \in {"fail", "release"}, status \in {"failed", "queued"} :
            /\ At(s, x)
            /\ run' = IF Holds(s) THEN [run EXCEPT ![r] = Cleared(r, status)] ELSE run
      BY <1>8 DEF Fail, Release, GiveUp
    <2>2. r \in Runs
      BY <2>1, RunOfStatement
    <2>3. ASSUME Holds(s), run' = [run EXCEPT ![r] = Cleared(r, status)] PROVE RunsMove(s)
      <3>1. run[r].token = h[s].token
        BY <2>3 DEF Holds
      <3>2. /\ RunOK(Cleared(r, status)) /\ Cleared(r, status).status = status
            /\ Cleared(r, status).result = run[r].result
        BY <2>2, ClearedRun
      <3> QED
        BY <2>2, <2>3, <3>1, <3>2, OneRun
    <2> QED
      BY <1>1, <2>1, <2>3
  <1> QED
    BY <1>1, <1>2, <1>3, <1>4, <1>5, <1>6, <1>7, <1>8, SweepMoves
       DEF Step, RevokeSwept, Revoke, Inspect, Check, InsertCredential, Validate, Count,
           Reserve, Apply, RecordApplied, RecordFailed, Record, rows

LEMMA RevokedCredentials ==
    ASSUME CredsOK, NEW S, cred' = Revoked(S)
    PROVE  CredsOK'
  <1>1. ASSUME NEW c \in Creds
        PROVE  /\ cred'[c] \in [run : Runs \cup {None},
                                status : {"none", "active", "revoked", "expired"}]
               /\ cred'[c].status = "active" => cred'[c].run \in Runs
    <2>1. cred'[c] = IF cred[c].run \in S /\ cred[c].status = "active"
                     THEN [cred[c] EXCEPT !.status = "revoked"] ELSE cred[c]
      BY DEF Revoked
    <2>2. CASE cred'[c] = [cred[c] EXCEPT !.status = "revoked"]
      BY <2>2 DEF CredsOK
    <2>3. CASE cred'[c] = cred[c]
      BY <2>3 DEF CredsOK
    <2> QED
      BY <2>1, <2>2, <2>3
  <1>2. cred' = [c \in Creds |-> cred'[c]]
    BY DEF Revoked
  <1> QED
    BY <1>1, <1>2 DEF CredsOK

LEMMA CredentialsKept ==
    ASSUME CredsOK, HandlersOK, NEW s \in Slots, Step(s)
    PROVE  CredsOK'
  <1>1. ASSUME InsertCredential(s) PROVE CredsOK'
    <2>1. At(s, "mint")
      BY <1>1 DEF InsertCredential
    <2>2. h[s].run \in Runs
      BY <2>1, RunOfStatement
    <2>3. cred' = [cred EXCEPT ![h[s].cred] = [run |-> h[s].run, status |-> "active"]]
      BY <1>1 DEF InsertCredential
    <2> QED
      BY <2>2, <2>3 DEF CredsOK
  <1>2. ASSUME RevokeSwept(s) \/ Revoke(s) PROVE CredsOK'
    BY <1>2, RevokedCredentials DEF RevokeSwept, Revoke
  <1>3. ASSUME cred' = cred PROVE CredsOK'
    BY <1>3 DEF CredsOK
  <1> QED
    BY <1>1, <1>2, <1>3
       DEF Step, Sweep, Inspect, InsertRun, Requeue, CancelRun, Check, Claim, Validate, Renew,
           Count, Complete, Fail, Release, GiveUp, Reserve, Apply, RecordApplied, RecordFailed,
           Record, rows

\* A count may lag behind the marks, and is never ahead of them.
LEMMA CountsKept ==
    ASSUME RunsOK, OutputsOK, OutputsOK', HandlersOK, MarksInv, CountsInv, NEW s \in Slots, Goes(s),
           \A q \in Runs, j \in Keys : marks'[q][j] >= marks[q][j],
           \A r \in Runs : \/ run'[r].result = run[r].result
                           \/ h[s].run = r /\ run'[r].result = h[s].count
    PROVE  CountsInv'
  <1>1. ASSUME NEW r \in Runs
        PROVE  /\ Cardinality(Applied(r)) \in Nat /\ Cardinality(Marked(r)) \in Nat
               /\ Cardinality(Marked(r)') \in Nat
               /\ Cardinality(Applied(r)) <= Cardinality(Marked(r))
               /\ Cardinality(Marked(r)) <= Cardinality(Marked(r)')
    <2>1. Applied(r) \in SUBSET Keys /\ Marked(r) \in SUBSET Keys /\ Marked(r)' \in SUBSET Keys
      BY DEF Applied, Marked
    <2>2. Applied(r) \in SUBSET Marked(r)
      BY DEF MarksInv, Applied, Marked
    <2>3. Marked(r) \in SUBSET Marked(r)'
      <3>1. ASSUME NEW k \in Keys, marks[r][k] > 0 PROVE marks'[r][k] > 0
        <4>1. marks[r][k] \in 0 .. 2 /\ marks'[r][k] \in 0 .. 2 /\ marks'[r][k] >= marks[r][k]
          BY DEF OutputsOK
        <4> QED
          BY <3>1, <4>1
      <3> QED
        BY <3>1 DEF Marked
    <2>4. /\ IsFiniteSet(Marked(r)) /\ IsFiniteSet(Marked(r)')
          /\ Cardinality(Applied(r)) \in Nat /\ Cardinality(Marked(r)) \in Nat
          /\ Cardinality(Marked(r)') \in Nat
      BY <2>1, Finite
    <2>5. Cardinality(Applied(r)) <= Cardinality(Marked(r))
      BY <2>2, <2>4, FS_Subset
    <2>6. Cardinality(Marked(r)) <= Cardinality(Marked(r)')
      BY <2>3, <2>4, FS_Subset
    <2> QED
      BY <2>4, <2>5, <2>6
  <1>2. ASSUME NEW t \in Slots, NEW r \in Runs, h[t].run = r
        PROVE  h[t].count \in Nat /\ h[t].count <= Cardinality(Marked(r)')
    <2>1. h[t].count \in Nat
      BY Finite DEF HandlersOK, Handler
    <2>2. h[t].count <= Cardinality(Marked(r))
      BY <1>2 DEF CountsInv
    <2> QED
      BY <1>1, <2>1, <2>2
  <1>3. PICK this : /\ Moved(s, this) /\ SameRequest(s, this)
                    /\ this.run \in Runs =>
                         this.count \in {0, h[s].count, Cardinality(Applied(h[s].run))}
    BY DEF Goes
  <1>4. h'[s] = this /\ \A t \in Slots : t # s => h'[t] = h[t]
    BY <1>3, MovedHandlers
  <1>5. ASSUME NEW t \in Slots, NEW r \in Runs, h'[t].run = r
        PROVE  h'[t].count <= Cardinality(Marked(r)')
    <2>1. CASE t # s
      BY <1>2, <1>4, <1>5, <2>1
    <2>2. CASE t = s
      <3>1. h[s].run = r /\ h'[t].count \in {0, h[s].count, Cardinality(Applied(r))}
        BY <1>3, <1>4, <1>5, <2>2 DEF SameRequest
      <3>2. h[s].count <= Cardinality(Marked(r)')
        BY <1>2, <3>1
      <3>3. 0 <= Cardinality(Marked(r)') /\ Cardinality(Applied(r)) <= Cardinality(Marked(r)')
        BY <1>1
      <3> QED
        BY <3>1, <3>2, <3>3
    <2> QED
      BY <2>1, <2>2
  <1>6. ASSUME NEW r \in Runs
        PROVE  run'[r].result <= Cardinality(Marked(r)')
    <2>1. CASE run'[r].result = run[r].result
      <3>1. run[r].result \in Nat /\ run[r].result <= Cardinality(Marked(r))
        BY Finite DEF CountsInv, RunsOK
      <3> QED
        BY <1>1, <2>1, <3>1
    <2>2. CASE h[s].run = r /\ run'[r].result = h[s].count
      BY <1>2, <2>2
    <2> QED
      BY <2>1, <2>2
  <1> QED
    BY <1>5, <1>6 DEF CountsInv, Marked

-----------------------------------------------------------------------------
LEMMA InitIInv == Init => IInv
  <1> SUFFICES ASSUME Init PROVE IInv
    OBVIOUS
  <1>1. RunsOK
    BY Finite DEF Init, RunsOK, Held, Tokens
  <1>2. CredsOK /\ OutputsOK
    BY DEF Init, CredsOK, OutputsOK
  <1>3. HandlersOK /\ \A s \in Slots : h[s] = Idle
    BY IdleIsHandler DEF Init, HandlersOK
  <1>4. TokensOK
    <2>1. ClaimsUnderWay = {}
      BY <1>3, IdleIsHandler DEF ClaimsUnderWay
    <2>2. Cardinality(ClaimsUnderWay) = 0
      BY <2>1, FS_EmptySet
    <2> QED
      BY <2>2 DEF Init, TokensOK
  <1>5. ReservedInv
    <2>1. \A s \in Slots : ~Works(h[s])
      BY <1>3, IdleIsHandler
    <2>2. \A r \in Runs, k \in Keys : output[r][k] = "none"
      BY DEF Init
    <2> QED
      BY <2>1, <2>2 DEF ReservedInv
  <1>6. MarksInv
    <2>1. \A s \in Slots : \A x \in Submits : ~Does(h[s], x)
      BY <1>3, IdleIsHandler DEF Works
    <2>2. \A r \in Runs, k \in Keys : output[r][k] = "none" /\ marks[r][k] = 0
      BY DEF Init
    <2> QED
      BY <2>1, <2>2 DEF MarksInv, Submits, Outcomes
  <1>7. CountsInv
    <2>1. \A r \in Runs : Cardinality(Marked(r)) \in Nat
      <3>1. \A r \in Runs : Marked(r) \in SUBSET Keys
        BY DEF Marked
      <3> QED
        BY <3>1, Finite
    <2>2. \A s \in Slots : h[s].count = 0
      BY <1>3, IdleIsHandler
    <2>3. \A r \in Runs : run[r].result = 0
      BY DEF Init
    <2> QED
      BY <2>1, <2>2, <2>3 DEF CountsInv
  <1> QED
    BY <1>1, <1>2, <1>3, <1>4, <1>5, <1>6, <1>7 DEF IInv, TypeInv

\* A request that arrives.
LEMMA RequestKeeps ==
    ASSUME IInv, NEW s \in Slots, Request(s)
    PROVE  IInv'
  <1>1. RunsOK /\ CredsOK /\ OutputsOK /\ HandlersOK /\ TokensOK
        /\ ReservedInv /\ MarksInv /\ CountsInv
    BY DEF IInv, TypeInv
  <1>2. issued \in Nat /\ issued <= MaxToken
    <2>1. ClaimsUnderWay \in SUBSET Slots
      BY DEF ClaimsUnderWay
    <2> QED
      BY <1>1, <2>1, Finite DEF TokensOK
  <1>3. PICK op \in Ops, r \in Runs \cup {None}, c \in Creds \cup {None}, t \in 0 .. issued,
             k \in Keys \cup {None} :
            /\ Start(s, op, r, c, t, k)
            /\ op # "list" => r \in Runs
            /\ op \in {"output", "shared"} => k \in Keys
            /\ op = "claim" => issued + Cardinality(ClaimsUnderWay) < MaxToken
    <2> DEFINE P(op, r, c, t, k) ==
                 /\ Start(s, op, r, c, t, k)
                 /\ op # "list" => r \in Runs
                 /\ op \in {"output", "shared"} => k \in Keys
                 /\ op = "claim" => issued + Cardinality(ClaimsUnderWay) < MaxToken
               Found == \E op \in Ops, r \in Runs \cup {None}, c \in Creds \cup {None},
                           t \in 0 .. issued, k \in Keys \cup {None} : P(op, r, c, t, k)
    <2>0. /\ \A op \in {"list", "create", "retry", "cancel", "mint", "claim", "output", "shared"}
                         \cup HolderOp : op \in Ops
          /\ 0 \in 0 .. issued
      BY <1>2 DEF Ops, Script, HolderOp
    <2>1. ASSUME List(s) PROVE Found
      <3>1. P("list", None, None, 0, None)
        BY <2>1 DEF List
      <3> QED
        BY <2>0, <3>1
    <2>2. ASSUME NEW r \in Runs, Create(s, r) PROVE Found
      <3>1. P("create", r, None, 0, None)
        BY <2>2 DEF Create
      <3> QED
        BY <2>0, <3>1
    <2>3. ASSUME NEW r \in Runs, Retry(s, r) PROVE Found
      <3>1. P("retry", r, None, 0, None)
        BY <2>3 DEF Retry
      <3> QED
        BY <2>0, <3>1
    <2>4. ASSUME NEW r \in Runs, Cancel(s, r) PROVE Found
      <3>1. P("cancel", r, None, 0, None)
        BY <2>4 DEF Cancel
      <3> QED
        BY <2>0, <3>1
    <2>5. ASSUME NEW r \in Runs, NEW c \in Creds, Mint(s, r, c) PROVE Found
      <3>1. P("mint", r, c, 0, None)
        BY <2>5 DEF Mint
      <3> QED
        BY <2>0, <3>1
    <2>6. ASSUME NEW c \in Creds, Resolves(c) PROVE cred[c].run \in Runs
      BY <1>1, <2>6 DEF CredsOK, Resolves
    <2>7. ASSUME NEW c \in Creds, CallClaim(s, c) PROVE Found
      <3>1. P("claim", cred[c].run, c, 0, None) /\ Resolves(c)
        BY <2>6, <2>7 DEF CallClaim
      <3> QED
        BY <2>0, <2>6, <3>1
    <2>8. ASSUME NEW c \in Creds, NEW t \in 1 .. issued, NEW op \in HolderOp, CallHolder(s, op, c, t)
          PROVE  Found
      <3>1. Start(s, op, cred[c].run, c, t, None) /\ cred[c].run \in Runs
        BY <2>6, <2>8 DEF CallHolder
      <3>2. op \notin {"output", "shared", "claim"}
        BY DEF HolderOp
      <3>3. P(op, cred[c].run, c, t, None)
        BY <3>1, <3>2
      <3>4. t \in 0 .. issued
        BY <1>2
      <3> QED
        BY <2>0, <3>1, <3>3, <3>4
    <2>9. ASSUME NEW c \in Creds, NEW t \in 1 .. issued, NEW k \in Keys, CallOutput(s, c, t, k)
          PROVE  Found
      <3>1. P("output", cred[c].run, c, t, k) /\ cred[c].run \in Runs
        BY <2>6, <2>9 DEF CallOutput
      <3>2. t \in 0 .. issued
        BY <1>2
      <3> QED
        BY <2>0, <3>1, <3>2
    <2>10. ASSUME NEW r \in Runs, NEW t \in 1 .. issued, NEW k \in Keys, CallShared(s, r, t, k)
           PROVE  Found
      <3>1. P("shared", r, None, t, k)
        BY <2>10 DEF CallShared
      <3>2. t \in 0 .. issued
        BY <1>2
      <3> QED
        BY <2>0, <3>1, <3>2
    <2>11. Found
      BY <2>1, <2>2, <2>3, <2>4, <2>5, <2>7, <2>8, <2>9, <2>10 DEF Request
    <2> QED
      BY <2>11
  <1>4. PICK this : /\ Moved(s, this) /\ Calm(s, this) /\ this.count = 0
                    /\ this.op = op /\ h[s].op = "list"
    BY <1>1, <1>2, <1>3, StartMoves
  <1>5. run' = run /\ cred' = cred /\ output' = output /\ marks' = marks /\ issued' = issued
        /\ misled' = misled /\ orphaned' = orphaned
    BY <1>3 DEF Start, rows
  <1>6. HandlersOK' /\ h'[s] = this /\ \A u \in Slots : u # s => h'[u] = h[u]
    BY <1>1, <1>4, MovedHandlers
  <1>7. TokensOK'
    <2>1. CASE op = "claim"
      BY <1>1, <1>3, <1>4, <1>5, <2>1, TokensOfCallClaim
    <2>2. CASE op # "claim"
      BY <1>1, <1>4, <1>5, <2>2, TokensKept
    <2> QED
      BY <2>1, <2>2
  <1>8. RunsOK' /\ CredsOK' /\ OutputsOK'
    BY <1>1, <1>5 DEF RunsOK, CredsOK, OutputsOK
  <1>9. ReservedInv' /\ MarksInv'
    BY <1>1, <1>4, CalmKeeps
  <1>10. CountsInv'
    <2>1. ASSUME NEW q \in Runs PROVE Marked(q)' = Marked(q) /\ Cardinality(Marked(q)) \in Nat
      <3>1. Marked(q) \in SUBSET Keys
        BY DEF Marked
      <3> QED
        BY <1>5, <3>1, Finite DEF Marked
    <2>2. ASSUME NEW u \in Slots, NEW q \in Runs, h'[u].run = q
          PROVE  h'[u].count <= Cardinality(Marked(q)')
      <3>1. CASE u = s
        BY <1>4, <1>6, <2>1, <3>1
      <3>2. CASE u # s
        BY <1>1, <1>6, <2>1, <2>2, <3>2 DEF CountsInv
      <3> QED
        BY <3>1, <3>2
    <2>3. \A q \in Runs : run'[q].result <= Cardinality(Marked(q)')
      BY <1>1, <1>5, <2>1 DEF CountsInv
    <2> QED
      BY <2>2, <2>3 DEF CountsInv, Marked
  <1> QED
    BY <1>6, <1>7, <1>8, <1>9, <1>10 DEF IInv, TypeInv

\* What a statement of a handler does to the outputs and to the handler itself.
LEMMA StepMoves ==
    ASSUME OutputsOK, HandlersOK, ReservedInv, MarksInv, NEW s \in Slots, Step(s)
    PROVE  /\ OutputsOK' /\ ReservedInv' /\ MarksInv' /\ Goes(s) /\ h'[s] # h[s]
           /\ \A q \in Runs, j \in Keys : marks'[q][j] >= marks[q][j]
  <1>0. ASSUME Goes(s) PROVE h'[s] # h[s]
    BY <1>0, MovedHandlers DEF Goes, Moved
  <1>1. ASSUME marks' = marks PROVE \A q \in Runs, j \in Keys : marks'[q][j] >= marks[q][j]
    <2>1. \A q \in Runs, j \in Keys : marks[q][j] \in 0 .. 2
      BY DEF OutputsOK
    <2> QED
      BY <1>1, <2>1
  <1>2. CASE Reserve(s)
    BY <1>0, <1>1, <1>2, ReserveKeeps DEF Reserve
  <1>3. CASE Apply(s)
    BY <1>0, <1>3, ApplyKeeps
  <1>4. CASE RecordApplied(s) \/ RecordFailed(s)
    BY <1>0, <1>1, <1>4, RecordKeeps DEF RecordApplied, RecordFailed, Record
  <1>5. CASE \/ Sweep(s) \/ RevokeSwept(s) \/ Revoke(s) \/ Inspect(s)
             \/ InsertRun(s) \/ Requeue(s) \/ CancelRun(s)
             \/ Check(s) \/ InsertCredential(s) \/ Claim(s) \/ Validate(s) \/ Renew(s)
             \/ Count(s) \/ Complete(s) \/ Fail(s) \/ Release(s)
    <2>1. PICK this : /\ Moved(s, this) /\ SameRequest(s, this) /\ Calm(s, this)
                      /\ this.run \in Runs =>
                           this.count \in {0, h[s].count, Cardinality(Applied(h[s].run))}
      BY <1>5, StatementMoves
    <2>2. OutputsOK' /\ marks' = marks
      BY <2>1 DEF Calm, OutputsOK
    <2>3. ReservedInv' /\ MarksInv'
      BY <2>1, CalmKeeps
    <2>4. Goes(s)
      BY <2>1 DEF Goes
    <2> QED
      BY <1>0, <1>1, <2>2, <2>3, <2>4
  <1> QED
    BY <1>2, <1>3, <1>4, <1>5 DEF Step

\* A statement of a handler.
LEMMA StepKeeps ==
    ASSUME IInv, NEW s \in Slots, Step(s)
    PROVE  IInv'
  <1>1. RunsOK /\ CredsOK /\ OutputsOK /\ HandlersOK /\ TokensOK
        /\ ReservedInv /\ MarksInv /\ CountsInv
    BY DEF IInv, TypeInv
  <1>2. RunsMove(s) /\ CredsOK'
    BY <1>1, StatementRuns, CredentialsKept
  <1>3. OutputsOK' /\ ReservedInv' /\ MarksInv' /\ Goes(s)
        /\ \A q \in Runs, j \in Keys : marks'[q][j] >= marks[q][j]
    BY <1>1, StepMoves
  <1>4. PICK this : Moved(s, this) /\ SameRequest(s, this)
    BY <1>3 DEF Goes
  <1>5. HandlersOK'
    BY <1>1, <1>4, MovedHandlers
  <1>6. TokensOK'
    <2>1. CASE Claim(s)
      BY <1>1, <2>1, TokensOfClaim
    <2>2. CASE ~Claim(s)
      <3>1. issued' = issued
        BY <2>2 DEF Step, Sweep, RevokeSwept, Revoke, Inspect, InsertRun, Requeue, CancelRun, Check,
             InsertCredential, Validate, Renew, Count, Complete, Fail, Release, GiveUp, Reserve,
             Apply, RecordApplied, RecordFailed, Record
      <3> QED
        BY <1>1, <1>4, <3>1, TokensKept DEF SameRequest
    <2> QED
      BY <2>1, <2>2
  <1>7. RunsOK' /\ CountsInv'
    BY <1>1, <1>2, <1>3, CountsKept DEF RunsMove
  <1> QED
    BY <1>2, <1>3, <1>5, <1>6, <1>7 DEF IInv, TypeInv

LEMMA DeathKeeps ==
    ASSUME IInv, NEW s \in Slots, Die(s)
    PROVE  IInv'
  <1>1. RunsOK /\ CredsOK /\ OutputsOK /\ HandlersOK /\ TokensOK
        /\ ReservedInv /\ MarksInv /\ CountsInv
    BY DEF IInv, TypeInv
  <1>2. run' = run /\ cred' = cred /\ marks' = marks /\ issued' = issued
    BY DEF Die, rows
  <1>3. OutputsOK' /\ ReservedInv' /\ MarksInv' /\ Goes(s)
    BY <1>1, DieKeeps
  <1>4. PICK this : Moved(s, this) /\ SameRequest(s, this)
    BY <1>3 DEF Goes
  <1>5. HandlersOK'
    BY <1>1, <1>4, MovedHandlers
  <1>6. TokensOK'
    BY <1>1, <1>2, <1>4, TokensKept DEF SameRequest
  <1>7. RunsOK' /\ CredsOK'
    BY <1>1, <1>2 DEF RunsOK, CredsOK
  <1>8. CountsInv'
    <2>1. \A q \in Runs, j \in Keys : marks'[q][j] >= marks[q][j]
      <3>1. \A q \in Runs, j \in Keys : marks[q][j] \in 0 .. 2
        BY <1>1 DEF OutputsOK
      <3> QED
        BY <1>2, <3>1
    <2>2. \A q \in Runs : run'[q].result = run[q].result
      BY <1>2
    <2> QED
      BY <1>1, <1>3, <2>1, <2>2, CountsKept
  <1> QED
    BY <1>3, <1>5, <1>6, <1>7, <1>8 DEF IInv, TypeInv

\* Time passes, or nothing happens.
LEMMA TimeKeeps ==
    ASSUME IInv,
           \/ \E r \in Runs : Lapse(r)
           \/ \E c \in Creds : CredentialExpires(c)
           \/ UNCHANGED vars
    PROVE  IInv' /\ \A r \in Runs : run'[r].status = run[r].status
  <1>1. RunsOK /\ CredsOK /\ OutputsOK /\ HandlersOK /\ TokensOK
        /\ ReservedInv /\ MarksInv /\ CountsInv
    BY DEF IInv, TypeInv
  <1>2. output' = output /\ marks' = marks /\ issued' = issued /\ h' = h
        /\ misled' = misled /\ orphaned' = orphaned
    BY DEF Lapse, CredentialExpires, vars, rows
  <1>3. /\ RunsOK'
        /\ \A r \in Runs : run'[r].result = run[r].result /\ run'[r].status = run[r].status
    <2>1. ASSUME NEW r \in Runs, Lapse(r)
          PROVE  /\ RunsOK'
                 /\ \A q \in Runs : run'[q].result = run[q].result /\ run'[q].status = run[q].status
      <3> DEFINE x == [run[r] EXCEPT !.lapsed = TRUE]
      <3>1. run' = [run EXCEPT ![r] = x] /\ run[r].status \in Held
        BY <2>1 DEF Lapse
      <3>2. RunOK(run[r]) /\ run[r] \in RunRecord
        BY <1>1, RunIsOK DEF RunOK
      <3>3. x \in RunRecord /\ x.status = run[r].status /\ x.token = run[r].token
            /\ x.result = run[r].result
        BY <3>2 DEF RunRecord
      <3> HIDE DEF x
      <3>4. RunOK(x)
        BY <3>1, <3>2, <3>3 DEF RunOK
      <3>5. /\ run'[r] = x /\ \A q \in Runs : q # r => run'[q] = run[q]
            /\ run' \in [Runs -> RunRecord]
        BY <1>1, <3>1, <3>3 DEF RunsOK, RunRecord
      <3>6. \A q \in Runs : RunOK(run'[q])
        BY <1>1, <3>4, <3>5, RunIsOK
      <3>7. RunsOK'
        BY <3>5, <3>6 DEF RunsOK, RunOK, RunRecord
      <3> QED
        BY <3>3, <3>5, <3>7
    <2>2. CASE run' = run
      BY <1>1, <2>2 DEF RunsOK
    <2> QED
      BY <2>1, <2>2 DEF CredentialExpires, vars, rows
  <1>4. CredsOK'
    <2>1. ASSUME NEW c \in Creds, CredentialExpires(c) PROVE CredsOK'
      BY <1>1, <2>1 DEF CredsOK, CredentialExpires
    <2>2. CASE cred' = cred
      BY <1>1, <2>2 DEF CredsOK
    <2> QED
      BY <2>1, <2>2 DEF Lapse, vars, rows
  <1>5. HandlersOK' /\ OutputsOK'
    BY <1>1, <1>2 DEF HandlersOK, OutputsOK, WellFormed
  <1>6. TokensOK'
    BY <1>1, <1>2 DEF TokensOK, ClaimsUnderWay
  <1>7. ReservedInv' /\ MarksInv'
    BY <1>1, <1>2 DEF ReservedInv, MarksInv, Works, Does, On
  <1>8. CountsInv'
    BY <1>1, <1>2, <1>3 DEF CountsInv, Marked
  <1> QED
    BY <1>3, <1>4, <1>5, <1>6, <1>7, <1>8 DEF IInv, TypeInv

LEMMA Inductive == IInv /\ [Next]_vars => IInv'
  BY RequestKeeps, StepKeeps, DeathKeeps, TimeKeeps DEF Next

LEMMA AlwaysIInv == Spec => []IInv
  BY InitIInv, Inductive, PTL DEF Spec

-----------------------------------------------------------------------------
\* TYPE CORRECTNESS, and with it that a run has a lease token exactly while it is
\* claimed or running: each UPDATE of review-room-store.ts that ends
\* a claim clears its token and its lease.
THEOREM TypeCorrect == Spec => []TypeOK
  <1>1. IInv => TypeOK
    <2> SUFFICES ASSUME IInv PROVE TypeOK
      OBVIOUS
    <2>1. RunsOK /\ CredsOK /\ OutputsOK /\ HandlersOK /\ TokensOK
      BY DEF IInv, TypeInv
    <2>2. issued \in Tokens
      <3>1. ClaimsUnderWay \in SUBSET Slots
        BY DEF ClaimsUnderWay
      <3> QED
        BY <2>1, <3>1, Finite DEF TokensOK, Tokens
    <2> QED
      BY <2>1, <2>2 DEF TypeOK, RunsOK, CredsOK, OutputsOK, HandlersOK, Handler
  <1> QED
    BY <1>1, AlwaysIInv, PTL

\* ONE OUTPUT MAKES ONE MARK, for any number of runs, outputs and requests that
\* submit it at once, and however many of their handlers die between two
\* statements, unless the operation that made the mark answered failure; and the
\* result count of a run never exceeds the outputs that made a mark. An output
\* that can be reserved again (storeReserveAgentReviewOutput) has no mark.
THEOREM OutputsAppliedOnce == Spec => []AppliedOnce
  <1>1. IInv => AppliedOnce
    BY DEF IInv, MarksInv, CountsInv, Marked, AppliedOnce
  <1> QED
    BY <1>1, AlwaysIInv, PTL

\* THE RESERVATION EXCLUDES: whichever handlers reserve and submit at once, an
\* output is submitted by at most one of them, which holds its reservation, and a
\* reservation nobody works on was left by a handler that died.
THEOREM ReservationsExclude == Spec => []PendingIsWorked
  <1>1. ASSUME IInv, NEW r \in Runs, NEW k \in Keys
        PROVE  LET workers == {s \in Slots : Submitting(s) /\ h[s].run = r /\ h[s].key = k} IN
               /\ workers # {} => output[r][k] = "pending" /\ Cardinality(workers) = 1
               /\ output[r][k] = "pending" /\ workers = {} => <<r, k>> \in orphaned
    <2> DEFINE workers == {s \in Slots : Submitting(s) /\ h[s].run = r /\ h[s].key = k}
    <2>1. ReservedInv
      BY <1>1 DEF IInv
    <2>2. \A s \in Slots : Submitting(s) <=> Works(h[s])
      BY DEF Submitting, Works, At, Does, Submits, Outcomes
    <2>3. ASSUME NEW s \in workers PROVE output[r][k] = "pending" /\ Cardinality(workers) = 1
      <3>1. Works(h[s]) /\ h[s].run = r /\ h[s].key = k
        BY <2>2
      <3>2. output[r][k] = "pending"
        BY <2>1, <3>1 DEF ReservedInv
      <3>3. \A t \in workers : t = s
        BY <2>1, <2>2, <3>1 DEF ReservedInv, On
      <3>4. workers = {s}
        BY <3>3
      <3> QED
        BY <3>2, <3>4, FS_Singleton
    <2>4. ASSUME output[r][k] = "pending", workers = {} PROVE <<r, k>> \in orphaned
      BY <2>1, <2>2, <2>4 DEF ReservedInv, On
    <2> QED
      BY <2>3, <2>4
  <1>2. IInv => PendingIsWorked
    BY <1>1 DEF PendingIsWorked
  <1> QED
    BY <1>2, AlwaysIInv, PTL

\* THE HOLDER DECIDES: a claim of a run ends, or becomes running, only by its
\* token, by a cancellation or after its lease, also when a request with the token
\* of an earlier claim passed validateClaimedReviewRequest before that claim ended:
\* the WHERE clause of each UPDATE asks for the token again.
THEOREM OnlyHolderDecides == Spec => HolderDecides
  <1> DEFINE Fair == \A r \in Runs :
        run[r].status \in Held /\ run'[r].status # run[r].status =>
            \/ run'[r].status = "cancelled"
            \/ run'[r].status = "lease_expired" /\ run[r].lapsed
            \/ /\ \E s \in Slots : h[s] # h'[s] /\ h[s].run = r /\ h[s].token = run[r].token
               /\ run'[r].status \in {"completed", "running"} => ~run[r].lapsed
  <1>1. ASSUME IInv, [Next]_vars PROVE Fair
    <2>1. RunsOK /\ HandlersOK /\ TokensOK /\ OutputsOK /\ ReservedInv /\ MarksInv
      BY <1>1 DEF IInv, TypeInv
    <2>2. ASSUME NEW s \in Slots, Step(s) PROVE Fair
      <3>1. RunsMove(s)
        BY <2>1, <2>2, StatementRuns
      <3>2. h'[s] # h[s]
        BY <2>1, <2>2, StepMoves
      <3> QED
        BY <3>1, <3>2 DEF RunsMove, Decided
    <2>3. ASSUME NEW s \in Slots, Request(s) \/ Die(s) PROVE run' = run
      BY <2>3 DEF Request, List, Create, Retry, Cancel, Mint, CallClaim, CallHolder, CallOutput,
           CallShared, Start, Die, rows
    <2>4. ASSUME \/ \E r \in Runs : Lapse(r)
                 \/ \E c \in Creds : CredentialExpires(c)
                 \/ UNCHANGED vars
          PROVE  \A r \in Runs : run'[r].status = run[r].status
      BY <1>1, <2>4, TimeKeeps
    <2> QED
      BY <1>1, <2>2, <2>3, <2>4 DEF Next
  <1> QED
    BY <1>1, AlwaysIInv, PTL DEF Spec, HolderDecides

=============================================================================
