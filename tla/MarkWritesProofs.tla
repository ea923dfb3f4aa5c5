---------------------------- MODULE MarkWritesProofs ----------------------------
(***************************************************************************)
(* Theorems about MarkWrites, for any comments, suggestions and requests.  *)
(* Every writer replaces all marks of a document; what each of them knows   *)
(* of a mark it makes, decides or drops is what keeps comments in and        *)
(* decided suggestions out.                                                *)
(***************************************************************************)
EXTENDS MarkWrites, TLAPS

\* The marks and texts of the documents there are, and those a handler holds.
Docs    == {row.marks, history.marks} \cup (IF room = None THEN {} ELSE {room.marks})
Texts   == {row.text, history.text} \cup (IF room = None THEN {} ELSE {room.text})
Held(o) == {h[o].base.marks, h[o].next, h[o].prev}

Makes(o)   == h[o].op \in {"add", "place"}
Working(o) == h[o].pc \in {"read", "ready"}

DocsInv ==
  /\ row \in [marks : AllMarks, text : Text, rev : Nat]
  /\ history \in Doc
  /\ room \in Doc \cup {None}

HandlersInv == h \in [Calls -> Handler]

TombsInv == tomb \in [Marks -> Tombs]

GhostInv ==
  /\ said \subseteq Comments /\ unwanted \subseteq Comments
  /\ minted \subseteq Marks /\ stale \subseteq Marks /\ revived \subseteq Suggestions
  /\ decided \in [Suggestions -> 0 .. MaxDecided]

\* A text has nothing of a suggestion but what was decided.
TextInv ==
  \A s \in Suggestions : /\ \A t \in Texts : t[s] <= decided[s]
                         /\ \A o \in Calls : h[o].base.text[s] <= decided[s]

\* What a handler is about, and what its place says of it.
OpInv ==
  \A o \in Calls :
    /\ h[o].rev <= row.rev
    /\ h[o].op = "put" => h[o].mark \in Comments \cup {None}
    /\ h[o].op = "add" => h[o].mark \in Marks
    /\ h[o].op \in {"reply", "resolve", "unresolve"} => h[o].mark \in Comments
    /\ h[o].op \in Decisions => h[o].mark \in Suggestions
    /\ h[o].pc = "ready" => h[o].op # "put"
    /\ h[o].pc = "sync" => h[o].op \in Edits \cup {"put"}
    /\ h[o].pc = "epilogue" => h[o].op \in Decisions \cup {"resolve"}

TypeInv == DocsInv /\ HandlersInv /\ TombsInv /\ GhostInv /\ TextInv /\ OpInv

\* Comments are never pending.
KindInv ==
  \A c \in Comments : /\ \A f \in Docs : f[c] # "pending"
                      /\ \A o \in Calls : \A f \in Held(o) : f[c] # "pending"

\* A mark that is anywhere has been made, and by one request only.
MintedInv ==
  /\ \A f \in Docs, m \in Marks : f[m] # "absent" => m \in minted
  /\ \A o \in Calls, m \in Marks : \A f \in Held(o) : f[m] # "absent" => m \in minted
  /\ \A o \in Calls : h[o].mark # None => h[o].mark \in minted
  /\ \A s \in Suggestions : decided[s] > 0 => s \in minted
  /\ \A o, p \in Calls : Makes(o) /\ Makes(p) /\ h[o].mark = h[p].mark => o = p

\* Nobody but its maker o has the mark m, and it is in no document.
Unseen(m, o) ==
  /\ \A f \in Docs : f[m] = "absent"
  /\ \A p \in Calls : p # o => h[p].mark # m /\ \A f \in Held(p) : f[m] = "absent"
  /\ m \in Suggestions => decided[m] = 0

\* Until its maker has written it, nobody else has it.
FreshInv ==
  \A o \in Calls : Makes(o) /\ Working(o) =>
    Unseen(h[o].mark, o) /\ h[o].base.marks[h[o].mark] = "absent"

\* What an edit has prepared: what it writes back is what it read, its own
\* mark is written unless it was buried, and tombstones it saw are respected.
PreparedInv ==
  \A o \in Calls :
    /\ h[o].pc \in {"idle", "read"} => h[o].buried = {}
    /\ h[o].pc \in {"ready", "sync"} /\ h[o].op \in Edits =>
         /\ h[o].prev = h[o].base.marks
         /\ h[o].mark \in Comments => h[o].next[h[o].mark] # "absent" \/ h[o].mark \in unwanted
    /\ h[o].pc \in {"ready", "sync"} =>
         \A s \in Suggestions : h[o].next[s] = "pending" => s \notin h[o].buried
    /\ h[o].pc = "ready" /\ h[o].op \in Decisions => h[o].next[h[o].mark] = "absent"
    /\ h[o].pc \in {"read", "ready", "sync"} /\ h[o].op \in {"reply", "resolve", "unresolve"} =>
         h[o].base.marks[h[o].mark] # "absent"
    /\ h[o].pc \in {"read", "ready", "sync"} /\ h[o].op = "add" => 
         h[o].base.marks[h[o].mark] = "absent"
    /\ h[o].pc = "sync" /\ h[o].op = "put" => h[o].mark \in unwanted \cup {None}

\* A suggestion decided and not put back by a writer that missed the decision
\* can not be decided again.
OnceInv ==
  \A s \in Suggestions : decided[s] > 0 /\ s \notin stale =>
    /\ decided[s] <= 1
    /\ \A f \in Docs : f[s] # "pending"
    /\ \A o \in Calls : Working(o) /\ h[o].op \in {"accept", "reject"} /\ h[o].mark = s =>
         h[o].rev < row.rev

\* Only decided suggestions have a tombstone, and a decided one that is pending
\* was brought back.
FinalInv ==
  /\ \A s \in Suggestions : tomb[s].status \in Final => decided[s] > 0
  /\ \A o \in Calls : h[o].pc = "epilogue" /\ h[o].op \in Decisions => decided[h[o].mark] > 0
  /\ \A s \in Suggestions, f \in Docs : decided[s] > 0 /\ f[s] = "pending" => s \in revived

\* The comments a caller was told of, or is about to be, are in the row.
Kept(c) == row.marks[c] # "absent" \/ c \in stale \/ c \in unwanted

KeptInv ==
  /\ \A c \in said : c \in minted /\ Kept(c)
  /\ \A o \in Calls : h[o].op = "add" /\ h[o].mark \in Comments =>
       /\ h[o].pc \in {"read", "ready", "sync"} => h[o].mark \notin said
       /\ h[o].pc = "sync" => Kept(h[o].mark)

IInv == /\ TypeInv /\ KindInv /\ MintedInv /\ FreshInv /\ PreparedInv
        /\ OnceInv /\ FinalInv /\ KeptInv

-----------------------------------------------------------------------------
(***************************************************************************)
(* The operators on marks and documents.                                   *)
(***************************************************************************)
LEMMA Kinds ==
  /\ Comments \subseteq Marks /\ Suggestions \subseteq Marks
  /\ \A m \in Marks : (m \in Comments) \/ (m \in Suggestions)
  /\ \A c \in Comments : c \notin Suggestions
  /\ None \notin Marks /\ None \notin Comments /\ None \notin Suggestions
  BY MarksAssumption DEF Marks

LEMMA BlankForm ==
  /\ NoMarks \in AllMarks
  /\ \A m \in Marks : NoMarks[m] = "absent"
  /\ Blank \in Doc /\ Blank.marks = NoMarks
  /\ \A s \in Suggestions : Blank.text[s] = 0
  <1>1. NoMarks \in AllMarks /\ \A m \in Marks : NoMarks[m] = "absent"
    BY DEF NoMarks, AllMarks, Status
  <1> DEFINE zero == [s \in Suggestions |-> 0]
  <1>2. zero \in Text /\ \A s \in Suggestions : zero[s] = 0
    <2>1. 0 \in 0 .. MaxDecided
      BY DecidedAssumption
    <2> QED
      BY <2>1 DEF Text
  <1>3. Blank = [marks |-> NoMarks, text |-> zero]
    BY DEF Blank
  <1> HIDE DEF zero
  <1> QED
    BY <1>1, <1>2, <1>3 DEF Doc

\* The marks and texts of a document are such.
LEMMA Fields ==
  ASSUME DocsInv
  PROVE  /\ row.marks \in AllMarks /\ row.text \in Text /\ row.rev \in Nat
         /\ history.marks \in AllMarks /\ history.text \in Text
         /\ room # None => room.marks \in AllMarks /\ room.text \in Text
         /\ Docs \subseteq AllMarks /\ Texts \subseteq Text
  <1>1. /\ row.marks \in AllMarks /\ row.text \in Text /\ row.rev \in Nat
        /\ history.marks \in AllMarks /\ history.text \in Text
    BY DEF DocsInv, Doc
  <1>2. room # None => room.marks \in AllMarks /\ room.text \in Text
    BY DEF DocsInv, Doc
  <1> QED
    BY <1>1, <1>2 DEF Docs, Texts

LEMMA MergedForm ==
  ASSUME DocsInv, NEW f \in AllMarks, NEW b \in BOOLEAN
  PROVE  /\ Merged(f, b) \in AllMarks
         /\ \A m \in Marks : Merged(f, b)[m] = f[m] \/ Merged(f, b)[m] = row.marks[m]
         /\ \A s \in Suggestions : ~b => Merged(f, b)[s] = f[s]
         /\ \A c \in Comments :
              Merged(f, b)[c] = "absent" => f[c] = "absent" /\ row.marks[c] = "absent"
  <1>1. row.marks \in AllMarks
    BY Fields
  <1> QED
    BY <1>1, Kinds DEF Merged, AllMarks

LEMMA ScrubbedForm ==
  ASSUME NEW f \in AllMarks, NEW B
  PROVE  /\ Scrubbed(f, B) \in AllMarks
         /\ \A m \in Marks : Scrubbed(f, B)[m] = f[m] \/ Scrubbed(f, B)[m] = "absent"
         /\ \A m \in Marks : Scrubbed(f, B)[m] = "pending" => m \notin B
         /\ \A m \in Marks : f[m] # "absent" /\ Scrubbed(f, B)[m] = "absent" =>
                m \in B /\ f[m] \in {"open", "pending"}
  <1>1. "absent" \in Status
    BY DEF Status
  <1> QED
    BY <1>1 DEF Scrubbed, AllMarks

\* A reader is given the marks of one of the documents, and one of their texts.
LEMMA ViewForm ==
  ASSUME DocsInv
  PROVE  /\ View \in Doc /\ View.text \in Texts
         /\ \A m \in Marks : \E f \in Docs : View.marks[m] = f[m]
  <1> DEFINE doc == IF room = None THEN history ELSE room
             merged == Merged(doc.marks, TRUE)
  <1>1. /\ doc \in [marks : AllMarks, text : Text]
        /\ doc.marks \in Docs /\ doc.text \in Texts /\ doc.marks \in AllMarks
        /\ doc.text \in Text
    BY Fields DEF DocsInv, Doc, Docs, Texts
  <1>2. View = IF LatestIsDecision THEN RowDoc ELSE [doc EXCEPT !.marks = merged]
    BY DEF View
  <1> HIDE DEF doc
  <1>3. merged \in AllMarks /\ \A m \in Marks : merged[m] = doc.marks[m] \/ merged[m] = row.marks[m]
    BY <1>1, MergedForm
  <1> HIDE DEF merged
  <1>4. row.marks \in Docs /\ row.text \in Texts /\ row.marks \in AllMarks /\ row.text \in Text
    BY Fields DEF Docs, Texts
  <1>5. CASE LatestIsDecision
    BY <1>2, <1>4, <1>5 DEF RowDoc, Doc
  <1>6. CASE ~LatestIsDecision
    <2>1. View = [doc EXCEPT !.marks = merged]
      BY <1>2, <1>6
    <2>2. View.marks = merged /\ View.text = doc.text /\ View \in Doc
      BY <1>1, <1>3, <2>1 DEF Doc
    <2> QED
      BY <1>1, <1>3, <1>4, <2>2
  <1> QED
    BY <1>5, <1>6

\* What persistDoc leaves in the row.
LEMMA SavedForm ==
  ASSUME DocsInv, NEW d \in Doc
  PROVE  /\ Saved(d) \in [marks : AllMarks, text : Text, rev : Nat]
         /\ row.rev <= Saved(d).rev /\ Saved(d).text = d.text
         /\ \A m \in Marks : Saved(d).marks[m] = d.marks[m] \/ Saved(d).marks[m] = row.marks[m]
         /\ \A s \in Suggestions : Saved(d).marks[s] = d.marks[s]
         /\ \A c \in Comments :
              Saved(d).marks[c] = "absent" => d.marks[c] = "absent" /\ row.marks[c] = "absent"
  <1>1. d.marks \in AllMarks /\ d.text \in Text
    BY DEF Doc
  <1> DEFINE projected == Projected(d)  later == row.rev + 1
  <1>2. /\ projected \in AllMarks
        /\ \A m \in Marks : projected[m] = d.marks[m] \/ projected[m] = row.marks[m]
        /\ \A s \in Suggestions : projected[s] = d.marks[s]
        /\ \A c \in Comments :
             projected[c] = "absent" => d.marks[c] = "absent" /\ row.marks[c] = "absent"
    <2>1. FALSE \in BOOLEAN
      OBVIOUS
    <2> QED
      BY <1>1, <2>1, MergedForm DEF Projected
  <1>3. later \in Nat /\ row.rev <= later /\ row.rev <= row.rev
    BY Fields
  <1>4. Saved(d) = IF row.marks = projected /\ row.text = d.text THEN row
                   ELSE [marks |-> projected, text |-> d.text, rev |-> later]
    BY DEF Saved
  <1> HIDE DEF projected, later
  <1>5. CASE row.marks = projected /\ row.text = d.text
    BY <1>2, <1>3, <1>4, <1>5 DEF DocsInv
  <1>6. CASE ~(row.marks = projected /\ row.text = d.text)
    <2>1. Saved(d) = [marks |-> projected, text |-> d.text, rev |-> later]
      BY <1>4, <1>6
    <2>2. /\ Saved(d).marks = projected /\ Saved(d).text = d.text /\ Saved(d).rev = later
          /\ Saved(d) \in [marks : AllMarks, text : Text, rev : Nat]
      BY <1>1, <1>2, <1>3, <2>1
    <2> QED
      BY <1>2, <1>3, <2>2
  <1> QED
    BY <1>5, <1>6

\* A request changes its own mark only.
LEMMA WantedForm ==
  ASSUME HandlersInv, OpInv, NEW o \in Calls
  PROVE  /\ Wanted(o) \in AllMarks
         /\ \A m \in Marks : m # h[o].mark => Wanted(o)[m] = h[o].base.marks[m]
         /\ h[o].op = "add" =>
              Wanted(o)[h[o].mark] = IF h[o].mark \in Comments THEN "open" ELSE "pending"
         /\ h[o].op = "resolve" => Wanted(o)[h[o].mark] = "resolved"
         /\ h[o].op = "unresolve" => Wanted(o)[h[o].mark] = "open"
         /\ h[o].op = "reply" => Wanted(o)[h[o].mark] = h[o].base.marks[h[o].mark]
         /\ h[o].op \in Decisions \cup {"put"} /\ h[o].mark # None =>
              Wanted(o)[h[o].mark] = "absent"
  <1> DEFINE m == h[o].mark  marks == h[o].base.marks
             status == IF m \in Comments THEN "open" ELSE "pending"
  <1>1. marks \in [Marks -> Status] /\ h[o].op \in Ops /\ m \in Marks \cup {None}
    BY DEF HandlersInv, Handler, Doc, AllMarks
  <1>2. {"open", "pending", "absent", "resolved"} \subseteq Status
    BY DEF Status
  <1>3. h[o].op # "put" => m \in Marks
    BY <1>1, Kinds DEF OpInv, Ops, Edits, Decisions
  <1>4. Wanted(o) = CASE h[o].op = "add"       -> [marks EXCEPT ![m] = status]
                      [] h[o].op = "resolve"   -> [marks EXCEPT ![m] = "resolved"]
                      [] h[o].op = "unresolve" -> [marks EXCEPT ![m] = "open"]
                      [] h[o].op = "reply"     -> marks
                      [] OTHER                 -> [n \in Marks |-> IF n = m THEN "absent" ELSE marks[n]]
    BY DEF Wanted
  <1>5. status \in {"open", "pending"}
    OBVIOUS
  <1> HIDE DEF m, marks, status
  <1>6. CASE h[o].op = "add"
    <2>1. Wanted(o) = [marks EXCEPT ![m] = status]
      BY <1>4, <1>6
    <2> QED
      BY <1>1, <1>2, <1>3, <1>5, <1>6, <2>1 DEF AllMarks, m, marks, status, Decisions
  <1>7. CASE h[o].op = "resolve"
    <2>1. Wanted(o) = [marks EXCEPT ![m] = "resolved"]
      BY <1>4, <1>7
    <2> QED
      BY <1>1, <1>2, <1>3, <1>7, <2>1 DEF AllMarks, m, marks, Decisions
  <1>8. CASE h[o].op = "unresolve"
    <2>1. Wanted(o) = [marks EXCEPT ![m] = "open"]
      BY <1>4, <1>8
    <2> QED
      BY <1>1, <1>2, <1>3, <1>8, <2>1 DEF AllMarks, m, marks, Decisions
  <1>9. CASE h[o].op = "reply"
    <2>1. Wanted(o) = marks
      BY <1>4, <1>9
    <2> QED
      BY <1>1, <1>9, <2>1 DEF AllMarks, m, marks, Decisions
  <1>10. CASE h[o].op \in Decisions \cup {"put"}
    <2>1. h[o].op \notin {"add", "resolve", "unresolve", "reply"}
      BY <1>10 DEF Decisions
    <2>2. Wanted(o) = [n \in Marks |-> IF n = m THEN "absent" ELSE marks[n]]
      BY <1>4, <2>1
    <2> QED
      BY <1>1, <1>2, <2>1, <2>2 DEF AllMarks, m, marks
  <1> QED
    BY <1>1, <1>6, <1>7, <1>8, <1>9, <1>10 DEF Ops, Edits

-----------------------------------------------------------------------------
(***************************************************************************)
(* What a step does to the handlers.                                       *)
(***************************************************************************)
Others(o) == h' \in [Calls -> Handler] /\ \A p \in Calls : p # o => h'[p] = h[p]

SameRequest(o) == h'[o].op = h[o].op /\ h'[o].mark = h[o].mark

Ended == {"epilogue", "closing", "ok", "refused"}

\* The handler leaves its place for one after the writes; it keeps what it has
\* read and prepared, or forgets all of it.
Leaves(o) ==
  /\ Others(o) /\ SameRequest(o)
  /\ h'[o].pc \in Ended
  /\ h'[o].base \in {h[o].base, Blank}
  /\ h'[o].rev \in {h[o].rev, 0}
  /\ h'[o].next \in {h[o].next, NoMarks}
  /\ h'[o].prev \in {h[o].prev, NoMarks}

\* It goes on to its write.
Prepares(o, next, prev, buried) ==
  /\ Others(o) /\ SameRequest(o)
  /\ h'[o].pc = "ready"
  /\ h'[o].base = h[o].base /\ h'[o].rev = h[o].rev
  /\ h'[o].next = next /\ h'[o].prev = prev /\ h'[o].buried = buried

LEMMA HandlerFields ==
  ASSUME HandlersInv, NEW o \in Calls
  PROVE  /\ h[o].pc \in Places /\ h[o].op \in Ops /\ h[o].mark \in Marks \cup {None}
         /\ h[o].base \in Doc /\ h[o].rev \in Nat
         /\ h[o].base.marks \in AllMarks /\ h[o].base.text \in Text
         /\ h[o].next \in AllMarks /\ h[o].prev \in AllMarks /\ h[o].buried \in SUBSET Marks
         /\ Held(o) \subseteq AllMarks
  <1>1. /\ h[o].pc \in Places /\ h[o].op \in Ops /\ h[o].mark \in Marks \cup {None}
        /\ h[o].base \in Doc /\ h[o].rev \in Nat
        /\ h[o].next \in AllMarks /\ h[o].prev \in AllMarks /\ h[o].buried \in SUBSET Marks
    BY DEF HandlersInv, Handler
  <1>2. h[o].base.marks \in AllMarks /\ h[o].base.text \in Text
    BY <1>1 DEF Doc
  <1> QED
    BY <1>1, <1>2 DEF Held

LEMMA IdleForm ==
  /\ Idle \in Handler
  /\ Idle.pc = "idle" /\ Idle.op = "put" /\ Idle.mark = None /\ Idle.base = Blank /\ Idle.rev = 0
  /\ Idle.next = NoMarks /\ Idle.prev = NoMarks /\ Idle.buried = {}
  <1>1. /\ "idle" \in Places /\ "put" \in Ops /\ None \in Marks \cup {None}
        /\ Blank \in Doc /\ 0 \in Nat /\ NoMarks \in AllMarks /\ {} \in SUBSET Marks
    BY BlankForm DEF Places, Ops
  <1>2. Idle \in Handler
    BY <1>1 DEF Idle, Handler
  <1> QED
    BY <1>2 DEF Idle

LEMMA GotoMoves ==
  ASSUME HandlersInv, NEW o \in Calls, NEW place \in Places, Goto(o, place)
  PROVE  /\ Others(o) /\ SameRequest(o)
         /\ h'[o].pc = place
         /\ h'[o].base = h[o].base /\ h'[o].rev = h[o].rev /\ h'[o].next = h[o].next
         /\ h'[o].prev = h[o].prev /\ h'[o].buried = h[o].buried
  <1>1. h' = [h EXCEPT ![o] = [h[o] EXCEPT !.pc = place]]
    BY DEF Goto, HandlersInv
  <1> DEFINE g == [h[o] EXCEPT !.pc = place]
  <1>2. /\ g \in Handler /\ g.pc = place /\ g.op = h[o].op /\ g.mark = h[o].mark
        /\ g.base = h[o].base /\ g.rev = h[o].rev /\ g.next = h[o].next
        /\ g.prev = h[o].prev /\ g.buried = h[o].buried
    BY DEF HandlersInv, Handler
  <1> HIDE DEF g
  <1>3. h' = [h EXCEPT ![o] = g]
    BY <1>1 DEF g
  <1> QED
    BY <1>2, <1>3 DEF Others, SameRequest, HandlersInv

LEMMA EndMoves ==
  ASSUME HandlersInv, NEW o \in Calls, NEW place \in {"ok", "refused"}, End(o, place)
  PROVE  Leaves(o) /\ h'[o].pc = place
  <1> DEFINE g == [Idle EXCEPT !.pc = place, !.op = h[o].op, !.mark = h[o].mark]
  <1>1. h' = [h EXCEPT ![o] = g]
    BY DEF End
  <1>2. place \in Places /\ h[o].op \in Ops /\ h[o].mark \in Marks \cup {None}
    BY HandlerFields DEF Places
  <1>3. /\ g \in Handler
        /\ g.pc = place /\ g.op = h[o].op /\ g.mark = h[o].mark
        /\ g.base = Blank /\ g.rev = 0 /\ g.next = NoMarks
        /\ g.prev = NoMarks
    BY <1>2, IdleForm DEF Handler
  <1> HIDE DEF g
  <1>4. place \in Ended
    BY DEF Ended
  <1> QED
    BY <1>1, <1>3, <1>4 DEF Leaves, Others, SameRequest, HandlersInv

LEMMA GotoLeaves ==
  ASSUME HandlersInv, NEW o \in Calls, NEW place \in {"epilogue", "closing"}, Goto(o, place)
  PROVE  Leaves(o) /\ h'[o].pc = place
  <1>1. place \in Places /\ place \in Ended
    BY DEF Places, Ended
  <1> QED
    BY <1>1, GotoMoves DEF Leaves

LEMMA AfterEditLeaves ==
  ASSUME HandlersInv, NEW o \in Calls, AfterEdit(o)
  PROVE  Leaves(o) /\ (h'[o].pc = "epilogue" => h[o].op = "resolve")
  <1>1. CASE h[o].op = "resolve"
    BY <1>1, GotoLeaves DEF AfterEdit
  <1>2. CASE h[o].op # "resolve"
    BY <1>2, EndMoves DEF AfterEdit
  <1> QED
    BY <1>1, <1>2

\* Every mark of a handler that leaves is one it had, or absent.
LEMMA LeavesHeld ==
  ASSUME NEW o \in Calls, Leaves(o)
  PROVE  /\ \A f \in Held(o)' : f \in Held(o) \cup {NoMarks}
         /\ h'[o].pc \notin {"idle", "read", "ready", "sync"}
  <1>1. \A f \in Held(o)' : f \in Held(o) \cup {NoMarks}
    BY BlankForm DEF Leaves, Held
  <1>2. h'[o].pc \notin {"idle", "read", "ready", "sync"}
    BY DEF Leaves, Ended
  <1> QED
    BY <1>1, <1>2

LEMMA ReadMoves ==
  ASSUME TypeInv, NEW o \in Calls, NEW op \in Ops, NEW m \in Marks \cup {None}, Read(o, op, m)
  PROVE  /\ Others(o)
         /\ h'[o].pc = "read" /\ h'[o].op = op /\ h'[o].mark = m
         /\ h'[o].base = View /\ h'[o].rev = row.rev
         /\ h'[o].next = h[o].next /\ h'[o].prev = h[o].prev /\ h'[o].buried = h[o].buried
  <1> DEFINE g == [h[o] EXCEPT !.pc = "read", !.op = op, !.mark = m, !.base = View,
                               !.rev = row.rev]
  <1>1. h \in [Calls -> Handler] /\ View \in Doc /\ row.rev \in Nat
    BY ViewForm, Fields DEF TypeInv, HandlersInv
  <1>2. h' = [h EXCEPT ![o] = g]
    BY <1>1 DEF Read
  <1>3. "read" \in Places
    BY DEF Places
  <1>4. /\ g \in Handler /\ g.pc = "read" /\ g.op = op /\ g.mark = m
        /\ g.base = View /\ g.rev = row.rev /\ g.next = h[o].next
        /\ g.prev = h[o].prev /\ g.buried = h[o].buried
    BY <1>1, <1>3 DEF Handler
  <1> HIDE DEF g
  <1> QED
    BY <1>1, <1>2, <1>4 DEF Others

LEMMA EditPrepares ==
  ASSUME TypeInv, NEW o \in Calls, PrepareEdit(o)
  PROVE  Prepares(o, Scrubbed(Wanted(o), Buried'), h[o].base.marks, Buried')
  <1> DEFINE scrubbed == Scrubbed(Wanted(o), Buried')  seen == Buried'
             g == [h[o] EXCEPT !.pc = "ready", !.next = scrubbed, !.prev = h[o].base.marks,
                               !.buried = seen]
  <1>1. h \in [Calls -> Handler] /\ h[o].base.marks \in AllMarks
    BY HandlerFields DEF TypeInv, HandlersInv
  <1>2. scrubbed \in AllMarks
    BY WantedForm, ScrubbedForm DEF TypeInv
  <1>3. seen \in SUBSET Marks
    BY DEF Buried
  <1>4. "ready" \in Places
    BY DEF Places
  <1>5. h' = [h EXCEPT ![o] = g]
    BY <1>1 DEF PrepareEdit
  <1> HIDE DEF scrubbed, seen
  <1>6. /\ g \in Handler /\ g.pc = "ready" /\ g.op = h[o].op /\ g.mark = h[o].mark
        /\ g.base = h[o].base /\ g.rev = h[o].rev /\ g.next = scrubbed
        /\ g.prev = h[o].base.marks /\ g.buried = seen
    BY <1>1, <1>2, <1>3, <1>4 DEF Handler
  <1> HIDE DEF g
  <1> QED
    BY <1>1, <1>5, <1>6 DEF Prepares, Others, SameRequest, scrubbed, seen

LEMMA DecisionPrepares ==
  ASSUME TypeInv, NEW o \in Calls, PrepareDecision(o)
  PROVE  Prepares(o, Wanted(o), h[o].prev, h[o].buried)
  <1> DEFINE wanted == Wanted(o)
             g == [h[o] EXCEPT !.pc = "ready", !.next = wanted]
  <1>1. h \in [Calls -> Handler] /\ wanted \in AllMarks /\ "ready" \in Places
    BY WantedForm DEF TypeInv, HandlersInv, Places
  <1>2. h' = [h EXCEPT ![o] = g]
    BY <1>1 DEF PrepareDecision
  <1> HIDE DEF wanted
  <1>3. /\ g \in Handler /\ g.pc = "ready" /\ g.op = h[o].op /\ g.mark = h[o].mark
        /\ g.base = h[o].base /\ g.rev = h[o].rev /\ g.next = wanted
        /\ g.prev = h[o].prev /\ g.buried = h[o].buried
    BY <1>1 DEF Handler
  <1> HIDE DEF g
  <1> QED
    BY <1>1, <1>2, <1>3 DEF Prepares, Others, SameRequest, wanted

LEMMA PutMoves ==
  ASSUME TypeInv, NEW o \in Calls, PutMarks(o)
  PROVE  /\ Others(o) /\ SameRequest(o)
         /\ h'[o].pc = "sync"
         /\ h'[o].base = h[o].base /\ h'[o].rev = h[o].rev
         /\ h'[o].next = Wanted(o) /\ h'[o].prev = row.marks /\ h'[o].buried = h[o].buried
  <1> DEFINE wanted == Wanted(o)
             g == [h[o] EXCEPT !.pc = "sync", !.next = wanted, !.prev = row.marks]
  <1>1. /\ h \in [Calls -> Handler] /\ wanted \in AllMarks /\ "sync" \in Places
        /\ row.marks \in AllMarks
    BY WantedForm, Fields DEF TypeInv, HandlersInv, Places
  <1>2. h' = [h EXCEPT ![o] = g]
    BY <1>1 DEF PutMarks
  <1> HIDE DEF wanted
  <1>3. /\ g \in Handler /\ g.pc = "sync" /\ g.op = h[o].op /\ g.mark = h[o].mark
        /\ g.base = h[o].base /\ g.rev = h[o].rev /\ g.next = wanted
        /\ g.prev = row.marks /\ g.buried = h[o].buried
    BY <1>1 DEF Handler
  <1> HIDE DEF g
  <1> QED
    BY <1>1, <1>2, <1>3 DEF Others, SameRequest, wanted

-----------------------------------------------------------------------------
(***************************************************************************)
(* What a step does to the documents.                                      *)
(***************************************************************************)
\* What there is of marks and texts may be copied, and comments stay in the row.
Spread ==
  /\ DocsInv' /\ Texts' \subseteq Texts
  /\ \A f \in Docs', m \in Marks : \E g \in Docs : f[m] = g[m]
  /\ \A c \in Comments : row'.marks[c] = "absent" => row.marks[c] = "absent"
  /\ row.rev <= row'.rev
  /\ stale \subseteq stale' /\ stale' \subseteq Marks

\* A writer has written the marks w, its own mark on purpose, with the
\* tombstones seen.
Wrote(w, own, seen) ==
  /\ DocsInv'
  /\ \A f \in Docs', m \in Marks : f[m] = w[m] \/ \E g \in Docs : f[m] = g[m]
  /\ \A c \in Comments : row'.marks[c] = "absent" => w[c] = "absent"
  /\ row.rev <= row'.rev
  /\ stale \subseteq stale' /\ stale' \subseteq Marks
  /\ revived \subseteq revived' /\ revived' \subseteq Suggestions
  /\ \A m \in Marks : row.marks[m] # w[m] => m \in stale' \/ m = own
  /\ \A s \in Suggestions : w[s] = "pending" /\ decided[s] > 0 /\ s \notin seen => s \in revived'

Remembered == UNCHANGED <<minted, said, decided, revived, unwanted>>

\* The row, and nothing else, gets other marks.
LEMMA NewMarks ==
  ASSUME DocsInv, NEW f \in AllMarks, row' = [row EXCEPT !.marks = f]
  PROVE  /\ row' \in [marks : AllMarks, text : Text, rev : Nat]
         /\ row'.marks = f /\ row'.text = row.text /\ row'.rev = row.rev
  BY DEF DocsInv

LEMMA SelfSpread ==
  ASSUME DocsInv, GhostInv, UNCHANGED <<row, history, stale>>, room' = room \/ room' = None
  PROVE  Spread
  <1>1. DocsInv' /\ Texts' \subseteq Texts /\ Docs' \subseteq Docs
    BY DEF DocsInv, Texts, Docs
  <1>2. row.rev <= row'.rev
    BY Fields
  <1> QED
    BY <1>1, <1>2 DEF Spread, GhostInv

\* persistDoc of the live document.
LEMMA WriteRoomSpreads ==
  ASSUME DocsInv, GhostInv, room # None, WriteRoom, UNCHANGED stale
  PROVE  Spread
  <1>1. room \in Doc
    BY DEF DocsInv
  <1>2. row' = Saved(room) /\ history' = room /\ room' = room
    BY DEF WriteRoom
  <1>3. /\ row' \in [marks : AllMarks, text : Text, rev : Nat]
        /\ row.rev <= row'.rev /\ row'.text = room.text
        /\ \A m \in Marks : row'.marks[m] = room.marks[m] \/ row'.marks[m] = row.marks[m]
        /\ \A c \in Comments : row'.marks[c] = "absent" => row.marks[c] = "absent"
    BY <1>1, <1>2, SavedForm
  <1>4. DocsInv'
    BY <1>1, <1>2, <1>3 DEF DocsInv
  <1>5. Texts' \subseteq Texts
    BY <1>2, <1>3 DEF Texts
  <1>6. \A f \in Docs', m \in Marks : \E g \in Docs : f[m] = g[m]
    <2>1. row.marks \in Docs /\ room.marks \in Docs
      BY DEF Docs
    <2>2. \A f \in Docs' : f = row'.marks \/ f = room.marks
      BY <1>2 DEF Docs
    <2> QED
      BY <1>3, <2>1, <2>2
  <1> QED
    BY <1>3, <1>4, <1>5, <1>6 DEF Spread, GhostInv

RoomStep == Open \/ Close \/ Persist \/ Store \/ UNCHANGED vars

LEMMA RoomSpreads ==
  ASSUME TypeInv, RoomStep
  PROVE  Spread /\ Remembered /\ h' = h /\ tomb' = tomb
  <1> USE DEF TypeInv
  <1>1. CASE Open
    <2>1. DocsInv' /\ Texts' \subseteq Texts /\ Docs' \subseteq Docs
      BY <1>1 DEF Open, DocsInv, Docs, Texts
    <2>2. row.rev <= row'.rev
      BY <1>1, Fields DEF Open
    <2> QED
      BY <1>1, <2>1, <2>2 DEF Open, Spread, Remembered, GhostInv, ghost
  <1>2. CASE Close
    BY <1>2, SelfSpread DEF Close, Remembered, ghost
  <1>3. CASE Persist
    <2>1. room # None /\ WriteRoom /\ UNCHANGED stale
      BY <1>3 DEF Persist, ghost
    <2> QED
      BY <1>3, <2>1, WriteRoomSpreads DEF Persist, Remembered, ghost
  <1>4. CASE Store
    <2>1. CASE RowAhead /\ room' = RowDoc
      <3>1. /\ history' = RowDoc /\ row' = row
            /\ stale' = stale \cup Missed(room.marks, row.marks, None)
            /\ h' = h /\ tomb' = tomb /\ Remembered
        BY <1>4, <2>1 DEF Store, Remembered
      <3>2. RowDoc \in Doc /\ RowDoc.marks = row.marks /\ RowDoc.text = row.text
        BY Fields DEF RowDoc, Doc
      <3>3. DocsInv' /\ Texts' \subseteq Texts /\ Docs' \subseteq Docs
        BY <2>1, <3>1, <3>2 DEF DocsInv, Docs, Texts
      <3>4. row.rev <= row'.rev
        BY <3>1, Fields
      <3>5. stale \subseteq stale' /\ stale' \subseteq Marks
        BY <3>1 DEF Missed, GhostInv
      <3> QED
        BY <3>1, <3>3, <3>4, <3>5 DEF Spread
    <2>2. CASE ~RowAhead
      <3>1. room # None /\ WriteRoom /\ UNCHANGED stale /\ h' = h /\ tomb' = tomb /\ Remembered
        BY <1>4, <2>2 DEF Store, Remembered
      <3> QED
        BY <3>1, WriteRoomSpreads
    <2>3. RowAhead => room' = RowDoc
      BY <1>4 DEF Store
    <2> QED
      BY <2>1, <2>2, <2>3
  <1>5. CASE UNCHANGED vars
    BY <1>5, SelfSpread DEF vars, docs, ghost, Remembered
  <1> QED
    BY <1>1, <1>2, <1>3, <1>4, <1>5 DEF RoomStep

\* A client's change of the room.
LEMMA ClientChanges ==
  ASSUME DocsInv, NEW m \in Marks, NEW status \in Status, room # None,
         room' = [room EXCEPT !.marks[m] = status], UNCHANGED <<row, history>>
  PROVE  /\ DocsInv' /\ Texts' \subseteq Texts
         /\ \A f \in Docs', n \in Marks :
              (f[n] = status /\ n = m) \/ \E g \in Docs : f[n] = g[n]
  <1> DEFINE changed == [room.marks EXCEPT ![m] = status]
  <1>1. room \in [marks : AllMarks, text : Text] /\ room.marks \in [Marks -> Status]
    BY Fields DEF DocsInv, Doc, AllMarks
  <1>2. /\ changed \in AllMarks /\ changed[m] = status
        /\ \A n \in Marks : n # m => changed[n] = room.marks[n]
    BY <1>1 DEF AllMarks
  <1>3. room' = [room EXCEPT !.marks = changed]
    BY <1>1
  <1> HIDE DEF changed
  <1>4. room' \in Doc /\ room'.marks = changed /\ room'.text = room.text
    BY <1>1, <1>2, <1>3 DEF Doc
  <1>5. DocsInv' /\ Texts' \subseteq Texts
    BY <1>4 DEF DocsInv, Texts
  <1>6. /\ \A f \in Docs' : f \in {row.marks, history.marks, changed}
        /\ {row.marks, history.marks, room.marks} \subseteq Docs
    BY <1>4 DEF Docs
  <1> QED
    BY <1>2, <1>5, <1>6

LEMMA OwnForm ==
  ASSUME NEW o, NEW f, NEW g
  PROVE  Own(o, f, g) \in {h[o].mark, None}
  BY DEF Own

\* A transaction of all three.
LEMMA CommitAllWrites ==
  ASSUME TypeInv, NEW o \in Calls, NEW text \in Text, CommitAll(o, text)
  PROVE  /\ Wrote(h[o].next, h[o].mark, h[o].buried)
         /\ Docs' = {h[o].next} /\ Texts' = {text} /\ row'.rev = row.rev + 1
  <1> USE DEF TypeInv
  <1> DEFINE new == h[o].next  later == row.rev + 1  doc == [marks |-> new, text |-> text]
             own == Own(o, row.marks, h[o].base.marks)
  <1>1. new \in AllMarks /\ later \in Nat /\ row.rev <= later
    BY HandlerFields, Fields
  <1>2. /\ row' = [marks |-> new, text |-> text, rev |-> later]
        /\ history' = doc /\ room' = IF room = None THEN None ELSE doc
        /\ Missed(row.marks, new, own) \subseteq stale'
        /\ stale \subseteq stale' /\ stale' \subseteq Marks
        /\ revived' = revived \cup Returning(new, h[o].buried)
    BY DEF CommitAll, Missed, GhostInv
  <1>3. own \in {h[o].mark, None}
    BY OwnForm
  <1> HIDE DEF new, later, own
  <1>4. doc \in Doc /\ doc.marks = new /\ doc.text = text
    BY <1>1 DEF Doc
  <1> HIDE DEF doc
  <1>5. row' \in [marks : AllMarks, text : Text, rev : Nat] /\ row'.marks = new
        /\ row'.text = text /\ row'.rev = later
    BY <1>1, <1>2
  <1>6. DocsInv' /\ Docs' = {new} /\ Texts' = {text}
    BY <1>2, <1>4, <1>5 DEF DocsInv, Docs, Texts
  <1>7. \A m \in Marks : row.marks[m] # new[m] => m \in stale' \/ m = h[o].mark
    BY <1>2, <1>3, Kinds DEF Missed
  <1>8. /\ revived \subseteq revived' /\ revived' \subseteq Suggestions
        /\ \A s \in Suggestions :
             new[s] = "pending" /\ decided[s] > 0 /\ s \notin h[o].buried => s \in revived'
    BY <1>2 DEF Returning, GhostInv
  <1>9. Wrote(new, h[o].mark, h[o].buried)
    BY <1>1, <1>2, <1>5, <1>6, <1>7, <1>8 DEF Wrote
  <1> QED
    BY <1>5, <1>6, <1>9 DEF new, later

\* updateMarks.
LEMMA UpdateWrites ==
  ASSUME TypeInv, NEW o \in Calls, NEW w \in AllMarks, NEW own \in {h[o].mark, None}, NEW seen,
         UpdateMarks(w, own, seen), history' = history, room' = room \/ room' = None
  PROVE  Wrote(w, h[o].mark, seen) /\ Texts' \subseteq Texts /\ row'.marks = w
  <1> USE DEF TypeInv
  <1>1. /\ row' \in [marks : AllMarks, text : Text, rev : Nat]
        /\ row'.marks = w /\ row'.text = row.text /\ row'.rev = row.rev
    BY NewMarks DEF UpdateMarks
  <1>2. stale' = stale \cup Missed(row.marks, w, own) /\ revived' = revived \cup Returning(w, seen)
    BY DEF UpdateMarks
  <1>3. DocsInv' /\ Texts' \subseteq Texts /\ Docs' \subseteq Docs \cup {w}
    BY <1>1 DEF DocsInv, Docs, Texts
  <1>4. row.rev <= row'.rev
    BY <1>1, Fields
  <1>5. /\ \A m \in Marks : row.marks[m] # w[m] => m \in stale' \/ m = h[o].mark
        /\ stale \subseteq stale' /\ stale' \subseteq Marks
    BY <1>2, Kinds DEF Missed, GhostInv
  <1>6. /\ revived \subseteq revived' /\ revived' \subseteq Suggestions
        /\ \A s \in Suggestions :
             w[s] = "pending" /\ decided[s] > 0 /\ s \notin seen => s \in revived'
    BY <1>2 DEF Returning, GhostInv
  <1> QED
    BY <1>1, <1>3, <1>4, <1>5, <1>6 DEF Wrote

\* The sync of the live document with the row.
LEMMA SyncWrites ==
  ASSUME TypeInv, NEW o \in Calls, Sync(o)
  PROVE  Wrote(h[o].next, None, h[o].buried) /\ Texts' \subseteq Texts
  <1> USE DEF TypeInv
  <1> DEFINE doc == IF room = None THEN history ELSE room
             w == h[o].next  new == [doc EXCEPT !.marks = w]
             own == Own(o, doc.marks, h[o].base.marks)
  <1>1. /\ history' = new /\ row' = Saved(new) /\ room' = IF room = None THEN None ELSE new
        /\ stale' = stale \cup Missed(doc.marks, w, own) \cup Missed(row.marks, w, None)
        /\ revived' = revived \cup Returning(w, h[o].buried)
    BY DEF Sync
  <1>2. w \in AllMarks /\ doc \in [marks : AllMarks, text : Text] /\ doc.text \in Texts
    BY HandlerFields, Fields DEF DocsInv, Doc, Texts
  <1> HIDE DEF doc, w, own
  <1>3. new \in Doc /\ new.marks = w /\ new.text = doc.text
    BY <1>2 DEF Doc
  <1> HIDE DEF new
  <1>4. /\ row' \in [marks : AllMarks, text : Text, rev : Nat]
        /\ row.rev <= row'.rev /\ row'.text = doc.text
        /\ \A m \in Marks : row'.marks[m] = w[m] \/ row'.marks[m] = row.marks[m]
        /\ \A c \in Comments : row'.marks[c] = "absent" => w[c] = "absent"
    BY <1>1, <1>3, SavedForm
  <1>5. DocsInv' /\ Texts' \subseteq Texts
    BY <1>1, <1>2, <1>3, <1>4 DEF DocsInv, Texts
  <1>6. \A f \in Docs', m \in Marks : f[m] = w[m] \/ \E g \in Docs : f[m] = g[m]
    <2>1. row.marks \in Docs
      BY DEF Docs
    <2>2. \A f \in Docs' : f = row'.marks \/ f = w
      BY <1>1, <1>3 DEF Docs
    <2> QED
      BY <1>4, <2>1, <2>2
  <1>7. /\ stale \subseteq stale' /\ stale' \subseteq Marks
        /\ \A m \in Marks : row.marks[m] # w[m] => m \in stale'
    BY <1>1, Kinds DEF Missed, GhostInv
  <1>8. /\ revived \subseteq revived' /\ revived' \subseteq Suggestions
        /\ \A s \in Suggestions :
             w[s] = "pending" /\ decided[s] > 0 /\ s \notin h[o].buried => s \in revived'
    BY <1>1 DEF Returning, GhostInv
  <1> QED
    BY <1>4, <1>5, <1>6, <1>7, <1>8 DEF Wrote, w

-----------------------------------------------------------------------------
(***************************************************************************)
(* The steps, sorted by what they do.                                      *)
(***************************************************************************)
Forward(o) == CommitEdit(o) \/ WriteMarks(o) \/ Sync(o)
Passive(o) == CommitRefused(o) \/ SyncMatches(o) \/ Bury(o) \/ Finish(o)

ToSync(o) ==
  /\ Others(o) /\ SameRequest(o)
  /\ h'[o].pc = "sync"
  /\ h'[o].base = h[o].base /\ h'[o].rev = h[o].rev
  /\ h'[o].next = h[o].next /\ h'[o].prev = h[o].prev /\ h'[o].buried = h[o].buried

LEMMA Cases ==
  ASSUME [Next]_vars
  PROVE  \/ RoomStep
         \/ \E m \in Marks : ClientAdds(m)
         \/ \E c \in Comments : ClientDeletes(c)
         \/ \E o \in Calls, op \in Ops, m \in Marks \cup {None} : Read(o, op, m)
         \/ \E o \in Calls : PrepareEdit(o)
         \/ \E o \in Calls : PrepareDecision(o)
         \/ \E o \in Calls : Forward(o)
         \/ \E o \in Calls : CommitDecision(o)
         \/ \E o \in Calls : PutMarks(o)
         \/ \E o \in Calls : SyncRefused(o)
         \/ \E o \in Calls : Passive(o)
  BY DEF Next, Handle, RoomStep, Forward, Passive

LEMMA SensibleForm ==
  ASSUME NEW op \in Ops, NEW m \in Marks \cup {None}, NEW f, Sensible(op, m, f)
  PROVE  /\ op = "add" => m \in Marks /\ m \notin minted
         /\ op = "place" => m \in Suggestions /\ m \notin minted
         /\ op \in {"reply", "resolve", "unresolve"} => m \in Comments /\ f[m] # "absent"
         /\ op = "put" => m = None \/ (m \in Comments /\ f[m] # "absent")
         /\ op \in {"accept", "reject"} => m \in Suggestions /\ f[m] = "pending"
  <1>1. op = "add" => m \in Marks \ minted
    BY DEF Sensible
  <1>2. op = "place" => m \in Suggestions \ minted
    BY DEF Sensible
  <1>3. op = "reply" => m \in Comments /\ f[m] # "absent"
    BY DEF Sensible
  <1>4. op = "resolve" => m \in Comments /\ f[m] = "open"
    BY DEF Sensible
  <1>5. op = "unresolve" => m \in Comments /\ f[m] = "resolved"
    BY DEF Sensible
  <1>6. op = "put" => m = None \/ (m \in Comments /\ f[m] # "absent")
    BY DEF Sensible
  <1>7. op = "accept" => m \in Suggestions /\ f[m] = "pending"
    BY DEF Sensible
  <1>8. op = "reject" => m \in Suggestions /\ f[m] = "pending"
    BY DEF Sensible
  <1> QED
    BY <1>1, <1>2, <1>3, <1>4, <1>5, <1>6, <1>7, <1>8

\* The writes of what was prepared.
LEMMA ForwardWrites ==
  ASSUME TypeInv, NEW o \in Calls, Forward(o)
  PROVE  /\ Wrote(h[o].next, h[o].mark, h[o].buried)
         /\ h[o].pc = "sync" => Wrote(h[o].next, None, h[o].buried)
         /\ (h[o].pc = "ready" /\ h[o].op \in Edits) \/ h[o].pc = "sync"
         /\ UNCHANGED <<tomb, minted, decided, unwanted>>
         /\ \/ Leaves(o) /\ (h'[o].pc = "epilogue" => h[o].op = "resolve") /\ said' = Told(o)
            \/ ToSync(o) /\ h[o].pc = "ready" /\ said' = said /\ row'.marks = h[o].next
         /\ h[o].pc = "ready" => row'.marks = h[o].next
         /\ \A t \in Texts' : t \in Texts \/ t = h[o].base.text
  <1>0. HandlersInv /\ h[o].next \in AllMarks /\ h[o].base.text \in Text
    BY HandlerFields DEF TypeInv
  <1>1. CASE CommitEdit(o)
    <2>1. Leaves(o) /\ (h'[o].pc = "epilogue" => h[o].op = "resolve")
      BY <1>0, <1>1, AfterEditLeaves DEF CommitEdit
    <2>2. /\ Wrote(h[o].next, h[o].mark, h[o].buried) /\ Docs' = {h[o].next}
          /\ Texts' = {h[o].base.text}
      BY <1>0, <1>1, CommitAllWrites DEF CommitEdit
    <2>3. row'.marks = h[o].next
      BY <2>2 DEF Docs
    <2> QED
      BY <1>1, <2>1, <2>2, <2>3 DEF CommitEdit
  <1>2. CASE WriteMarks(o)
    <2>1. Own(o, row.marks, h[o].base.marks) \in {h[o].mark, None}
      BY OwnForm
    <2>2. /\ Wrote(h[o].next, h[o].mark, h[o].buried) /\ Texts' \subseteq Texts
          /\ row'.marks = h[o].next
      BY <1>0, <1>2, <2>1, UpdateWrites DEF WriteMarks
    <2>3. CASE room = None
      <3>1. Leaves(o) /\ (h'[o].pc = "epilogue" => h[o].op = "resolve") /\ said' = Told(o)
        BY <1>0, <1>2, <2>3, AfterEditLeaves DEF WriteMarks
      <3> QED
        BY <1>2, <2>2, <3>1 DEF WriteMarks
    <2>4. CASE room # None
      <3>1. Goto(o, "sync") /\ said' = said /\ h[o].pc = "ready" /\ "sync" \in Places
        BY <1>2, <2>4 DEF WriteMarks, Places
      <3>2. ToSync(o)
        BY <1>0, <3>1, GotoMoves DEF ToSync
      <3> QED
        BY <1>2, <2>2, <3>1, <3>2 DEF WriteMarks
    <2> QED
      BY <2>3, <2>4
  <1>3. CASE Sync(o)
    <2>1. Leaves(o) /\ (h'[o].pc = "epilogue" => h[o].op = "resolve")
      BY <1>0, <1>3, AfterEditLeaves DEF Sync
    <2>2. Wrote(h[o].next, None, h[o].buried) /\ Texts' \subseteq Texts
      BY <1>3, SyncWrites
    <2>3. Wrote(h[o].next, h[o].mark, h[o].buried)
      BY <2>2, Kinds DEF Wrote
    <2> QED
      BY <1>3, <2>1, <2>2, <2>3 DEF Sync
  <1> QED
    BY <1>1, <1>2, <1>3 DEF Forward

\* A refused sync writes back.
LEMMA RefusedWrites ==
  ASSUME TypeInv, NEW o \in Calls, SyncRefused(o)
  PROVE  /\ Wrote(h[o].prev, h[o].mark, {}) /\ Leaves(o) /\ h'[o].pc = "refused"
         /\ Texts' \subseteq Texts /\ h[o].pc = "sync"
         /\ UNCHANGED <<tomb, minted, said, decided, unwanted>>
  <1>1. h[o].prev \in AllMarks /\ HandlersInv
    BY HandlerFields DEF TypeInv
  <1>2. Own(o, row.marks, h[o].next) \in {h[o].mark, None}
    BY OwnForm
  <1>3. Wrote(h[o].prev, h[o].mark, {}) /\ Texts' \subseteq Texts
    BY <1>1, <1>2, UpdateWrites DEF SyncRefused
  <1>4. Leaves(o) /\ h'[o].pc = "refused"
    BY <1>1, EndMoves DEF SyncRefused
  <1> QED
    BY <1>3, <1>4 DEF SyncRefused

\* PUT writes what its caller had read.
LEMMA PutWrites ==
  ASSUME TypeInv, NEW o \in Calls, PutMarks(o)
  PROVE  /\ Wrote(Wanted(o), h[o].mark, {}) /\ Texts' \subseteq Texts
         /\ h[o].pc = "read" /\ h[o].op = "put" /\ h[o].mark \in Comments \cup {None}
         /\ unwanted' = unwanted \cup ({h[o].mark} \ {None})
         /\ UNCHANGED <<tomb, minted, said, decided>>
  <1>1. Wanted(o) \in AllMarks
    BY WantedForm DEF TypeInv
  <1>2. Own(o, row.marks, h[o].base.marks) \in {h[o].mark, None}
    BY OwnForm
  <1>3. Wrote(Wanted(o), h[o].mark, {}) /\ Texts' \subseteq Texts
    BY <1>1, <1>2, UpdateWrites DEF PutMarks
  <1> QED
    BY <1>3 DEF PutMarks, TypeInv, OpInv

\* The steps that write no marks.
LEMMA PassiveLeaves ==
  ASSUME TypeInv, NEW o \in Calls, Passive(o)
  PROVE  /\ Spread /\ Leaves(o)
         /\ h'[o].pc = "epilogue" => h[o].op = "resolve"
         /\ UNCHANGED <<minted, decided, revived, unwanted>>
         /\ said' = said \/ (h[o].pc = "sync" /\ said' = Told(o))
         /\ tomb' = tomb \/ Bury(o)
  <1>0. HandlersInv /\ DocsInv /\ GhostInv
    BY DEF TypeInv
  <1>1. CASE CommitRefused(o)
    <2>1. Leaves(o) /\ h'[o].pc = "refused"
      BY <1>0, <1>1, EndMoves DEF CommitRefused
    <2> QED
      BY <1>0, <1>1, <2>1, SelfSpread DEF CommitRefused, docs, ghost
  <1>2. CASE SyncMatches(o)
    <2>1. Leaves(o) /\ (h'[o].pc = "epilogue" => h[o].op = "resolve")
      BY <1>0, <1>2, AfterEditLeaves DEF SyncMatches
    <2> QED
      BY <1>0, <1>2, <2>1, SelfSpread DEF SyncMatches, docs
  <1>3. CASE Bury(o)
    <2>1. Leaves(o) /\ h'[o].pc # "epilogue"
      <3>1. CASE h[o].op \in {"accept", "reject"}
        BY <1>0, <1>3, <3>1, GotoLeaves DEF Bury
      <3>2. CASE h[o].op \notin {"accept", "reject"}
        BY <1>0, <1>3, <3>2, EndMoves DEF Bury
      <3> QED
        BY <3>1, <3>2
    <2>2. UNCHANGED <<row, history, room, ghost>>
      BY <1>3 DEF Bury, docs
    <2> QED
      BY <1>0, <1>3, <2>1, <2>2, SelfSpread DEF ghost
  <1>4. CASE Finish(o)
    <2>1. Leaves(o) /\ h'[o].pc = "ok"
      BY <1>0, <1>4, EndMoves DEF Finish
    <2> QED
      BY <1>0, <1>4, <2>1, SelfSpread DEF Finish, ghost
  <1> QED
    BY <1>1, <1>2, <1>3, <1>4 DEF Passive

\* The commit of a decision.
LEMMA DecisionWrites ==
  ASSUME TypeInv, NEW o \in Calls, CommitDecision(o)
  PROVE  /\ Wrote(h[o].next, h[o].mark, h[o].buried) /\ Docs' = {h[o].next}
         /\ row'.rev = row.rev + 1 /\ row.rev = h[o].rev
         /\ Leaves(o) /\ h'[o].pc = "epilogue"
         /\ h[o].pc = "ready" /\ h[o].op \in Decisions /\ h[o].mark \in Suggestions
         /\ \A t \in Texts', s \in Suggestions :
              \/ t[s] = h[o].base.text[s]
              \/ s = h[o].mark /\ t[s] = h[o].base.text[s] + 1
         /\ decided \in [Suggestions -> Nat] /\ decided[h[o].mark] < MaxDecided
         /\ decided' = [decided EXCEPT ![h[o].mark] = decided[h[o].mark] + 1]
         /\ UNCHANGED <<tomb, minted, said, unwanted>>
  <1> DEFINE s == h[o].mark  base == h[o].base.text  more == base[s] + 1
             text == IF h[o].op = "reject" THEN base ELSE [base EXCEPT ![s] = more]
  <1>1. /\ base \in [Suggestions -> 0 .. MaxDecided] /\ s \in Suggestions
        /\ decided \in [Suggestions -> 0 .. MaxDecided]
        /\ MaxDecided \in Nat
        /\ HandlersInv
    BY HandlerFields, DecidedAssumption DEF Text, CommitDecision, TypeInv, OpInv, GhostInv
  <1>2. decided[s] < MaxDecided /\ base[s] <= decided[s]
    BY <1>1 DEF CommitDecision, TypeInv, TextInv
  <1>3. more \in 0 .. MaxDecided
    BY <1>1, <1>2
  <1>4. CommitAll(o, text)
    BY <1>1 DEF CommitDecision
  <1>5. Leaves(o) /\ h'[o].pc = "epilogue"
    BY <1>1, GotoLeaves DEF CommitDecision
  <1>6. decided' = [decided EXCEPT ![s] = decided[s] + 1]
    BY <1>1 DEF CommitDecision
  <1>7. decided \in [Suggestions -> Nat]
    BY <1>1
  <1> HIDE DEF base, more, s
  <1>8. /\ text \in Text
        /\ \A x \in Suggestions : text[x] = base[x] \/ (x = s /\ text[x] = more)
    BY <1>1, <1>3 DEF Text
  <1> HIDE DEF text
  <1>9. /\ Wrote(h[o].next, h[o].mark, h[o].buried) /\ Docs' = {h[o].next}
        /\ Texts' = {text} /\ row'.rev = row.rev + 1
    BY <1>4, <1>8, CommitAllWrites
  <1> QED
    BY <1>1, <1>2, <1>5, <1>6, <1>7, <1>8, <1>9 DEF CommitDecision, Fenced, base, s, more

-----------------------------------------------------------------------------
(***************************************************************************)
(* Types.                                                                  *)
(***************************************************************************)
LEMMA DocsSame ==
  ASSUME UNCHANGED docs
  PROVE  /\ Docs' = Docs /\ Texts' = Texts /\ row' = row
         /\ DocsInv => DocsInv'
  BY DEF docs, Docs, Texts, DocsInv

LEMMA DocsKept ==
  ASSUME TypeInv, [Next]_vars
  PROVE  DocsInv'
  <1>0. DocsInv
    BY DEF TypeInv
  <1>1. CASE RoomStep
    BY <1>1, RoomSpreads DEF Spread
  <1>2. ASSUME NEW m \in Marks, ClientAdds(m) PROVE DocsInv'
    <2> DEFINE status == IF m \in Comments THEN "open" ELSE "pending"
    <2>1. status \in Status
      BY DEF Status
    <2> QED
      BY <1>0, <1>2, <2>1, ClientChanges DEF ClientAdds
  <1>3. ASSUME NEW c \in Comments, ClientDeletes(c) PROVE DocsInv'
    <2>1. "absent" \in Status /\ c \in Marks
      BY Kinds DEF Status
    <2> QED
      BY <1>0, <1>3, <2>1, ClientChanges DEF ClientDeletes
  <1>4. ASSUME NEW o \in Calls,
               \/ \E op \in Ops, m \in Marks \cup {None} : Read(o, op, m)
               \/ PrepareEdit(o) \/ PrepareDecision(o)
        PROVE  DocsInv'
    BY <1>0, <1>4, DocsSame DEF Read, PrepareEdit, PrepareDecision
  <1>5. ASSUME NEW o \in Calls, Forward(o) PROVE DocsInv'
    BY <1>5, ForwardWrites DEF Wrote
  <1>6. ASSUME NEW o \in Calls, CommitDecision(o) PROVE DocsInv'
    BY <1>6, DecisionWrites DEF Wrote
  <1>7. ASSUME NEW o \in Calls, PutMarks(o) PROVE DocsInv'
    BY <1>7, PutWrites DEF Wrote
  <1>8. ASSUME NEW o \in Calls, SyncRefused(o) PROVE DocsInv'
    BY <1>8, RefusedWrites DEF Wrote
  <1>9. ASSUME NEW o \in Calls, Passive(o) PROVE DocsInv'
    BY <1>9, PassiveLeaves DEF Spread
  <1> QED
    BY <1>1, <1>2, <1>3, <1>4, <1>5, <1>6, <1>7, <1>8, <1>9, Cases

LEMMA HandlersKept ==
  ASSUME TypeInv, [Next]_vars
  PROVE  HandlersInv'
  <1>0. HandlersInv
    BY DEF TypeInv
  <1>1. ASSUME h' = h PROVE HandlersInv'
    BY <1>0, <1>1 DEF HandlersInv
  <1>2. ASSUME NEW o \in Calls, Others(o) PROVE HandlersInv'
    BY <1>2 DEF Others, HandlersInv
  <1>3. RoomStep => h' = h
    BY RoomSpreads
  <1>4. \A m \in Marks : ClientAdds(m) => h' = h
    BY DEF ClientAdds
  <1>5. \A c \in Comments : ClientDeletes(c) => h' = h
    BY DEF ClientDeletes
  <1>6. \A o \in Calls, op \in Ops, m \in Marks \cup {None} : Read(o, op, m) => Others(o)
    BY ReadMoves
  <1>7. \A o \in Calls : PrepareEdit(o) => Others(o)
    BY EditPrepares DEF Prepares
  <1>8. \A o \in Calls : PrepareDecision(o) => Others(o)
    BY DecisionPrepares DEF Prepares
  <1>9. \A o \in Calls : Forward(o) => Others(o)
    BY ForwardWrites DEF Leaves, ToSync
  <1>10. \A o \in Calls : CommitDecision(o) => Others(o)
    BY DecisionWrites DEF Leaves
  <1>11. \A o \in Calls : PutMarks(o) => Others(o)
    BY PutMoves
  <1>12. \A o \in Calls : SyncRefused(o) => Others(o)
    BY RefusedWrites DEF Leaves
  <1>13. \A o \in Calls : Passive(o) => Others(o)
    BY PassiveLeaves DEF Leaves
  <1> QED
    BY <1>1, <1>2, <1>3, <1>4, <1>5, <1>6, <1>7, <1>8, <1>9, <1>10, <1>11, <1>12, <1>13, Cases

\* A tombstone is written by Bury, and taken away when a comment is reopened.
LEMMA TombsKept ==
  ASSUME TypeInv, [Next]_vars
  PROVE  TombsInv'
  <1>0. tomb \in [Marks -> Tombs]
    BY DEF TypeInv, TombsInv
  <1>1. ASSUME tomb' = tomb PROVE TombsInv'
    BY <1>0, <1>1 DEF TombsInv
  <1>2. ASSUME NEW o \in Calls, PrepareEdit(o) PROVE TombsInv'
    <2> DEFINE none == [status |-> "none", rev |-> 0]
    <2>1. none \in Tombs
      BY DEF Tombs
    <2>2. tomb' = IF h[o].op = "unresolve" THEN [tomb EXCEPT ![h[o].mark] = none] ELSE tomb
      BY <1>2 DEF PrepareEdit
    <2> HIDE DEF none
    <2> QED
      BY <1>0, <2>1, <2>2 DEF TombsInv
  <1>3. ASSUME NEW o \in Calls, Bury(o) PROVE TombsInv'
    <2> DEFINE status == CASE h[o].op = "resolve" -> "resolved"
                           [] h[o].op = "reject"  -> "rejected"
                           [] OTHER               -> "accepted"
               later == h[o].rev + 1
               rev == IF status = "resolved" THEN row.rev ELSE later
               new == [status |-> status, rev |-> rev]
    <2>1. status \in Final \cup {"resolved", "none"}
      <3>1. h[o].op = "resolve" => status = "resolved"
        OBVIOUS
      <3>2. h[o].op = "reject" => status = "rejected"
        OBVIOUS
      <3>3. h[o].op # "resolve" /\ h[o].op # "reject" => status = "accepted"
        OBVIOUS
      <3> HIDE DEF status
      <3> QED
        BY <3>1, <3>2, <3>3 DEF Final
    <2>2. tomb' = [tomb EXCEPT ![h[o].mark] = new]
      BY <1>3 DEF Bury
    <2> HIDE DEF status
    <2>3. later \in Nat /\ row.rev \in Nat
      BY HandlerFields, Fields DEF TypeInv
    <2> HIDE DEF later
    <2>4. rev \in Nat
      BY <2>3
    <2> HIDE DEF rev
    <2>5. new \in Tombs
      BY <2>1, <2>4 DEF Tombs
    <2> HIDE DEF new
    <2> QED
      BY <1>0, <2>2, <2>5 DEF TombsInv
  <1>4. RoomStep => tomb' = tomb
    BY RoomSpreads
  <1>5. \A m \in Marks : ClientAdds(m) => tomb' = tomb
    BY DEF ClientAdds
  <1>6. \A c \in Comments : ClientDeletes(c) => tomb' = tomb
    BY DEF ClientDeletes
  <1>7. \A o \in Calls, op \in Ops, m \in Marks \cup {None} : Read(o, op, m) => tomb' = tomb
    BY DEF Read
  <1>8. \A o \in Calls : PrepareDecision(o) => tomb' = tomb
    BY DEF PrepareDecision
  <1>9. \A o \in Calls : Forward(o) \/ CommitDecision(o) => tomb' = tomb
    BY ForwardWrites, DecisionWrites
  <1>10. \A o \in Calls : PutMarks(o) \/ SyncRefused(o) => tomb' = tomb
    BY PutWrites, RefusedWrites
  <1>11. \A o \in Calls : Passive(o) => tomb' = tomb \/ Bury(o)
    BY PassiveLeaves
  <1> QED
    BY <1>1, <1>2, <1>3, <1>4, <1>5, <1>6, <1>7, <1>8, <1>9, <1>10, <1>11, Cases

LEMMA GhostKept ==
  ASSUME TypeInv, [Next]_vars
  PROVE  GhostInv'
  <1>0. GhostInv /\ OpInv
    BY DEF TypeInv
  <1>1. CASE RoomStep
    BY <1>0, <1>1, RoomSpreads DEF Spread, Remembered, GhostInv
  <1>2. ASSUME NEW m \in Marks, ClientAdds(m) PROVE GhostInv'
    BY <1>0, <1>2 DEF ClientAdds, GhostInv
  <1>3. ASSUME NEW c \in Comments, ClientDeletes(c) PROVE GhostInv'
    BY <1>0, <1>3 DEF ClientDeletes, GhostInv, ghost
  <1>4. ASSUME NEW o \in Calls, NEW op \in Ops, NEW m \in Marks \cup {None}, Read(o, op, m)
        PROVE  GhostInv'
    <2>1. Sensible(op, m, View.marks)
      BY <1>4 DEF Read
    <2>2. op \in {"add", "place"} => m \in Marks
      BY <2>1, SensibleForm, Kinds
    <2> QED
      BY <1>0, <1>4, <2>2 DEF Read, GhostInv
  <1>5. ASSUME NEW o \in Calls, PrepareEdit(o) PROVE GhostInv'
    BY <1>0, <1>5 DEF PrepareEdit, GhostInv
  <1>6. ASSUME NEW o \in Calls, PrepareDecision(o) PROVE GhostInv'
    BY <1>0, <1>6 DEF PrepareDecision, GhostInv, ghost
  <1>7. ASSUME NEW o \in Calls PROVE said \cup Told(o) \subseteq Comments
    BY <1>0 DEF GhostInv, Told
  <1>8. ASSUME NEW o \in Calls, Forward(o) PROVE GhostInv'
    BY <1>0, <1>7, <1>8, ForwardWrites DEF Wrote, GhostInv
  <1>9. ASSUME NEW o \in Calls, CommitDecision(o) PROVE GhostInv'
    <2>1. /\ decided' = [decided EXCEPT ![h[o].mark] = decided[h[o].mark] + 1]
          /\ decided \in [Suggestions -> Nat]
          /\ h[o].mark \in Suggestions /\ decided[h[o].mark] < MaxDecided
          /\ Wrote(h[o].next, h[o].mark, h[o].buried)
          /\ UNCHANGED <<minted, said, unwanted>>
      BY <1>9, DecisionWrites
    <2>2. decided[h[o].mark] + 1 \in 0 .. MaxDecided
      BY <2>1, DecidedAssumption
    <2>3. decided' \in [Suggestions -> 0 .. MaxDecided]
      BY <1>0, <2>1, <2>2 DEF GhostInv
    <2> QED
      BY <1>0, <2>1, <2>3 DEF Wrote, GhostInv
  <1>10. ASSUME NEW o \in Calls, PutMarks(o) PROVE GhostInv'
    BY <1>0, <1>10, PutWrites DEF Wrote, GhostInv
  <1>11. ASSUME NEW o \in Calls, SyncRefused(o) PROVE GhostInv'
    BY <1>0, <1>11, RefusedWrites DEF Wrote, GhostInv
  <1>12. ASSUME NEW o \in Calls, Passive(o) PROVE GhostInv'
    BY <1>0, <1>7, <1>12, PassiveLeaves DEF Spread, GhostInv
  <1> QED
    BY <1>1, <1>2, <1>3, <1>4, <1>5, <1>6, <1>8, <1>9, <1>10, <1>11, <1>12, Cases

\* What a step has of the texts and of the decisions.
LEMMA TextStays ==
  ASSUME TypeInv, NEW s \in Suggestions,
         decided'[s] = decided[s],
         \A t \in Texts' : t \in Texts \/ \E o \in Calls : t = h[o].base.text,
         \A o \in Calls : \/ h'[o].base = h[o].base
                          \/ h'[o].base = Blank
                          \/ h'[o].base = View
  PROVE  /\ \A t \in Texts' : t[s] <= decided'[s]
         /\ \A o \in Calls : h'[o].base.text[s] <= decided'[s]
  <1>1. 0 <= decided[s] /\ Blank.text[s] = 0
    BY BlankForm DEF TypeInv, GhostInv
  <1>2. View.text \in Texts
    BY ViewForm DEF TypeInv
  <1> QED
    BY <1>1, <1>2 DEF TypeInv, TextInv

LEMMA TextKept ==
  ASSUME TypeInv, [Next]_vars
  PROVE  TextInv'
  <1> DEFINE Copied == \A t \in Texts' : t \in Texts \/ \E o \in Calls : t = h[o].base.text
             Bases == \A o \in Calls : \/ h'[o].base = h[o].base
                                       \/ h'[o].base = Blank
                                       \/ h'[o].base = View
  <1>0. DocsInv
    BY DEF TypeInv
  <1>1. ASSUME decided' = decided, Copied, Bases PROVE TextInv'
    BY <1>1, TextStays DEF TextInv
  <1>2. ASSUME NEW o \in Calls, Leaves(o) PROVE Bases
    BY <1>2 DEF Leaves, Others
  <1>3. CASE RoomStep
    BY <1>1, <1>3, RoomSpreads DEF Spread, Remembered
  <1>4. ASSUME NEW m \in Marks, ClientAdds(m) PROVE TextInv'
    <2> DEFINE status == IF m \in Comments THEN "open" ELSE "pending"
    <2>1. status \in Status
      BY DEF Status
    <2>2. Texts' \subseteq Texts
      BY <1>0, <1>4, <2>1, ClientChanges DEF ClientAdds
    <2> QED
      BY <1>1, <1>4, <2>2 DEF ClientAdds
  <1>5. ASSUME NEW c \in Comments, ClientDeletes(c) PROVE TextInv'
    <2>1. "absent" \in Status /\ c \in Marks
      BY Kinds DEF Status
    <2>2. Texts' \subseteq Texts
      BY <1>0, <1>5, <2>1, ClientChanges DEF ClientDeletes
    <2> QED
      BY <1>1, <1>5, <2>2 DEF ClientDeletes, ghost
  <1>6. ASSUME NEW o \in Calls, NEW op \in Ops, NEW m \in Marks \cup {None}, Read(o, op, m)
        PROVE  TextInv'
    <2>1. Texts' = Texts /\ decided' = decided
      BY <1>6, DocsSame DEF Read
    <2>2. Bases
      BY <1>6, ReadMoves DEF Others
    <2> QED
      BY <1>1, <2>1, <2>2
  <1>7. ASSUME NEW o \in Calls, PrepareEdit(o) PROVE TextInv'
    <2>1. Texts' = Texts /\ decided' = decided
      BY <1>7, DocsSame DEF PrepareEdit
    <2>2. Bases
      BY <1>7, EditPrepares DEF Prepares, Others
    <2> QED
      BY <1>1, <2>1, <2>2
  <1>8. ASSUME NEW o \in Calls, PrepareDecision(o) PROVE TextInv'
    <2>1. Texts' = Texts /\ decided' = decided
      BY <1>8, DocsSame DEF PrepareDecision, ghost
    <2>2. Bases
      BY <1>8, DecisionPrepares DEF Prepares, Others
    <2> QED
      BY <1>1, <2>1, <2>2
  <1>9. ASSUME NEW o \in Calls, Forward(o) PROVE TextInv'
    <2>1. Bases
      BY <1>2, <1>9, ForwardWrites DEF ToSync, Others
    <2> QED
      BY <1>1, <1>9, <2>1, ForwardWrites
  <1>10. ASSUME NEW o \in Calls, CommitDecision(o) PROVE TextInv'
    <2>1. /\ Leaves(o) /\ h[o].mark \in Suggestions
          /\ decided \in [Suggestions -> Nat]
          /\ decided' = [decided EXCEPT ![h[o].mark] = decided[h[o].mark] + 1]
          /\ \A t \in Texts', s \in Suggestions :
               \/ t[s] = h[o].base.text[s]
               \/ s = h[o].mark /\ t[s] = h[o].base.text[s] + 1
      BY <1>10, DecisionWrites
    <2>2. \A s \in Suggestions : /\ decided[s] \in Nat /\ decided[s] <= decided'[s]
                                 /\ s = h[o].mark => decided'[s] = decided[s] + 1
                                 /\ decided'[s] \in Nat
      BY <2>1
    <2>3. \A s \in Suggestions, p \in Calls :
            h[p].base.text[s] \in Nat /\ h[p].base.text[s] <= decided[s]
      BY HandlerFields, DecidedAssumption DEF TypeInv, TextInv, Text
    <2>4. \A s \in Suggestions, t \in Texts' : t[s] <= decided'[s]
      BY <2>1, <2>2, <2>3
    <2>5. \A s \in Suggestions : Blank.text[s] = 0
      BY BlankForm
    <2>6. \A p \in Calls : h'[p].base \in {h[p].base, Blank}
      BY <2>1 DEF Leaves, Others
    <2>7. \A s \in Suggestions, p \in Calls : h'[p].base.text[s] <= decided'[s]
      BY <2>2, <2>3, <2>5, <2>6
    <2> QED
      BY <2>4, <2>7 DEF TextInv
  <1>11. ASSUME NEW o \in Calls, PutMarks(o) PROVE TextInv'
    <2>1. Bases
      BY <1>11, PutMoves DEF Others
    <2> QED
      BY <1>1, <1>11, <2>1, PutWrites
  <1>12. ASSUME NEW o \in Calls, SyncRefused(o) PROVE TextInv'
    BY <1>1, <1>2, <1>12, RefusedWrites
  <1>13. ASSUME NEW o \in Calls, Passive(o) PROVE TextInv'
    BY <1>1, <1>2, <1>13, PassiveLeaves DEF Spread
  <1> QED
    BY <1>3, <1>4, <1>5, <1>6, <1>7, <1>8, <1>9, <1>10, <1>11, <1>12, <1>13, Cases

LEMMA OpKept ==
  ASSUME TypeInv, [Next]_vars
  PROVE  OpInv'
  <1> DEFINE Op(o) == /\ h[o].rev <= row.rev
                      /\ h[o].op = "put" => h[o].mark \in Comments \cup {None}
                      /\ h[o].op = "add" => h[o].mark \in Marks
                      /\ h[o].op \in {"reply", "resolve", "unresolve"} => h[o].mark \in Comments
                      /\ h[o].op \in Decisions => h[o].mark \in Suggestions
                      /\ h[o].pc = "ready" => h[o].op # "put"
                      /\ h[o].pc = "sync" => h[o].op \in Edits \cup {"put"}
                      /\ h[o].pc = "epilogue" => h[o].op \in Decisions \cup {"resolve"}
  <1>0. /\ DocsInv /\ HandlersInv /\ OpInv
        /\ \A o \in Calls : Op(o) /\ h[o].rev \in Nat
        /\ row.rev \in Nat
    BY Fields, HandlerFields DEF TypeInv, OpInv
  <1>1. row'.rev \in Nat
    BY DocsKept, Fields DEF DocsInv
  <1>2. ASSUME \A p \in Calls : h'[p] = h[p], row.rev <= row'.rev PROVE OpInv'
    BY <1>0, <1>1, <1>2 DEF OpInv
  <1>3. ASSUME NEW o \in Calls, Others(o), row.rev <= row'.rev, Op(o)' PROVE OpInv'
    BY <1>0, <1>1, <1>3 DEF OpInv, Others
  <1>4. ASSUME NEW o \in Calls, Leaves(o), row.rev <= row'.rev,
               h'[o].pc = "epilogue" => h[o].op \in Decisions \cup {"resolve"}
        PROVE  OpInv'
    <2>1. h'[o].pc # "ready" /\ h'[o].pc # "sync" /\ h'[o].op = h[o].op /\ h'[o].mark = h[o].mark
      BY <1>4 DEF Leaves, Ended, SameRequest
    <2>2. h'[o].rev <= row'.rev
      BY <1>0, <1>1, <1>4 DEF Leaves
    <2>3. Op(o)'
      BY <1>0, <1>4, <2>1, <2>2
    <2> QED
      BY <1>3, <1>4, <2>3 DEF Leaves
  <1>5. row' = row => row.rev <= row'.rev
    BY <1>0
  <1>6. CASE RoomStep
    BY <1>2, <1>6, RoomSpreads DEF Spread
  <1>7. ASSUME NEW m \in Marks, ClientAdds(m) PROVE OpInv'
    BY <1>2, <1>5, <1>7 DEF ClientAdds
  <1>8. ASSUME NEW c \in Comments, ClientDeletes(c) PROVE OpInv'
    BY <1>2, <1>5, <1>8 DEF ClientDeletes
  <1>9. ASSUME NEW o \in Calls, NEW op \in Ops, NEW m \in Marks \cup {None}, Read(o, op, m)
        PROVE  OpInv'
    <2>1. Sensible(op, m, View.marks) /\ row' = row
      BY <1>9 DEF Read, docs
    <2>2. /\ op = "put" => m \in Comments \cup {None}
          /\ op = "add" => m \in Marks
          /\ op \in {"reply", "resolve", "unresolve"} => m \in Comments
          /\ op \in Decisions => m \in Suggestions
      BY <2>1, SensibleForm DEF Decisions
    <2>3. Op(o)'
      BY <1>0, <1>9, <2>1, <2>2, ReadMoves
    <2> QED
      BY <1>3, <1>5, <1>9, <2>1, <2>3, ReadMoves
  <1>10. ASSUME NEW o \in Calls, PrepareEdit(o) PROVE OpInv'
    <2>1. row' = row /\ h[o].op \in Edits /\ h[o].op # "put"
      BY <1>10 DEF PrepareEdit, docs, Edits
    <2>2. Op(o)' /\ Others(o)
      BY <1>0, <1>10, <2>1, EditPrepares DEF Prepares, SameRequest
    <2> QED
      BY <1>3, <1>5, <2>1, <2>2
  <1>11. ASSUME NEW o \in Calls, PrepareDecision(o) PROVE OpInv'
    <2>1. row' = row /\ h[o].op \in Decisions /\ h[o].op # "put"
      BY <1>11 DEF PrepareDecision, docs, Decisions
    <2>2. Op(o)' /\ Others(o)
      BY <1>0, <1>11, <2>1, DecisionPrepares DEF Prepares, SameRequest
    <2> QED
      BY <1>3, <1>5, <2>1, <2>2
  <1>12. ASSUME NEW o \in Calls, Forward(o) PROVE OpInv'
    <2>1. row.rev <= row'.rev /\ (h[o].pc = "ready" => h[o].op \in Edits)
      BY <1>12, ForwardWrites DEF Wrote
    <2>2. CASE Leaves(o) /\ (h'[o].pc = "epilogue" => h[o].op = "resolve")
      BY <1>4, <2>1, <2>2
    <2>3. CASE ToSync(o) /\ h[o].pc = "ready"
      <3>1. Op(o)' /\ Others(o)
        BY <1>0, <1>1, <2>1, <2>3 DEF ToSync, SameRequest
      <3> QED
        BY <1>3, <2>1, <3>1
    <2> QED
      BY <1>12, <2>2, <2>3, ForwardWrites
  <1>13. ASSUME NEW o \in Calls, CommitDecision(o) PROVE OpInv'
    BY <1>4, <1>13, DecisionWrites DEF Wrote
  <1>14. ASSUME NEW o \in Calls, PutMarks(o) PROVE OpInv'
    <2>1. row.rev <= row'.rev /\ h[o].op = "put"
      BY <1>14, PutWrites DEF Wrote
    <2>2. Op(o)' /\ Others(o)
      BY <1>0, <1>1, <1>14, <2>1, PutMoves DEF SameRequest, Decisions
    <2> QED
      BY <1>3, <2>1, <2>2
  <1>15. ASSUME NEW o \in Calls, SyncRefused(o) PROVE OpInv'
    BY <1>4, <1>15, RefusedWrites DEF Wrote
  <1>16. ASSUME NEW o \in Calls, Passive(o) PROVE OpInv'
    BY <1>4, <1>16, PassiveLeaves DEF Spread
  <1> QED
    BY <1>6, <1>7, <1>8, <1>9, <1>10, <1>11, <1>12, <1>13, <1>14, <1>15, <1>16, Cases

LEMMA TypesKept ==
  ASSUME TypeInv, [Next]_vars
  PROVE  TypeInv'
  BY DocsKept, HandlersKept, TombsKept, GhostKept, TextKept, OpKept DEF TypeInv

-----------------------------------------------------------------------------
(***************************************************************************)
(* Where a mark can be after a step.                                       *)
(***************************************************************************)
\* No comment is pending in the marks f.
Kinded(f) == \A c \in Comments : f[c] # "pending"

LEMMA KindKept ==
  ASSUME TypeInv, KindInv, [Next]_vars
  PROVE  KindInv'
  <1>0. /\ \A f \in Docs : Kinded(f)
        /\ \A p \in Calls : \A f \in Held(p) : Kinded(f)
        /\ Kinded(NoMarks)
        /\ DocsInv /\ HandlersInv /\ OpInv
    BY BlankForm, Kinds DEF KindInv, Kinded, TypeInv
  <1>1. ASSUME \A f \in Docs' : Kinded(f),
               \A p \in Calls : \A f \in Held(p)' : Kinded(f)
        PROVE  KindInv'
    BY <1>1 DEF KindInv, Kinded
  <1>2. ASSUME Spread PROVE \A f \in Docs' : Kinded(f)
    BY <1>0, <1>2, Kinds DEF Spread, Kinded
  <1>3. ASSUME NEW w, NEW own, NEW seen, Wrote(w, own, seen), Kinded(w)
        PROVE  \A f \in Docs' : Kinded(f)
    BY <1>0, <1>3, Kinds DEF Wrote, Kinded
  <1>4. ASSUME h' = h PROVE \A p \in Calls : \A f \in Held(p)' : Kinded(f)
    BY <1>0, <1>4 DEF Held
  <1>5. ASSUME NEW o \in Calls, Others(o), \A f \in Held(o)' : Kinded(f)
        PROVE  \A p \in Calls : \A f \in Held(p)' : Kinded(f)
    BY <1>0, <1>5 DEF Held, Others
  <1>6. ASSUME NEW o \in Calls, Leaves(o)
        PROVE  \A p \in Calls : \A f \in Held(p)' : Kinded(f)
    BY <1>0, <1>5, <1>6, LeavesHeld DEF Leaves
  <1>7. \A o \in Calls : Kinded(h[o].base.marks) /\ Kinded(h[o].next) /\ Kinded(h[o].prev)
    BY <1>0 DEF Held
  <1>8. \A o \in Calls : Kinded(Wanted(o))
    <2> SUFFICES ASSUME NEW o \in Calls, NEW c \in Comments PROVE Wanted(o)[c] # "pending"
      BY DEF Kinded
    <2>1. CASE c # h[o].mark
      BY <1>0, <1>7, <2>1, WantedForm, Kinds DEF Kinded
    <2>2. CASE c = h[o].mark
      <3>1. h[o].op \in Ops
        BY <1>0, HandlerFields
      <3> QED
        BY <1>0, <1>7, <2>2, <3>1, WantedForm, Kinds DEF Kinded, Ops, Edits
    <2> QED
      BY <2>1, <2>2
  <1>9. CASE RoomStep
    BY <1>1, <1>2, <1>4, <1>9, RoomSpreads
  <1>10. ASSUME NEW m \in Marks, ClientAdds(m) PROVE KindInv'
    <2> DEFINE status == IF m \in Comments THEN "open" ELSE "pending"
    <2>1. status \in Status /\ (m \in Comments => status # "pending")
      BY DEF Status
    <2>2. \A f \in Docs', n \in Marks : (f[n] = status /\ n = m) \/ \E g \in Docs : f[n] = g[n]
      BY <1>0, <1>10, <2>1, ClientChanges DEF ClientAdds
    <2> HIDE DEF status
    <2>3. \A f \in Docs' : Kinded(f)
      BY <1>0, <2>1, <2>2, Kinds DEF Kinded
    <2> QED
      BY <1>1, <1>4, <1>10, <2>3 DEF ClientAdds
  <1>11. ASSUME NEW c \in Comments, ClientDeletes(c) PROVE KindInv'
    <2>1. "absent" \in Status /\ c \in Marks
      BY Kinds DEF Status
    <2>2. \A f \in Docs', n \in Marks : (f[n] = "absent" /\ n = c) \/ \E g \in Docs : f[n] = g[n]
      BY <1>0, <1>11, <2>1, ClientChanges DEF ClientDeletes
    <2>3. \A f \in Docs' : Kinded(f)
      BY <1>0, <2>2, Kinds DEF Kinded
    <2> QED
      BY <1>1, <1>4, <1>11, <2>3 DEF ClientDeletes
  <1>12. ASSUME NEW o \in Calls, NEW op \in Ops, NEW m \in Marks \cup {None}, Read(o, op, m)
         PROVE  KindInv'
    <2>1. Docs' = Docs
      BY <1>12, DocsSame DEF Read
    <2>2. Kinded(View.marks)
      BY <1>0, ViewForm, Kinds DEF Kinded
    <2>3. Others(o) /\ \A f \in Held(o)' : Kinded(f)
      BY <1>7, <1>12, <2>2, ReadMoves DEF Held
    <2> QED
      BY <1>0, <1>1, <1>5, <2>1, <2>3
  <1>13. ASSUME NEW o \in Calls, PrepareEdit(o) PROVE KindInv'
    <2>1. Docs' = Docs
      BY <1>13, DocsSame DEF PrepareEdit
    <2>2. Kinded(Scrubbed(Wanted(o), Buried'))
      BY <1>0, <1>8, WantedForm, ScrubbedForm, Kinds DEF Kinded
    <2>3. Others(o) /\ \A f \in Held(o)' : Kinded(f)
      BY <1>7, <1>13, <2>2, EditPrepares DEF Prepares, Held
    <2> QED
      BY <1>0, <1>1, <1>5, <2>1, <2>3
  <1>14. ASSUME NEW o \in Calls, PrepareDecision(o) PROVE KindInv'
    <2>1. Docs' = Docs
      BY <1>14, DocsSame DEF PrepareDecision
    <2>2. Others(o) /\ \A f \in Held(o)' : Kinded(f)
      BY <1>7, <1>8, <1>14, DecisionPrepares DEF Prepares, Held
    <2> QED
      BY <1>0, <1>1, <1>5, <2>1, <2>2
  <1>15. ASSUME NEW o \in Calls, Forward(o) PROVE KindInv'
    <2>1. ToSync(o) => Others(o) /\ \A f \in Held(o)' : Kinded(f)
      BY <1>7 DEF ToSync, Held
    <2> QED
      BY <1>1, <1>3, <1>5, <1>6, <1>7, <1>15, <2>1, ForwardWrites
  <1>16. ASSUME NEW o \in Calls, CommitDecision(o) PROVE KindInv'
    BY <1>1, <1>3, <1>6, <1>7, <1>16, DecisionWrites
  <1>17. ASSUME NEW o \in Calls, PutMarks(o) PROVE KindInv'
    <2>1. Kinded(row.marks)
      BY <1>0 DEF Docs
    <2>2. Others(o) /\ \A f \in Held(o)' : Kinded(f)
      BY <1>7, <1>8, <1>17, <2>1, PutMoves DEF Held
    <2> QED
      BY <1>1, <1>3, <1>5, <1>8, <1>17, <2>2, PutWrites
  <1>18. ASSUME NEW o \in Calls, SyncRefused(o) PROVE KindInv'
    BY <1>1, <1>3, <1>6, <1>7, <1>18, RefusedWrites
  <1>19. ASSUME NEW o \in Calls, Passive(o) PROVE KindInv'
    BY <1>1, <1>2, <1>6, <1>19, PassiveLeaves
  <1> QED
    BY <1>9, <1>10, <1>11, <1>12, <1>13, <1>14, <1>15, <1>16, <1>17, <1>18, <1>19, Cases

\* All that is in the marks f has been made.
Old(f) == \A m \in Marks : f[m] # "absent" => m \in minted

SameRequests == \A p \in Calls : h'[p].op = h[p].op /\ h'[p].mark = h[p].mark

LEMMA Requests ==
  ASSUME NEW o \in Calls, Others(o), SameRequest(o)
  PROVE  SameRequests
  BY DEF Others, SameRequest, SameRequests

LEMMA MintedKept ==
  ASSUME TypeInv, MintedInv, [Next]_vars
  PROVE  MintedInv'
  <1> DEFINE Now(f) == \A m \in Marks : f[m] # "absent" => m \in minted'
             DocsNow == \A f \in Docs' : Now(f)
             HeldNow == \A p \in Calls : \A f \in Held(p)' : Now(f)
  <1>0. /\ \A f \in Docs : Old(f)
        /\ \A p \in Calls : \A f \in Held(p) : Old(f)
        /\ Old(NoMarks)
        /\ DocsInv /\ HandlersInv /\ OpInv
    BY BlankForm DEF MintedInv, Old, TypeInv
  <1>1. ASSUME NEW f, Old(f), minted \subseteq minted' PROVE Now(f)
    BY <1>1 DEF Old
  <1>2. ASSUME minted \subseteq minted', SameRequests, DocsNow, HeldNow,
               \A s \in Suggestions : decided'[s] > 0 => s \in minted'
        PROVE  MintedInv'
    <2>1. \A o \in Calls : h'[o].mark # None => h'[o].mark \in minted'
      BY <1>2 DEF MintedInv, SameRequests
    <2>2. \A o, p \in Calls : Makes(o)' /\ Makes(p)' /\ h'[o].mark = h'[p].mark => o = p
      BY <1>2 DEF MintedInv, SameRequests, Makes
    <2> QED
      BY <1>2, <2>1, <2>2 DEF MintedInv
  <1>3. ASSUME Spread, minted \subseteq minted' PROVE DocsNow
    BY <1>0, <1>1, <1>3 DEF Spread, Old
  <1>4. ASSUME NEW w, NEW own, NEW seen, Wrote(w, own, seen), Old(w), minted \subseteq minted'
        PROVE  DocsNow
    BY <1>0, <1>4 DEF Wrote, Old
  <1>5. ASSUME h' = h, minted \subseteq minted' PROVE HeldNow /\ SameRequests
    BY <1>0, <1>1, <1>5 DEF Held, SameRequests
  <1>6. ASSUME NEW o \in Calls, Others(o), \A f \in Held(o)' : Old(f), minted \subseteq minted'
        PROVE  HeldNow
    <2>1. \A p \in Calls : \A f \in Held(p)' : Old(f)
      BY <1>0, <1>6 DEF Held, Others
    <2> QED
      BY <1>1, <1>6, <2>1
  <1>7. ASSUME NEW o \in Calls, Leaves(o), minted \subseteq minted' PROVE HeldNow /\ SameRequests
    <2>1. \A f \in Held(o)' : Old(f)
      BY <1>0, <1>7, LeavesHeld
    <2> QED
      BY <1>6, <1>7, <2>1, Requests DEF Leaves
  <1>8. \A o \in Calls : Old(h[o].base.marks) /\ Old(h[o].next) /\ Old(h[o].prev)
    BY <1>0 DEF Held
  <1>9. \A o \in Calls : Old(Wanted(o))
    <2> SUFFICES ASSUME NEW o \in Calls, NEW m \in Marks, Wanted(o)[m] # "absent"
                 PROVE  m \in minted
      BY DEF Old
    <2>1. CASE m # h[o].mark
      BY <1>0, <1>8, <2>1, WantedForm DEF Old
    <2>2. CASE m = h[o].mark
      BY <2>2, Kinds DEF MintedInv
    <2> QED
      BY <2>1, <2>2
  <1>10. \A s \in Suggestions : decided[s] > 0 => s \in minted
    BY DEF MintedInv
  <1>11. CASE RoomStep
    BY <1>2, <1>3, <1>5, <1>10, <1>11, RoomSpreads DEF Remembered
  <1>12. ASSUME NEW m \in Marks, ClientAdds(m) PROVE MintedInv'
    <2> DEFINE status == IF m \in Comments THEN "open" ELSE "pending"
    <2>1. status \in Status /\ minted' = minted \cup {m} /\ h' = h /\ decided' = decided
      BY <1>12 DEF Status, ClientAdds
    <2>2. \A f \in Docs', n \in Marks : (f[n] = status /\ n = m) \/ \E g \in Docs : f[n] = g[n]
      BY <1>0, <1>12, <2>1, ClientChanges DEF ClientAdds
    <2> HIDE DEF status
    <2>3. DocsNow
      BY <1>0, <2>1, <2>2 DEF Old
    <2> QED
      BY <1>2, <1>5, <1>10, <2>1, <2>3
  <1>13. ASSUME NEW c \in Comments, ClientDeletes(c) PROVE MintedInv'
    <2>1. "absent" \in Status /\ c \in Marks
      BY Kinds DEF Status
    <2>2. \A f \in Docs', n \in Marks : (f[n] = "absent" /\ n = c) \/ \E g \in Docs : f[n] = g[n]
      BY <1>0, <1>13, <2>1, ClientChanges DEF ClientDeletes
    <2>3. minted' = minted /\ h' = h /\ decided' = decided
      BY <1>13 DEF ClientDeletes, ghost
    <2>4. DocsNow
      BY <1>0, <2>2, <2>3 DEF Old
    <2> QED
      BY <1>2, <1>5, <1>10, <2>3, <2>4
  <1>14. ASSUME NEW o \in Calls, NEW op \in Ops, NEW m \in Marks \cup {None}, Read(o, op, m)
         PROVE  MintedInv'
    <2>1. /\ Docs' = Docs /\ decided' = decided /\ minted \subseteq minted'
          /\ op \in {"add", "place"} => m \in minted'
      BY <1>14, DocsSame DEF Read
    <2>2. Sensible(op, m, View.marks)
      BY <1>14 DEF Read
    <2>3. Old(View.marks)
      BY <1>0, ViewForm DEF Old
    <2>4. /\ Others(o) /\ h'[o].op = op /\ h'[o].mark = m
          /\ \A f \in Held(o)' : Old(f)
      BY <1>8, <1>14, <2>3, ReadMoves DEF Held
    <2>5. DocsNow /\ HeldNow
      BY <1>0, <1>1, <1>6, <2>1, <2>4
    <2>6. m # None => m \in minted'
      <3>1. m # None /\ op \notin {"add", "place"} => m \in Marks /\ View.marks[m] # "absent"
        BY <2>2, SensibleForm, Kinds DEF Ops, Edits, Decisions
      <3> QED
        BY <2>1, <2>3, <3>1 DEF Old
    <2>7. \A p \in Calls : h'[p].mark # None => h'[p].mark \in minted'
      BY <2>1, <2>4, <2>6 DEF MintedInv, Others
    <2>8. \A p \in Calls : p # o /\ Makes(p) /\ op \in {"add", "place"} => h[p].mark # m
      <3>1. \A p \in Calls : Makes(p) => h[p].mark \in minted
        BY <1>0, Kinds DEF MintedInv, OpInv, Makes, Decisions
      <3>2. op \in {"add", "place"} => m \notin minted
        BY <2>2, SensibleForm
      <3> QED
        BY <3>1, <3>2
    <2>9. \A p, q \in Calls : Makes(p)' /\ Makes(q)' /\ h'[p].mark = h'[q].mark => p = q
      <3>1. \A p \in Calls : p # o => (Makes(p)' <=> Makes(p)) /\ h'[p].mark = h[p].mark
        BY <2>4 DEF Others, Makes
      <3>2. Makes(o)' <=> op \in {"add", "place"}
        BY <2>4 DEF Makes
      <3> QED
        BY <2>4, <2>8, <3>1, <3>2 DEF MintedInv
    <2> QED
      BY <1>10, <2>1, <2>5, <2>7, <2>9 DEF MintedInv
  <1>15. ASSUME NEW o \in Calls, PrepareEdit(o) PROVE MintedInv'
    <2>1. Docs' = Docs /\ decided' = decided /\ minted' = minted
      BY <1>15, DocsSame DEF PrepareEdit
    <2>2. Old(Scrubbed(Wanted(o), Buried'))
      BY <1>0, <1>9, WantedForm, ScrubbedForm DEF Old
    <2>3. Others(o) /\ SameRequest(o) /\ \A f \in Held(o)' : Old(f)
      BY <1>8, <1>15, <2>2, EditPrepares DEF Prepares, Held
    <2> QED
      BY <1>0, <1>1, <1>2, <1>6, <1>10, <2>1, <2>3, Requests
  <1>16. ASSUME NEW o \in Calls, PrepareDecision(o) PROVE MintedInv'
    <2>1. Docs' = Docs /\ decided' = decided /\ minted' = minted
      BY <1>16, DocsSame DEF PrepareDecision, ghost
    <2>2. Others(o) /\ SameRequest(o) /\ \A f \in Held(o)' : Old(f)
      BY <1>8, <1>9, <1>16, DecisionPrepares DEF Prepares, Held
    <2> QED
      BY <1>0, <1>1, <1>2, <1>6, <1>10, <2>1, <2>2, Requests
  <1>17. ASSUME NEW o \in Calls, Forward(o) PROVE MintedInv'
    <2>1. Wrote(h[o].next, h[o].mark, h[o].buried) /\ minted' = minted /\ decided' = decided
      BY <1>17, ForwardWrites
    <2>2. DocsNow
      BY <1>4, <1>8, <2>1
    <2>3. HeldNow /\ SameRequests
      <3>1. CASE Leaves(o)
        BY <1>7, <2>1, <3>1
      <3>2. CASE ToSync(o)
        <4>1. \A f \in Held(o)' : Old(f)
          BY <1>8, <3>2 DEF ToSync, Held
        <4> QED
          BY <1>6, <2>1, <3>2, <4>1, Requests DEF ToSync
      <3> QED
        BY <1>17, <3>1, <3>2, ForwardWrites
    <2> QED
      BY <1>2, <1>10, <2>1, <2>2, <2>3
  <1>18. ASSUME NEW o \in Calls, CommitDecision(o) PROVE MintedInv'
    <2>1. /\ Wrote(h[o].next, h[o].mark, h[o].buried) /\ minted' = minted /\ Leaves(o)
          /\ decided \in [Suggestions -> Nat] /\ h[o].mark \in Suggestions
          /\ decided' = [decided EXCEPT ![h[o].mark] = decided[h[o].mark] + 1]
      BY <1>18, DecisionWrites
    <2>2. \A s \in Suggestions : decided'[s] > 0 => s \in minted'
      <3>1. h[o].mark \in minted
        BY <2>1, Kinds DEF MintedInv
      <3>2. \A s \in Suggestions : s # h[o].mark => decided'[s] = decided[s]
        BY <2>1
      <3> QED
        BY <1>10, <2>1, <3>1, <3>2
    <2> QED
      BY <1>2, <1>4, <1>7, <1>8, <2>1, <2>2
  <1>19. ASSUME NEW o \in Calls, PutMarks(o) PROVE MintedInv'
    <2>1. Old(row.marks)
      BY <1>0 DEF Docs
    <2>2. Others(o) /\ SameRequest(o) /\ \A f \in Held(o)' : Old(f)
      BY <1>8, <1>9, <1>19, <2>1, PutMoves DEF Held
    <2> QED
      BY <1>2, <1>4, <1>6, <1>9, <1>10, <1>19, <2>2, PutWrites, Requests
  <1>20. ASSUME NEW o \in Calls, SyncRefused(o) PROVE MintedInv'
    BY <1>2, <1>4, <1>7, <1>8, <1>10, <1>20, RefusedWrites
  <1>21. ASSUME NEW o \in Calls, Passive(o) PROVE MintedInv'
    BY <1>2, <1>3, <1>7, <1>10, <1>21, PassiveLeaves
  <1> QED
    BY <1>11, <1>12, <1>13, <1>14, <1>15, <1>16, <1>17, <1>18, <1>19, <1>20, <1>21, Cases

\* While its maker waits, no other step spreads a new mark.
LEMMA UnseenKept ==
  ASSUME TypeInv, MintedInv, FreshInv, [Next]_vars,
         NEW o \in Calls, Makes(o), Working(o), h'[o] = h[o],
         NEW m \in Marks, m = h[o].mark
  PROVE  Unseen(m, o)'
  <1> DEFINE Gone == \A f \in Docs' : f[m] = "absent"
             Alone == \A p \in Calls : p # o =>
                        h'[p].mark # m /\ \A f \in Held(p)' : f[m] = "absent"
             Open0 == m \in Suggestions => decided'[m] = 0
  <1>0. /\ \A f \in Docs : f[m] = "absent"
        /\ \A p \in Calls : p # o => h[p].mark # m /\ \A f \in Held(p) : f[m] = "absent"
        /\ m \in Suggestions => decided[m] = 0
        /\ m \in minted
        /\ NoMarks[m] = "absent"
        /\ DocsInv /\ HandlersInv /\ OpInv
    BY BlankForm, Kinds DEF FreshInv, Unseen, MintedInv, TypeInv
  <1>1. ASSUME Gone, Alone, Open0 PROVE Unseen(m, o)'
    BY <1>1 DEF Unseen
  <1>2. ASSUME Spread PROVE Gone
    BY <1>0, <1>2 DEF Spread
  <1>3. ASSUME NEW w, NEW own, NEW seen, Wrote(w, own, seen), w[m] = "absent" PROVE Gone
    BY <1>0, <1>3 DEF Wrote
  <1>4. ASSUME h' = h PROVE Alone
    BY <1>0, <1>4 DEF Held
  <1>5. ASSUME NEW q \in Calls, q # o, Others(q), h'[q].mark # m,
               \A f \in Held(q)' : f[m] = "absent"
        PROVE  Alone
    BY <1>0, <1>5 DEF Others, Held
  <1>6. ASSUME NEW q \in Calls, q # o, Leaves(q) PROVE Alone
    BY <1>0, <1>5, <1>6, LeavesHeld DEF Leaves, SameRequest
  <1>7. decided' = decided => Open0
    BY <1>0
  <1>8. \A q \in Calls : q # o => /\ h[q].base.marks[m] = "absent" /\ h[q].next[m] = "absent"
                                  /\ h[q].prev[m] = "absent" /\ h[q].mark # m
                                  /\ Wanted(q)[m] = "absent"
    BY <1>0, WantedForm DEF Held
  <1>9. \A q \in Calls : Leaves(q) \/ ToSync(q) => q # o
    BY DEF Leaves, ToSync, Ended, Working
  <1>10. CASE RoomStep
    BY <1>1, <1>2, <1>4, <1>7, <1>10, RoomSpreads DEF Remembered
  <1>11. ASSUME NEW n \in Marks, ClientAdds(n) PROVE Unseen(m, o)'
    <2> DEFINE status == IF n \in Comments THEN "open" ELSE "pending"
    <2>1. status \in Status /\ n # m /\ h' = h /\ decided' = decided
      BY <1>0, <1>11 DEF Status, ClientAdds
    <2>2. \A f \in Docs', k \in Marks : (f[k] = status /\ k = n) \/ \E g \in Docs : f[k] = g[k]
      BY <1>0, <1>11, <2>1, ClientChanges DEF ClientAdds
    <2> HIDE DEF status
    <2>3. Gone
      BY <1>0, <2>1, <2>2
    <2> QED
      BY <1>1, <1>4, <1>7, <2>1, <2>3
  <1>12. ASSUME NEW c \in Comments, ClientDeletes(c) PROVE Unseen(m, o)'
    <2>1. "absent" \in Status /\ c \in Marks /\ h' = h /\ decided' = decided
      BY <1>12, Kinds DEF Status, ClientDeletes, ghost
    <2>2. \A f \in Docs', k \in Marks : (f[k] = "absent" /\ k = c) \/ \E g \in Docs : f[k] = g[k]
      BY <1>0, <1>12, <2>1, ClientChanges DEF ClientDeletes
    <2>3. Gone
      BY <1>0, <2>2
    <2> QED
      BY <1>1, <1>4, <1>7, <2>1, <2>3
  <1>13. ASSUME NEW q \in Calls, NEW op \in Ops, NEW n \in Marks \cup {None}, Read(q, op, n)
         PROVE  Unseen(m, o)'
    <2>1. q # o
      BY <1>13 DEF Read, Working
    <2>2. Sensible(op, n, View.marks) /\ Docs' = Docs /\ decided' = decided
      BY <1>13, DocsSame DEF Read
    <2>3. View.marks[m] = "absent"
      BY <1>0, ViewForm
    <2>4. n # m
      <3>1. op \in {"add", "place"} => n \notin minted
        BY <2>2, SensibleForm
      <3>2. op \notin {"add", "place"} => n = None \/ View.marks[n] # "absent"
        BY <2>2, SensibleForm DEF Ops, Edits, Decisions
      <3> QED
        BY <1>0, <2>3, <3>1, <3>2, Kinds
    <2>5. Others(q) /\ h'[q].mark # m /\ \A f \in Held(q)' : f[m] = "absent"
      BY <1>8, <1>13, <2>1, <2>3, <2>4, ReadMoves DEF Held
    <2> QED
      BY <1>0, <1>1, <1>5, <1>7, <2>1, <2>2, <2>5
  <1>14. ASSUME NEW q \in Calls, PrepareEdit(q) PROVE Unseen(m, o)'
    <2>1. Docs' = Docs /\ decided' = decided /\ h[q].pc = "read"
      BY <1>14, DocsSame DEF PrepareEdit
    <2>2. Prepares(q, Scrubbed(Wanted(q), Buried'), h[q].base.marks, Buried')
      BY <1>14, EditPrepares
    <2>3. q # o
      BY <2>1, <2>2 DEF Prepares
    <2>4. Scrubbed(Wanted(q), Buried')[m] = "absent"
      BY <1>0, <1>8, <2>3, WantedForm, ScrubbedForm
    <2>5. Others(q) /\ h'[q].mark # m /\ \A f \in Held(q)' : f[m] = "absent"
      BY <1>8, <2>2, <2>3, <2>4 DEF Prepares, SameRequest, Held
    <2> QED
      BY <1>0, <1>1, <1>5, <1>7, <2>1, <2>3, <2>5
  <1>15. ASSUME NEW q \in Calls, PrepareDecision(q) PROVE Unseen(m, o)'
    <2>1. Docs' = Docs /\ decided' = decided /\ h[q].pc = "read"
      BY <1>15, DocsSame DEF PrepareDecision, ghost
    <2>2. Prepares(q, Wanted(q), h[q].prev, h[q].buried)
      BY <1>15, DecisionPrepares
    <2>3. q # o
      BY <2>1, <2>2 DEF Prepares
    <2>4. Others(q) /\ h'[q].mark # m /\ \A f \in Held(q)' : f[m] = "absent"
      BY <1>8, <2>2, <2>3 DEF Prepares, SameRequest, Held
    <2> QED
      BY <1>0, <1>1, <1>5, <1>7, <2>1, <2>3, <2>4
  <1>16. ASSUME NEW q \in Calls, Forward(q) PROVE Unseen(m, o)'
    <2>1. /\ Wrote(h[q].next, h[q].mark, h[q].buried) /\ decided' = decided
          /\ Leaves(q) \/ ToSync(q)
      BY <1>16, ForwardWrites
    <2>2. q # o
      BY <1>9, <2>1
    <2>3. Gone
      BY <1>3, <1>8, <2>1, <2>2
    <2>4. CASE Leaves(q)
      BY <1>1, <1>6, <1>7, <2>1, <2>2, <2>3, <2>4
    <2>5. CASE ToSync(q)
      <3>1. Others(q) /\ h'[q].mark # m /\ \A f \in Held(q)' : f[m] = "absent"
        BY <1>8, <2>2, <2>5 DEF ToSync, SameRequest, Held
      <3> QED
        BY <1>1, <1>5, <1>7, <2>1, <2>2, <2>3, <3>1
    <2> QED
      BY <2>1, <2>4, <2>5
  <1>17. ASSUME NEW q \in Calls, CommitDecision(q) PROVE Unseen(m, o)'
    <2>1. /\ Wrote(h[q].next, h[q].mark, h[q].buried) /\ Leaves(q)
          /\ decided \in [Suggestions -> Nat]
          /\ decided' = [decided EXCEPT ![h[q].mark] = decided[h[q].mark] + 1]
      BY <1>17, DecisionWrites
    <2>2. q # o
      BY <1>9, <2>1
    <2>3. Open0
      BY <1>0, <1>8, <2>1, <2>2
    <2> QED
      BY <1>1, <1>3, <1>6, <1>8, <2>1, <2>2, <2>3
  <1>18. ASSUME NEW q \in Calls, PutMarks(q) PROVE Unseen(m, o)'
    <2>1. q # o
      BY <1>18, PutMoves DEF Working
    <2>2. row.marks[m] = "absent"
      BY <1>0 DEF Docs
    <2>3. Others(q) /\ h'[q].mark # m /\ \A f \in Held(q)' : f[m] = "absent"
      BY <1>8, <1>18, <2>1, <2>2, PutMoves DEF SameRequest, Held
    <2> QED
      BY <1>1, <1>3, <1>5, <1>7, <1>8, <1>18, <2>1, <2>3, PutWrites
  <1>19. ASSUME NEW q \in Calls, SyncRefused(q) PROVE Unseen(m, o)'
    BY <1>1, <1>3, <1>6, <1>7, <1>8, <1>9, <1>19, RefusedWrites
  <1>20. ASSUME NEW q \in Calls, Passive(q) PROVE Unseen(m, o)'
    BY <1>1, <1>2, <1>6, <1>7, <1>9, <1>20, PassiveLeaves
  <1> QED
    BY <1>10, <1>11, <1>12, <1>13, <1>14, <1>15, <1>16, <1>17, <1>18, <1>19, <1>20, Cases

\* What a step makes of a handler.
LEMMA HandlerFrom ==
  ASSUME TypeInv, [Next]_vars, NEW o \in Calls
  PROVE  \/ h'[o] = h[o]
         \/ \E op \in Ops, m \in Marks \cup {None} : Read(o, op, m)
         \/ PrepareEdit(o)
         \/ PrepareDecision(o)
         \/ Forward(o) /\ ToSync(o)
         \/ PutMarks(o)
         \/ Leaves(o) /\ (h'[o].pc = "epilogue" => h[o].op = "resolve" \/ CommitDecision(o))
  <1>1. \A q \in Calls : Others(q) /\ q # o => h'[o] = h[o]
    BY DEF Others
  <1>2. \A q \in Calls : Leaves(q) \/ ToSync(q) => Others(q)
    BY DEF Leaves, ToSync
  <1>3. RoomStep => h'[o] = h[o]
    BY RoomSpreads
  <1>4. \A m \in Marks : ClientAdds(m) => h'[o] = h[o]
    BY DEF ClientAdds
  <1>5. \A c \in Comments : ClientDeletes(c) => h'[o] = h[o]
    BY DEF ClientDeletes
  <1>6. \A q \in Calls, op \in Ops, m \in Marks \cup {None} : Read(q, op, m) => Others(q)
    BY ReadMoves
  <1>7. \A q \in Calls : PrepareEdit(q) => Others(q)
    BY EditPrepares DEF Prepares
  <1>8. \A q \in Calls : PrepareDecision(q) => Others(q)
    BY DecisionPrepares DEF Prepares
  <1>9. \A q \in Calls : Forward(q) =>
          (Leaves(q) /\ (h'[q].pc = "epilogue" => h[q].op = "resolve")) \/ ToSync(q)
    BY ForwardWrites
  <1>10. \A q \in Calls : CommitDecision(q) => Leaves(q)
    BY DecisionWrites
  <1>11. \A q \in Calls : PutMarks(q) => Others(q)
    BY PutMoves
  <1>12. \A q \in Calls : SyncRefused(q) => Leaves(q) /\ h'[q].pc # "epilogue"
    BY RefusedWrites
  <1>13. \A q \in Calls : Passive(q) => Leaves(q) /\ (h'[q].pc = "epilogue" => h[q].op = "resolve")
    BY PassiveLeaves
  <1> QED
    BY <1>1, <1>2, <1>3, <1>4, <1>5, <1>6, <1>7, <1>8, <1>9, <1>10, <1>11, <1>12, <1>13, Cases

\* A handler that is at work after a step was so before, or has just read, or
\* prepared what it will write.
LEMMA WorkingFrom ==
  ASSUME TypeInv, [Next]_vars, NEW o \in Calls, Working(o)'
  PROVE  \/ h'[o] = h[o]
         \/ \E op \in Ops, m \in Marks \cup {None} : Read(o, op, m)
         \/ PrepareEdit(o)
         \/ PrepareDecision(o)
  <1>1. ~Leaves(o) /\ ~ToSync(o)
    BY DEF Leaves, ToSync, Ended, Working
  <1>2. ~PutMarks(o)
    BY PutMoves DEF Working
  <1> QED
    BY <1>1, <1>2, HandlerFrom

LEMMA FreshKept ==
  ASSUME TypeInv, MintedInv, FreshInv, [Next]_vars
  PROVE  FreshInv'
  <1>0. DocsInv /\ HandlersInv /\ OpInv
    BY DEF TypeInv
  <1> SUFFICES ASSUME NEW o \in Calls, Makes(o)', Working(o)'
               PROVE  Unseen(h[o].mark, o)' /\ h'[o].base.marks[h'[o].mark] = "absent"
    BY DEF FreshInv
  <1>1. CASE h'[o] = h[o]
    <2>1. Makes(o) /\ Working(o)
      BY <1>1 DEF Makes, Working
    <2>2. h[o].mark \in Marks
      BY <1>0, <2>1, Kinds DEF OpInv, Makes, Decisions
    <2>3. h[o].base.marks[h[o].mark] = "absent"
      BY <2>1 DEF FreshInv
    <2>4. \A m \in Marks : m = h[o].mark => Unseen(m, o)'
      BY <1>1, <2>1, UnseenKept
    <2> QED
      BY <1>1, <2>2, <2>3, <2>4 DEF Unseen
  <1>2. ASSUME NEW op \in Ops, NEW m \in Marks \cup {None}, Read(o, op, m)
        PROVE  Unseen(h[o].mark, o)' /\ h'[o].base.marks[h'[o].mark] = "absent"
    <2>1. Others(o) /\ h'[o].op = op /\ h'[o].mark = m /\ h'[o].base = View
      BY <1>2, ReadMoves
    <2>2. Sensible(op, m, View.marks) /\ Docs' = Docs /\ decided' = decided
      BY <1>2, DocsSame DEF Read
    <2>3. m \in Marks /\ m \notin minted
      BY <2>1, <2>2, SensibleForm, Kinds DEF Makes
    <2>4. /\ \A f \in Docs : f[m] = "absent"
          /\ \A p \in Calls : h[p].mark # m /\ \A f \in Held(p) : f[m] = "absent"
      BY <2>3, Kinds DEF MintedInv
    <2>5. m \in Suggestions => decided[m] = 0
      BY <1>0, <2>3 DEF MintedInv, TypeInv, GhostInv
    <2>6. View.marks[m] = "absent"
      BY <1>0, <2>3, <2>4, ViewForm
    <2>7. \A p \in Calls : p # o => h'[p].mark # m /\ \A f \in Held(p)' : f[m] = "absent"
      BY <2>1, <2>4 DEF Others, Held
    <2> QED
      BY <2>1, <2>2, <2>4, <2>5, <2>6, <2>7 DEF Unseen
  <1>3. CASE PrepareEdit(o) \/ PrepareDecision(o)
    <2>1. Docs' = Docs /\ decided' = decided /\ h[o].pc = "read"
      BY <1>3, DocsSame DEF PrepareEdit, PrepareDecision, ghost
    <2>2. Others(o) /\ SameRequest(o) /\ h'[o].base = h[o].base
      BY <1>3, EditPrepares, DecisionPrepares DEF Prepares
    <2>3. Makes(o) /\ Working(o)
      BY <2>1, <2>2 DEF Makes, Working, SameRequest
    <2>4. Unseen(h[o].mark, o) /\ h[o].base.marks[h[o].mark] = "absent"
      BY <2>3 DEF FreshInv
    <2>5. \A p \in Calls : p # o =>
            h'[p].mark # h[o].mark /\ \A f \in Held(p)' : f[h[o].mark] = "absent"
      BY <2>2, <2>4 DEF Others, Held, Unseen
    <2> QED
      BY <2>1, <2>2, <2>4, <2>5 DEF Unseen, SameRequest
  <1> QED
    BY <1>1, <1>2, <1>3, WorkingFrom

LEMMA UnwantedGrows ==
  ASSUME TypeInv, [Next]_vars
  PROVE  unwanted \subseteq unwanted'
  <1>1. RoomStep => unwanted' = unwanted
    BY RoomSpreads DEF Remembered
  <1>2. \A m \in Marks : ClientAdds(m) => unwanted' = unwanted
    BY DEF ClientAdds
  <1>3. \A c \in Comments : ClientDeletes(c) => unwanted' = unwanted
    BY DEF ClientDeletes, ghost
  <1>4. \A o \in Calls, op \in Ops, m \in Marks \cup {None} : Read(o, op, m) => unwanted' = unwanted
    BY DEF Read
  <1>5. \A o \in Calls : PrepareEdit(o) => unwanted \subseteq unwanted'
    BY DEF PrepareEdit
  <1>6. \A o \in Calls : PrepareDecision(o) => unwanted' = unwanted
    BY DEF PrepareDecision, ghost
  <1>7. \A o \in Calls : Forward(o) \/ CommitDecision(o) => unwanted' = unwanted
    BY ForwardWrites, DecisionWrites
  <1>8. \A o \in Calls : PutMarks(o) => unwanted \subseteq unwanted'
    BY PutWrites
  <1>9. \A o \in Calls : SyncRefused(o) \/ Passive(o) => unwanted' = unwanted
    BY RefusedWrites, PassiveLeaves
  <1> QED
    BY <1>1, <1>2, <1>3, <1>4, <1>5, <1>6, <1>7, <1>8, <1>9, Cases

\* Only the commit of a decision counts one.
LEMMA DecidedSteps ==
  ASSUME TypeInv, [Next]_vars
  PROVE  decided' = decided \/ \E o \in Calls : CommitDecision(o)
  <1>1. RoomStep => decided' = decided
    BY RoomSpreads DEF Remembered
  <1>2. \A m \in Marks : ClientAdds(m) => decided' = decided
    BY DEF ClientAdds
  <1>3. \A c \in Comments : ClientDeletes(c) => decided' = decided
    BY DEF ClientDeletes, ghost
  <1>4. \A o \in Calls, op \in Ops, m \in Marks \cup {None} : Read(o, op, m) => decided' = decided
    BY DEF Read
  <1>5. \A o \in Calls : PrepareEdit(o) \/ PrepareDecision(o) => decided' = decided
    BY DEF PrepareEdit, PrepareDecision, ghost
  <1>6. \A o \in Calls : Forward(o) => decided' = decided
    BY ForwardWrites
  <1>7. \A o \in Calls : PutMarks(o) \/ SyncRefused(o) \/ Passive(o) => decided' = decided
    BY PutWrites, RefusedWrites, PassiveLeaves
  <1> QED
    BY <1>1, <1>2, <1>3, <1>4, <1>5, <1>6, <1>7, Cases

LEMMA PreparedKept ==
  ASSUME TypeInv, KindInv, MintedInv, PreparedInv, [Next]_vars
  PROVE  PreparedInv'
  <1> DEFINE Prepared(o) ==
        /\ h[o].pc \in {"idle", "read"} => h[o].buried = {}
        /\ h[o].pc \in {"ready", "sync"} /\ h[o].op \in Edits =>
             /\ h[o].prev = h[o].base.marks
             /\ h[o].mark \in Comments => h[o].next[h[o].mark] # "absent" \/ h[o].mark \in unwanted
        /\ h[o].pc \in {"ready", "sync"} =>
             \A s \in Suggestions : h[o].next[s] = "pending" => s \notin h[o].buried
        /\ h[o].pc = "ready" /\ h[o].op \in Decisions => h[o].next[h[o].mark] = "absent"
        /\ h[o].pc \in {"read", "ready", "sync"} /\ h[o].op \in {"reply", "resolve", "unresolve"} =>
             h[o].base.marks[h[o].mark] # "absent"
        /\ h[o].pc \in {"read", "ready", "sync"} /\ h[o].op = "add" =>
             h[o].base.marks[h[o].mark] = "absent"
        /\ h[o].pc = "sync" /\ h[o].op = "put" => h[o].mark \in unwanted \cup {None}
  <1>0. /\ DocsInv /\ HandlersInv /\ OpInv
        /\ \A o \in Calls : Prepared(o)
        /\ unwanted \subseteq unwanted'
    BY UnwantedGrows DEF TypeInv, PreparedInv
  <1> SUFFICES ASSUME NEW o \in Calls PROVE Prepared(o)'
    BY DEF PreparedInv
  <1>1. CASE h'[o] = h[o]
    BY <1>0, <1>1
  <1>2. ASSUME NEW op \in Ops, NEW m \in Marks \cup {None}, Read(o, op, m) PROVE Prepared(o)'
    <2>1. /\ h'[o].pc = "read" /\ h'[o].op = op /\ h'[o].mark = m /\ h'[o].base = View
          /\ h'[o].buried = h[o].buried
      BY <1>2, ReadMoves
    <2>2. Sensible(op, m, View.marks) /\ h[o].pc = "idle"
      BY <1>2 DEF Read
    <2>3. op \in {"reply", "resolve", "unresolve"} => View.marks[m] # "absent"
      BY <2>2, SensibleForm
    <2>4. op = "add" => View.marks[m] = "absent"
      <3>1. op = "add" => m \in Marks /\ m \notin minted
        BY <2>2, SensibleForm
      <3>2. m \in Marks /\ m \notin minted => \A f \in Docs : f[m] = "absent"
        BY DEF MintedInv
      <3> QED
        BY <1>0, <3>1, <3>2, ViewForm
    <2> QED
      BY <1>0, <2>1, <2>2, <2>3, <2>4
  <1>3. CASE PrepareEdit(o)
    <2>1. /\ h[o].pc = "read" /\ h[o].op \in Edits
          /\ unwanted' = unwanted \cup {c \in Comments : Wanted(o)[c] = "open" /\ c \in Buried'}
          /\ tomb' = IF h[o].op = "unresolve"
                     THEN [tomb EXCEPT ![h[o].mark] = [status |-> "none", rev |-> 0]] ELSE tomb
      BY <1>3 DEF PrepareEdit
    <2> DEFINE scrubbed == Scrubbed(Wanted(o), Buried')
    <2>2. Prepares(o, scrubbed, h[o].base.marks, Buried')
      BY <1>3, EditPrepares
    <2>3. /\ \A m \in Marks : scrubbed[m] = "pending" => m \notin Buried'
          /\ \A m \in Marks : Wanted(o)[m] # "absent" /\ scrubbed[m] = "absent" =>
                 m \in Buried' /\ Wanted(o)[m] \in {"open", "pending"}
      BY <1>0, WantedForm, ScrubbedForm
    <2>4. h[o].mark \in Comments => Wanted(o)[h[o].mark] # "absent"
      <3>1. h[o].op \in {"reply", "resolve", "unresolve"} => h[o].base.marks[h[o].mark] # "absent"
        BY <1>0, <2>1
      <3> QED
        BY <1>0, <2>1, <3>1, WantedForm DEF Edits
    <2>5. h[o].mark \in Comments => scrubbed[h[o].mark] # "absent" \/ h[o].mark \in unwanted'
      <3> SUFFICES ASSUME h[o].mark \in Comments, scrubbed[h[o].mark] = "absent"
                   PROVE  h[o].mark \in unwanted'
        OBVIOUS
      <3>1. h[o].mark \in Buried' /\ Wanted(o)[h[o].mark] \in {"open", "pending"}
        BY <2>3, <2>4, Kinds
      <3>2. Wanted(o)[h[o].mark] # "pending"
        <4>1. h[o].base.marks[h[o].mark] # "pending"
          BY DEF KindInv, Held
        <4> QED
          BY <1>0, <2>1, <4>1, WantedForm DEF Edits
      <3> QED
        BY <2>1, <3>1, <3>2
    <2> HIDE DEF scrubbed
    <2> QED
      BY <1>0, <2>1, <2>2, <2>3, <2>5, Kinds DEF Prepares, SameRequest, Edits, Decisions
  <1>4. CASE PrepareDecision(o)
    <2>1. h[o].pc = "read" /\ h[o].op \in Decisions
      BY <1>4 DEF PrepareDecision
    <2>2. Prepares(o, Wanted(o), h[o].prev, h[o].buried)
      BY <1>4, DecisionPrepares
    <2>3. Wanted(o)[h[o].mark] = "absent"
      BY <1>0, <2>1, WantedForm, Kinds DEF OpInv
    <2>4. h[o].op \notin Edits /\ h[o].op \notin {"add", "reply", "resolve", "unresolve"}
      BY <2>1 DEF Decisions, Edits
    <2> QED
      BY <1>0, <2>1, <2>2, <2>3, <2>4 DEF Prepares, SameRequest
  <1>5. CASE Forward(o) /\ ToSync(o)
    <2>1. h[o].pc = "ready" \/ h[o].pc = "sync"
      BY <1>5, ForwardWrites
    <2>2. h[o].pc = "ready" => h[o].op # "put"
      BY <1>0 DEF OpInv
    <2> QED
      BY <1>0, <1>5, <2>1, <2>2 DEF ToSync, SameRequest
  <1>6. CASE PutMarks(o)
    <2>1. /\ h'[o].pc = "sync" /\ h'[o].op = "put" /\ h'[o].mark = h[o].mark
          /\ h'[o].buried = h[o].buried /\ h[o].pc = "read"
          /\ h[o].mark \in unwanted' \cup {None}
      BY <1>6, PutMoves, PutWrites DEF SameRequest
    <2>2. "put" \notin Edits /\ "put" \notin Decisions
      BY DEF Edits, Decisions
    <2> QED
      BY <1>0, <2>1, <2>2
  <1>7. CASE Leaves(o)
    BY <1>7, LeavesHeld
  <1> QED
    BY <1>1, <1>2, <1>3, <1>4, <1>5, <1>6, <1>7, HandlerFrom

-----------------------------------------------------------------------------
(***************************************************************************)
(* A suggestion is decided once.                                           *)
(***************************************************************************)
LEMMA RevGrows ==
  ASSUME TypeInv, [Next]_vars
  PROVE  row.rev \in Nat /\ row'.rev \in Nat /\ row.rev <= row'.rev /\ stale \subseteq stale'
  <1>0. row.rev \in Nat /\ row.rev <= row.rev
    BY Fields DEF TypeInv
  <1>1. row'.rev \in Nat
    BY DocsKept, Fields DEF DocsInv
  <1> DEFINE Grown == row.rev <= row'.rev /\ stale \subseteq stale'
  <1>2. UNCHANGED <<row, stale>> => Grown
    BY <1>0
  <1>3. RoomStep => Grown
    BY RoomSpreads DEF Spread
  <1>4. \A m \in Marks : ClientAdds(m) => Grown
    BY <1>2 DEF ClientAdds
  <1>5. \A c \in Comments : ClientDeletes(c) => Grown
    BY <1>2 DEF ClientDeletes, ghost
  <1>6. \A o \in Calls, op \in Ops, m \in Marks \cup {None} : Read(o, op, m) => Grown
    BY <1>2 DEF Read, docs
  <1>7. \A o \in Calls : PrepareEdit(o) \/ PrepareDecision(o) => Grown
    BY <1>2 DEF PrepareEdit, PrepareDecision, docs, ghost
  <1>8. \A o \in Calls : Forward(o) \/ CommitDecision(o) => Grown
    BY ForwardWrites, DecisionWrites DEF Wrote
  <1>9. \A o \in Calls : PutMarks(o) \/ SyncRefused(o) => Grown
    BY PutWrites, RefusedWrites DEF Wrote
  <1>10. \A o \in Calls : Passive(o) => Grown
    BY PassiveLeaves DEF Spread
  <1> QED
    BY <1>0, <1>1, <1>3, <1>4, <1>5, <1>6, <1>7, <1>8, <1>9, <1>10, Cases

\* Whoever decides a suggestion has read it before any other decision of it.
LEMMA DecidesFirst ==
  ASSUME TypeInv, FreshInv, OnceInv, NEW o \in Calls, CommitDecision(o), h[o].mark \notin stale
  PROVE  decided[h[o].mark] = 0
  <1>0. /\ h[o].pc = "ready" /\ h[o].op \in Decisions /\ h[o].mark \in Suggestions
        /\ row.rev = h[o].rev
        /\ decided \in [Suggestions -> Nat]
    BY DecisionWrites
  <1>1. Working(o) /\ row.rev \in Nat
    BY <1>0, Fields DEF Working, TypeInv
  <1>2. CASE h[o].op = "place"
    BY <1>0, <1>1, <1>2 DEF FreshInv, Unseen, Makes
  <1>3. CASE h[o].op \in {"accept", "reject"}
    BY <1>0, <1>1, <1>3 DEF OnceInv
  <1> QED
    BY <1>0, <1>2, <1>3 DEF Decisions

\* The number of decisions changes by a decision only.
LEMMA DecidedCount ==
  ASSUME TypeInv, [Next]_vars, NEW s \in Suggestions
  PROVE  /\ decided[s] \in Nat
         /\ \/ decided'[s] = decided[s]
            \/ \E o \in Calls : /\ CommitDecision(o) /\ h[o].mark = s
                                /\ decided'[s] = decided[s] + 1
  <1>1. decided[s] \in Nat
    BY DecidedAssumption DEF TypeInv, GhostInv
  <1>2. ASSUME NEW o \in Calls, CommitDecision(o)
        PROVE  decided'[s] = decided[s] \/ (h[o].mark = s /\ decided'[s] = decided[s] + 1)
    BY <1>2, DecisionWrites
  <1> QED
    BY <1>1, <1>2, DecidedSteps

LEMMA OnceDocs ==
  ASSUME TypeInv, MintedInv, FreshInv, PreparedInv, OnceInv, [Next]_vars,
         NEW s \in Suggestions, decided'[s] > 0, s \notin stale'
  PROVE  \A f \in Docs' : f[s] # "pending"
  <1> DEFINE Good == \A f \in Docs' : f[s] # "pending"
  <1>0. /\ s \notin stale /\ s \in Marks /\ s \notin Comments /\ s # None
        /\ OpInv /\ DocsInv
        /\ row.marks \in Docs
    BY RevGrows, Kinds DEF TypeInv, Docs
  <1>1. ASSUME NEW o \in Calls, CommitDecision(o), h[o].mark = s PROVE Good
    <2>1. /\ h[o].pc = "ready" /\ h[o].op \in Decisions /\ Docs' = {h[o].next}
      BY <1>1, DecisionWrites
    <2> QED
      BY <1>1, <2>1 DEF PreparedInv
  <1>2. ASSUME decided'[s] = decided[s] PROVE Good
    <2>1. \A f \in Docs : f[s] # "pending"
      BY <1>0, <1>2 DEF OnceInv
    <2>2. Spread => Good
      BY <1>0, <2>1 DEF Spread
    <2>3. ASSUME NEW w, NEW own, NEW seen, Wrote(w, own, seen), s # own \/ w[s] # "pending"
          PROVE  Good
      BY <1>0, <2>1, <2>3 DEF Wrote
    <2>4. RoomStep => Good
      BY <2>2, RoomSpreads
    <2>5. ASSUME NEW m \in Marks, ClientAdds(m) PROVE Good
      <3> DEFINE status == IF m \in Comments THEN "open" ELSE "pending"
      <3>1. status \in Status /\ (m = s => FALSE)
        BY <1>0, <1>2, <2>5, Kinds DEF ClientAdds, Status, MintedInv
      <3> QED
        BY <1>0, <2>1, <2>5, <3>1, ClientChanges DEF ClientAdds
    <2>6. ASSUME NEW c \in Comments, ClientDeletes(c) PROVE Good
      <3>1. "absent" \in Status /\ c \in Marks
        BY Kinds DEF Status
      <3> QED
        BY <1>0, <2>1, <2>6, <3>1, ClientChanges DEF ClientDeletes
    <2>7. \A o \in Calls, op \in Ops, m \in Marks \cup {None} : Read(o, op, m) => Good
      BY <2>1, DocsSame DEF Read
    <2>8. \A o \in Calls : PrepareEdit(o) \/ PrepareDecision(o) => Good
      BY <2>1, DocsSame DEF PrepareEdit, PrepareDecision
    <2>9. ASSUME NEW o \in Calls, Forward(o) PROVE Good
      <3>1. CASE h[o].pc = "sync"
        BY <1>0, <2>3, <2>9, <3>1, ForwardWrites
      <3>2. CASE h[o].pc = "ready" /\ h[o].op \in Edits
        <4>1. h[o].op # "add" => s # h[o].mark
          BY <1>0, <3>2 DEF OpInv, Edits
        <4>2. h[o].op = "add" => s # h[o].mark
          <5>1. h[o].op = "add" => Makes(o) /\ Working(o)
            BY <3>2 DEF Makes, Working
          <5> QED
            BY <1>2, <5>1 DEF FreshInv, Unseen
        <4>3. Wrote(h[o].next, h[o].mark, h[o].buried)
          BY <2>9, ForwardWrites
        <4> QED
          BY <2>3, <4>1, <4>2, <4>3
      <3> QED
        BY <2>9, <3>1, <3>2, ForwardWrites
    <2>10. ASSUME NEW o \in Calls, CommitDecision(o) PROVE Good
      BY <1>1, <2>3, <2>10, DecisionWrites
    <2>11. ASSUME NEW o \in Calls, PutMarks(o) PROVE Good
      BY <1>0, <2>3, <2>11, PutWrites
    <2>12. ASSUME NEW o \in Calls, SyncRefused(o) PROVE Good
      <3>1. Wrote(h[o].prev, h[o].mark, {}) /\ h[o].pc = "sync"
        BY <2>12, RefusedWrites
      <3>2. s = h[o].mark => h[o].op = "add"
        BY <1>0, <3>1 DEF OpInv, Edits
      <3>3. h[o].op = "add" => h[o].prev[h[o].mark] = "absent"
        BY <3>1 DEF PreparedInv, Edits
      <3>4. s # h[o].mark \/ h[o].prev[s] # "pending"
        BY <3>2, <3>3
      <3> QED
        BY <2>3, <3>1, <3>4
    <2>13. \A o \in Calls : Passive(o) => Good
      BY <2>2, PassiveLeaves
    <2> QED
      BY <2>4, <2>5, <2>6, <2>7, <2>8, <2>9, <2>10, <2>11, <2>12, <2>13, Cases
  <1> QED
    BY <1>1, <1>2, DecidedCount

LEMMA OnceKept ==
  ASSUME TypeInv, MintedInv, FreshInv, PreparedInv, OnceInv, [Next]_vars
  PROVE  OnceInv'
  <1>0. DocsInv /\ HandlersInv
    BY DEF TypeInv
  <1> SUFFICES ASSUME NEW s \in Suggestions, decided'[s] > 0, s \notin stale'
               PROVE  /\ decided'[s] <= 1
                      /\ \A f \in Docs' : f[s] # "pending"
                      /\ \A o \in Calls :
                           Working(o)' /\ h'[o].op \in {"accept", "reject"} /\ h'[o].mark = s =>
                             h'[o].rev < row'.rev
    BY DEF OnceInv
  <1>1. /\ s \notin stale /\ row.rev \in Nat /\ row'.rev \in Nat /\ row.rev <= row'.rev
        /\ s \in Marks /\ decided[s] \in Nat
    BY RevGrows, Kinds, DecidedCount
  <1>2. ASSUME NEW q \in Calls, CommitDecision(q), h[q].mark = s PROVE decided[s] = 0
    BY <1>1, <1>2, DecidesFirst
  <1>3. decided'[s] <= 1
    <2>1. CASE decided'[s] = decided[s]
      BY <1>1, <2>1 DEF OnceInv
    <2> QED
      BY <1>2, <2>1, DecidedCount
  <1>4. ASSUME NEW o \in Calls,
               Working(o)', h'[o].op \in {"accept", "reject"}, h'[o].mark = s
        PROVE  h'[o].rev < row'.rev
    <2>1. CASE decided'[s] = decided[s]
      <3>1. /\ \A f \in Docs : f[s] # "pending"
            /\ \A p \in Calls : Working(p) /\ h[p].op \in {"accept", "reject"} /\ h[p].mark = s =>
                 h[p].rev < row.rev
        BY <1>1, <2>1 DEF OnceInv
      <3>2. \A p \in Calls : h[p].rev \in Nat
        BY <1>0, HandlerFields
      <3>3. CASE h'[o] = h[o]
        <4>1. Working(o) /\ h[o].op \in {"accept", "reject"} /\ h[o].mark = s
          BY <1>4, <3>3 DEF Working
        <4>2. h[o].rev < row.rev
          BY <3>1, <4>1
        <4> QED
          BY <1>1, <3>2, <3>3, <4>2
      <3>4. ASSUME NEW op \in Ops, NEW m \in Marks \cup {None}, Read(o, op, m)
            PROVE  FALSE
        <4>1. op = h'[o].op /\ m = h'[o].mark
          BY <3>4, ReadMoves
        <4>2. View.marks[s] = "pending"
          <5>1. Sensible(op, m, View.marks)
            BY <3>4 DEF Read
          <5> QED
            BY <1>4, <4>1, <5>1, SensibleForm
        <4> QED
          BY <1>0, <1>1, <3>1, <4>2, ViewForm
      <3>5. CASE PrepareEdit(o) \/ PrepareDecision(o)
        <4>1. h[o].pc = "read" /\ SameRequest(o) /\ h'[o].rev = h[o].rev
          BY <3>5, EditPrepares, DecisionPrepares DEF Prepares, PrepareEdit, PrepareDecision
        <4>2. h[o].rev < row.rev
          BY <1>4, <3>1, <4>1 DEF Working, SameRequest
        <4> QED
          BY <1>1, <3>2, <4>1, <4>2
      <3> QED
        BY <1>4, <3>3, <3>4, <3>5, WorkingFrom
    <2>2. ASSUME NEW q \in Calls, CommitDecision(q), h[q].mark = s PROVE h'[o].rev < row'.rev
      <3>1. Leaves(q) /\ row'.rev = row.rev + 1
        BY <2>2, DecisionWrites
      <3>2. o # q
        BY <1>4, <3>1 DEF Leaves, Ended, Working
      <3>3. h'[o] = h[o] /\ h[o].rev <= row.rev /\ h[o].rev \in Nat
        BY <1>0, <3>1, <3>2, HandlerFields DEF Leaves, Others, TypeInv, OpInv
      <3> QED
        BY <1>1, <3>1, <3>3
    <2> QED
      BY <2>1, <2>2, DecidedCount
  <1> QED
    BY <1>3, <1>4, OnceDocs

-----------------------------------------------------------------------------
(***************************************************************************)
(* A decided suggestion is not pending.                                    *)
(***************************************************************************)
LEMMA TombFrom ==
  ASSUME TypeInv, [Next]_vars
  PROVE  tomb' = tomb \/ \E o \in Calls : PrepareEdit(o) \/ Bury(o)
  <1>1. RoomStep => tomb' = tomb
    BY RoomSpreads
  <1>2. \A m \in Marks : ClientAdds(m) => tomb' = tomb
    BY DEF ClientAdds
  <1>3. \A c \in Comments : ClientDeletes(c) => tomb' = tomb
    BY DEF ClientDeletes
  <1>4. \A o \in Calls, op \in Ops, m \in Marks \cup {None} : Read(o, op, m) => tomb' = tomb
    BY DEF Read
  <1>5. \A o \in Calls : PrepareDecision(o) => tomb' = tomb
    BY DEF PrepareDecision
  <1>6. \A o \in Calls : Forward(o) \/ CommitDecision(o) => tomb' = tomb
    BY ForwardWrites, DecisionWrites
  <1>7. \A o \in Calls : PutMarks(o) \/ SyncRefused(o) => tomb' = tomb
    BY PutWrites, RefusedWrites
  <1>8. \A o \in Calls : Passive(o) => tomb' = tomb \/ Bury(o)
    BY PassiveLeaves
  <1> QED
    BY <1>1, <1>2, <1>3, <1>4, <1>5, <1>6, <1>7, <1>8, Cases

LEMMA FinalTombs ==
  ASSUME TypeInv, FinalInv, [Next]_vars, NEW s \in Suggestions, tomb'[s].status \in Final
  PROVE  decided[s] > 0
  <1>0. s \in Marks /\ s \notin Comments /\ tomb \in [Marks -> Tombs] /\ OpInv
    BY Kinds DEF TypeInv, TombsInv
  <1>1. ASSUME tomb'[s] = tomb[s] PROVE decided[s] > 0
    BY <1>1 DEF FinalInv
  <1>2. ASSUME NEW o \in Calls, PrepareEdit(o) PROVE decided[s] > 0
    <2>1. h[o].op = "unresolve" => h[o].mark # s
      BY <1>0 DEF OpInv
    <2>2. tomb' = IF h[o].op = "unresolve"
                  THEN [tomb EXCEPT ![h[o].mark] = [status |-> "none", rev |-> 0]] ELSE tomb
      BY <1>2 DEF PrepareEdit
    <2> QED
      BY <1>0, <1>1, <2>1, <2>2
  <1>3. ASSUME NEW o \in Calls, Bury(o) PROVE decided[s] > 0
    <2> DEFINE status == CASE h[o].op = "resolve" -> "resolved"
                           [] h[o].op = "reject"  -> "rejected"
                           [] OTHER               -> "accepted"
               new == [status |-> status,
                       rev |-> IF status = "resolved" THEN row.rev ELSE h[o].rev + 1]
    <2>1. tomb' = [tomb EXCEPT ![h[o].mark] = new] /\ h[o].pc = "epilogue"
      BY <1>3 DEF Bury
    <2> HIDE DEF new
    <2>2. CASE h[o].mark # s
      BY <1>0, <1>1, <2>1, <2>2
    <2>3. CASE h[o].mark = s
      <3>1. h[o].op # "resolve" /\ h[o].op \in Decisions \cup {"resolve"}
        BY <1>0, <2>1, <2>3 DEF OpInv
      <3> QED
        BY <2>1, <2>3, <3>1 DEF FinalInv
    <2> QED
      BY <2>2, <2>3
  <1> QED
    BY <1>1, <1>2, <1>3, TombFrom

LEMMA FinalDocs ==
  ASSUME TypeInv, MintedInv, PreparedInv, FinalInv, [Next]_vars,
         NEW s \in Suggestions, decided'[s] > 0, NEW f \in Docs', f[s] = "pending"
  PROVE  s \in revived'
  <1>0. s \in Marks /\ s \notin Comments /\ DocsInv /\ decided[s] \in Nat
    BY Kinds, DecidedCount DEF TypeInv
  <1>1. ASSUME NEW o \in Calls, CommitDecision(o), h[o].mark = s PROVE FALSE
    <2>1. /\ h[o].pc = "ready" /\ h[o].op \in Decisions /\ Docs' = {h[o].next}
      BY <1>1, DecisionWrites
    <2> QED
      BY <1>1, <2>1 DEF PreparedInv
  <1>2. decided'[s] = decided[s] /\ decided[s] > 0
    BY <1>1, DecidedCount
  <1>3. \A g \in Docs : g[s] = "pending" => s \in revived
    BY <1>2 DEF FinalInv
  <1>4. ASSUME NEW w, NEW own, NEW seen, Wrote(w, own, seen), w[s] = "pending" => s \notin seen
        PROVE  s \in revived'
    BY <1>0, <1>2, <1>3, <1>4 DEF Wrote
  <1>5. ASSUME NEW o \in Calls, h[o].pc \in {"ready", "sync"}, h[o].next[s] = "pending"
        PROVE  s \notin h[o].buried
    BY <1>5 DEF PreparedInv
  <1>6. CASE RoomStep
    BY <1>0, <1>3, <1>6, RoomSpreads DEF Spread, Remembered
  <1>7. ASSUME NEW m \in Marks, ClientAdds(m) PROVE s \in revived'
    <2> DEFINE status == IF m \in Comments THEN "open" ELSE "pending"
    <2>1. status \in Status /\ m # s
      BY <1>0, <1>2, <1>7 DEF ClientAdds, Status, MintedInv
    <2> QED
      BY <1>0, <1>3, <1>7, <2>1, ClientChanges DEF ClientAdds
  <1>8. ASSUME NEW c \in Comments, ClientDeletes(c) PROVE s \in revived'
    <2>1. "absent" \in Status /\ c \in Marks
      BY Kinds DEF Status
    <2> QED
      BY <1>0, <1>3, <1>8, <2>1, ClientChanges DEF ClientDeletes, ghost
  <1>9. ASSUME NEW o \in Calls, \/ \E op \in Ops, m \in Marks \cup {None} : Read(o, op, m)
                                \/ PrepareEdit(o) \/ PrepareDecision(o)
        PROVE  s \in revived'
    <2>1. Docs' = Docs /\ revived' = revived
      BY <1>9, DocsSame DEF Read, PrepareEdit, PrepareDecision, ghost
    <2> QED
      BY <1>3, <2>1
  <1>10. ASSUME NEW o \in Calls, Forward(o) PROVE s \in revived'
    BY <1>4, <1>5, <1>10, ForwardWrites
  <1>11. ASSUME NEW o \in Calls, CommitDecision(o) PROVE s \in revived'
    BY <1>4, <1>5, <1>11, DecisionWrites
  <1>12. ASSUME NEW o \in Calls, PutMarks(o) \/ SyncRefused(o) PROVE s \in revived'
    BY <1>4, <1>12, PutWrites, RefusedWrites
  <1>13. ASSUME NEW o \in Calls, Passive(o) PROVE s \in revived'
    BY <1>0, <1>3, <1>13, PassiveLeaves DEF Spread
  <1> QED
    BY <1>6, <1>7, <1>8, <1>9, <1>10, <1>11, <1>12, <1>13, Cases

LEMMA FinalKept ==
  ASSUME TypeInv, MintedInv, PreparedInv, FinalInv, [Next]_vars
  PROVE  FinalInv'
  <1>1. \A s \in Suggestions : decided[s] > 0 => decided'[s] > 0
    BY DecidedCount
  <1>2. \A s \in Suggestions : tomb'[s].status \in Final => decided'[s] > 0
    BY <1>1, FinalTombs
  <1>3. ASSUME NEW o \in Calls, h'[o].pc = "epilogue", h'[o].op \in Decisions
        PROVE  decided'[h'[o].mark] > 0
    <2>1. CASE h'[o] = h[o]
      BY <1>1, <1>3, <2>1 DEF FinalInv, TypeInv, OpInv
    <2>2. CASE CommitDecision(o)
      <3>1. /\ Leaves(o) /\ h[o].mark \in Suggestions /\ decided \in [Suggestions -> Nat]
            /\ decided' = [decided EXCEPT ![h[o].mark] = decided[h[o].mark] + 1]
        BY <2>2, DecisionWrites
      <3>2. decided'[h[o].mark] > 0
        BY <3>1
      <3> QED
        BY <3>1, <3>2 DEF Leaves, SameRequest
    <2>3. ~(\E op \in Ops, m \in Marks \cup {None} : Read(o, op, m))
      BY <1>3, ReadMoves
    <2>4. ~PrepareEdit(o) /\ ~PrepareDecision(o) /\ ~ToSync(o) /\ ~PutMarks(o)
      BY <1>3, EditPrepares, DecisionPrepares, PutMoves DEF Prepares, ToSync
    <2>5. ~(Leaves(o) /\ h[o].op = "resolve")
      BY <1>3 DEF Leaves, SameRequest, Decisions
    <2> QED
      BY <1>3, <2>1, <2>2, <2>3, <2>4, <2>5, HandlerFrom
  <1> QED
    BY <1>2, <1>3, FinalDocs DEF FinalInv

-----------------------------------------------------------------------------
(***************************************************************************)
(* A comment a caller was told of stays.                                   *)
(***************************************************************************)
LEMMA SaidFrom ==
  ASSUME TypeInv, [Next]_vars
  PROVE  \/ said' = said
         \/ \E o \in Calls :
              /\ Leaves(o) /\ said' = Told(o)
              /\ h[o].pc = "sync" \/ (Forward(o) /\ h[o].pc = "ready")
  <1>1. RoomStep => said' = said
    BY RoomSpreads DEF Remembered
  <1>2. \A m \in Marks : ClientAdds(m) => said' = said
    BY DEF ClientAdds
  <1>3. \A c \in Comments : ClientDeletes(c) => said' = said
    BY DEF ClientDeletes, ghost
  <1>4. \A o \in Calls, op \in Ops, m \in Marks \cup {None} : Read(o, op, m) => said' = said
    BY DEF Read
  <1>5. \A o \in Calls : PrepareEdit(o) \/ PrepareDecision(o) => said' = said
    BY DEF PrepareEdit, PrepareDecision, ghost
  <1>6. \A o \in Calls : Forward(o) =>
          \/ said' = said
          \/ Leaves(o) /\ said' = Told(o) /\ (h[o].pc = "sync" \/ h[o].pc = "ready")
    BY ForwardWrites
  <1>7. \A o \in Calls : CommitDecision(o) \/ PutMarks(o) \/ SyncRefused(o) => said' = said
    BY DecisionWrites, PutWrites, RefusedWrites
  <1>8. \A o \in Calls : Passive(o) =>
          Leaves(o) /\ (said' = said \/ (h[o].pc = "sync" /\ said' = Told(o)))
    BY PassiveLeaves
  <1> QED
    BY <1>1, <1>2, <1>3, <1>4, <1>5, <1>6, <1>7, <1>8, Cases

LEMMA MintedGrows ==
  ASSUME TypeInv, [Next]_vars
  PROVE  minted \subseteq minted'
  <1>1. RoomStep => minted' = minted
    BY RoomSpreads DEF Remembered
  <1>2. \A m \in Marks : ClientAdds(m) => minted \subseteq minted'
    BY DEF ClientAdds
  <1>3. \A c \in Comments : ClientDeletes(c) => minted' = minted
    BY DEF ClientDeletes, ghost
  <1>4. \A o \in Calls, op \in Ops, m \in Marks \cup {None} :
          Read(o, op, m) => minted \subseteq minted'
    BY DEF Read
  <1>5. \A o \in Calls : PrepareEdit(o) \/ PrepareDecision(o) => minted' = minted
    BY DEF PrepareEdit, PrepareDecision, ghost
  <1>6. \A o \in Calls : Forward(o) \/ CommitDecision(o) => minted' = minted
    BY ForwardWrites, DecisionWrites
  <1>7. \A o \in Calls : PutMarks(o) \/ SyncRefused(o) \/ Passive(o) => minted' = minted
    BY PutWrites, RefusedWrites, PassiveLeaves
  <1> QED
    BY <1>1, <1>2, <1>3, <1>4, <1>5, <1>6, <1>7, Cases

\* Only a creation that is refused takes a comment out of the row and is not
\* remembered for it.
LEMMA KeptStays ==
  ASSUME TypeInv, PreparedInv, [Next]_vars, NEW c \in Comments, Kept(c),
         \A o \in Calls : SyncRefused(o) /\ h[o].op = "add" => h[o].mark # c
  PROVE  Kept(c)'
  <1>0. /\ c \in Marks /\ c \notin Suggestions /\ c # None
        /\ OpInv /\ stale \subseteq stale' /\ unwanted \subseteq unwanted'
    BY Kinds, RevGrows, UnwantedGrows DEF TypeInv
  <1>1. UNCHANGED row => Kept(c)'
    BY <1>0 DEF Kept
  <1>2. Spread => Kept(c)'
    BY <1>0 DEF Kept, Spread
  <1>3. ASSUME NEW w, NEW own, NEW seen, Wrote(w, own, seen),
               c = own => w[c] # "absent" \/ c \in unwanted'
        PROVE  Kept(c)'
    BY <1>0, <1>3 DEF Kept, Wrote
  <1>4. RoomStep => Kept(c)'
    BY <1>2, RoomSpreads
  <1>5. \A m \in Marks : ClientAdds(m) => Kept(c)'
    BY <1>1 DEF ClientAdds
  <1>6. \A d \in Comments : ClientDeletes(d) => Kept(c)'
    BY <1>1 DEF ClientDeletes
  <1>7. \A o \in Calls, op \in Ops, m \in Marks \cup {None} : Read(o, op, m) => Kept(c)'
    BY <1>1 DEF Read, docs
  <1>8. \A o \in Calls : PrepareEdit(o) \/ PrepareDecision(o) => Kept(c)'
    BY <1>1 DEF PrepareEdit, PrepareDecision, docs
  <1>9. ASSUME NEW o \in Calls, Forward(o) PROVE Kept(c)'
    <2>1. CASE h[o].pc = "sync"
      BY <1>0, <1>3, <1>9, <2>1, ForwardWrites
    <2>2. CASE h[o].pc = "ready" /\ h[o].op \in Edits
      <3>1. h[o].mark = c => h[o].next[c] # "absent" \/ c \in unwanted'
        BY <1>0, <2>2 DEF PreparedInv
      <3> QED
        BY <1>3, <1>9, <3>1, ForwardWrites
    <2> QED
      BY <1>9, <2>1, <2>2, ForwardWrites
  <1>10. ASSUME NEW o \in Calls, CommitDecision(o) PROVE Kept(c)'
    BY <1>0, <1>3, <1>10, DecisionWrites
  <1>11. ASSUME NEW o \in Calls, PutMarks(o) PROVE Kept(c)'
    BY <1>0, <1>3, <1>11, PutWrites
  <1>12. ASSUME NEW o \in Calls, SyncRefused(o) PROVE Kept(c)'
    <2>1. Wrote(h[o].prev, h[o].mark, {}) /\ h[o].pc = "sync"
      BY <1>12, RefusedWrites
    <2>2. ASSUME h[o].mark = c PROVE h[o].prev[c] # "absent" \/ c \in unwanted'
      <3>1. h[o].op \in {"reply", "resolve", "unresolve", "put"}
        BY <1>0, <1>12, <2>1, <2>2 DEF OpInv, Edits
      <3>2. CASE h[o].op = "put"
        BY <1>0, <2>1, <2>2, <3>2 DEF PreparedInv
      <3>3. CASE h[o].op \in {"reply", "resolve", "unresolve"}
        <4>1. h[o].prev = h[o].base.marks /\ h[o].base.marks[h[o].mark] # "absent"
          BY <2>1, <3>3 DEF PreparedInv, Edits
        <4> QED
          BY <2>2, <4>1
      <3> QED
        BY <3>1, <3>2, <3>3
    <2> QED
      BY <1>3, <2>1, <2>2
  <1>13. ASSUME NEW o \in Calls, Passive(o) PROVE Kept(c)'
    BY <1>2, <1>13, PassiveLeaves
  <1> QED
    BY <1>4, <1>5, <1>6, <1>7, <1>8, <1>9, <1>10, <1>11, <1>12, <1>13, Cases

\* What a creation has written is in the row.
LEMMA KeptByWrite ==
  ASSUME TypeInv, PreparedInv, [Next]_vars, NEW o \in Calls, Forward(o), h[o].pc = "ready",
         NEW c \in Comments, h[o].mark = c
  PROVE  Kept(c)'
  <1>1. row'.marks = h[o].next /\ h[o].op \in Edits
    BY ForwardWrites
  <1>2. h[o].next[c] # "absent" \/ c \in unwanted'
    BY <1>1, UnwantedGrows DEF PreparedInv
  <1> QED
    BY <1>1, <1>2 DEF Kept

\* The creation of a comment that has reached its sync, or was answered.
LEMMA KeptSaid ==
  ASSUME TypeInv, MintedInv, PreparedInv, KeptInv, [Next]_vars, NEW c \in said'
  PROVE  c \in minted' /\ Kept(c)'
  <1>0. /\ minted \subseteq minted' /\ said \subseteq Comments
        /\ \A o \in Calls : h[o].mark # None => h[o].mark \in minted
    BY MintedGrows DEF MintedInv, TypeInv, GhostInv
  <1>1. CASE c \in said
    <2>1. c \in minted /\ Kept(c) /\ c \in Comments
      BY <1>0, <1>1 DEF KeptInv
    <2>2. \A o \in Calls : SyncRefused(o) /\ h[o].op = "add" => h[o].mark # c
      BY <1>1, <2>1, RefusedWrites DEF KeptInv
    <2> QED
      BY <1>0, <2>1, <2>2, KeptStays
  <1>2. CASE c \notin said
    <2>1. PICK o \in Calls : /\ said' = Told(o)
                             /\ h[o].pc = "sync" \/ (Forward(o) /\ h[o].pc = "ready")
      BY <1>2, SaidFrom
    <2>2. h[o].op = "add" /\ h[o].mark = c /\ c \in Comments
      BY <1>2, <2>1 DEF Told
    <2>3. c \in minted'
      BY <1>0, <2>2, Kinds
    <2>4. CASE h[o].pc = "sync"
      <3>1. Kept(c)
        BY <2>2, <2>4 DEF KeptInv
      <3>2. \A q \in Calls : ~SyncRefused(q)
        BY <1>2, RefusedWrites
      <3> QED
        BY <2>2, <2>3, <3>1, <3>2, KeptStays
    <2>5. CASE Forward(o) /\ h[o].pc = "ready"
      BY <2>2, <2>3, <2>5, KeptByWrite
    <2> QED
      BY <2>1, <2>4, <2>5
  <1> QED
    BY <1>1, <1>2

LEMMA KeptKept ==
  ASSUME TypeInv, MintedInv, PreparedInv, KeptInv, [Next]_vars
  PROVE  KeptInv'
  <1>0. \A o, p \in Calls :
          h[o].op = "add" /\ h[p].op = "add" /\ h[o].mark = h[p].mark => o = p
    BY DEF MintedInv, Makes
  <1> SUFFICES ASSUME NEW o \in Calls, h'[o].op = "add", NEW c \in Comments, h'[o].mark = c
               PROVE  /\ h'[o].pc \in {"read", "ready", "sync"} => c \notin said'
                      /\ h'[o].pc = "sync" => Kept(c)'
    <2>1. \A c \in said' : c \in minted' /\ Kept(c)'
      BY KeptSaid
    <2>2. \A c \in Comments : Kept(c)' <=>
            row'.marks[c] # "absent" \/ c \in stale' \/ c \in unwanted'
      BY DEF Kept
    <2> QED
      BY <2>1, <2>2 DEF KeptInv, Kept
  \* Nobody else is told of the comment.
  <1>1. ASSUME h[o].op = "add", h[o].mark = c, c \notin said, ~Leaves(o) PROVE c \notin said'
    <2>1. CASE said' = said
      BY <1>1, <2>1
    <2>2. ASSUME NEW p \in Calls, Leaves(p), said' = Told(p) PROVE c \notin said'
      BY <1>0, <1>1, <2>2 DEF Told
    <2> QED
      BY <2>1, <2>2, SaidFrom
  <1>2. CASE h'[o] = h[o]
    <2>1. h[o].op = "add" /\ h[o].mark = c
      BY <1>2
    <2>2. ASSUME h[o].pc \in {"read", "ready", "sync"} PROVE c \notin said'
      <3>1. c \notin said /\ ~Leaves(o)
        BY <1>2, <2>1, <2>2 DEF KeptInv, Leaves, Ended
      <3> QED
        BY <1>1, <2>1, <3>1
    <2>3. ASSUME h[o].pc = "sync" PROVE Kept(c)'
      <3>1. Kept(c)
        BY <2>1, <2>3 DEF KeptInv
      <3>2. ASSUME NEW q \in Calls, SyncRefused(q), h[q].op = "add" PROVE h[q].mark # c
        <4>1. Leaves(q)
          BY <3>2, RefusedWrites
        <4>2. q # o
          BY <1>2, <2>3, <4>1 DEF Leaves, Ended
        <4> QED
          BY <1>0, <2>1, <3>2, <4>2
      <3> QED
        BY <3>1, <3>2, KeptStays
    <2> QED
      BY <1>2, <2>2, <2>3
  <1>3. ASSUME NEW op \in Ops, NEW m \in Marks \cup {None}, Read(o, op, m)
        PROVE  h'[o].pc = "read" /\ c \notin said'
    <2>1. h'[o].pc = "read" /\ op = "add" /\ m = c
      BY <1>3, ReadMoves
    <2>2. Sensible(op, m, View.marks) /\ said' = said
      BY <1>3 DEF Read
    <2>3. c \notin minted
      BY <2>1, <2>2, SensibleForm
    <2> QED
      BY <2>1, <2>2, <2>3 DEF KeptInv
  <1>4. CASE PrepareEdit(o) \/ PrepareDecision(o)
    <2>1. h[o].pc = "read" /\ SameRequest(o) /\ said' = said /\ h'[o].pc = "ready"
      BY <1>4, EditPrepares, DecisionPrepares DEF Prepares, PrepareEdit, PrepareDecision, ghost
    <2> QED
      BY <2>1 DEF KeptInv, SameRequest
  <1>5. CASE Forward(o) /\ ToSync(o)
    <2>1. h[o].op = "add" /\ h[o].mark = c /\ h'[o].pc = "sync" /\ ~Leaves(o)
      BY <1>5 DEF ToSync, SameRequest, Leaves, Ended
    <2>2. h[o].pc = "ready"
      BY <1>5, <2>1, ForwardWrites
    <2>3. c \notin said
      BY <2>1, <2>2 DEF KeptInv
    <2> QED
      BY <1>1, <1>5, <2>1, <2>2, <2>3, KeptByWrite
  <1>6. ~PutMarks(o)
    BY PutWrites, PutMoves DEF SameRequest
  <1>7. CASE Leaves(o)
    BY <1>7 DEF Leaves, Ended
  <1> QED
    BY <1>2, <1>3, <1>4, <1>5, <1>6, <1>7, HandlerFrom

-----------------------------------------------------------------------------
(***************************************************************************)
(* The invariant, and what follows from it.                                *)
(***************************************************************************)
LEMMA InitIInv ==
  ASSUME Init
  PROVE  IInv
  <1>1. /\ row = [marks |-> NoMarks, text |-> Blank.text, rev |-> 0]
        /\ history = Blank /\ room = None
        /\ tomb = [m \in Marks |-> [status |-> "none", rev |-> 0]]
        /\ h = [o \in Calls |-> Idle]
        /\ minted = {} /\ said = {} /\ unwanted = {} /\ stale = {} /\ revived = {}
        /\ decided = [s \in Suggestions |-> 0]
    BY DEF Init
  <1>2. Blank \in Doc /\ Blank.marks = NoMarks /\ Blank.text \in Text /\ NoMarks \in AllMarks
    BY BlankForm DEF Doc
  <1>3. Docs = {NoMarks} /\ Texts = {Blank.text} /\ DocsInv /\ row.rev = 0
    BY <1>1, <1>2 DEF Docs, Texts, DocsInv
  <1>4. /\ HandlersInv
        /\ \A o \in Calls : h[o] = Idle
    BY <1>1, IdleForm DEF HandlersInv
  <1>5. \A o \in Calls : /\ Held(o) = {NoMarks}
                         /\ h[o].pc = "idle" /\ h[o].op = "put" /\ h[o].mark = None
                         /\ h[o].rev = 0 /\ h[o].buried = {} /\ h[o].base = Blank
    BY <1>2, <1>4, IdleForm DEF Held
  <1>6. TombsInv /\ \A m \in Marks : tomb[m].status = "none"
    <2> DEFINE none == [status |-> "none", rev |-> 0]
    <2>1. none \in Tombs /\ none.status = "none"
      BY DEF Tombs
    <2>2. tomb = [m \in Marks |-> none]
      BY <1>1
    <2> HIDE DEF none
    <2> QED
      BY <2>1, <2>2 DEF TombsInv
  <1>7. GhostInv /\ \A s \in Suggestions : decided[s] = 0
    BY <1>1, DecidedAssumption DEF GhostInv
  <1>8. TextInv
    BY <1>3, <1>5, <1>7, BlankForm DEF TextInv
  <1>9. OpInv
    BY <1>3, <1>5 DEF OpInv, Decisions
  <1>10. KindInv
    BY <1>3, <1>5, BlankForm, Kinds DEF KindInv
  <1>11. MintedInv
    BY <1>3, <1>5, <1>7, BlankForm DEF MintedInv, Makes
  <1>12. FreshInv /\ PreparedInv /\ OnceInv
    BY <1>5, <1>7 DEF FreshInv, PreparedInv, OnceInv, Makes
  <1>13. FinalInv
    BY <1>5, <1>6, <1>7, Kinds DEF FinalInv, Final
  <1>14. KeptInv
    BY <1>1, <1>5 DEF KeptInv
  <1> QED
    BY <1>3, <1>4, <1>6, <1>7, <1>8, <1>9, <1>10, <1>11, <1>12, <1>13, <1>14 DEF IInv, TypeInv

LEMMA Inductive ==
  ASSUME IInv, [Next]_vars
  PROVE  IInv'
  BY TypesKept, KindKept, MintedKept, FreshKept, PreparedKept, OnceKept, FinalKept, KeptKept
  DEF IInv

LEMMA AlwaysIInv == Spec => []IInv
  BY InitIInv, Inductive, PTL DEF Spec

\* Rows, documents, handlers, tombstones and what is remembered of them have
\* their types, and a handler is at the awaits of its own operation only.
THEOREM TypeCorrect == Spec => []TypeOK
  <1>1. IInv => TypeOK
    BY DEF IInv, TypeInv, DocsInv, HandlersInv, TombsInv, GhostInv, OpInv, TypeOK
  <1> QED
    BY <1>1, AlwaysIInv, PTL

\* Two callers who accept or reject the same suggestion, through any
\* interleaving of updateSuggestionStatus with the other writers, decide it
\* twice only if a writer that had not read the decision put it back.
THEOREM DecidedAtMostOnce == Spec => []DecidedOnce
  <1>1. IInv => DecidedOnce
    <2> SUFFICES ASSUME IInv, NEW s \in Suggestions, decided[s] > 1, s \notin stale
                 PROVE  FALSE
      BY DEF DecidedOnce
    <2>1. decided[s] \in Nat
      BY DecidedAssumption DEF IInv, TypeInv, GhostInv
    <2> QED
      BY <2>1 DEF IInv, OnceInv
  <1> QED
    BY <1>1, AlwaysIInv, PTL

\* A comment whose addComment was answered with success is in the row until it
\* is deleted, unless a writer that had not read it writes all marks.
THEOREM ToldCommentsSurvive == Spec => []CommentSurvives
  <1>1. IInv => CommentSurvives
    BY DEF IInv, KeptInv, Kept, CommentSurvives
  <1> QED
    BY <1>1, AlwaysIInv, PTL

\* A suggestion with the tombstone of a decision is pending in the row only if
\* a write that no tombstone could stop put it there.
THEOREM FinalizedMarksStayOut == Spec => []FinalizedStaysOut
  <1>1. IInv => FinalizedStaysOut
    <2> SUFFICES ASSUME IInv, NEW s \in Suggestions, tomb[s].status \in Final,
                        row.marks[s] = "pending"
                 PROVE  s \in revived
      BY DEF FinalizedStaysOut
    <2>1. row.marks \in Docs
      BY DEF Docs
    <2> QED
      BY <2>1 DEF IInv, FinalInv
  <1> QED
    BY <1>1, AlwaysIInv, PTL

=============================================================================
