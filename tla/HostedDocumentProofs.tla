------------------------- MODULE HostedDocumentProofs -------------------------
(***************************************************************************)
(* Theorems about HostedDocument, for any number of requests and any page. *)
(* The log only grows, so each invariant speaks of all its entries: what   *)
(* was lost at the last one was lost at an earlier one, or to the request  *)
(* that wrote the last.                                                    *)
(***************************************************************************)
EXTENDS HostedDocument, TLAPS

LogInv == log \in Seq(Entry) /\ Len(log) > 0

\* Where a call is tells what it has read, and that it has not written yet.
Place(c) ==
    /\ call[c].at \in {"looked", "opened", "reread"} => call[c].landed = 0 /\ call[c].op \in Ops
    /\ call[c].at \in {"opened", "reread"} => call[c].doc > 0
    /\ call[c].at = "reread" => call[c].op \in Updates /\ call[c].again \in call[c].doc .. Now
    /\ call[c].at = "looked" => call[c].op \in ClientLooks /\ call[c].doc = 0
                                /\ call[c].look \in 1 .. Now
    /\ call[c].at = "idle" => call[c] = Idle
    /\ call[c].at = "written" => call[c].landed > 0

\* What a call has read is older than what it wrote, and was fit for its request.
Reads(c) ==
    /\ call[c].landed > 0 => /\ call[c].doc \in 1 .. call[c].landed - 1
                             /\ call[c].op \in Updates => call[c].again \in call[c].doc .. call[c].landed - 1
    /\ call[c].doc > 0 =>
          /\ call[c].op \in ClientLooks => call[c].look \in 1 .. call[c].doc
          /\ call[c].op = "editV2" => log[call[c].look].rev = log[call[c].doc].rev
          /\ call[c].op \in Decisions => log[call[c].doc].suggestion # "gone"

CallInv == \A c \in Calls : Place(c) /\ Reads(c)

BaseInv == TypeOK /\ LogInv /\ CallInv

\* Who may have removed what x saved: its text, its comment or its decision.
TakesText(w, x) ==
    /\ call[w].op \in Updates
    /\ Overlaps(w, x) \/ (call[w].op \in Whole /\ SentOlder(w, x))

TakesMark(w, x) == Overlaps(w, x) \/ (call[w].op \in BringsMarks /\ SentOlder(w, x))

TextInv ==
    \A x \in Landed : call[x].op \in TextChanges =>
        \A i \in call[x].landed .. Now :
            x \in log[i].text \/ \E w \in Landed : TakesText(w, x)

CommentInv ==
    \A x \in Landed : call[x].op = "comment" =>
        \A i \in call[x].landed .. Now :
            x \in log[i].comments \/ \E w \in Landed : TakesMark(w, x)

GoneInv ==
    \A a \in Landed : call[a].op = "accept" /\ call[a].structured =>
        \A i \in call[a].landed .. Now :
            \/ log[i].suggestion = "gone"
            \/ \E w \in Landed : call[w].landed <= i /\ TakesMark(w, a)

\* Between i and j a revision was counted again that is no later than that of i.
Excused(i, j) ==
    \E w \in Calls : /\ CountedFromOld(w)
                     /\ call[w].landed <= j
                     /\ log[call[w].landed].rev <= log[i].rev

\* Revisions grow, and each stands for one text.
RevInv ==
    \A i, j \in 1 .. Now : i <= j =>
        \/ Excused(i, j)
        \/ log[i].rev < log[j].rev
        \/ log[i].rev = log[j].rev /\ log[i].text = log[j].text

IInv == BaseInv /\ TextInv /\ CommentInv /\ GoneInv /\ RevInv

-----------------------------------------------------------------------------
USE CallsAssumption, PageAssumption DEF Calls

\* What a batch adds stands behind what was there.
LEMMA Appended ==
    ASSUME LogInv, NEW e \in Entry, log' = Append(log, e)
    PROVE  /\ LogInv'
           /\ Now' = Now + 1
           /\ \A i \in 1 .. Now : log'[i] = log[i]
           /\ log'[Now + 1] = e
  BY DEF LogInv, Now

\* The row is an entry, as is every entry of the log.
LEMMA EntryOfLog ==
    ASSUME LogInv, NEW i \in 1 .. Now
    PROVE  /\ log[i] \in Entry /\ log[i].text \in SUBSET Calls
           /\ log[i].comments \in SUBSET Calls /\ log[i].suggestion \in Status
           /\ log[i].rev \in Nat \ {0}
  <1>1. log[i] \in Entry
    BY DEF LogInv, Now
  <1> QED
    BY <1>1 DEF Entry

\* The row as a batch leaves it, unless the request names the columns.
LEMMA CopyOfRow ==
    ASSUME LogInv, NEW c \in Calls, NEW e, NEW open \in BOOLEAN,
           NEW type \in {"updated", "marks", "decided", "deleted"},
           e = [Row EXCEPT !.type = type, !.by = c, !.open = open]
    PROVE  /\ e \in Entry /\ e.by = c
           /\ e.text = Row.text /\ e.comments = Row.comments
           /\ e.suggestion = Row.suggestion /\ e.rev = Row.rev
  <1>1. Row \in Entry
    BY EntryOfLog DEF Row, Now, LogInv
  <1> QED
    BY <1>1 DEF Entry

\* What the batch of a request writes: the text and the marks that it brings, and
\* otherwise those of what its handler has read.
LEMMA WrittenRow ==
    ASSUME BaseInv, NEW c \in Calls, AtBatch(c)
    PROVE  /\ Written(c) \in Entry /\ Written(c).by = c
           /\ Written(c).type \in {"updated", "marks"}
           /\ call[c].op \in Updates =>
                /\ Written(c).text = IF call[c].op \in KeepsText THEN log[call[c].again].text
                                     ELSE IF call[c].op \in Whole THEN log[call[c].look].text \cup {c}
                                     ELSE log[call[c].doc].text \cup {c}
                /\ Written(c).comments = IF call[c].op \in BringsMarks THEN log[call[c].look].comments
                                         ELSE IF call[c].op = "accept" THEN log[call[c].doc].comments
                                         ELSE log[call[c].again].comments
                /\ Written(c).suggestion = IF call[c].op \in BringsMarks THEN log[call[c].look].suggestion
                                           ELSE IF call[c].op = "accept" THEN Accepted(c)
                                           ELSE log[call[c].again].suggestion
                /\ Written(c).rev = IF call[c].op \in KeepsText THEN log[call[c].again].rev
                                    ELSE log[call[c].again].rev + 1
           /\ call[c].op \notin Updates =>
                /\ Written(c).text = Row.text /\ Written(c).rev = Row.rev
                /\ Written(c).comments = IF call[c].op = "comment"
                                         THEN log[call[c].doc].comments \cup {c}
                                         ELSE log[call[c].doc].comments
                /\ Written(c).suggestion = IF call[c].op = "reject" THEN "rejected"
                                           ELSE log[call[c].doc].suggestion
  <1>1. /\ Row \in Entry /\ call[c] \in Call
        /\ call[c].op \in Ops /\ call[c].doc \in 1 .. Now
        /\ call[c].op \in Updates => call[c].again \in 1 .. Now
        /\ call[c].op \in ClientLooks => call[c].look \in 1 .. Now
    <2>1. Row \in Entry /\ Now \in Nat /\ call[c] \in Call /\ Place(c) /\ Reads(c)
      BY EntryOfLog DEF BaseInv, Row, Now, LogInv, TypeOK, CallInv
    <2>2. call[c].doc \in Nat /\ call[c].again \in Nat /\ call[c].look \in Nat
      BY <2>1 DEF Call
    <2>3. /\ call[c].at \in {"opened", "reread"} /\ call[c].op \in Ops /\ call[c].doc > 0
          /\ call[c].op \in Updates => call[c].again \in call[c].doc .. Now
      BY <2>1 DEF AtBatch, Place
    <2>4. call[c].op \in ClientLooks => call[c].look \in 1 .. call[c].doc
      BY <2>1, <2>3 DEF Reads
    <2>5. call[c].doc <= Now /\ call[c].look <= Now
      BY <2>1 DEF BaseInv, TypeOK
    <2> QED
      BY <2>1, <2>2, <2>3, <2>4, <2>5
  <1>2. CASE call[c].op \in Updates
    <2> DEFINE op    == call[c].op
               first == log[call[c].doc]
               again == log[call[c].again]
               client == log[call[c].look]
               text  == IF op \in KeepsText THEN again.text
                        ELSE IF op \in Whole THEN client.text \cup {c}
                        ELSE first.text \cup {c}
               comments == IF op \in BringsMarks THEN client.comments
                           ELSE IF op = "accept" THEN first.comments ELSE again.comments
               suggestion == IF op \in BringsMarks THEN client.suggestion
                             ELSE IF op = "accept" THEN Accepted(c) ELSE again.suggestion
               rev == IF op \in KeepsText THEN again.rev ELSE again.rev + 1
    <2>1. /\ first.text \in SUBSET Calls /\ first.comments \in SUBSET Calls
          /\ again.text \in SUBSET Calls /\ again.comments \in SUBSET Calls
          /\ again.suggestion \in Status /\ again.rev \in Nat \ {0}
          /\ op \in ClientLooks =>
                 /\ client.text \in SUBSET Calls /\ client.comments \in SUBSET Calls
                 /\ client.suggestion \in Status
      BY <1>1, <1>2, EntryOfLog DEF BaseInv
    <2>2. Accepted(c) \in Status
      BY DEF Accepted, Status
    <2>3. text \in SUBSET Calls /\ comments \in SUBSET Calls
          /\ suggestion \in Status /\ rev \in Nat \ {0}
      BY <2>1, <2>2 DEF ClientLooks, Whole, BringsMarks
    <2>4. Written(c) = [Row EXCEPT !.type = "updated", !.by = c, !.text = text,
                            !.comments = comments, !.suggestion = suggestion, !.rev = rev]
      <3>1. text = CASE op \in KeepsText -> again.text
                     [] op \in Whole -> client.text \cup {c}
                     [] OTHER -> first.text \cup {c}
        BY DEF Whole, KeepsText
      <3>2. comments = CASE op \in BringsMarks -> client.comments
                         [] op = "accept" -> first.comments
                         [] OTHER -> again.comments
        BY DEF BringsMarks
      <3>3. suggestion = CASE op \in BringsMarks -> client.suggestion
                           [] op = "accept" -> Accepted(c)
                           [] OTHER -> again.suggestion
        BY DEF BringsMarks
      <3> HIDE DEF text, comments, suggestion
      <3> QED
        BY <1>2, <3>1, <3>2, <3>3 DEF Written, UpdatedRow, TextRead
    <2> HIDE DEF text, comments, suggestion, rev
    <2>5. /\ Written(c) \in Entry /\ Written(c).by = c /\ Written(c).type = "updated"
          /\ Written(c).text = text /\ Written(c).comments = comments
          /\ Written(c).suggestion = suggestion /\ Written(c).rev = rev
      BY <1>1, <2>3, <2>4 DEF Entry
    <2> QED
      BY <1>2, <2>5 DEF text, comments, suggestion, rev
  <1>3. CASE call[c].op \notin Updates
    <2> DEFINE first == log[call[c].doc]
               comments == IF call[c].op = "comment" THEN first.comments \cup {c}
                           ELSE first.comments
               suggestion == IF call[c].op = "reject" THEN "rejected" ELSE first.suggestion
    <2>1. comments \in SUBSET Calls /\ suggestion \in Status
      BY <1>1, EntryOfLog DEF BaseInv, Status
    <2>2. Written(c) = [Row EXCEPT !.type = "marks", !.by = c, !.comments = comments,
                            !.suggestion = suggestion]
      BY <1>3 DEF Written, MarkedRow
    <2> HIDE DEF comments, suggestion
    <2>3. /\ Written(c) \in Entry /\ Written(c).by = c /\ Written(c).type = "marks"
          /\ Written(c).text = Row.text /\ Written(c).rev = Row.rev
          /\ Written(c).comments = comments /\ Written(c).suggestion = suggestion
      BY <1>1, <2>1, <2>2 DEF Entry
    <2> QED
      BY <1>3, <2>3 DEF comments, suggestion
  <1> QED
    BY <1>2, <1>3

LEMMA BaseInit == Init => BaseInv
  <1> SUFFICES ASSUME Init PROVE BaseInv
    OBVIOUS
  <1>1. LogInv /\ Now = 1 /\ log[1] \in Entry
    BY DEF Init, LogInv, Now, Entry, Status
  <1>2. Idle \in Call
    BY DEF Call, Idle
  <1>3. TypeOK
    BY <1>1, <1>2 DEF Init, TypeOK, Idle
  <1> QED
    BY <1>1, <1>3 DEF Init, BaseInv, CallInv, Place, Reads, Idle

\* A step of one call keeps what is known of the others, whatever it appends.
LEMMA OtherCalls ==
    ASSUME BaseInv, NEW c \in Calls, NEW this \in Call,
           call' = [call EXCEPT ![c] = this], UNCHANGED <<cursor, seen>>,
           LogInv', Now' >= Now, \A i \in 1 .. Now : log'[i] = log[i],
           {this.look, this.doc, this.again, this.landed} \subseteq 0 .. Now',
           this.landed > 0 => log'[this.landed].by = c,
           Place(c)', Reads(c)'
    PROVE  BaseInv'
  <1>1. Now \in Nat /\ Now' \in Nat /\ \A i \in 1 .. Now' : log'[i] \in Entry
    BY DEF LogInv, Now, BaseInv
  <1>2. call' \in [Calls -> Call] /\ call'[c] = this
    BY DEF BaseInv, TypeOK
  <1>3. ASSUME NEW d \in Calls, d # c
        PROVE  /\ call'[d] = call[d] /\ call[d] \in Call
               /\ {call[d].look, call[d].doc, call[d].again, call[d].landed} \subseteq 0 .. Now
               /\ call[d].landed > 0 => log[call[d].landed].by = d
    BY <1>3 DEF BaseInv, TypeOK
  <1>4. TypeOK'
    <2>1. ASSUME NEW d \in Calls
          PROVE  /\ {call'[d].look, call'[d].doc, call'[d].again, call'[d].landed} \subseteq 0 .. Now'
                 /\ call'[d].landed > 0 => log'[call'[d].landed].by = d
      BY SMTT(30), <1>1, <1>2, <1>3 DEF Call
    <2> QED
      BY SMTT(30), <1>1, <1>2, <2>1 DEF TypeOK, BaseInv
  <1>5. ASSUME NEW d \in Calls, d # c
        PROVE  Place(d)' /\ Reads(d)'
    <2>1. Place(d) /\ Reads(d)
      BY DEF BaseInv, CallInv
    <2>2. Place(d)'
      BY <2>1, <1>1, <1>3, <1>5 DEF Place, Call
    <2>3. call[d].doc > 0 =>
              /\ log'[call[d].doc] = log[call[d].doc]
              /\ call[d].op \in ClientLooks => log'[call[d].look] = log[call[d].look]
      BY <2>1, <1>1, <1>3, <1>5 DEF Reads, Call
    <2>4. Reads(d)'
      BY <2>1, <2>3, <1>1, <1>3, <1>5 DEF Reads, Call, ClientLooks, BringsMarks
    <2> QED
      BY <2>2, <2>4
  <1> QED
    BY <1>4, <1>5 DEF BaseInv, CallInv

\* What is known of the call that takes a step.
LEMMA ThisCall ==
    ASSUME BaseInv, NEW c \in Calls
    PROVE  /\ Now \in Nat \ {0} /\ call[c] \in Call /\ Row = log[Now] /\ Row \in Entry
           /\ {call[c].look, call[c].doc, call[c].again, call[c].landed} \subseteq 0 .. Now
           /\ call[c].landed > 0 => log[call[c].landed].by = c
           /\ Place(c) /\ Reads(c)
  BY EntryOfLog DEF BaseInv, TypeOK, CallInv, LogInv, Now, Row

LEMMA RequestKeepsBase ==
    ASSUME BaseInv, NEW c \in Calls, NEW op \in Ops, Look(c, op) \/ Open(c, op)
    PROVE  BaseInv'
  <1>0. /\ Now \in Nat \ {0} /\ call[c] \in Call /\ Row = log[Now]
        /\ call[c].look \in 0 .. Now /\ Place(c) /\ Reads(c)
    BY ThisCall
  <1>1. log' = log /\ UNCHANGED <<cursor, seen>>
    BY DEF Look, Open
  <1>2. LogInv' /\ Now' = Now /\ Now' >= Now /\ \A i \in 1 .. Now : log'[i] = log[i]
    BY <1>0, <1>1 DEF BaseInv, LogInv, Now
  <1>3. CASE Look(c, op)
    <2> DEFINE this == [op |-> op, at |-> "looked", look |-> Now, doc |-> 0, again |-> 0,
                        landed |-> 0, structured |-> FALSE]
    <2>1. call[c] = Idle /\ op \in ClientLooks
      BY <1>0, <1>3 DEF Look, Place
    <2>2. call' = [call EXCEPT ![c] = this] /\ this \in Call
      <3>1. this \in Call
        BY <1>0 DEF Call
      <3>2. [call[c] EXCEPT !.op = op, !.at = "looked", !.look = Now] = this
        <4>1. /\ call[c].doc = 0 /\ call[c].again = 0 /\ call[c].landed = 0
              /\ call[c].structured = FALSE
          BY <2>1 DEF Idle
        <4> DEFINE that == [call[c] EXCEPT !.op = op, !.at = "looked", !.look = Now]
        <4>2. /\ that \in Call /\ that.op = op /\ that.at = "looked" /\ that.look = Now
              /\ that.doc = 0 /\ that.again = 0 /\ that.landed = 0
              /\ that.structured = FALSE
          BY <1>0, <4>1 DEF Call
        <4> HIDE DEF that
        <4>3. that = this
          BY <3>1, <4>2 DEF Call
        <4> QED
          BY <4>3 DEF that
      <3>3. call' = [call EXCEPT ![c] = [call[c] EXCEPT !.op = op, !.at = "looked", !.look = Now]]
        BY <1>3 DEF Look
      <3> QED
        BY <3>1, <3>2, <3>3
    <2>3. call'[c] = this
      BY <2>2 DEF BaseInv, TypeOK
    <2>4. Place(c)' /\ Reads(c)'
      BY <1>0, <1>2, <2>1, <2>3 DEF Place, Reads
    <2>5. /\ {this.look, this.doc, this.again, this.landed} \subseteq 0 .. Now'
          /\ this.landed > 0 => log'[this.landed].by = c
      BY <1>0, <1>2
    <2> HIDE DEF this
    <2> QED
      BY <1>1, <1>2, <2>2, <2>4, <2>5, OtherCalls
  <1>4. CASE Open(c, op)
    <2>1. PICK structured \in Ways(op) :
            call' = [call EXCEPT ![c].op = op, ![c].doc = Now,
                                ![c].structured = structured,
                                ![c].at = IF op \in OnlyAsks THEN "reread" ELSE "opened",
                                ![c].again = IF op \in OnlyAsks THEN Now ELSE 0]
      BY <1>4 DEF Open
    <2> DEFINE at    == IF op \in OnlyAsks THEN "reread" ELSE "opened"
               again == IF op \in OnlyAsks THEN Now ELSE 0
               this  == [call[c] EXCEPT !.op = op, !.doc = Now, !.structured = structured,
                                        !.at = at, !.again = again]
    <2>2. /\ call[c].landed = 0
          /\ op \in ClientLooks => call[c].look \in 1 .. Now
      <3>1. IF op \in ClientLooks THEN call[c].at = "looked" ELSE call[c].at = "idle"
        BY <1>4 DEF Open
      <3>2. call[c].at = "idle" => call[c].landed = 0
        BY <1>0 DEF Place, Idle
      <3> QED
        BY <1>0, <3>1, <3>2 DEF Place
    <2>3. structured \in BOOLEAN
      BY <2>1 DEF Ways
    <2>4. /\ this \in Call /\ this.op = op /\ this.doc = Now /\ this.at = at
          /\ this.again = again /\ this.look = call[c].look /\ this.landed = 0
      BY <1>0, <2>2, <2>3 DEF Call
    <2>5. call' = [call EXCEPT ![c] = this]
      BY <2>1
    <2>6. call'[c] = this
      BY <2>5 DEF BaseInv, TypeOK
    <2> HIDE DEF this
    <2>7. Place(c)'
      BY <1>0, <1>2, <2>4, <2>6 DEF Place, OnlyAsks, Updates, Whole, KeepsText
    <2>8. Reads(c)'
      <3>1. op = "editV2" => log[call[c].look].rev = Row.rev
        BY <1>4 DEF Open, BaseIsCurrent
      <3>2. op \in Decisions => Row.suggestion # "gone"
        BY <1>4 DEF Open, CanDecide
      <3> QED
        BY <1>0, <1>1, <2>2, <2>4, <2>6, <3>1, <3>2 DEF Reads
    <2>9. /\ {this.look, this.doc, this.again, this.landed} \subseteq 0 .. Now'
          /\ this.landed > 0 => log'[this.landed].by = c
      BY <1>0, <1>2, <2>4
    <2> QED
      BY <1>1, <1>2, <2>4, <2>5, <2>7, <2>8, <2>9, OtherCalls
  <1> QED
    BY <1>3, <1>4

LEMMA RereadKeepsBase ==
    ASSUME BaseInv, NEW c \in Calls, Reread(c)
    PROVE  BaseInv'
  <1>0. /\ Now \in Nat \ {0} /\ call[c] \in Call
        /\ {call[c].look, call[c].doc, call[c].again, call[c].landed} \subseteq 0 .. Now
        /\ call[c].landed > 0 => log[call[c].landed].by = c
        /\ Place(c) /\ Reads(c)
    BY ThisCall
  <1> DEFINE this == [call[c] EXCEPT !.at = "reread", !.again = Now]
  <1>1. /\ call[c].at = "opened" /\ call[c].op \in Updates
        /\ log' = log /\ UNCHANGED <<cursor, seen>>
    BY DEF Reread, Updates, KeepsText
  <1>2. /\ this \in Call /\ this.op = call[c].op /\ this.doc = call[c].doc
        /\ this.at = "reread" /\ this.again = Now
        /\ this.look = call[c].look /\ this.landed = call[c].landed
    BY <1>0 DEF Call
  <1>3. call' = [call EXCEPT ![c] = this]
    BY DEF Reread
  <1>4. call'[c] = this
    BY <1>3 DEF BaseInv, TypeOK
  <1>5. LogInv' /\ Now' = Now /\ Now' >= Now /\ \A i \in 1 .. Now : log'[i] = log[i]
    BY <1>0, <1>1 DEF BaseInv, LogInv, Now
  <1> HIDE DEF this
  <1>6. Place(c)' /\ Reads(c)'
    BY <1>0, <1>1, <1>2, <1>4, <1>5 DEF Place, Reads, Call
  <1>7. /\ {this.look, this.doc, this.again, this.landed} \subseteq 0 .. Now'
        /\ this.landed > 0 => log'[this.landed].by = c
    BY <1>0, <1>1, <1>2, <1>5
  <1> QED
    BY <1>1, <1>2, <1>3, <1>5, <1>6, <1>7, OtherCalls

LEMMA EndKeepsBase ==
    ASSUME BaseInv, NEW c \in Calls, Refuse(c) \/ Die(c)
    PROVE  BaseInv'
  <1>0. /\ Now \in Nat \ {0} /\ call[c] \in Call
        /\ {call[c].look, call[c].doc, call[c].again, call[c].landed} \subseteq 0 .. Now
        /\ call[c].landed > 0 => log[call[c].landed].by = c
        /\ Place(c) /\ Reads(c)
    BY ThisCall
  <1>1. log' = log /\ UNCHANGED <<cursor, seen>>
    BY DEF Refuse, Die
  <1>2. LogInv' /\ Now' = Now /\ Now' >= Now /\ \A i \in 1 .. Now : log'[i] = log[i]
    BY <1>0, <1>1 DEF BaseInv, LogInv, Now
  <1>3. CASE call[c].at = "written"
    <2> DEFINE this == [call[c] EXCEPT !.at = "ended"]
    <2>1. /\ this \in Call
          /\ this.at = "ended" /\ this.op = call[c].op /\ this.doc = call[c].doc
          /\ this.again = call[c].again /\ this.look = call[c].look
          /\ this.landed = call[c].landed
      BY <1>0 DEF Call
    <2>2. call' = [call EXCEPT ![c] = this]
      BY <1>3 DEF Refuse, Die
    <2>3. call'[c] = this
      BY <2>2 DEF BaseInv, TypeOK
    <2> HIDE DEF this
    <2>4. Place(c)' /\ Reads(c)'
      BY <1>0, <1>1, <1>2, <2>1, <2>3 DEF Place, Reads
    <2>5. /\ {this.look, this.doc, this.again, this.landed} \subseteq 0 .. Now'
          /\ this.landed > 0 => log'[this.landed].by = c
      BY <1>0, <1>1, <1>2, <2>1
    <2> QED
      BY <1>1, <1>2, <2>1, <2>2, <2>4, <2>5, OtherCalls
  <1>4. CASE call[c].at # "written"
    <2> DEFINE this == [op |-> None, at |-> "ended", look |-> 0, doc |-> 0, again |-> 0,
                        landed |-> 0, structured |-> FALSE]
    <2>1. call' = [call EXCEPT ![c] = this] /\ this \in Call
      BY <1>4 DEF Refuse, Die, Ended, Idle, Call
    <2>2. call'[c] = this
      BY <2>1 DEF BaseInv, TypeOK
    <2>3. Place(c)' /\ Reads(c)'
      BY <1>0, <1>1, <1>2, <2>2 DEF Place, Reads
    <2>4. /\ {this.look, this.doc, this.again, this.landed} \subseteq 0 .. Now'
          /\ this.landed > 0 => log'[this.landed].by = c
      BY <1>0, <1>2
    <2> HIDE DEF this
    <2> QED
      BY <1>1, <1>2, <2>1, <2>3, <2>4, OtherCalls
  <1> QED
    BY <1>3, <1>4

\* A batch appends its entry, by the call that sends it.
LEMMA BatchAppends ==
    ASSUME BaseInv, NEW c \in Calls, NEW e \in Entry, e.by = c, log' = Append(log, e)
    PROVE  /\ Now \in Nat \ {0} /\ LogInv' /\ Now' = Now + 1 /\ Now' >= Now
           /\ \A i \in 1 .. Now : log'[i] = log[i]
           /\ log'[Now + 1] = e /\ log'[Now + 1].by = c
  <1>1. LogInv
    BY DEF BaseInv
  <1>2. /\ LogInv' /\ Now' = Now + 1
        /\ \A i \in 1 .. Now : log'[i] = log[i]
        /\ log'[Now + 1] = e
    BY <1>1, Appended
  <1>3. Now \in Nat \ {0}
    BY <1>1 DEF LogInv, Now
  <1>4. Now + 1 >= Now
    BY <1>3
  <1> QED
    BY <1>2, <1>3, <1>4

\* A batch that has saved the change of its call, now or before.
LEMMA BatchKeepsBase ==
    ASSUME BaseInv, NEW c \in Calls, UNCHANGED <<cursor, seen>>,
           LogInv', Now' = Now + 1, \A i \in 1 .. Now : log'[i] = log[i],
           log'[Now + 1].by = c, NEW this \in Call, call' = [call EXCEPT ![c] = this],
           this.at \in {"written", "answered"},
           this.op = call[c].op, this.doc = call[c].doc,
           this.again = call[c].again, this.look = call[c].look,
           this.landed > 0,
           \/ this.landed = call[c].landed
           \/ /\ this.landed = Now + 1
              /\ call[c].doc > 0
              /\ call[c].op \in Updates => call[c].again \in call[c].doc .. Now
    PROVE  BaseInv'
  <1>0. /\ Now \in Nat \ {0} /\ call[c] \in Call
        /\ {call[c].look, call[c].doc, call[c].again, call[c].landed} \subseteq 0 .. Now
        /\ call[c].landed > 0 => log[call[c].landed].by = c
        /\ Place(c) /\ Reads(c)
    BY ThisCall
  <1>1. Now' >= Now
    BY <1>0
  <1>2. call'[c] = this
    BY DEF BaseInv, TypeOK
  <1>3. Place(c)'
    BY <1>2 DEF Place
  <1>4. /\ this.doc \in 1 .. this.landed - 1
        /\ this.op \in Updates => this.again \in this.doc .. this.landed - 1
    <2>1. CASE this.landed = call[c].landed
      BY <1>0, <2>1 DEF Reads
    <2>2. CASE this.landed = Now + 1 /\ call[c].doc > 0
               /\ (call[c].op \in Updates => call[c].again \in call[c].doc .. Now)
      BY <1>0, <2>2
    <2> QED
      BY <2>1, <2>2
  <1>5. Reads(c)'
    <2>1. this.doc \in 1 .. Now
      BY <1>0, <1>4
    <2>2. this.op \in ClientLooks => this.look \in 1 .. this.doc
      BY <2>1, <1>0 DEF Reads
    <2>3. /\ log'[this.doc] = log[this.doc]
          /\ this.op \in ClientLooks => log'[this.look] = log[this.look]
      BY <2>1, <2>2, <1>0
    <2>4. /\ this.op = "editV2" => log'[this.look].rev = log'[this.doc].rev
          /\ this.op \in Decisions => log'[this.doc].suggestion # "gone"
      BY <2>1, <2>3, <1>0 DEF Reads, ClientLooks, BringsMarks
    <2> QED
      BY <1>2, <1>4, <2>2, <2>4 DEF Reads
  <1>6. {this.look, this.doc, this.again, this.landed} \subseteq 0 .. Now'
    <2>1. /\ this.look \in 0 .. Now' /\ this.doc \in 0 .. Now' /\ this.again \in 0 .. Now'
      BY <1>0, <1>1
    <2>2. this.landed \in 0 .. Now'
      BY <1>0, <1>1
    <2> QED
      BY <2>1, <2>2
  <1>7. log'[this.landed].by = c
    <2>1. CASE this.landed = Now + 1
      BY <1>1, <2>1
    <2>2. CASE this.landed = call[c].landed
      <3>1. this.landed \in 1 .. Now /\ log[this.landed].by = c
        BY <1>0, <2>2
      <3> QED
        BY <1>1, <3>1
    <2> QED
      BY <2>1, <2>2
  <1> QED
    BY <1>1, <1>3, <1>5, <1>6, <1>7, OtherCalls

LEMMA CommitKeepsBase ==
    ASSUME BaseInv, NEW c \in Calls, Commit(c)
    PROVE  BaseInv'
  <1>0. /\ Now \in Nat \ {0} /\ call[c] \in Call /\ call[c].doc \in 0 .. Now /\ Place(c)
    BY ThisCall
  <1> DEFINE at == IF call[c].op = "accept" THEN "written" ELSE "answered"
             next == Now + 1
             this == [call[c] EXCEPT !.landed = next, !.at = at]
  <1>1. AtBatch(c) /\ log' = Append(log, Written(c)) /\ UNCHANGED <<cursor, seen>>
    BY DEF Commit
  <1>2. Written(c) \in Entry /\ Written(c).by = c
    BY <1>1, WrittenRow
  <1>3. /\ LogInv' /\ Now' = Now + 1 /\ \A i \in 1 .. Now : log'[i] = log[i]
        /\ log'[Now + 1].by = c
    BY <1>1, <1>2, BatchAppends
  <1>4. at \in {"written", "answered"}
    OBVIOUS
  <1>a. next \in Nat /\ next = Now + 1
    BY <1>0
  <1> HIDE DEF at, next
  <1>5. /\ this \in Call /\ this.at = at /\ this.landed = next
        /\ this.op = call[c].op /\ this.doc = call[c].doc
        /\ this.again = call[c].again /\ this.look = call[c].look
    BY <1>0, <1>4, <1>a DEF Call
  <1>6. call' = [call EXCEPT ![c] = this]
    BY DEF Commit, at, next
  <1> HIDE DEF this
  <1>7. /\ call[c].doc > 0
        /\ call[c].op \in Updates => call[c].again \in call[c].doc .. Now
    BY <1>0, <1>1 DEF AtBatch, Place
  <1>8. this.landed > 0
    BY <1>0, <1>5, <1>a
  <1> QED
    BY <1>a, <1>1, <1>3, <1>4, <1>5, <1>6, <1>7, <1>8, BatchKeepsBase

LEMMA TooLateKeepsBase ==
    ASSUME BaseInv, NEW c \in Calls, CommitTooLate(c)
    PROVE  BaseInv'
  <1>0. Now \in Nat \ {0} /\ Row \in Entry
    BY ThisCall
  <1> DEFINE type == Written(c).type
             e == [Row EXCEPT !.type = type, !.by = c]
             this == [op |-> None, at |-> "ended", look |-> 0, doc |-> 0, again |-> 0,
                      landed |-> 0, structured |-> FALSE]
  <1>1. AtBatch(c) /\ log' = Append(log, e) /\ UNCHANGED <<cursor, seen>>
    BY DEF CommitTooLate
  <1>2. type \in {"updated", "marks"}
    BY <1>1, WrittenRow
  <1> HIDE DEF type
  <1>3. e \in Entry /\ e.by = c
    BY <1>0, <1>2 DEF Entry
  <1> HIDE DEF e
  <1>4. /\ LogInv' /\ Now' = Now + 1 /\ Now' >= Now
        /\ \A i \in 1 .. Now : log'[i] = log[i]
    BY <1>1, <1>3, BatchAppends
  <1>5. call' = [call EXCEPT ![c] = this] /\ this \in Call
    <2>1. call' = [call EXCEPT ![c] = Ended]
      BY DEF CommitTooLate
    <2>2. Ended = this
      <3>1. /\ Idle \in Call /\ Idle.op = None /\ Idle.look = 0 /\ Idle.doc = 0
            /\ Idle.again = 0 /\ Idle.landed = 0 /\ Idle.structured = FALSE
        BY DEF Idle, Call
      <3>2. /\ Ended \in Call /\ Ended.op = None /\ Ended.look = 0 /\ Ended.doc = 0
            /\ Ended.again = 0 /\ Ended.landed = 0 /\ Ended.structured = FALSE
            /\ Ended.at = "ended"
        BY <3>1 DEF Ended, Call
      <3> QED
        BY <3>2 DEF Call
    <2>3. this \in Call
      BY DEF Call
    <2> QED
      BY <2>1, <2>2, <2>3
  <1>6. call'[c] = this
    BY <1>5 DEF BaseInv, TypeOK
  <1>7. Place(c)' /\ Reads(c)'
    BY <1>0, <1>4, <1>6 DEF Place, Reads
  <1>8. /\ {this.look, this.doc, this.again, this.landed} \subseteq 0 .. Now'
        /\ this.landed > 0 => log'[this.landed].by = c
    BY <1>0, <1>4
  <1> HIDE DEF this
  <1> QED
    BY <1>1, <1>4, <1>5, <1>7, <1>8, OtherCalls

LEMMA DeleteKeepsBase ==
    ASSUME BaseInv, NEW c \in Calls, Delete(c)
    PROVE  BaseInv'
  <1>0. /\ Now \in Nat \ {0} /\ call[c] \in Call /\ call[c].doc \in 0 .. Now
        /\ Place(c) /\ Row \in Entry
    BY ThisCall
  <1> DEFINE e == [Row EXCEPT !.type = "deleted", !.by = c, !.open = FALSE]
             next == Now + 1
             this == [call[c] EXCEPT !.at = "answered", !.landed = next]
  <1>1. log' = Append(log, e) /\ UNCHANGED <<cursor, seen>>
    BY DEF Delete
  <1>2. e \in Entry /\ e.by = c
    BY <1>0 DEF Entry
  <1> HIDE DEF e
  <1>3. /\ LogInv' /\ Now' = Now + 1 /\ \A i \in 1 .. Now : log'[i] = log[i]
        /\ log'[Now + 1].by = c
    BY <1>1, <1>2, BatchAppends
  <1>a. next \in Nat /\ next = Now + 1
    BY <1>0
  <1> HIDE DEF next
  <1>4. /\ this \in Call /\ this.at = "answered" /\ this.landed = next
        /\ this.op = call[c].op /\ this.doc = call[c].doc
        /\ this.again = call[c].again /\ this.look = call[c].look
    BY <1>0, <1>a DEF Call
  <1>5. call' = [call EXCEPT ![c] = this]
    BY DEF Delete, next
  <1> HIDE DEF this
  <1>6. call[c].doc > 0 /\ call[c].op \notin Updates
    BY <1>0 DEF Delete, Place, Updates, AgentEdits, Whole, KeepsText
  <1>7. this.landed > 0
    BY <1>0, <1>4, <1>a
  <1> QED
    BY <1>a, <1>1, <1>3, <1>4, <1>5, <1>6, <1>7, BatchKeepsBase

LEMMA AnnounceKeepsBase ==
    ASSUME BaseInv, NEW c \in Calls, Announce(c)
    PROVE  BaseInv'
  <1>0. Now \in Nat \ {0} /\ call[c] \in Call /\ Place(c) /\ Row \in Entry
    BY ThisCall
  <1> DEFINE e == [Row EXCEPT !.type = "decided", !.by = c]
             this == [call[c] EXCEPT !.at = "answered"]
  <1>1. log' = Append(log, e) /\ UNCHANGED <<cursor, seen>>
    BY DEF Announce
  <1>2. e \in Entry /\ e.by = c
    BY <1>0 DEF Entry
  <1> HIDE DEF e
  <1>3. /\ LogInv' /\ Now' = Now + 1 /\ \A i \in 1 .. Now : log'[i] = log[i]
        /\ log'[Now + 1].by = c
    BY <1>1, <1>2, BatchAppends
  <1>4. /\ this \in Call /\ this.at = "answered" /\ this.landed = call[c].landed
        /\ this.op = call[c].op /\ this.doc = call[c].doc
        /\ this.again = call[c].again /\ this.look = call[c].look
    BY <1>0 DEF Call
  <1>5. call' = [call EXCEPT ![c] = this]
    BY DEF Announce
  <1> HIDE DEF this
  <1>6. this.landed > 0
    BY <1>0, <1>4 DEF Announce, Place
  <1> QED
    BY <1>1, <1>3, <1>4, <1>5, <1>6, BatchKeepsBase

\* The first page of what comes after the cursor is without a gap.
LEMMA PageIsSegment ==
    ASSUME Now \in Nat, cursor \in 0 .. Now, Pending # {}
    PROVE  \E last \in cursor + 1 .. Now :
              /\ PageOf(Pending) = cursor + 1 .. last
              /\ last = CHOOSE i \in PageOf(Pending) : \A j \in PageOf(Pending) : j <= i
  <1> DEFINE last == IF Now <= cursor + Page THEN Now ELSE cursor + Page
  <1>1. cursor < Now
    BY DEF Pending
  <1>2. last \in cursor + 1 .. Now
    BY <1>1
  <1>3. Pending = cursor + 1 .. Now
    BY DEF Pending
  <1>4. ASSUME NEW i \in cursor + 1 .. last
        PROVE  i \in PageOf(Pending)
    BY <1>2, <1>3, <1>4 DEF PageOf
  <1>5. ASSUME NEW i \in PageOf(Pending)
        PROVE  i \in cursor + 1 .. last
    <2>1. /\ i \in cursor + 1 .. Now
          /\ cursor + 1 < i => i - (cursor + 1) < Page
      BY <1>1, <1>3 DEF PageOf
    <2> QED
      BY <2>1
  <1>6. PageOf(Pending) = cursor + 1 .. last
    BY <1>4, <1>5
  <1> HIDE DEF last
  <1>7. ASSUME NEW i \in PageOf(Pending), \A j \in PageOf(Pending) : j <= i
        PROVE  i = last
    <2>1. i \in cursor + 1 .. last
      BY <1>6, <1>7
    <2>2. last \in PageOf(Pending)
      BY <1>2, <1>6
    <2>3. last <= i
      BY <1>7, <2>2
    <2> QED
      BY <1>2, <2>1, <2>3
  <1>8. last \in PageOf(Pending) /\ \A j \in PageOf(Pending) : j <= last
    BY <1>2, <1>6
  <1>9. last = CHOOSE i \in PageOf(Pending) : \A j \in PageOf(Pending) : j <= i
    BY <1>7, <1>8
  <1> QED
    BY <1>2, <1>6, <1>9

LEMMA PollKeepsBase ==
    ASSUME BaseInv, Poll
    PROVE  BaseInv'
  <1>1. UNCHANGED <<log, call>> /\ UNCHANGED Now
    BY DEF Poll, Now
  <1>2. Now \in Nat /\ cursor \in 0 .. Now /\ seen = 1 .. cursor
    BY DEF BaseInv, TypeOK, LogInv, Now
  <1>3. PICK last \in cursor + 1 .. Now :
              /\ PageOf(Pending) = cursor + 1 .. last
              /\ last = CHOOSE i \in PageOf(Pending) : \A j \in PageOf(Pending) : j <= i
    BY <1>2, PageIsSegment DEF Poll
  <1>4. cursor' = last /\ seen' = 1 .. cursor \cup cursor + 1 .. last
    BY <1>2, <1>3 DEF Poll
  <1>5. cursor' \in 0 .. Now' /\ seen' = 1 .. cursor'
    BY <1>1, <1>2, <1>3, <1>4
  <1>6. TypeOK' /\ LogInv' /\ CallInv'
    BY <1>1, <1>5 DEF BaseInv, TypeOK, LogInv, CallInv, Place, Reads, Now
  <1> QED
    BY <1>6 DEF BaseInv

LEMMA BaseStep == BaseInv /\ [Next]_vars => BaseInv'
  <1> SUFFICES ASSUME BaseInv, [Next]_vars PROVE BaseInv'
    OBVIOUS
  <1>1. ASSUME NEW c \in Calls, NEW op \in Ops, Look(c, op) \/ Open(c, op)
        PROVE  BaseInv'
    BY <1>1, RequestKeepsBase
  <1>2. ASSUME NEW c \in Calls, Handler(c)
        PROVE  BaseInv'
    BY <1>2, RereadKeepsBase, CommitKeepsBase, TooLateKeepsBase, DeleteKeepsBase,
       AnnounceKeepsBase DEF Handler
  <1>3. ASSUME NEW c \in Calls, Refuse(c) \/ Die(c)
        PROVE  BaseInv'
    BY <1>3, EndKeepsBase
  <1>4. ASSUME UNCHANGED vars
        PROVE  BaseInv'
    BY <1>4 DEF vars, BaseInv, TypeOK, LogInv, CallInv, Place, Reads, Now
  <1> QED
    BY <1>1, <1>2, <1>3, <1>4, PollKeepsBase DEF Next

-----------------------------------------------------------------------------
(* The history: what a step adds to it, and that nothing else of it changes. *)

\* What a call has saved and read does not change any more.
Settled(d) ==
    /\ call'[d].op = call[d].op /\ call'[d].look = call[d].look
    /\ call'[d].doc = call[d].doc /\ call'[d].again = call[d].again
    /\ call'[d].landed = call[d].landed /\ call'[d].structured = call[d].structured

\* A batch that copies the row, but for what is said of it and whether it is open.
CopiesRow ==
    /\ Now' = Now + 1
    /\ log'[Now + 1].text = Row.text /\ log'[Now + 1].comments = Row.comments
    /\ log'[Now + 1].suggestion = Row.suggestion /\ log'[Now + 1].rev = Row.rev
    /\ \A d \in Landed' : d \in Landed \/ call'[d].op = "delete"

\* A batch that writes the columns of a request.
WritesRow(c) ==
    /\ AtBatch(c)
    /\ c \notin Landed
    /\ Now' = Now + 1 /\ log'[Now + 1] = Written(c)
    /\ call'[c].op = call[c].op /\ call'[c].look = call[c].look
    /\ call'[c].doc = call[c].doc /\ call'[c].again = call[c].again
    /\ call'[c].landed = Now + 1 /\ call'[c].structured = call[c].structured
    /\ Landed' = Landed \cup {c}

Grows ==
    /\ Now' >= Now
    /\ \A i \in 1 .. Now : log'[i] = log[i]
    /\ \A d \in Landed : Settled(d)
    /\ \/ Now' = Now /\ Landed' = Landed
       \/ CopiesRow
       \/ \E c \in Calls : WritesRow(c)

\* The calls other than the acting one are as they were.
LEMMA OthersSettled ==
    ASSUME BaseInv, NEW c \in Calls, NEW this, call' = [call EXCEPT ![c] = this],
           call[c].landed > 0 => /\ this.op = call[c].op /\ this.look = call[c].look
                                 /\ this.doc = call[c].doc /\ this.again = call[c].again
                                 /\ this.landed = call[c].landed
                                 /\ this.structured = call[c].structured
    PROVE  /\ call'[c] = this
           /\ \A d \in Landed : Settled(d)
           /\ this.landed = call[c].landed => Landed' = Landed
           /\ this.landed > 0 => Landed' = Landed \cup {c}
  <1>1. call'[c] = this /\ \A d \in Calls \ {c} : call'[d] = call[d]
    BY DEF BaseInv, TypeOK
  <1>2. \A d \in Landed : Settled(d)
    BY <1>1 DEF Settled, Landed
  <1>3. ASSUME this.landed = call[c].landed PROVE Landed' = Landed
    BY <1>1, <1>3 DEF Landed
  <1>4. ASSUME this.landed > 0 PROVE Landed' = Landed \cup {c}
    BY <1>1, <1>4 DEF Landed
  <1> QED
    BY <1>1, <1>2, <1>3, <1>4

LEMMA LogGrows == ASSUME BaseInv, [Next]_vars PROVE Grows
  <1>1. ASSUME NEW c \in Calls, NEW op \in Ops, Look(c, op) \/ Open(c, op)
        PROVE  Grows
    <2>0. Now \in Nat \ {0} /\ call[c] \in Call /\ Place(c)
      BY ThisCall
    <2>1. log' = log /\ Now' = Now /\ Now' >= Now
      <3>1. log' = log
        BY <1>1 DEF Look, Open
      <3> QED
        BY <2>0, <3>1 DEF Now
    <2>2. call[c] \in Call /\ call[c].landed = 0
      <3>1. call[c].at \in {"idle", "looked"}
        BY <1>1 DEF Look, Open
      <3>2. call[c] = Idle => call[c].landed = 0
        BY DEF Idle
      <3> QED
        BY <2>0, <3>1, <3>2 DEF Place
    <2>3. PICK this : call' = [call EXCEPT ![c] = this] /\ this.landed = call[c].landed
      <3>1. CASE Look(c, op)
        <4> DEFINE this == [call[c] EXCEPT !.op = op, !.at = "looked", !.look = Now]
        <4>1. call' = [call EXCEPT ![c] = this]
          BY <3>1 DEF Look
        <4>2. this.landed = call[c].landed
          BY <2>2 DEF Call
        <4> QED
          BY <4>1, <4>2
      <3>2. CASE Open(c, op)
        <4>1. PICK structured \in Ways(op) :
                call' = [call EXCEPT ![c].op = op, ![c].doc = Now,
                                    ![c].structured = structured,
                                    ![c].at = IF op \in OnlyAsks THEN "reread" ELSE "opened",
                                    ![c].again = IF op \in OnlyAsks THEN Now ELSE 0]
          BY <3>2 DEF Open
        <4> DEFINE at    == IF op \in OnlyAsks THEN "reread" ELSE "opened"
                   again == IF op \in OnlyAsks THEN Now ELSE 0
                   this  == [call[c] EXCEPT !.op = op, !.doc = Now, !.structured = structured,
                                            !.at = at, !.again = again]
        <4>2. call' = [call EXCEPT ![c] = this]
          BY <4>1
        <4> HIDE DEF at, again
        <4>3. this.landed = call[c].landed
          BY <2>2 DEF Call
        <4> QED
          BY <4>2, <4>3
      <3> QED
        BY <1>1, <3>1, <3>2
    <2>4. ~(call[c].landed > 0)
      BY <2>2
    <2>5. (\A d \in Landed : Settled(d)) /\ Landed' = Landed
      BY <2>3, <2>4, OthersSettled
    <2> QED
      BY <2>1, <2>5 DEF Grows
  <1>2. ASSUME NEW c \in Calls, Reread(c) \/ Refuse(c) \/ Die(c)
        PROVE  Grows
    <2>1. log' = log /\ Now' = Now /\ Now' >= Now
      BY <1>2, ThisCall DEF Reread, Refuse, Die, Now
    <2>2. call[c] \in Call /\ Place(c)
      BY ThisCall
    <2>3. CASE call[c].at = "written"
      <3> DEFINE this == [call[c] EXCEPT !.at = "ended"]
      <3>1. call' = [call EXCEPT ![c] = this]
        BY <1>2, <2>3 DEF Reread, Refuse, Die
      <3>2. /\ this.op = call[c].op /\ this.look = call[c].look
            /\ this.doc = call[c].doc /\ this.again = call[c].again
            /\ this.landed = call[c].landed /\ this.structured = call[c].structured
        BY <2>2 DEF Call
      <3> HIDE DEF this
      <3>3. (\A d \in Landed : Settled(d)) /\ Landed' = Landed
        BY <3>1, <3>2, OthersSettled
      <3> QED
        BY <2>1, <3>3 DEF Grows
    <2>4. CASE call[c].at # "written"
      <3>1. call[c].landed = 0 /\ c \notin Landed
        BY <1>2, <2>2, <2>4 DEF Place, Reread, Refuse, Die, Landed
      <3>2. PICK this : call' = [call EXCEPT ![c] = this] /\ this.landed = 0
        <4>1. CASE Reread(c)
          <5> DEFINE this == [call[c] EXCEPT !.at = "reread", !.again = Now]
          <5>1. call' = [call EXCEPT ![c] = this]
            BY <4>1 DEF Reread
          <5>2. this.landed = 0
            BY <2>2, <3>1 DEF Call
          <5> QED
            BY <5>1, <5>2
        <4>2. CASE Refuse(c) \/ Die(c)
          <5>1. call' = [call EXCEPT ![c] = Ended]
            BY <2>4, <4>2 DEF Refuse, Die
          <5>2. Ended.landed = 0
            BY DEF Ended, Idle
          <5> QED
            BY <5>1, <5>2
        <4> QED
          BY <1>2, <4>1, <4>2
      <3>3. ~(call[c].landed > 0)
        BY <3>1
      <3>4. (\A d \in Landed : Settled(d)) /\ Landed' = Landed
        BY <3>1, <3>2, <3>3, OthersSettled
      <3> QED
        BY <2>1, <3>4 DEF Grows
    <2> QED
      BY <2>3, <2>4
  <1>3. ASSUME NEW c \in Calls, Commit(c)
        PROVE  Grows
    <2>1. /\ Now \in Nat \ {0} /\ call[c] \in Call /\ call[c].landed = 0
          /\ AtBatch(c) /\ log' = Append(log, Written(c))
      BY <1>3, ThisCall DEF Commit, AtBatch, Place
    <2>2. Written(c) \in Entry /\ Written(c).by = c
      BY <2>1, WrittenRow
    <2>3. /\ Now' = Now + 1 /\ Now' >= Now /\ \A i \in 1 .. Now : log'[i] = log[i]
          /\ log'[Now + 1] = Written(c)
      BY <2>1, <2>2, BatchAppends
    <2> DEFINE at == IF call[c].op = "accept" THEN "written" ELSE "answered"
               next == Now + 1
               this == [call[c] EXCEPT !.landed = next, !.at = at]
    <2>4. call' = [call EXCEPT ![c] = this]
      BY <1>3 DEF Commit
    <2>5. next = Now + 1 /\ next \in Nat
      BY <2>1
    <2> HIDE DEF at, next
    <2>6. /\ this.op = call[c].op /\ this.look = call[c].look
          /\ this.doc = call[c].doc /\ this.again = call[c].again
          /\ this.landed = next /\ this.structured = call[c].structured
      BY <2>1 DEF Call
    <2> HIDE DEF this
    <2>7. ~(call[c].landed > 0) /\ this.landed > 0 /\ c \notin Landed
      BY <2>1, <2>5, <2>6 DEF Landed
    <2>8. call'[c] = this /\ (\A d \in Landed : Settled(d)) /\ Landed' = Landed \cup {c}
      BY <2>4, <2>6, <2>7, OthersSettled
    <2>9. WritesRow(c)
      BY <2>1, <2>3, <2>5, <2>6, <2>7, <2>8 DEF WritesRow
    <2> QED
      BY <2>3, <2>8, <2>9 DEF Grows
  <1>4. ASSUME NEW c \in Calls, CommitTooLate(c)
        PROVE  Grows
    <2>1. Now \in Nat \ {0} /\ call[c].landed = 0 /\ AtBatch(c) /\ Row \in Entry
      BY <1>4, ThisCall DEF CommitTooLate, AtBatch, Place
    <2> DEFINE type == Written(c).type
               e == [Row EXCEPT !.type = type, !.by = c]
    <2>2. log' = Append(log, e) /\ call' = [call EXCEPT ![c] = Ended]
      BY <1>4 DEF CommitTooLate
    <2>3. type \in {"updated", "marks"}
      BY <2>1, WrittenRow
    <2> HIDE DEF type
    <2>4. /\ e \in Entry /\ e.by = c /\ e.text = Row.text /\ e.comments = Row.comments
          /\ e.suggestion = Row.suggestion /\ e.rev = Row.rev
      BY <2>1, <2>3 DEF Entry
    <2> HIDE DEF e
    <2>5. /\ Now' = Now + 1 /\ Now' >= Now /\ \A i \in 1 .. Now : log'[i] = log[i]
          /\ log'[Now + 1] = e
      BY <2>2, <2>4, BatchAppends
    <2>6. Ended.landed = call[c].landed /\ ~(call[c].landed > 0)
      BY <2>1 DEF Ended, Idle
    <2>7. (\A d \in Landed : Settled(d)) /\ Landed' = Landed
      BY <2>2, <2>6, OthersSettled
    <2> QED
      BY <2>4, <2>5, <2>7 DEF Grows, CopiesRow
  <1>5. ASSUME NEW c \in Calls, Delete(c)
        PROVE  Grows
    <2>1. Now \in Nat \ {0} /\ call[c] \in Call /\ call[c].landed = 0 /\ Row \in Entry
      BY <1>5, ThisCall DEF Delete, Place
    <2> DEFINE e == [Row EXCEPT !.type = "deleted", !.by = c, !.open = FALSE]
               next == Now + 1
               this == [call[c] EXCEPT !.at = "answered", !.landed = next]
    <2>2. log' = Append(log, e) /\ call' = [call EXCEPT ![c] = this]
          /\ call[c].op = "delete"
      BY <1>5 DEF Delete
    <2>3. /\ e \in Entry /\ e.by = c /\ e.text = Row.text /\ e.comments = Row.comments
          /\ e.suggestion = Row.suggestion /\ e.rev = Row.rev
      BY <2>1 DEF Entry
    <2>4. next = Now + 1 /\ next \in Nat
      BY <2>1
    <2> HIDE DEF e, next
    <2>5. /\ Now' = Now + 1 /\ Now' >= Now /\ \A i \in 1 .. Now : log'[i] = log[i]
          /\ log'[Now + 1] = e
      BY <2>2, <2>3, BatchAppends
    <2>6. this.op = call[c].op /\ this.landed = next
      BY <2>1, <2>4 DEF Call
    <2> HIDE DEF this
    <2>7. ~(call[c].landed > 0) /\ this.landed > 0
      BY <2>1, <2>4, <2>6
    <2>8. call'[c] = this /\ (\A d \in Landed : Settled(d)) /\ Landed' = Landed \cup {c}
      BY <2>2, <2>7, OthersSettled
    <2> QED
      BY <2>2, <2>3, <2>5, <2>6, <2>8 DEF Grows, CopiesRow
  <1>6. ASSUME NEW c \in Calls, Announce(c)
        PROVE  Grows
    <2>1. Now \in Nat \ {0} /\ call[c] \in Call /\ Row \in Entry
      BY ThisCall
    <2> DEFINE e == [Row EXCEPT !.type = "decided", !.by = c]
               this == [call[c] EXCEPT !.at = "answered"]
    <2>2. log' = Append(log, e) /\ call' = [call EXCEPT ![c] = this]
      BY <1>6 DEF Announce
    <2>3. /\ e \in Entry /\ e.by = c /\ e.text = Row.text /\ e.comments = Row.comments
          /\ e.suggestion = Row.suggestion /\ e.rev = Row.rev
      BY <2>1 DEF Entry
    <2> HIDE DEF e
    <2>4. /\ Now' = Now + 1 /\ Now' >= Now /\ \A i \in 1 .. Now : log'[i] = log[i]
          /\ log'[Now + 1] = e
      BY <2>2, <2>3, BatchAppends
    <2>5. /\ this.op = call[c].op /\ this.look = call[c].look
          /\ this.doc = call[c].doc /\ this.again = call[c].again
          /\ this.landed = call[c].landed /\ this.structured = call[c].structured
      BY <2>1 DEF Call
    <2> HIDE DEF this
    <2>6. (\A d \in Landed : Settled(d)) /\ Landed' = Landed
      BY <2>2, <2>5, OthersSettled
    <2> QED
      BY <2>3, <2>4, <2>6 DEF Grows, CopiesRow
  <1>7. ASSUME UNCHANGED <<log, call>>
        PROVE  Grows
    <2>1. Now' = Now /\ Now' >= Now /\ Landed' = Landed
      BY <1>7 DEF Now, BaseInv, LogInv, Landed
    <2> QED
      BY <1>7, <2>1 DEF Grows, Settled
  <1> QED
    BY <1>1, <1>2, <1>3, <1>4, <1>5, <1>6, <1>7 DEF Next, Handler, Poll, vars

-----------------------------------------------------------------------------
(* What was lost, was lost to a request that TakesText or TakesMark names.     *)

\* Whoever may have taken something stays the one who may have.
LEMMA TakersStay ==
    ASSUME Grows, NEW w \in Landed, NEW x \in Landed
    PROVE  /\ w \in Landed' /\ x \in Landed' /\ call'[w].landed = call[w].landed
           /\ TakesText(w, x) => TakesText(w, x)'
           /\ TakesMark(w, x) => TakesMark(w, x)'
  <1>1. Settled(w) /\ Settled(x)
    BY DEF Grows
  <1>2. w \in Landed' /\ x \in Landed'
    BY <1>1 DEF Landed, Settled
  <1> QED
    BY <1>1, <1>2 DEF Settled, TakesText, TakesMark, Overlaps, SentOlder

\* What was read or copied before the change landed cannot have it, and a call
\* that lands with an older read overlaps.
LEMMA OlderRead ==
    ASSUME BaseInv, Grows, NEW c \in Calls, WritesRow(c), NEW x \in Landed
    PROVE  /\ Now \in Nat /\ call'[x].landed = call[x].landed /\ call[x].landed \in 1 .. Now
           /\ c \in Landed' /\ call'[c].landed = Now + 1
           /\ call[c].doc < call[x].landed => Overlaps(c, x)'
           /\ call[c].look < call[x].landed => SentOlder(c, x)'
  <1>1. /\ Now \in Nat /\ call[x].landed \in 1 .. Now
    <2>1. call[x].landed > 0 /\ x \in Calls
      BY DEF Landed
    <2>2. Now \in Nat /\ call[x].landed \in 0 .. Now
      BY <2>1, ThisCall
    <2> QED
      BY <2>1, <2>2
  <1>2. Settled(x)
    BY DEF Grows
  <1>3. /\ call'[x].landed = call[x].landed /\ c \in Landed' /\ call'[c].landed = Now + 1
        /\ call'[c].doc = call[c].doc /\ call'[c].look = call[c].look
        /\ call'[c].op # "delete"
    BY <1>2 DEF Settled, WritesRow, AtBatch
  <1>4. call[x].landed < Now + 1
    BY <1>1
  <1> QED
    BY <1>1, <1>3, <1>4 DEF Overlaps, SentOlder

\* The reads of a call that writes are entries of the log as it was.
LEMMA WriterReads ==
    ASSUME BaseInv, NEW c \in Calls, WritesRow(c)
    PROVE  /\ AtBatch(c) /\ call[c].op \in Ops \ {"delete"}
           /\ Now \in Nat \ {0} /\ call[c].doc \in 1 .. Now
           /\ call[c].op \in Updates => call[c].again \in call[c].doc .. Now
           /\ call[c].op \in ClientLooks => call[c].look \in 1 .. Now
           /\ call[c].op \in Decisions => log[call[c].doc].suggestion # "gone"
  <1>1. AtBatch(c) /\ Place(c) /\ Reads(c) /\ Now \in Nat \ {0} /\ call[c].doc \in 0 .. Now
    BY ThisCall DEF WritesRow
  <1>2. call[c].at \in {"opened", "reread"} /\ call[c].op # "delete"
    BY <1>1 DEF AtBatch
  <1> QED
    BY <1>1, <1>2 DEF AtBatch, Place, Reads

LEMMA TextKept ==
    ASSUME BaseInv, TextInv, Grows, NEW x \in Landed', call'[x].op \in TextChanges,
           NEW i \in call'[x].landed .. Now'
    PROVE  x \in log'[i].text \/ \E w \in Landed' : TakesText(w, x)'
  <1>1. Now \in Nat \ {0} /\ Now' >= Now
    BY ThisCall DEF Grows, BaseInv, LogInv, Now
  <1>2. CASE x \in Landed
    <2>1. /\ call'[x].op = call[x].op /\ call'[x].landed = call[x].landed
          /\ call[x].landed \in 1 .. Now
      <3>1. x \in Calls /\ call[x].landed > 0 /\ Settled(x)
        BY <1>2 DEF Landed, Grows
      <3>2. call[x].landed \in 0 .. Now
        BY <3>1, ThisCall
      <3> QED
        BY <3>1, <3>2, <1>1 DEF Settled
    <2>2. ASSUME NEW j \in call[x].landed .. Now
          PROVE  x \in log[j].text \/ \E w \in Landed' : TakesText(w, x)'
      <3>1. x \in log[j].text \/ \E w \in Landed : TakesText(w, x)
        BY <1>2, <2>1 DEF TextInv
      <3> QED
        BY <1>2, <3>1, TakersStay
    <2>3. Now \in call[x].landed .. Now
      BY <1>1, <2>1
    <2>4. CASE i <= Now
      <3>1. i \in call[x].landed .. Now /\ log'[i] = log[i]
        BY <1>1, <2>1, <2>4 DEF Grows
      <3> QED
        BY <2>2, <3>1
    <2>5. CASE i > Now /\ CopiesRow
      <3>1. i = Now + 1 /\ log'[i].text = log[Now].text
        BY <1>1, <2>1, <2>5 DEF CopiesRow, Row
      <3> QED
        BY <2>2, <2>3, <3>1
    <2>6. ASSUME i > Now, NEW c \in Calls, WritesRow(c)
          PROVE  x \in log'[i].text \/ \E w \in Landed' : TakesText(w, x)'
      <3>1. i = Now + 1 /\ log'[i] = Written(c)
        BY <1>1, <2>1, <2>6 DEF WritesRow
      <3>2. /\ AtBatch(c) /\ Now \in Nat \ {0} /\ call[c].doc \in 1 .. Now
            /\ call[c].op \in Updates => call[c].again \in call[c].doc .. Now
            /\ call[c].op \in ClientLooks => call[c].look \in 1 .. Now
        BY <2>6, WriterReads
      <3>3. /\ call[c].op \notin Updates => Written(c).text = log[Now].text
            /\ call[c].op \in Updates =>
                 Written(c).text = IF call[c].op \in KeepsText THEN log[call[c].again].text
                                   ELSE IF call[c].op \in Whole THEN log[call[c].look].text \cup {c}
                                   ELSE log[call[c].doc].text \cup {c}
        BY <3>2, WrittenRow DEF Row
      <3>4. /\ c \in Landed' /\ call'[c].op = call[c].op
            /\ call[c].doc < call[x].landed => Overlaps(c, x)'
            /\ call[c].look < call[x].landed => SentOlder(c, x)'
        BY <1>2, <2>6, OlderRead DEF WritesRow
      <3>5. CASE call[c].op \notin Updates
        BY <2>2, <2>3, <3>1, <3>3, <3>5
      <3>6. CASE call[c].op \in Updates /\ call[c].doc < call[x].landed
        BY <3>4, <3>6 DEF TakesText
      <3>7. CASE call[c].op \in Whole
        <4>1. CASE call[c].look < call[x].landed
          BY <3>4, <3>7, <4>1 DEF TakesText, Updates, KeepsText
        <4>2. CASE ~(call[c].look < call[x].landed)
          <5>1. call[c].look \in call[x].landed .. Now
            BY <2>1, <3>2, <3>7, <4>2 DEF ClientLooks, BringsMarks
          <5>2. Written(c).text = log[call[c].look].text \cup {c}
            BY <3>3, <3>7 DEF Updates, Whole, KeepsText
          <5> QED
            BY <2>2, <3>1, <5>1, <5>2
        <4> QED
          BY <4>1, <4>2
      <3>8. CASE call[c].op \in Updates \ Whole /\ ~(call[c].doc < call[x].landed)
        <4>1. /\ call[c].doc \in call[x].landed .. Now
              /\ call[c].again \in call[x].landed .. Now
          BY <2>1, <3>2, <3>8
        <4>2. \/ Written(c).text = log[call[c].again].text
              \/ Written(c).text = log[call[c].doc].text \cup {c}
          BY <3>3, <3>8
        <4> QED
          BY <2>2, <3>1, <4>1, <4>2
      <3> QED
        BY <3>5, <3>6, <3>7, <3>8
    <2>7. CASE i > Now /\ Now' = Now
      BY <1>1, <2>1, <2>7
    <2> QED
      BY <1>1, <2>1, <2>4, <2>5, <2>6, <2>7 DEF Grows
  <1>3. CASE x \notin Landed
    <2>1. PICK c \in Calls : WritesRow(c)
      BY <1>3 DEF Grows, CopiesRow, TextChanges, Updates, AgentEdits, Whole, KeepsText
    <2>2. x = c
      BY <1>3, <2>1 DEF WritesRow
    <2>3. /\ AtBatch(x) /\ Now' = Now + 1 /\ log'[Now + 1] = Written(x)
          /\ call'[x].op = call[x].op /\ call'[x].landed = Now + 1
      BY <2>1, <2>2 DEF WritesRow
    <2>4. i = Now + 1
      BY <1>1, <2>3
    <2>5. call[x].op \in Updates /\ call[x].op \notin KeepsText
      BY <2>3 DEF TextChanges, KeepsText
    <2>6. x \in Calls
      BY <2>2
    <2>7. Written(x).text = IF call[x].op \in Whole THEN log[call[x].look].text \cup {x}
                            ELSE log[call[x].doc].text \cup {x}
      BY <2>3, <2>5, <2>6, WrittenRow
    <2> QED
      BY <2>3, <2>4, <2>7
  <1> QED
    BY <1>2, <1>3

LEMMA CommentKept ==
    ASSUME BaseInv, CommentInv, Grows, NEW x \in Landed', call'[x].op = "comment",
           NEW i \in call'[x].landed .. Now'
    PROVE  x \in log'[i].comments \/ \E w \in Landed' : TakesMark(w, x)'
  <1>1. Now \in Nat \ {0} /\ Now' >= Now
    BY ThisCall DEF Grows, BaseInv, LogInv, Now
  <1>2. CASE x \in Landed
    <2>1. /\ call'[x].op = call[x].op /\ call'[x].landed = call[x].landed
          /\ call[x].landed \in 1 .. Now
      <3>1. x \in Calls /\ call[x].landed > 0 /\ Settled(x)
        BY <1>2 DEF Landed, Grows
      <3>2. call[x].landed \in 0 .. Now
        BY <3>1, ThisCall
      <3> QED
        BY <3>1, <3>2, <1>1 DEF Settled
    <2>2. ASSUME NEW j \in call[x].landed .. Now
          PROVE  x \in log[j].comments \/ \E w \in Landed' : TakesMark(w, x)'
      <3>1. x \in log[j].comments \/ \E w \in Landed : TakesMark(w, x)
        BY <1>2, <2>1 DEF CommentInv
      <3> QED
        BY <1>2, <3>1, TakersStay
    <2>3. Now \in call[x].landed .. Now
      BY <1>1, <2>1
    <2>4. CASE i <= Now
      <3>1. i \in call[x].landed .. Now /\ log'[i] = log[i]
        BY <1>1, <2>1, <2>4 DEF Grows
      <3> QED
        BY <2>2, <3>1
    <2>5. CASE i > Now /\ CopiesRow
      <3>1. i = Now + 1 /\ log'[i].comments = log[Now].comments
        BY <1>1, <2>1, <2>5 DEF CopiesRow, Row
      <3> QED
        BY <2>2, <2>3, <3>1
    <2>6. ASSUME i > Now, NEW c \in Calls, WritesRow(c)
          PROVE  x \in log'[i].comments \/ \E w \in Landed' : TakesMark(w, x)'
      <3>1. i = Now + 1 /\ log'[i] = Written(c)
        BY <1>1, <2>1, <2>6 DEF WritesRow
      <3>2. /\ AtBatch(c) /\ Now \in Nat \ {0} /\ call[c].doc \in 1 .. Now
            /\ call[c].op \in Updates => call[c].again \in call[c].doc .. Now
            /\ call[c].op \in ClientLooks => call[c].look \in 1 .. Now
        BY <2>6, WriterReads
      <3>3. /\ call[c].op \notin Updates =>
                 \/ Written(c).comments = log[call[c].doc].comments
                 \/ Written(c).comments = log[call[c].doc].comments \cup {c}
            /\ call[c].op \in Updates =>
                 Written(c).comments = IF call[c].op \in BringsMarks THEN log[call[c].look].comments
                                       ELSE IF call[c].op = "accept" THEN log[call[c].doc].comments
                                       ELSE log[call[c].again].comments
        BY <3>2, WrittenRow
      <3>4. /\ c \in Landed' /\ call'[c].op = call[c].op
            /\ call[c].doc < call[x].landed => Overlaps(c, x)'
            /\ call[c].look < call[x].landed => SentOlder(c, x)'
        BY <1>2, <2>6, OlderRead DEF WritesRow
      <3>5. CASE call[c].op \in BringsMarks
        <4>1. CASE call[c].look < call[x].landed
          BY <3>4, <3>5, <4>1 DEF TakesMark
        <4>2. CASE ~(call[c].look < call[x].landed)
          <5>1. call[c].look \in call[x].landed .. Now
            BY <2>1, <3>2, <3>5, <4>2 DEF ClientLooks, Whole, BringsMarks
          <5>2. Written(c).comments = log[call[c].look].comments
            BY <3>3, <3>5 DEF Updates, Whole, KeepsText, BringsMarks
          <5> QED
            BY <2>2, <3>1, <5>1, <5>2
        <4> QED
          BY <4>1, <4>2
      <3>6. CASE call[c].doc < call[x].landed
        BY <3>4, <3>6 DEF TakesMark
      <3>7. CASE call[c].op \notin BringsMarks /\ ~(call[c].doc < call[x].landed)
        <4>1. /\ call[c].doc \in call[x].landed .. Now
              /\ call[c].op \in Updates => call[c].again \in call[x].landed .. Now
          BY <2>1, <3>2, <3>7
        <4>2. \/ Written(c).comments = log[call[c].doc].comments
              \/ Written(c).comments = log[call[c].doc].comments \cup {c}
              \/ call[c].op \in Updates /\ Written(c).comments = log[call[c].again].comments
          BY <3>3, <3>7
        <4> QED
          BY <2>2, <3>1, <4>1, <4>2
      <3> QED
        BY <3>5, <3>6, <3>7
    <2>7. CASE i > Now /\ Now' = Now
      BY <1>1, <2>1, <2>7
    <2> QED
      BY <1>1, <2>1, <2>4, <2>5, <2>6, <2>7 DEF Grows
  <1>3. CASE x \notin Landed
    <2>1. PICK c \in Calls : WritesRow(c)
      BY <1>3 DEF Grows, CopiesRow
    <2>2. x = c
      BY <1>3, <2>1 DEF WritesRow
    <2>3. /\ AtBatch(x) /\ Now' = Now + 1 /\ log'[Now + 1] = Written(x)
          /\ call'[x].op = call[x].op /\ call'[x].landed = Now + 1
      BY <2>1, <2>2 DEF WritesRow
    <2>4. i = Now + 1
      BY <1>1, <2>3
    <2>5. call[x].op \notin Updates /\ call[x].op = "comment" /\ x \in Calls
      BY <2>2, <2>3 DEF Updates, AgentEdits, Whole, KeepsText
    <2>6. Written(x).comments = log[call[x].doc].comments \cup {x}
      BY <2>3, <2>5, WrittenRow
    <2> QED
      BY <2>3, <2>4, <2>6
  <1> QED
    BY <1>2, <1>3

LEMMA GoneKept ==
    ASSUME BaseInv, GoneInv, Grows, NEW a \in Landed', call'[a].op = "accept",
           call'[a].structured, NEW i \in call'[a].landed .. Now'
    PROVE  \/ log'[i].suggestion = "gone"
           \/ \E w \in Landed' : call'[w].landed <= i /\ TakesMark(w, a)'
  <1>1. Now \in Nat \ {0} /\ Now' >= Now
    BY ThisCall DEF Grows, BaseInv, LogInv, Now
  <1>2. CASE a \in Landed
    <2>1. /\ call'[a].op = call[a].op /\ call'[a].landed = call[a].landed
          /\ call'[a].structured = call[a].structured /\ call[a].landed \in 1 .. Now
      <3>1. a \in Calls /\ call[a].landed > 0 /\ Settled(a)
        BY <1>2 DEF Landed, Grows
      <3>2. call[a].landed \in 0 .. Now
        BY <3>1, ThisCall
      <3>3. /\ call'[a].op = call[a].op /\ call'[a].landed = call[a].landed
            /\ call'[a].structured = call[a].structured
        BY <3>1 DEF Settled
      <3>4. call[a].landed \in 1 .. Now
        BY <3>1, <3>2, <1>1
      <3> QED
        BY <3>3, <3>4
    <2>2. ASSUME NEW j \in call[a].landed .. Now, NEW k \in j .. Now'
          PROVE  \/ log[j].suggestion = "gone"
                 \/ \E w \in Landed' : call'[w].landed <= k /\ TakesMark(w, a)'
      <3>1. \/ log[j].suggestion = "gone"
            \/ \E w \in Landed : call[w].landed <= j /\ TakesMark(w, a)
        BY <1>2, <2>1 DEF GoneInv
      <3>2. ASSUME NEW w \in Landed, call[w].landed <= j, TakesMark(w, a)
            PROVE  w \in Landed' /\ call'[w].landed <= k /\ TakesMark(w, a)'
        <4>1. call[w].landed \in 0 .. Now
          BY ThisCall DEF Landed
        <4>2. call[w].landed <= k
          BY <1>1, <2>1, <3>2, <4>1
        <4> QED
          BY <1>2, <3>2, <4>2, TakersStay
      <3> QED
        BY <3>1, <3>2
    <2>3. Now \in call[a].landed .. Now
      BY <1>1, <2>1
    <2>4. CASE i <= Now
      <3>1. i \in call[a].landed .. Now /\ i \in i .. Now' /\ log'[i] = log[i]
        BY <1>1, <2>1, <2>4 DEF Grows
      <3> QED
        BY <2>2, <3>1
    <2>5. CASE i > Now /\ CopiesRow
      <3>1. i = Now + 1 /\ i \in Now .. Now' /\ log'[i].suggestion = log[Now].suggestion
        BY <1>1, <2>1, <2>5 DEF CopiesRow, Row
      <3> QED
        BY <2>2, <2>3, <3>1
    <2>6. ASSUME i > Now, NEW c \in Calls, WritesRow(c)
          PROVE  \/ log'[i].suggestion = "gone"
                 \/ \E w \in Landed' : call'[w].landed <= i /\ TakesMark(w, a)'
      <3>1. i = Now + 1 /\ Now' = Now + 1 /\ log'[i] = Written(c)
        BY <1>1, <2>1, <2>6 DEF WritesRow
      <3>2. /\ AtBatch(c) /\ Now \in Nat \ {0} /\ call[c].doc \in 1 .. Now
            /\ call[c].op \in Updates => call[c].again \in call[c].doc .. Now
            /\ call[c].op \in ClientLooks => call[c].look \in 1 .. Now
            /\ call[c].op \in Decisions => log[call[c].doc].suggestion # "gone"
        BY <2>6, WriterReads
      <3>3. /\ call[c].op \notin Updates /\ call[c].op # "reject" =>
                 Written(c).suggestion = log[call[c].doc].suggestion
            /\ call[c].op \in Updates =>
                 Written(c).suggestion = IF call[c].op \in BringsMarks THEN log[call[c].look].suggestion
                                         ELSE IF call[c].op = "accept" THEN Accepted(c)
                                         ELSE log[call[c].again].suggestion
        BY <3>2, WrittenRow
      <3>4. /\ c \in Landed' /\ call'[c].landed <= i /\ call'[c].op = call[c].op
            /\ call[c].doc < call[a].landed => Overlaps(c, a)'
            /\ call[c].look < call[a].landed => SentOlder(c, a)'
        <4>1. /\ c \in Landed' /\ call'[c].landed = Now + 1 /\ call'[c].op = call[c].op
              /\ call[c].doc < call[a].landed => Overlaps(c, a)'
              /\ call[c].look < call[a].landed => SentOlder(c, a)'
          BY <1>2, <2>6, OlderRead DEF WritesRow
        <4> QED
          BY <1>1, <3>1, <4>1
      <3>5. ASSUME NEW j \in call[a].landed .. Now, log'[i].suggestion = log[j].suggestion
            PROVE  \/ log'[i].suggestion = "gone"
                   \/ \E w \in Landed' : call'[w].landed <= i /\ TakesMark(w, a)'
        <4>1. i \in j .. Now'
          BY <1>1, <2>1, <3>1
        <4> QED
          BY <2>2, <3>5, <4>1
      <3>6. CASE call[c].op \in BringsMarks
        <4>1. CASE call[c].look < call[a].landed
          BY <3>4, <3>6, <4>1 DEF TakesMark
        <4>2. CASE ~(call[c].look < call[a].landed)
          <5>1. call[c].look \in call[a].landed .. Now
            BY <2>1, <3>2, <3>6, <4>2 DEF ClientLooks, Whole, BringsMarks
          <5>2. Written(c).suggestion = log[call[c].look].suggestion
            BY <3>3, <3>6 DEF Updates, Whole, KeepsText, BringsMarks
          <5> QED
            BY <3>1, <3>5, <5>1, <5>2
        <4> QED
          BY <4>1, <4>2
      <3>7. CASE call[c].doc < call[a].landed
        BY <3>4, <3>7 DEF TakesMark
      <3>8. CASE call[c].op \notin BringsMarks /\ ~(call[c].doc < call[a].landed)
        <4>1. /\ call[c].doc \in call[a].landed .. Now
              /\ call[c].op \in Updates => call[c].again \in call[a].landed .. Now
          BY <2>1, <3>2, <3>8
        <4>2. CASE call[c].op \in Decisions
          \* it saw the mark, which therefore was put back before
          <5>1. \E w \in Landed' : call'[w].landed <= i /\ TakesMark(w, a)'
            <6>1. i \in call[c].doc .. Now'
              BY <1>1, <3>1, <3>2
            <6> QED
              BY <2>2, <3>2, <4>1, <4>2, <6>1
          <5> QED
            BY <5>1
        <4>3. CASE call[c].op \notin Decisions
          <5>1. \/ Written(c).suggestion = log[call[c].doc].suggestion
                \/ call[c].op \in Updates /\ Written(c).suggestion = log[call[c].again].suggestion
            BY <3>3, <3>8, <4>3 DEF Decisions
          <5> QED
            BY <3>1, <3>5, <4>1, <5>1
        <4> QED
          BY <4>2, <4>3
      <3> QED
        BY <3>6, <3>7, <3>8
    <2>7. CASE i > Now /\ Now' = Now
      BY <1>1, <2>1, <2>7
    <2> QED
      BY <1>1, <2>1, <2>4, <2>5, <2>6, <2>7 DEF Grows
  <1>3. CASE a \notin Landed
    <2>1. PICK c \in Calls : WritesRow(c)
      BY <1>3 DEF Grows, CopiesRow
    <2>2. a = c
      BY <1>3, <2>1 DEF WritesRow
    <2>3. /\ AtBatch(a) /\ Now' = Now + 1 /\ log'[Now + 1] = Written(a)
          /\ call'[a].op = call[a].op /\ call'[a].landed = Now + 1
          /\ call'[a].structured = call[a].structured
      BY <2>1, <2>2 DEF WritesRow
    <2>4. i = Now + 1
      BY <1>1, <2>3
    <2>5. call[a].op \in Updates /\ call[a].op = "accept" /\ a \in Calls
      BY <2>2, <2>3 DEF Updates, KeepsText
    <2>6. Written(a).suggestion = IF call[a].op \in BringsMarks THEN log[call[a].look].suggestion
                                  ELSE IF call[a].op = "accept" THEN Accepted(a)
                                  ELSE log[call[a].again].suggestion
      BY <2>1, <2>2, <2>5, WrittenRow DEF WritesRow
    <2>7. Accepted(a) = "gone"
      BY <2>3 DEF Accepted
    <2> QED
      BY <2>3, <2>4, <2>5, <2>6, <2>7 DEF BringsMarks
  <1> QED
    BY <1>2, <1>3

-----------------------------------------------------------------------------
(* Revisions.                                                              *)

\* What excused two revisions still does, for every later entry.
LEMMA ExcuseStays ==
    ASSUME BaseInv, Grows, NEW i \in 1 .. Now, NEW j \in 1 .. Now, NEW k \in j .. Now',
           Excused(i, j)
    PROVE  Excused(i, k)'
  <1>1. PICK w \in Calls : /\ CountedFromOld(w) /\ call[w].landed <= j
                           /\ log[call[w].landed].rev <= log[i].rev
    BY DEF Excused
  <1>2. w \in Landed /\ Settled(w) /\ call[w].landed > 0 /\ call[w].op \in Updates
    BY <1>1 DEF CountedFromOld, Landed, Grows
  <1>3. /\ Now \in Nat /\ call[w].landed \in 2 .. Now
        /\ call[w].again \in 1 .. call[w].landed - 1
    BY <1>2, ThisCall DEF Reads
  <1>4. /\ log'[i] = log[i] /\ log'[call[w].landed] = log[call[w].landed]
        /\ log'[call[w].landed - 1] = log[call[w].landed - 1]
        /\ log'[call[w].again] = log[call[w].again]
    BY <1>3 DEF Grows
  <1>5. /\ call'[w].landed = call[w].landed /\ call'[w].again = call[w].again
        /\ call'[w].op = call[w].op /\ w \in Landed'
    BY <1>2 DEF Settled, Landed
  <1>6. CountedFromOld(w)'
    BY <1>1, <1>4, <1>5 DEF CountedFromOld
  <1>7. call'[w].landed <= k
    BY <1>1, <1>3, <1>5
  <1> QED
    BY <1>1, <1>4, <1>5, <1>6, <1>7 DEF Excused

LEMMA RevKept ==
    ASSUME BaseInv, RevInv, Grows, NEW i \in 1 .. Now', NEW j \in 1 .. Now', i <= j
    PROVE  \/ Excused(i, j)'
           \/ log'[i].rev < log'[j].rev
           \/ log'[i].rev = log'[j].rev /\ log'[i].text = log'[j].text
  <1>1. LogInv /\ Now \in Nat \ {0} /\ Now' >= Now /\ Row = log[Now]
        /\ \A k \in 1 .. Now : log'[k] = log[k]
    BY DEF Grows, BaseInv, LogInv, Now, Row
  <1>2. \A k \in 1 .. Now : log[k].rev \in Nat \ {0}
    BY <1>1, EntryOfLog
  <1>3. ASSUME NEW k \in 1 .. Now, NEW l \in k .. Now
        PROVE  \/ Excused(k, l)
               \/ log[k].rev < log[l].rev
               \/ log[k].rev = log[l].rev /\ log[k].text = log[l].text
    BY <1>1 DEF RevInv
  <1>4. CASE j <= Now
    <2>1. i \in 1 .. Now /\ j \in i .. Now /\ j \in 1 .. Now /\ j \in j .. Now'
      BY <1>1, <1>4
    <2>2. Excused(i, j) => Excused(i, j)'
      BY <2>1, ExcuseStays
    <2>3. log'[i] = log[i] /\ log'[j] = log[j]
      BY <1>1, <2>1
    <2> QED
      BY <1>3, <2>1, <2>2, <2>3
  <1>5. CASE j > Now /\ i = j
    BY <1>5
  <1>6. CASE j > Now /\ i < j
    <2>1. Now' = Now + 1 /\ j = Now + 1 /\ i \in 1 .. Now
      BY <1>1, <1>6 DEF Grows, CopiesRow, WritesRow
    <2>2. log'[i] = log[i] /\ i \in i .. Now /\ Now \in i .. Now /\ Now \in 1 .. Now
          /\ j \in Now .. Now'
      BY <1>1, <2>1
    <2>3. Excused(i, Now) => Excused(i, j)'
      BY <2>1, <2>2, ExcuseStays
    <2>4. \/ Excused(i, Now)
          \/ log[i].rev < log[Now].rev
          \/ log[i].rev = log[Now].rev /\ log[i].text = log[Now].text
      BY <1>3, <2>1, <2>2
    <2>5. CASE log'[j].rev = log[Now].rev /\ log'[j].text = log[Now].text
      BY <2>2, <2>3, <2>4, <2>5
    <2>6. ASSUME NEW c \in Calls, WritesRow(c), call[c].op \in Updates
          PROVE  \/ Excused(i, j)'
                 \/ log'[i].rev < log'[j].rev
                 \/ log'[i].rev = log'[j].rev /\ log'[i].text = log'[j].text
      <3>1. log'[j] = Written(c) /\ AtBatch(c)
        BY <2>1, <2>6 DEF WritesRow
      <3>2. call[c].again \in 1 .. Now
        BY <1>1, <2>6, WriterReads
      <3>3. /\ call[c].op \in KeepsText => /\ log'[j].rev = log[call[c].again].rev
                                       /\ log'[j].text = log[call[c].again].text
            /\ call[c].op \notin KeepsText => log'[j].rev = log[call[c].again].rev + 1
        <4>1. /\ Written(c).text = IF call[c].op \in KeepsText THEN log[call[c].again].text
                                   ELSE IF call[c].op \in Whole THEN log[call[c].look].text \cup {c}
                                   ELSE log[call[c].doc].text \cup {c}
              /\ Written(c).rev = IF call[c].op \in KeepsText THEN log[call[c].again].rev
                                  ELSE log[call[c].again].rev + 1
          BY <2>6, <3>1, WrittenRow
        <4> QED
          BY <3>1, <4>1
      <3>4. log'[j].rev \in Nat
        BY <1>2, <3>2, <3>3
      <3>5. CASE log[call[c].again].rev # log[Now].rev
        <4>1. /\ c \in Landed' /\ call'[c].landed = j /\ call'[c].again = call[c].again
              /\ call'[c].op = call[c].op /\ j - 1 = Now
          BY <1>1, <2>1, <2>6 DEF WritesRow
        <4>2. log'[call[c].again] = log[call[c].again] /\ log'[Now] = log[Now]
          BY <1>1, <2>2, <3>2
        <4>3. CountedFromOld(c)'
          BY <2>6, <3>5, <4>1, <4>2 DEF CountedFromOld
        <4>4. log'[j].rev <= log'[i].rev => Excused(i, j)'
          BY <4>1, <4>3 DEF Excused
        <4>5. log'[j].rev <= log'[i].rev \/ log'[i].rev < log'[j].rev
          BY <1>2, <2>1, <2>2, <3>4
        <4> QED
          BY <4>4, <4>5
      <3>6. CASE log[call[c].again].rev = log[Now].rev /\ call[c].op \notin KeepsText
        <4>1. log'[j].rev = log[Now].rev + 1
          BY <3>3, <3>6
        <4> QED
          BY <1>2, <2>1, <2>2, <2>3, <2>4, <4>1
      <3>7. CASE log[call[c].again].rev = log[Now].rev /\ call[c].op \in KeepsText
        <4>1. \/ Excused(call[c].again, Now)
              \/ log[call[c].again].text = log[Now].text
          <5>1. Now \in call[c].again .. Now
            BY <1>1, <3>2
          <5>2. \/ Excused(call[c].again, Now)
                \/ log[call[c].again].rev < log[Now].rev
                \/ log[call[c].again].text = log[Now].text
            BY <1>3, <3>2, <5>1
          <5> QED
            BY <1>2, <2>2, <3>7, <5>2
        <4>2. Excused(call[c].again, Now) /\ log[i].rev = log[Now].rev => Excused(i, Now)
          BY <3>7 DEF Excused
        <4>3. log'[j].rev = log[Now].rev /\ log'[j].text = log[call[c].again].text
          BY <3>3, <3>7
        <4> QED
          BY <2>2, <2>3, <2>4, <4>1, <4>2, <4>3
      <3> QED
        BY <3>5, <3>6, <3>7
    <2>7. ASSUME NEW c \in Calls, WritesRow(c), call[c].op \notin Updates
          PROVE  log'[j].rev = log[Now].rev /\ log'[j].text = log[Now].text
      <3>1. log'[j] = Written(c) /\ AtBatch(c)
        BY <2>1, <2>7 DEF WritesRow
      <3>2. Written(c).text = Row.text /\ Written(c).rev = Row.rev
        BY <2>7, <3>1, WrittenRow
      <3> QED
        BY <1>1, <3>1, <3>2
    <2>8. CASE CopiesRow
      BY <1>1, <2>1, <2>5, <2>8 DEF CopiesRow
    <2>9. ~(Now' = Now)
      BY <1>1, <2>1
    <2> QED
      BY <2>5, <2>6, <2>7, <2>8, <2>9 DEF Grows
  <1> QED
    BY <1>1, <1>4, <1>5, <1>6 DEF Grows, CopiesRow, WritesRow

-----------------------------------------------------------------------------
LEMMA Inductive == IInv /\ [Next]_vars => IInv'
  <1> SUFFICES ASSUME IInv, [Next]_vars PROVE IInv'
    OBVIOUS
  <1>1. BaseInv /\ TextInv /\ CommentInv /\ GoneInv /\ RevInv
    BY DEF IInv
  <1>2. BaseInv' /\ Grows
    BY <1>1, BaseStep, LogGrows
  <1>3. TextInv'
    BY <1>1, <1>2, TextKept DEF TextInv
  <1>4. CommentInv'
    BY <1>1, <1>2, CommentKept DEF CommentInv
  <1>5. GoneInv'
    BY <1>1, <1>2, GoneKept DEF GoneInv
  <1>6. RevInv'
    BY <1>1, <1>2, RevKept DEF RevInv
  <1> QED
    BY <1>2, <1>3, <1>4, <1>5, <1>6 DEF IInv

LEMMA InitIInv == Init => IInv
  <1> SUFFICES ASSUME Init PROVE IInv
    OBVIOUS
  <1>1. BaseInv
    BY BaseInit
  <1>2. Landed = {}
    BY DEF Init, Landed, Idle
  <1>3. Now = 1
    BY DEF Init, Now
  <1>4. RevInv
    BY <1>3 DEF RevInv
  <1> QED
    BY <1>1, <1>2, <1>4 DEF IInv, TextInv, CommentInv, GoneInv

LEMMA AlwaysIInv == Spec => []IInv
  BY InitIInv, Inductive, PTL DEF Spec

\* The variables have their types whatever number of requests comes and whatever
\* the size of a page: in particular a poll hands on the events after its cursor
\* without a gap, and no handler acts on a row that is not committed yet.
THEOREM TypeCorrect == Spec => []TypeOK
  <1>1. IInv => TypeOK
    BY DEF IInv, BaseInv
  <1> QED
    BY <1>1, AlwaysIInv, PTL

\* A change that was answered as saved is missing from the row only because of a
\* request that overlapped it, or of a rewrite or PUT whose client had an older
\* copy: it was lost at some entry, whose writer had read an entry from before.
THEOREM LossesAreOverlaps == Spec => []LostOnlyToOverlap
  <1>1. ASSUME IInv PROVE LostOnlyToOverlap
    <2>1. ASSUME NEW x \in Landed PROVE Now \in call[x].landed .. Now
      <3>1. Now \in Nat /\ call[x].landed \in 0 .. Now
        BY <1>1, ThisCall DEF IInv, Landed
      <3> QED
        BY <3>1
    <2>2. ASSUME NEW x \in Landed, call[x].op \in TextChanges, x \notin Row.text
          PROVE  \E w \in Landed : TakesText(w, x)
      BY <1>1, <2>1, <2>2 DEF IInv, TextInv, Row
    <2>3. ASSUME NEW x \in Landed, call[x].op = "comment", x \notin Row.comments
          PROVE  \E w \in Landed : TakesMark(w, x)
      BY <1>1, <2>1, <2>3 DEF IInv, CommentInv, Row
    <2> QED
      BY <2>2, <2>3 DEF LostOnlyToOverlap, TakesText, TakesMark
  <1> QED
    BY <1>1, AlwaysIInv, PTL

\* The precondition of edit v2 does what it is there for unless revisions were
\* counted twice: revisions grow along the log and each stands for one text, but
\* for those that an update counted from a row that was no longer current.
THEOREM PreconditionHolds == Spec => []BaseIsHonoured
  <1>1. ASSUME IInv PROVE BaseIsHonoured
    <2>1. ASSUME NEW c \in Calls, call[c].op = "editV2", call[c].doc > 0,
                 log[call[c].look].text # log[call[c].doc].text
          PROVE  Excused(call[c].look, call[c].doc)
      <3>1. /\ LogInv /\ Now \in Nat /\ call[c].doc \in 0 .. Now
            /\ Reads(c)
        BY <1>1, ThisCall DEF IInv, BaseInv
      <3>2. /\ call[c].look \in 1 .. call[c].doc
            /\ log[call[c].look].rev = log[call[c].doc].rev
        BY <2>1, <3>1 DEF Reads, ClientLooks, BringsMarks
      <3>3. call[c].look \in 1 .. Now /\ call[c].doc \in 1 .. Now
            /\ call[c].look <= call[c].doc
        BY <2>1, <3>1, <3>2
      <3>4. log[call[c].look].rev \in Nat /\ log[call[c].doc].rev \in Nat
        BY <3>1, <3>3, EntryOfLog
      <3>5. \/ Excused(call[c].look, call[c].doc)
            \/ log[call[c].look].rev < log[call[c].doc].rev
            \/ log[call[c].look].text = log[call[c].doc].text
        BY <1>1, <3>3 DEF IInv, RevInv
      <3> QED
        BY <2>1, <3>2, <3>4, <3>5
    <2> QED
      BY <2>1 DEF BaseIsHonoured, Excused
  <1> QED
    BY <1>1, AlwaysIInv, PTL

\* Once an accept went through rehydration, the mark is gone from every later row
\* until a request that had read it before, or a PUT of an older copy, puts it
\* back: no decision that reads after that applies the suggestion again.
THEOREM AcceptedOnce == Spec => []AppliedOnce
  <1>1. ASSUME IInv PROVE AppliedOnce
    <2>1. ASSUME NEW a \in Landed, NEW b \in Landed, call[a].op = "accept",
                 call[b].op = "accept", call[a].landed < call[b].landed,
                 ~(call[b].doc < call[a].landed), call[a].structured
          PROVE  \E w \in Landed : call[w].landed <= call[b].doc /\ TakesMark(w, a)
      <3>1. /\ Now \in Nat /\ call[b].landed \in 0 .. Now /\ call[a].landed \in 0 .. Now
            /\ call[a].landed > 0 /\ call[b].landed > 0 /\ Reads(b)
        BY <1>1, ThisCall DEF IInv, Landed
      <3>2. /\ call[b].doc \in 1 .. call[b].landed - 1
            /\ log[call[b].doc].suggestion # "gone"
        BY <2>1, <3>1 DEF Reads, Decisions
      <3>3. call[b].doc \in call[a].landed .. Now
        BY <2>1, <3>1, <3>2
      <3> QED
        BY <1>1, <2>1, <3>2, <3>3 DEF IInv, GoneInv
    <2> QED
      BY <2>1 DEF AppliedOnce, TakesMark
  <1> QED
    BY <1>1, AlwaysIInv, PTL

=============================================================================
