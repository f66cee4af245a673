-------------------------- MODULE ConvoBridge_proofs ---------------------------
(***************************************************************************)
(* Proofs about ConvoBridge, for every set of streams and every bound.     *)
(* Type correctness comes first.  The safety properties are then drawn     *)
(* from one inductive invariant: while the count of a session is           *)
(* undisturbed, the number of ends a stream still has to skip, added to    *)
(* the input its next entry answers, is its own input.                     *)
(***************************************************************************)
EXTENDS ConvoBridge, TLAPS

-----------------------------------------------------------------------------
(* Type correctness.                                                       *)

\* TurnAt yields an input number up to one past the end of the transcript.
LEMMA TurnAtType ==
  ASSUME NEW l \in Seq(Entry), NEW i \in 1..(Len(l) + 1)
  PROVE  TurnAt(l, i) \in Nat \ {0}
  <1>1. CASE i = 1
    BY <1>1 DEF TurnAt
  <1>2. CASE i # 1
    <2>1. l[i - 1] \in Entry
      BY <1>2
    <2>2. QED
      BY <1>2, <2>1 DEF TurnAt, Entry
  <1>3. QED
    BY <1>1, <1>2

\* Moving the cursor of a stream, with or without another field, leaves a stream.
LEMMA StreamUpdate ==
  ASSUME NEW r \in Stream
  PROVE  /\ \A h \in SUBSET Nat : [r EXCEPT !.next = r.next + 1, !.heard = h] \in Stream
         /\ \A k \in Nat : [r EXCEPT !.next = r.next + 1, !.skip = k] \in Stream
         /\ \A st \in Status : [r EXCEPT !.next = r.next + 1, !.status = st] \in Stream
         /\ \A st \in Status : [r EXCEPT !.status = st] \in Stream
         /\ \A k \in Nat : [r EXCEPT !.limit = k] \in Stream
  <1>1. PICK n \in Nat \ {0} : n = r.next + 1
    BY DEF Stream
  <1>2. ASSUME NEW h \in SUBSET Nat PROVE [r EXCEPT !.next = n, !.heard = h] \in Stream
    BY DEF Stream
  <1>3. ASSUME NEW k \in Nat PROVE [r EXCEPT !.next = n, !.skip = k] \in Stream
    BY DEF Stream
  <1>4. ASSUME NEW st \in Status PROVE [r EXCEPT !.next = n, !.status = st] \in Stream
    BY DEF Stream
  <1>5. ASSUME NEW st \in Status PROVE [r EXCEPT !.status = st] \in Stream
    BY DEF Stream
  <1>6. ASSUME NEW k \in Nat PROVE [r EXCEPT !.limit = k] \in Stream
    BY DEF Stream
  <1>7. QED
    BY <1>1, <1>2, <1>3, <1>4, <1>5, <1>6

\* The step of each action keeps every variable within its type.
LEMMA TypeStep == TypeOK /\ [Next]_vars => TypeOK'
  <1> SUFFICES ASSUME TypeOK, [Next]_vars PROVE TypeOK'
    OBVIOUS
  <1> USE ConvoBridgeAssumption
  <1>0. DetachActive \in [Streams -> Stream]
    BY DEF TypeOK, DetachActive, Stream
  <1>1. ASSUME NEW s \in Streams, Turn(s) PROVE TypeOK'
    <2>1. NewStream \in Stream
      BY DEF TypeOK, NewStream, Stream, Status, SkipAtTurn
    <2>2. stream' \in [Streams -> Stream]
      BY <1>0, <1>1, <2>1 DEF Turn
    <2>3. QED
      BY <1>1, <2>2 DEF Turn, TypeOK
  <1>2. ASSUME NEW s \in Streams, BeginSend(s) PROVE TypeOK'
    <2>1. [stream[s] EXCEPT !.status = "sending", !.session = epoch] \in Stream
      BY DEF TypeOK, Stream, Status
    <2>2. stream' \in [Streams -> Stream]
      BY <1>2, <2>1 DEF BeginSend, TypeOK
    <2>3. QED
      BY <1>2, <2>2 DEF BeginSend, TypeOK
  <1>3. ASSUME NEW s \in Streams, Submit(s) PROVE TypeOK'
    <2> DEFINE own == IF stream[s].session = stream[s].epoch
                      THEN submitted[stream[s].session] + 1 ELSE 0
    <2>1. own \in Nat
      BY DEF TypeOK, Stream
    <2> HIDE DEF own
    <2>2. [stream[s] EXCEPT !.status = "sent", !.own = own] \in Stream
      BY <2>1 DEF TypeOK, Stream, Status
    <2>3. stream' \in [Streams -> Stream]
      BY <1>3, <2>2 DEF Submit, TypeOK, own
    <2> DEFINE e == stream[s].session
    <2>4. submitted' = [submitted EXCEPT ![e] = submitted[e] + 1]
      BY <1>3 DEF Submit
    <2>5. CASE e \in Epochs
      BY <1>3, <2>3, <2>4, <2>5 DEF Submit, TypeOK
    <2>6. CASE e \notin Epochs
      <3>1. submitted' = submitted
        BY <2>4, <2>6 DEF TypeOK
      <3>2. QED
        BY <1>3, <2>3, <3>1 DEF Submit, TypeOK
    <2>7. QED
      BY <2>5, <2>6
  <1>4. ASSUME NEW s \in Streams, SendDone(s) PROVE TypeOK'
    <2>1. [stream[s] EXCEPT !.status = "receiving"] \in Stream
      BY DEF TypeOK, Stream, Status
    <2>2. stream' \in [Streams -> Stream]
      BY <1>4, <2>1 DEF SendDone, TypeOK
    <2>3. QED
      BY <1>4, <2>2 DEF SendDone, TypeOK
  <1>5. ASSUME NEW s \in Streams, TakeText(s) PROVE TypeOK'
    <2>1. HeardAfterText(s) \in SUBSET Nat
      BY DEF HeardAfterText, TypeOK, Stream
    <2>2. [stream[s] EXCEPT !.next = stream[s].next + 1, !.heard = HeardAfterText(s)] \in Stream
      BY <2>1, StreamUpdate DEF TypeOK
    <2>3. stream' \in [Streams -> Stream]
      BY <1>5, <2>2 DEF TakeText, TypeOK
    <2>4. QED
      BY <1>5, <2>3 DEF TakeText, TypeOK
  <1>6. ASSUME NEW s \in Streams, SkipEnd(s) PROVE TypeOK'
    <2>1. stream[s] \in Stream /\ stream[s].skip - 1 \in Nat
      BY <1>6, SMTT(30) DEF SkipEnd, AtOwnEnd, TypeOK, Stream
    <2>2. stream' \in [Streams -> Stream]
      BY <1>6, <2>1, StreamUpdate DEF SkipEnd, TypeOK
    <2>3. QED
      BY <1>6, <2>2 DEF SkipEnd, TypeOK
  <1>7. ASSUME NEW s \in Streams, TakeOwnEnd(s) PROVE TypeOK'
    <2>1. [stream[s] EXCEPT !.next = stream[s].next + 1, !.status = "done"] \in Stream
      BY StreamUpdate DEF TypeOK, Status
    <2>2. stream' \in [Streams -> Stream]
      BY <1>7, <2>1 DEF TakeOwnEnd, TypeOK
    <2>3. QED
      BY <1>7, <2>2 DEF TakeOwnEnd, Release, TypeOK
  <1>8. ASSUME NEW s \in Streams, EndQuietly(s) PROVE TypeOK'
    <2>1. [stream[s] EXCEPT !.status = "done"] \in Stream
      BY DEF TypeOK, Stream, Status
    <2>2. stream' \in [Streams -> Stream]
      BY <1>8, <2>1 DEF EndQuietly, TypeOK
    <2>3. QED
      BY <1>8, <2>2 DEF EndQuietly, Release, TypeOK
  <1>9. ASSUME NEW s \in Streams, Abandon(s) PROVE TypeOK'
    <2>1. [stream[s] EXCEPT !.status = "abandoned"] \in Stream
      BY DEF TypeOK, Stream, Status
    <2>2. stream' \in [Streams -> Stream]
      BY <1>9, <2>1 DEF Abandon, TypeOK
    <2>3. disturbed' \in [Epochs -> BOOLEAN]
      BY <1>9 DEF Abandon, TypeOK
    <2>4. QED
      BY <1>9, <2>2, <2>3 DEF Abandon, Release, TypeOK
  <1>10. ASSUME Poll PROVE TypeOK'
    <2>1. CountEnd(log[epoch][read + 1]) \in Nat
      BY DEF CountEnd, TypeOK
    <2>2. stream' \in [Streams -> Stream]
      <3>1. \A s \in Streams : stream[s] \in Stream /\ read + 1 \in Nat
        BY DEF TypeOK
      <3>2. \A s \in Streams : [stream[s] EXCEPT !.limit = read + 1] \in Stream
        BY <3>1, StreamUpdate
      <3>3. stream' = [s \in Streams |-> IF s = turnQueue
                                         THEN [stream[s] EXCEPT !.limit = read + 1]
                                         ELSE stream[s]]
        BY <1>10 DEF Poll
      <3>4. QED
        BY <3>1, <3>2, <3>3
    <2>3. disturbed' \in [Epochs -> BOOLEAN]
      BY <1>10 DEF Poll, TypeOK
    <2>4. QED
      BY <1>10, <2>1, <2>2, <2>3 DEF Poll, TypeOK
  <1>11. ASSUME Reset PROVE TypeOK'
    BY <1>0, <1>11 DEF Reset, UnfinishedAfterReset, TypeOK, Epochs
  <1>12. ASSUME Close PROVE TypeOK'
    BY <1>0, <1>12 DEF Close, TypeOK
  <1>13. ASSUME NEW end \in BOOLEAN, Write(end) PROVE TypeOK'
    <2>1. log[epoch] \in Seq(Entry)
      BY DEF TypeOK
    <2>2. Answering \in Nat \ {0}
      BY <2>1, TurnAtType DEF Answering
    <2>3. Append(log[epoch], [turn |-> Answering, end |-> end]) \in Seq(Entry)
      BY <2>1, <2>2 DEF Entry
    <2>4. QED
      BY <1>13, <2>3 DEF Write, TypeOK
  <1>14. ASSUME LaptopInput PROVE TypeOK'
    BY <1>14 DEF LaptopInput, TypeOK
  <1>15. CASE UNCHANGED vars
    BY <1>15 DEF vars, TypeOK
  <1>16. QED
    BY <1>1, <1>2, <1>3, <1>4, <1>5, <1>6, <1>7, <1>8, <1>9, <1>10, <1>11, <1>12,
       <1>13, <1>14, <1>15 DEF Next, StreamStep, SessionText, SessionEnd

\* The bridge starts in a typed state.
LEMMA InitTypeOK == Init => TypeOK
  <1> SUFFICES ASSUME Init PROVE TypeOK
    OBVIOUS
  <1>1. 1 \in Epochs
    BY ConvoBridgeAssumption DEF Epochs
  <1>2. log \in [Epochs -> Seq(Entry)]
    <2>1. <<>> \in Seq(Entry)
      OBVIOUS
    <2>2. QED
      BY <2>1 DEF Init
  <1>3. stream \in [Streams -> Stream]
    <2>1. Unused \in Stream
      BY <1>1 DEF Unused, Stream, Status
    <2>2. QED
      BY <2>1 DEF Init
  <1>4. disturbed \in [Epochs -> BOOLEAN] /\ submitted \in [Epochs -> Nat]
    BY DEF Init
  <1>5. QED
    BY <1>1, <1>2, <1>3, <1>4 DEF Init, TypeOK

\* Every variable of the bridge keeps its type, whatever the streams and bounds.
THEOREM TypeCorrect == Spec => []TypeOK
  BY InitTypeOK, TypeStep, PTL DEF Spec

-----------------------------------------------------------------------------
(* The inductive invariant.                                                *)

\* Transcripts answer the inputs in order, and only inputs that were submitted.
LogInv ==
  \A e \in Epochs : \A i \in 1..Len(log[e]) :
    /\ log[e][i].turn = TurnAt(log[e], i)
    /\ log[e][i].turn <= submitted[e]
    /\ \A j \in 1..Len(log[e]) : i < j =>
         /\ log[e][i].turn <= log[e][j].turn
         /\ log[e][i].end => log[e][i].turn < log[e][j].turn

\* Queues are intervals of what run() has polled; the active one ends at `read'.
CursorInv ==
  /\ read <= Len(log[epoch])
  /\ \A s \in Streams :
       /\ stream[s].epoch <= epoch
       /\ stream[s].next <= stream[s].limit + 1
       /\ stream[s].limit <= Len(log[stream[s].epoch])
  /\ turnQueue # None => /\ stream[turnQueue].status # "unused"
                         /\ stream[turnQueue].epoch = epoch
                         /\ stream[turnQueue].limit = read

\* In an undisturbed session at most one text is on its way, and it is this
\* session's; texts that crossed a reset disturbed both sessions.
PendingInv ==
  /\ \A s \in Pending :
       /\ stream[s].epoch # epoch => disturbed[stream[s].epoch]
       /\ ~disturbed[epoch] => stream[s].epoch = epoch
       /\ stream[s].status # "created" =>
            /\ stream[s].session \in stream[s].epoch..epoch
            /\ stream[s].session # epoch => disturbed[stream[s].session]
  /\ ~disturbed[epoch] => \A s, t \in Pending : s = t

\* Inputs submitted but not yet counted in _unfinished.
Uncounted == IF \E s \in Streams : stream[s].status = "sent" THEN 1 ELSE 0

\* _unfinished accounts for the inputs a session has not answered yet; a session
\* still to come has been given none.
DebtInv ==
  /\ \A e \in Epochs : e > epoch => submitted[e] = 0
  /\ ~disturbed[epoch] =>
       unfinished + Uncounted + TurnAt(log[epoch], read + 1) = submitted[epoch] + 1

\* The entries of its own reply that stream s has gone past.
PassedReply(s) ==
  ReplyTo(log[stream[s].epoch], stream[s].own) \cap 1..(stream[s].next - 1)

UnsentInv(s) ==
  /\ stream[s].skip + TurnAt(log[stream[s].epoch], stream[s].next)
       = submitted[stream[s].epoch] + 1
  /\ stream[s].heard = {}

SentInv(s) ==
  /\ stream[s].skip + TurnAt(log[stream[s].epoch], stream[s].next) = stream[s].own
  /\ stream[s].own <= submitted[stream[s].epoch]
  /\ stream[s].heard = PassedReply(s)

EndedByOwnEndInv(s) ==
  LET l == log[stream[s].epoch]
      last == stream[s].next - 1
  IN  /\ last \in 1..Len(l)
      /\ l[last].end
      /\ l[last].turn = stream[s].own
      /\ stream[s].heard = PassedReply(s)

\* What the streams of an undisturbed session have in common.
StreamOK(s) ==
  ~disturbed[stream[s].epoch] =>
    /\ stream[s].status \in {"created", "sending"} => UnsentInv(s)
    /\ stream[s].status \in {"sent", "receiving"} => SentInv(s)
    /\ stream[s].status = "done" /\ ~stream[s].ended => EndedByOwnEndInv(s)
    /\ stream[s].heard \subseteq ReplyTo(log[stream[s].epoch], stream[s].own)

StreamInv == \A s \in Streams : StreamOK(s)

IInv == LogInv /\ CursorInv /\ PendingInv /\ DebtInv /\ StreamInv

-----------------------------------------------------------------------------
(* Facts about transcripts and streams the steps below share.              *)

\* Appending an entry leaves the inputs that earlier positions answer as they are.
LEMMA TurnAtAppend ==
  ASSUME NEW l \in Seq(Entry), NEW x \in Entry, NEW i \in 1..(Len(l) + 1)
  PROVE  TurnAt(Append(l, x), i) = TurnAt(l, i)
  <1>1. i # 1 => Append(l, x)[i - 1] = l[i - 1]
    OBVIOUS
  <1>2. QED
    BY <1>1 DEF TurnAt

\* What position i answers is no earlier than what any entry before it answers,
\* and later than every answer ended before it.
LEMMA TurnAtLater ==
  ASSUME TypeOK, LogInv, NEW e \in Epochs,
         NEW i \in 1..(Len(log[e]) + 1), NEW j \in 1..(i - 1)
  PROVE  /\ j \in 1..Len(log[e])
         /\ log[e][j].turn <= TurnAt(log[e], i)
         /\ log[e][j].end => log[e][j].turn < TurnAt(log[e], i)
  <1>1. log[e] \in Seq(Entry) /\ i - 1 \in 1..Len(log[e]) /\ j \in 1..Len(log[e])
    BY DEF TypeOK
  <1>2. log[e][j] \in Entry /\ log[e][i - 1] \in Entry
    BY <1>1
  <1>3. TurnAt(log[e], i) = IF log[e][i - 1].end THEN log[e][i - 1].turn + 1
                                                 ELSE log[e][i - 1].turn
    BY DEF TurnAt
  <1>4. CASE j = i - 1
    BY <1>1, <1>2, <1>3, <1>4 DEF Entry
  <1>5. CASE j < i - 1
    <2>1. log[e][j].turn <= log[e][i - 1].turn
      BY <1>1, <1>5 DEF LogInv
    <2>2. log[e][j].end => log[e][j].turn < log[e][i - 1].turn
      BY <1>1, <1>5 DEF LogInv
    <2>3. QED
      BY <1>1, <1>2, <1>3, <2>1, <2>2 DEF Entry
  <1>6. QED
    BY <1>4, <1>5, <1>1

\* Detaching the active stream marks its queue and changes nothing else.
LEMMA DetachFields ==
  ASSUME TypeOK, NEW t \in Streams
  PROVE  /\ DetachActive[t].status = stream[t].status
         /\ DetachActive[t].epoch = stream[t].epoch
         /\ DetachActive[t].session = stream[t].session
         /\ DetachActive[t].skip = stream[t].skip
         /\ DetachActive[t].next = stream[t].next
         /\ DetachActive[t].limit = stream[t].limit
         /\ DetachActive[t].own = stream[t].own
         /\ DetachActive[t].heard = stream[t].heard
         /\ ~DetachActive[t].ended => ~stream[t].ended
  <1>1. stream[t] \in Stream
    BY DEF TypeOK
  <1>2. DetachActive[t] = IF t = turnQueue THEN [stream[t] EXCEPT !.ended = TRUE] ELSE stream[t]
    BY DEF DetachActive
  <1>3. QED
    BY <1>1, <1>2 DEF Stream

-----------------------------------------------------------------------------
(* Each part of the invariant is kept by every step.                       *)

\* Transcripts stay in order: only the session writes, at the end, and only
\* about inputs it was given.
LEMMA LogStep == TypeOK /\ LogInv /\ [Next]_vars => LogInv'
  <1> SUFFICES ASSUME TypeOK, LogInv, [Next]_vars PROVE LogInv'
    OBVIOUS
  <1>1. CASE log' = log /\ \A e \in Epochs : submitted[e] <= submitted'[e]
    <2>1. \A e \in Epochs : submitted[e] \in Nat /\ log[e] \in Seq(Entry)
      BY DEF TypeOK
    <2>2. \A e \in Epochs : submitted'[e] \in Nat
      BY TypeStep DEF TypeOK
    <2>3. \A e \in Epochs : \A i \in 1..Len(log[e]) : log[e][i].turn \in Nat
      <3>1. \A e \in Epochs : \A i \in 1..Len(log[e]) : log[e][i] \in Entry
        BY <2>1
      <3>2. QED
        BY <3>1 DEF Entry
    <2>4. QED
      BY <1>1, <2>1, <2>2, <2>3 DEF LogInv, TurnAt
  <1>2. ASSUME NEW end \in BOOLEAN, Write(end) PROVE LogInv'
    <2> DEFINE l == log[epoch]
               x == [turn |-> Answering, end |-> end]
    <2>1. l \in Seq(Entry) /\ epoch \in Epochs
      BY DEF TypeOK
    <2>2. Answering \in Nat \ {0} /\ Answering = TurnAt(l, Len(l) + 1)
      BY <2>1, TurnAtType DEF Answering
    <2>3. x \in Entry
      BY <2>2 DEF Entry
    <2>4. /\ \A e \in Epochs : e # epoch => log'[e] = log[e]
          /\ log'[epoch] = Append(l, x)
          /\ submitted' = submitted
      BY <1>2, <2>1 DEF Write, TypeOK
    <2>5. Answering <= submitted[epoch]
      BY <1>2 DEF Write
    <2> SUFFICES ASSUME NEW e \in Epochs, NEW i \in 1..Len(log'[e])
                 PROVE  /\ log'[e][i].turn = TurnAt(log'[e], i)
                        /\ log'[e][i].turn <= submitted'[e]
                        /\ \A j \in 1..Len(log'[e]) : i < j =>
                             /\ log'[e][i].turn <= log'[e][j].turn
                             /\ log'[e][i].end => log'[e][i].turn < log'[e][j].turn
      BY DEF LogInv
    <2>6. CASE e # epoch
      BY <2>4, <2>6 DEF LogInv
    <2>7. CASE e = epoch
      <3> DEFINE n == Len(l)
                 m == log'[e]
      <3>0. m = Append(l, x) /\ submitted'[e] = submitted[epoch]
        BY <2>4, <2>7
      <3>1. /\ Len(m) = n + 1 /\ n \in Nat
            /\ m[n + 1] = x
            /\ \A k \in 1..n : m[k] = l[k]
        BY <2>1, <2>3, <3>0
      <3>2. TurnAt(m, i) = TurnAt(l, i)
        BY <2>1, <2>3, <3>0, <3>1, TurnAtAppend
      <3>3. CASE i = n + 1
        <4>1. m[i].turn = TurnAt(l, i) /\ m[i].turn <= submitted[epoch]
          BY <2>2, <2>5, <3>1, <3>3
        <4>2. \A j \in 1..Len(m) : ~(i < j)
          BY <3>1, <3>3
        <4>3. QED
          BY <3>0, <3>2, <4>1, <4>2
      <3>4. CASE i \in 1..n
        <4>1. l[i].turn <= x.turn /\ (l[i].end => l[i].turn < x.turn)
          <5>1. n + 1 \in 1..(Len(log[epoch]) + 1) /\ i \in 1..(n + 1 - 1)
            BY <3>1, <3>4
          <5>2. /\ log[epoch][i].turn <= TurnAt(log[epoch], n + 1)
                /\ log[epoch][i].end => log[epoch][i].turn < TurnAt(log[epoch], n + 1)
            BY <2>1, <5>1, TurnAtLater
          <5>3. QED
            BY <2>2, <5>2
        <4>2. /\ l[i].turn = TurnAt(l, i)
              /\ l[i].turn <= submitted[epoch]
              /\ \A j \in 1..n : i < j =>
                   l[i].turn <= l[j].turn /\ (l[i].end => l[i].turn < l[j].turn)
          BY <2>1, <3>4 DEF LogInv
        <4>3. ASSUME NEW j \in 1..Len(m), i < j
              PROVE  m[i].turn <= m[j].turn /\ (m[i].end => m[i].turn < m[j].turn)
          <5>1. m[i] = l[i]
            BY <3>1, <3>4
          <5>2. CASE j = n + 1
            BY <3>1, <4>1, <5>1, <5>2
          <5>3. CASE j \in 1..n
            <6>1. m[j] = l[j]
              BY <3>1, <5>3
            <6>2. l[i].turn <= l[j].turn /\ (l[i].end => l[i].turn < l[j].turn)
              BY <4>2, <4>3, <5>3
            <6>3. QED
              BY <5>1, <6>1, <6>2
          <5>4. j = n + 1 \/ j \in 1..n
            BY <3>1
          <5>5. QED
            BY <5>2, <5>3, <5>4
        <4>4. m[i].turn = TurnAt(m, i) /\ m[i].turn <= submitted'[e]
          BY <3>0, <3>1, <3>2, <3>4, <4>2
        <4>5. QED
          BY <4>3, <4>4
      <3>5. i = n + 1 \/ i \in 1..n
        BY <3>1
      <3>6. QED
        BY <3>3, <3>4, <3>5
    <2>8. QED
      BY <2>6, <2>7
  <1>3. \A e \in Epochs : submitted[e] <= submitted[e] /\ submitted[e] \in Nat
    BY DEF TypeOK
  <1>4. ASSUME NEW s \in Streams, Submit(s) PROVE LogInv'
    <2>1. \A e \in Epochs : submitted[e] <= submitted'[e]
      BY <1>3, <1>4 DEF Submit, TypeOK
    <2>2. QED
      BY <1>1, <1>4, <2>1 DEF Submit
  <1>5. ASSUME UNCHANGED <<log, submitted>> PROVE LogInv'
    BY <1>1, <1>3, <1>5
  <1>6. ASSUME LaptopInput PROVE LogInv'
    <2>1. \A e \in Epochs : submitted[e] <= submitted'[e]
      BY <1>3, <1>6 DEF LaptopInput, TypeOK
    <2>2. QED
      BY <1>1, <1>6, <2>1 DEF LaptopInput
  <1>7. QED
    BY <1>2, <1>4, <1>5, <1>6
    DEF Next, StreamStep, Turn, BeginSend, SendDone, TakeText, SkipEnd, TakeOwnEnd,
        EndQuietly, Abandon, Poll, Reset, Close, SessionText, SessionEnd, vars

\* A step of stream s, or dropping it, leaves the other streams and the session
\* alone; of s itself it keeps where the queue comes from and what is in it.
LEMMA StreamStepFrame ==
  ASSUME TypeOK, NEW s \in Streams, StreamStep(s) \/ Abandon(s)
  PROVE  /\ epoch' = epoch /\ log' = log /\ read' = read
         /\ \A t \in Streams : t # s => stream'[t] = stream[t]
         /\ stream[s].status \in {"created", "sending", "sent", "receiving"}
         /\ stream'[s].status # "unused"
         /\ stream'[s].epoch = stream[s].epoch
         /\ stream'[s].limit = stream[s].limit
         /\ stream'[s].ended = stream[s].ended
         /\ \/ stream'[s].next = stream[s].next
            \/ /\ stream[s].status = "receiving"
               /\ stream[s].next <= stream[s].limit
               /\ stream'[s].next = stream[s].next + 1
         /\ turnQueue' \in {turnQueue, None}
  <1>0. stream[s] \in Stream
    BY DEF TypeOK
  <1>1. CASE BeginSend(s)
    BY <1>0, <1>1 DEF BeginSend, TypeOK, Stream
  <1>2. CASE Submit(s)
    BY <1>0, <1>2 DEF Submit, TypeOK, Stream
  <1>3. CASE SendDone(s)
    BY <1>0, <1>3 DEF SendDone, TypeOK, Stream
  <1>4. CASE TakeText(s)
    BY <1>0, <1>4 DEF TakeText, TypeOK, Stream
  <1>5. CASE SkipEnd(s)
    BY <1>0, <1>5 DEF SkipEnd, TypeOK, Stream
  <1>6. CASE TakeOwnEnd(s)
    BY <1>0, <1>6 DEF TakeOwnEnd, Release, TypeOK, Stream
  <1>7. CASE EndQuietly(s)
    BY <1>0, <1>7 DEF EndQuietly, Release, TypeOK, Stream
  <1>8. CASE Abandon(s)
    BY <1>0, <1>8 DEF Abandon, Release, TypeOK, Stream
  <1>9. QED
    BY <1>1, <1>2, <1>3, <1>4, <1>5, <1>6, <1>7, <1>8 DEF StreamStep

\* Queues stay intervals of what was polled.
LEMMA CursorStep == TypeOK /\ CursorInv /\ [Next]_vars => CursorInv'
  <1> SUFFICES ASSUME TypeOK, CursorInv, [Next]_vars PROVE CursorInv'
    OBVIOUS
  <1>0. /\ epoch \in Epochs /\ Epochs \subseteq Nat /\ read \in Nat
        /\ \A e \in Epochs : Len(log[e]) \in Nat
        /\ \A t \in Streams : /\ stream[t] \in Stream
                              /\ stream[t].next \in Nat
                              /\ stream[t].limit \in Nat
                              /\ stream[t].epoch \in Epochs
    BY SMTT(30) DEF TypeOK, Stream, Epochs
  <1>1. ASSUME NEW s \in Streams, StreamStep(s) \/ Abandon(s) PROVE CursorInv'
    <2>1. /\ epoch' = epoch /\ log' = log /\ read' = read
          /\ \A t \in Streams : t # s => stream'[t] = stream[t]
          /\ stream'[s].status # "unused"
          /\ stream'[s].epoch = stream[s].epoch
          /\ stream'[s].limit = stream[s].limit
          /\ stream'[s].next <= stream[s].limit + 1
          /\ turnQueue' \in {turnQueue, None}
      BY <1>0, <1>1, StreamStepFrame DEF CursorInv
    <2>2. read' <= Len(log'[epoch'])
      BY <2>1 DEF CursorInv
    <2>3. \A t \in Streams : /\ stream'[t].epoch <= epoch'
                             /\ stream'[t].next <= stream'[t].limit + 1
                             /\ stream'[t].limit <= Len(log'[stream'[t].epoch])
      BY <2>1 DEF CursorInv
    <2>4. turnQueue' # None => /\ stream'[turnQueue'].status # "unused"
                               /\ stream'[turnQueue'].epoch = epoch'
                               /\ stream'[turnQueue'].limit = read'
      BY <2>1 DEF CursorInv, TypeOK
    <2>5. QED
      BY <2>2, <2>3, <2>4 DEF CursorInv
  <1>2. ASSUME NEW s \in Streams, Turn(s) PROVE CursorInv'
    <2>1. /\ stream'[s] = NewStream
          /\ \A t \in Streams : t # s => stream'[t] = DetachActive[t]
          /\ turnQueue' = s
          /\ epoch' = epoch /\ log' = log /\ read' = read
      BY <1>2 DEF Turn, DetachActive
    <2>2. /\ NewStream.epoch = epoch /\ NewStream.next = read + 1
          /\ NewStream.limit = read /\ NewStream.status = "created"
      BY DEF NewStream
    <2>3. QED
      BY <1>0, <2>1, <2>2, DetachFields DEF CursorInv
  <1>3. ASSUME Poll PROVE CursorInv'
    <2>1. /\ read < Len(log[epoch])
          /\ read' = read + 1
          /\ epoch' = epoch /\ log' = log /\ turnQueue' = turnQueue
          /\ \A t \in Streams : stream'[t] =
               IF t = turnQueue THEN [stream[t] EXCEPT !.limit = read + 1] ELSE stream[t]
      BY <1>3 DEF Poll
    <2>2. \A t \in Streams :
            /\ stream'[t].epoch = stream[t].epoch
            /\ stream'[t].next = stream[t].next
            /\ stream'[t].status = stream[t].status
            /\ stream'[t].limit = IF t = turnQueue THEN read + 1 ELSE stream[t].limit
      BY <1>0, <2>1 DEF Stream
    <2>3. turnQueue # None => turnQueue \in Streams
      BY DEF TypeOK
    <2>4. read' <= Len(log'[epoch'])
      BY <1>0, <2>1
    <2>5. ASSUME NEW t \in Streams
          PROVE  /\ stream'[t].epoch <= epoch'
                 /\ stream'[t].next <= stream'[t].limit + 1
                 /\ stream'[t].limit <= Len(log'[stream'[t].epoch])
      <3>1. CASE t = turnQueue
        <4>1. stream[t].epoch = epoch /\ stream[t].limit = read
          BY <2>3, <3>1, ConvoBridgeAssumption DEF CursorInv
        <4>2. QED
          BY <1>0, <2>1, <2>2, <3>1, <4>1 DEF CursorInv
      <3>2. CASE t # turnQueue
        BY <2>1, <2>2, <3>2 DEF CursorInv
      <3>3. QED
        BY <3>1, <3>2
    <2>6. turnQueue' # None => /\ stream'[turnQueue'].status # "unused"
                               /\ stream'[turnQueue'].epoch = epoch'
                               /\ stream'[turnQueue'].limit = read'
      BY <2>1, <2>2, <2>3 DEF CursorInv
    <2>7. QED
      BY <2>4, <2>5, <2>6 DEF CursorInv
  <1>4. ASSUME Reset \/ Close PROVE CursorInv'
    <2>1. /\ log' = log /\ epoch' >= epoch
          /\ \A t \in Streams : stream'[t] = DetachActive[t]
          /\ \/ read' = 0 /\ turnQueue' = None
             \/ read' = read /\ turnQueue' = turnQueue /\ epoch' = epoch
      BY <1>0, <1>4 DEF Reset, Close
    <2>2. epoch' \in Epochs /\ (turnQueue # None => turnQueue \in Streams)
      BY TypeStep DEF TypeOK
    <2>3. \A t \in Streams : /\ stream'[t].epoch = stream[t].epoch
                             /\ stream'[t].next = stream[t].next
                             /\ stream'[t].limit = stream[t].limit
                             /\ stream'[t].status = stream[t].status
      BY <2>1, DetachFields
    <2>4. read' <= Len(log'[epoch'])
      BY <1>0, <2>1, <2>2 DEF CursorInv
    <2>5. ASSUME NEW t \in Streams
          PROVE  /\ stream'[t].epoch <= epoch'
                 /\ stream'[t].next <= stream'[t].limit + 1
                 /\ stream'[t].limit <= Len(log'[stream'[t].epoch])
      <3>1. stream[t].epoch \in Nat /\ epoch \in Nat /\ epoch' \in Nat
        BY <1>0, <2>2
      <3>2. stream[t].epoch <= epoch'
        BY <2>1, <3>1 DEF CursorInv
      <3>3. QED
        BY <2>1, <2>3, <3>2 DEF CursorInv
    <2>6. turnQueue' # None => /\ stream'[turnQueue'].status # "unused"
                               /\ stream'[turnQueue'].epoch = epoch'
                               /\ stream'[turnQueue'].limit = read'
      BY <2>1, <2>2, <2>3 DEF CursorInv
    <2>7. QED
      BY <2>4, <2>5, <2>6 DEF CursorInv
  <1>5. ASSUME NEW end \in BOOLEAN, Write(end) PROVE CursorInv'
    <2>1. /\ epoch' = epoch /\ read' = read /\ turnQueue' = turnQueue /\ stream' = stream
      BY <1>5 DEF Write
    <2>2. \A e \in Epochs : Len(log'[e]) >= Len(log[e])
      <3>1. \A e \in Epochs : log[e] \in Seq(Entry) /\ log'[e] \in Seq(Entry)
        BY TypeStep DEF TypeOK
      <3>2. log'[epoch] = Append(log[epoch], [turn |-> Answering, end |-> end])
        BY <1>0, <1>5 DEF Write, TypeOK
      <3>3. \A e \in Epochs : e # epoch => log'[e] = log[e]
        BY <1>5 DEF Write, TypeOK
      <3>4. Len(log'[epoch]) = Len(log[epoch]) + 1
        BY <1>0, <3>1, <3>2
      <3>5. QED
        BY <1>0, <3>3, <3>4
    <2>3. \A e \in Epochs : Len(log'[e]) \in Nat
      BY TypeStep DEF TypeOK
    <2>4. read' <= Len(log'[epoch'])
      BY <1>0, <2>1, <2>2, <2>3 DEF CursorInv
    <2>5. ASSUME NEW t \in Streams PROVE stream[t].limit <= Len(log'[stream[t].epoch])
      <3>1. PICK e \in Epochs : e = stream[t].epoch
        BY <1>0
      <3>2. stream[t].limit <= Len(log[e])
        BY <3>1 DEF CursorInv
      <3>3. /\ Len(log[e]) \in Nat /\ Len(log'[e]) \in Nat /\ stream[t].limit \in Nat
            /\ Len(log[e]) <= Len(log'[e])
        BY <1>0, <2>2, <2>3
      <3>4. QED
        BY <3>1, <3>2, <3>3
    <2>6. QED
      BY <2>1, <2>4, <2>5 DEF CursorInv
  <1>6. ASSUME LaptopInput \/ UNCHANGED vars PROVE CursorInv'
    BY <1>6 DEF LaptopInput, vars, CursorInv
  <1>7. QED
    BY <1>1, <1>2, <1>3, <1>4, <1>5, <1>6 DEF Next, SessionText, SessionEnd

\* Nothing clears the mark of an upset count.
LEMMA DisturbedForGood ==
  TypeOK /\ [Next]_vars => \A e \in Epochs : disturbed[e] => disturbed'[e]
  <1> SUFFICES ASSUME TypeOK, [Next]_vars, NEW e \in Epochs, disturbed[e] PROVE disturbed'[e]
    OBVIOUS
  <1>1. CASE disturbed' = disturbed
    BY <1>1
  <1>2. ASSUME NEW s \in Streams, Turn(s) PROVE disturbed'[e]
    BY <1>2 DEF Turn, TypeOK
  <1>3. ASSUME NEW s \in Streams, Abandon(s) PROVE disturbed'[e]
    BY <1>3 DEF Abandon, TypeOK
  <1>4. ASSUME Poll PROVE disturbed'[e]
    BY <1>4 DEF Poll, TypeOK
  <1>5. ASSUME Reset PROVE disturbed'[e]
    BY <1>5 DEF Reset, TypeOK
  <1>6. ASSUME LaptopInput PROVE disturbed'[e]
    BY <1>6 DEF LaptopInput, TypeOK
  <1>7. QED
    BY <1>1, <1>2, <1>3, <1>4, <1>5, <1>6
    DEF Next, StreamStep, BeginSend, Submit, SendDone, TakeText, SkipEnd, TakeOwnEnd,
        EndQuietly, Close, SessionText, SessionEnd, Write, vars

\* A step within a session that puts no new text on its way.
LEMMA PendingKept ==
  ASSUME TypeOK, CursorInv, PendingInv, epoch' = epoch,
         \A e \in Epochs : disturbed[e] => disturbed'[e],
         \A t \in Pending' :
           /\ t \in Pending
           /\ stream'[t].epoch = stream[t].epoch
           /\ stream'[t].status # "created" =>
                \/ stream[t].status # "created" /\ stream'[t].session = stream[t].session
                \/ stream'[t].session = epoch
  PROVE  PendingInv'
  <1>1. /\ epoch \in Epochs /\ epoch \in Nat
        /\ \A t \in Streams : stream[t].epoch \in Epochs /\ stream[t].epoch \in Nat
    BY DEF TypeOK, Stream, Epochs
  <1>2. ASSUME NEW t \in Pending'
        PROVE  /\ stream'[t].epoch # epoch' => disturbed'[stream'[t].epoch]
               /\ ~disturbed'[epoch'] => stream'[t].epoch = epoch'
               /\ stream'[t].status # "created" =>
                    /\ stream'[t].session \in stream'[t].epoch..epoch'
                    /\ stream'[t].session # epoch' => disturbed'[stream'[t].session]
    <2>1. t \in Pending /\ t \in Streams /\ stream'[t].epoch = stream[t].epoch
      BY <1>2 DEF Pending
    <2>2. stream'[t].epoch # epoch' => disturbed'[stream'[t].epoch]
      BY <1>1, <2>1 DEF PendingInv
    <2>3. ~disturbed'[epoch'] => stream'[t].epoch = epoch'
      BY <1>1, <2>1 DEF PendingInv
    <2>4. ASSUME stream'[t].status # "created", stream'[t].session = epoch
          PROVE  stream'[t].session \in stream'[t].epoch..epoch'
      BY <1>1, <2>1, <2>4 DEF CursorInv
    <2>5. ASSUME stream'[t].status # "created", stream[t].status # "created",
                 stream'[t].session = stream[t].session
          PROVE  /\ stream'[t].session \in stream'[t].epoch..epoch'
                 /\ stream'[t].session # epoch' => disturbed'[stream'[t].session]
      <3>1. /\ stream[t].session \in stream[t].epoch..epoch
            /\ stream[t].session # epoch => disturbed[stream[t].session]
        BY <2>1, <2>5 DEF PendingInv
      <3>2. stream[t].session \in Epochs
        BY <1>1, <2>1, <3>1, ConvoBridgeAssumption DEF Epochs
      <3>3. QED
        BY <2>1, <2>5, <3>1, <3>2
    <2>6. QED
      BY <1>2, <2>2, <2>3, <2>4, <2>5
  <1>3. ~disturbed'[epoch'] => \A s, t \in Pending' : s = t
    BY <1>1 DEF PendingInv
  <1>4. QED
    BY <1>2, <1>3 DEF PendingInv

\* In an undisturbed session there is one text on its way at most.
LEMMA PendingStep == TypeOK /\ CursorInv /\ PendingInv /\ [Next]_vars => PendingInv'
  <1> SUFFICES ASSUME TypeOK, CursorInv, PendingInv, [Next]_vars PROVE PendingInv'
    OBVIOUS
  <1>0. /\ epoch \in Epochs /\ epoch \in Nat /\ disturbed \in [Epochs -> BOOLEAN]
        /\ \A t \in Streams : /\ stream[t] \in Stream /\ stream[t].epoch \in Epochs
                              /\ stream[t].epoch \in Nat
        /\ \A e \in Epochs : disturbed[e] => disturbed'[e]
    BY DisturbedForGood DEF TypeOK, Stream, Epochs
  <1>1. ASSUME NEW s \in Streams, StreamStep(s) \/ Abandon(s) PROVE PendingInv'
    <2>1. /\ epoch' = epoch
          /\ \A t \in Streams : t # s => stream'[t] = stream[t]
          /\ stream'[s].epoch = stream[s].epoch
      BY <1>1, StreamStepFrame
    <2>2. s \in Pending' =>
            /\ s \in Pending
            /\ stream'[s].status # "created" =>
                \/ stream[s].status # "created" /\ stream'[s].session = stream[s].session
                \/ stream'[s].session = epoch
      <3>1. stream[s] \in Stream /\ stream \in [Streams -> Stream]
        BY DEF TypeOK
      <3>2. CASE BeginSend(s)
        BY <3>1, <3>2 DEF BeginSend, Pending, Stream
      <3>3. CASE Submit(s)
        BY <3>1, <3>3 DEF Submit, Pending, Stream
      <3>4. CASE SendDone(s)
        BY <3>1, <3>4 DEF SendDone, Pending, Stream
      <3>5. CASE TakeText(s) \/ SkipEnd(s)
        BY <3>1, <3>5, ZenonT(30) DEF TakeText, SkipEnd, Pending, Stream
      <3>6. CASE TakeOwnEnd(s) \/ EndQuietly(s)
        BY <3>1, <3>6, ZenonT(30) DEF TakeOwnEnd, EndQuietly, Pending, Stream
      <3>7. CASE Abandon(s)
        BY <3>1, <3>7 DEF Abandon, Pending, Stream
      <3>8. QED
        BY <1>1, <3>2, <3>3, <3>4, <3>5, <3>6, <3>7 DEF StreamStep
    <2>3. \A t \in Pending' :
            /\ t \in Pending
            /\ stream'[t].epoch = stream[t].epoch
            /\ stream'[t].status # "created" =>
                \/ stream[t].status # "created" /\ stream'[t].session = stream[t].session
                \/ stream'[t].session = epoch
      BY <2>1, <2>2 DEF Pending
    <2>4. QED
      BY <1>0, <2>1, <2>3, PendingKept
  <1>2. ASSUME NEW s \in Streams, Turn(s) PROVE PendingInv'
    <2>1. /\ stream'[s] = NewStream
          /\ \A t \in Streams : t # s => stream'[t] = DetachActive[t]
          /\ stream[s].status = "unused" /\ epoch' = epoch
      BY <1>2 DEF Turn, DetachActive
    <2>2. stream'[s].epoch = epoch /\ stream'[s].status = "created"
      BY <2>1 DEF NewStream
    <2>3. \A t \in Streams : t # s =>
            /\ stream'[t].status = stream[t].status
            /\ stream'[t].epoch = stream[t].epoch
            /\ stream'[t].session = stream[t].session
      BY <2>1, DetachFields
    <2>4. Pending' = Pending \cup {s}
      BY <2>1, <2>2, <2>3 DEF Pending
    <2>5. CutAcross => disturbed'[epoch]
      BY <1>0, <1>2 DEF Turn
    <2>6. s \notin Pending
      BY <2>1 DEF Pending
    <2>7. ASSUME NEW t \in Pending, t # s
          PROVE  /\ stream'[t].epoch # epoch' => disturbed'[stream'[t].epoch]
                 /\ ~disturbed'[epoch'] => stream'[t].epoch = epoch'
                 /\ stream'[t].status # "created" =>
                      /\ stream'[t].session \in stream'[t].epoch..epoch'
                      /\ stream'[t].session # epoch' => disturbed'[stream'[t].session]
      <3>1. t \in Streams
        BY DEF Pending
      <3>2. stream'[t].status # "created" => stream[t].session \in Epochs
        BY <1>0, <2>3, <2>7, <3>1, ConvoBridgeAssumption DEF PendingInv, Epochs
      <3>3. QED
        BY <1>0, <2>1, <2>3, <2>7, <3>1, <3>2 DEF PendingInv
    <2>8. ~disturbed'[epoch'] => \A t, u \in Pending' : t = u
      BY <2>1, <2>4, <2>5 DEF CutAcross
    <2>9. \A t \in Pending' : t = s \/ (t \in Pending /\ t # s)
      BY <2>4, <2>6
    <2>10. QED
      BY <2>1, <2>2, <2>7, <2>8, <2>9 DEF PendingInv
  <1>3. ASSUME Reset PROVE PendingInv'
    <2>1. /\ epoch' = epoch + 1 /\ epoch' \in Epochs
          /\ \A t \in Streams : stream'[t] = DetachActive[t]
          /\ disturbed' = [e \in Epochs |-> disturbed[e] \/ (CutAcross /\ e \in {epoch, epoch + 1})]
      BY <1>3, TypeStep DEF Reset, TypeOK
    <2>2. \A t \in Streams : /\ stream'[t].status = stream[t].status
                             /\ stream'[t].epoch = stream[t].epoch
                             /\ stream'[t].session = stream[t].session
      BY <2>1, DetachFields
    <2>3. Pending' = Pending
      BY <2>2 DEF Pending
    <2>4. Pending # {} => disturbed'[epoch] /\ disturbed'[epoch']
      BY <1>0, <2>1 DEF CutAcross
    <2>5. ASSUME NEW t \in Pending
          PROVE  /\ stream'[t].epoch # epoch' => disturbed'[stream'[t].epoch]
                 /\ stream'[t].status # "created" =>
                      /\ stream'[t].session \in stream'[t].epoch..epoch'
                      /\ stream'[t].session # epoch' => disturbed'[stream'[t].session]
      <3>1. t \in Streams /\ Pending # {}
        BY DEF Pending
      <3>2. stream[t].epoch # epoch => disturbed'[stream[t].epoch]
        BY <1>0, <3>1 DEF PendingInv
      <3>3. ASSUME stream[t].status # "created"
            PROVE  /\ stream[t].session \in stream[t].epoch..epoch
                   /\ stream[t].session # epoch => disturbed'[stream[t].session]
        <4>1. /\ stream[t].session \in stream[t].epoch..epoch
              /\ stream[t].session # epoch => disturbed[stream[t].session]
          BY <3>3 DEF PendingInv
        <4>2. stream[t].session \in Epochs
          BY <1>0, <3>1, <4>1, ConvoBridgeAssumption DEF Epochs
        <4>3. QED
          BY <1>0, <4>1, <4>2
      <3>4. QED
        BY <1>0, <2>1, <2>2, <2>4, <3>1, <3>2, <3>3
    <2>6. QED
      BY <2>3, <2>4, <2>5 DEF PendingInv
  <1>4. ASSUME Poll \/ Close PROVE PendingInv'
    <2>1. \A t \in Streams : /\ stream'[t].status = stream[t].status
                             /\ stream'[t].epoch = stream[t].epoch
                             /\ stream'[t].session = stream[t].session
      BY <1>0, <1>4, DetachFields DEF Poll, Close, Stream
    <2>2. epoch' = epoch
      BY <1>4 DEF Poll, Close
    <2>3. \A t \in Pending' : t \in Pending /\ t \in Streams
      BY <2>1 DEF Pending
    <2>4. QED
      BY <1>0, <2>1, <2>2, <2>3, PendingKept
  <1>5. ASSUME UNCHANGED <<epoch, stream>> PROVE PendingInv'
    <2>1. Pending' = Pending
      BY <1>5 DEF Pending
    <2>2. QED
      BY <1>0, <1>5, <2>1, PendingKept
  <1>6. QED
    BY <1>1, <1>2, <1>3, <1>4, <1>5
    DEF Next, SessionText, SessionEnd, Write, LaptopInput, vars

\* Texts go to a session the window has already had.
LEMMA SessionOfPending ==
  ASSUME TypeOK, CursorInv, PendingInv, NEW s \in Pending, stream[s].status # "created"
  PROVE  /\ stream[s].session \in Epochs
         /\ stream[s].session <= epoch
         /\ stream[s].epoch <= stream[s].session
         /\ stream[s].session # epoch => disturbed[stream[s].session]
         /\ ~disturbed[epoch] => stream[s].epoch = epoch /\ stream[s].session = epoch
  <1>1. /\ epoch \in Epochs /\ stream[s].epoch \in Epochs
        /\ epoch \in Nat /\ stream[s].epoch \in Nat /\ MaxEpoch \in Nat
    BY ConvoBridgeAssumption DEF TypeOK, Stream, Epochs, Pending
  <1>2. /\ stream[s].session \in stream[s].epoch..epoch
        /\ stream[s].session # epoch => disturbed[stream[s].session]
        /\ ~disturbed[epoch] => stream[s].epoch = epoch
    BY DEF PendingInv
  <1>3. QED
    BY <1>1, <1>2 DEF Epochs

\* Where neither the session, nor its count, nor who is in between changes.
LEMMA DebtKept ==
  ASSUME TypeOK, DebtInv, epoch' = epoch, log' = log, submitted' = submitted, read' = read,
         \A e \in Epochs : disturbed[e] => disturbed'[e],
         ~disturbed'[epoch] => unfinished' = unfinished /\ Uncounted' = Uncounted
  PROVE  DebtInv'
  <1>1. epoch \in Epochs
    BY DEF TypeOK
  <1>2. QED
    BY <1>1 DEF DebtInv

\* _unfinished, with a text submitted but not counted, is what the session owes.
LEMMA DebtStep ==
  TypeOK /\ LogInv /\ CursorInv /\ PendingInv /\ DebtInv /\ [Next]_vars => DebtInv'
  <1> SUFFICES ASSUME TypeOK, LogInv, CursorInv, PendingInv, DebtInv, [Next]_vars
               PROVE  DebtInv'
    OBVIOUS
  <1>0. /\ epoch \in Epochs /\ epoch \in Nat /\ Epochs \subseteq Nat
        /\ read \in Nat /\ read <= Len(log[epoch]) /\ Len(log[epoch]) \in Nat
        /\ log[epoch] \in Seq(Entry)
        /\ unfinished \in Nat /\ submitted[epoch] \in Nat
        /\ stream \in [Streams -> Stream]
        /\ disturbed \in [Epochs -> BOOLEAN]
        /\ \A e \in Epochs : disturbed[e] => disturbed'[e]
    BY DisturbedForGood DEF TypeOK, CursorInv, Epochs
  <1>a. TurnAt(log[epoch], read + 1) \in Nat
    BY <1>0, TurnAtType
  <1>1. ASSUME NEW s \in Streams,
               BeginSend(s) \/ TakeText(s) \/ SkipEnd(s) \/ TakeOwnEnd(s) \/ EndQuietly(s)
        PROVE  DebtInv'
    <2>1. /\ \A t \in Streams : t # s => stream'[t] = stream[t]
          /\ stream[s].status # "sent" /\ stream'[s].status # "sent"
          /\ epoch' = epoch /\ log' = log /\ submitted' = submitted /\ read' = read
          /\ unfinished' = unfinished
      <3>1. stream[s] \in Stream
        BY <1>0
      <3>2. CASE BeginSend(s)
        BY <1>0, <3>1, <3>2 DEF BeginSend, Stream
      <3>3. CASE TakeText(s)
        BY <1>0, <3>1, <3>3 DEF TakeText, Stream
      <3>4. CASE SkipEnd(s)
        BY <1>0, <3>1, <3>4 DEF SkipEnd, Stream
      <3>5. CASE TakeOwnEnd(s) \/ EndQuietly(s)
        BY <1>0, <3>1, <3>5 DEF TakeOwnEnd, EndQuietly, Stream
      <3>6. QED
        BY <1>1, <3>2, <3>3, <3>4, <3>5
    <2>2. Uncounted' = Uncounted
      BY <2>1 DEF Uncounted
    <2>3. QED
      BY <1>0, <2>1, <2>2, DebtKept
  <1>2. ASSUME NEW s \in Streams, Submit(s) PROVE DebtInv'
    <2>1. s \in Pending /\ stream[s].status = "sending"
      BY <1>2 DEF Submit, Pending
    <2>2. /\ stream[s].session \in Epochs /\ stream[s].session <= epoch
          /\ ~disturbed[epoch] => stream[s].session = epoch
      BY <2>1, SessionOfPending
    <2>3. /\ submitted' = [submitted EXCEPT ![stream[s].session] = submitted[stream[s].session] + 1]
          /\ epoch' = epoch /\ log' = log /\ read' = read /\ unfinished' = unfinished
          /\ disturbed' = disturbed
          /\ stream'[s].status = "sent"
      BY <1>0, <1>2 DEF Submit, Stream
    <2>4. \A e \in Epochs : e > epoch' => submitted'[e] = 0
      BY <1>0, <2>2, <2>3 DEF DebtInv, TypeOK
    <2>5. ~disturbed[epoch] => Uncounted = 0
      BY <2>1 DEF PendingInv, Pending, Uncounted
    <2>6. Uncounted' = 1
      BY <2>3 DEF Uncounted
    <2>7. ~disturbed[epoch] => submitted'[epoch] = submitted[epoch] + 1
      BY <1>0, <2>2, <2>3 DEF TypeOK
    <2>8. QED
      BY <1>0, <1>a, <2>3, <2>4, <2>5, <2>6, <2>7 DEF DebtInv
  <1>3. ASSUME NEW s \in Streams, SendDone(s) PROVE DebtInv'
    <2>1. s \in Pending /\ stream[s].status = "sent"
      BY <1>3 DEF SendDone, Pending
    <2>2. /\ epoch' = epoch /\ log' = log /\ read' = read /\ submitted' = submitted
          /\ disturbed' = disturbed
          /\ unfinished' = unfinished + 1
          /\ stream'[s].status = "receiving"
          /\ \A t \in Streams : t # s => stream'[t] = stream[t]
      BY <1>0, <1>3 DEF SendDone, Stream
    <2>3. Uncounted = 1
      BY <2>1 DEF Uncounted
    <2>4. ~disturbed[epoch] => Uncounted' = 0
      BY <2>1, <2>2 DEF PendingInv, Pending, Uncounted
    <2>5. QED
      BY <1>0, <1>a, <2>2, <2>3, <2>4 DEF DebtInv
  <1>4. ASSUME NEW s \in Streams, Abandon(s) PROVE DebtInv'
    <2>1. /\ \A t \in Streams : t # s => stream'[t] = stream[t]
          /\ stream'[s].status = "abandoned"
          /\ stream[s].status = "sent" => disturbed'[epoch]
          /\ epoch' = epoch /\ log' = log /\ submitted' = submitted /\ read' = read
          /\ unfinished' = unfinished
      BY <1>0, <1>4 DEF Abandon, Stream
    <2>2. ~disturbed'[epoch] => Uncounted' = Uncounted
      BY <2>1 DEF Uncounted
    <2>3. QED
      BY <1>0, <2>1, <2>2, DebtKept
  <1>5. ASSUME NEW s \in Streams, Turn(s) PROVE DebtInv'
    <2>1. /\ stream'[s] = NewStream /\ stream[s].status = "unused"
          /\ \A t \in Streams : t # s => stream'[t] = DetachActive[t]
          /\ epoch' = epoch /\ log' = log /\ submitted' = submitted /\ read' = read
          /\ unfinished' = unfinished
      BY <1>5 DEF Turn, DetachActive
    <2>2. NewStream.status = "created"
      BY DEF NewStream
    <2>3. Uncounted' = Uncounted
      BY <2>1, <2>2, DetachFields DEF Uncounted
    <2>4. QED
      BY <1>0, <2>1, <2>3, DebtKept
  <1>6. ASSUME Poll PROVE DebtInv'
    <2> DEFINE entry == log[epoch][read + 1]
    <2>1. /\ read < Len(log[epoch]) /\ read' = read + 1
          /\ unfinished' = CountEnd(entry)
          /\ epoch' = epoch /\ log' = log /\ submitted' = submitted
          /\ entry.end /\ unfinished = 0 => disturbed'[epoch]
          /\ \A t \in Streams : stream'[t].status = stream[t].status
      BY <1>0, <1>6 DEF Poll, Stream
    <2>2. entry \in Entry /\ read + 1 \in 1..Len(log[epoch])
      BY <1>0, <2>1
    <2>3. entry.turn = TurnAt(log[epoch], read + 1)
      BY <1>0, <2>2 DEF LogInv
    <2>4. TurnAt(log[epoch], read' + 1) = IF entry.end THEN entry.turn + 1 ELSE entry.turn
      BY <1>0, <2>1 DEF TurnAt
    <2>5. Uncounted' = Uncounted /\ Uncounted \in Nat
      BY <2>1 DEF Uncounted
    <2>6. ~disturbed'[epoch] => unfinished' = IF entry.end THEN unfinished - 1 ELSE unfinished
      BY <1>0, <2>1 DEF CountEnd
    <2>7. ASSUME ~disturbed'[epoch]
          PROVE  unfinished' + Uncounted' + TurnAt(log'[epoch'], read' + 1) = submitted'[epoch'] + 1
      <3>1. unfinished + Uncounted + TurnAt(log[epoch], read + 1) = submitted[epoch] + 1
        BY <1>0, <2>7 DEF DebtInv
      <3>2. CASE entry.end
        BY <1>0, <1>a, <2>1, <2>3, <2>4, <2>5, <2>6, <2>7, <3>1, <3>2
      <3>3. CASE ~entry.end
        BY <1>0, <1>a, <2>1, <2>3, <2>4, <2>5, <2>6, <2>7, <3>1, <3>3
      <3>4. QED
        BY <3>2, <3>3
    <2>8. QED
      BY <2>1, <2>7 DEF DebtInv
  <1>7. ASSUME Reset PROVE DebtInv'
    <2>1. /\ epoch' = epoch + 1 /\ epoch' \in Epochs /\ read' = 0 /\ unfinished' = 0
          /\ submitted' = submitted
          /\ \A t \in Streams : stream'[t] = DetachActive[t]
          /\ CutAcross => disturbed'[epoch']
      BY <1>0, <1>7, TypeStep DEF Reset, UnfinishedAfterReset, TypeOK
    <2>2. \A e \in Epochs : e > epoch' => submitted'[e] = 0
      BY <1>0, <2>1 DEF DebtInv
    <2>3. submitted'[epoch'] = 0
      BY <1>0, <2>1 DEF DebtInv
    <2>4. ~disturbed'[epoch'] => Uncounted' = 0
      BY <2>1, DetachFields DEF CutAcross, Pending, Uncounted
    <2>5. TurnAt(log'[epoch'], read' + 1) = 1
      BY <2>1 DEF TurnAt
    <2>6. QED
      BY <2>1, <2>2, <2>3, <2>4, <2>5 DEF DebtInv
  <1>8. ASSUME Close PROVE DebtInv'
    <2>1. /\ epoch' = epoch /\ log' = log /\ submitted' = submitted /\ read' = read
          /\ unfinished' = unfinished
          /\ \A t \in Streams : stream'[t] = DetachActive[t]
      BY <1>8 DEF Close
    <2>2. Uncounted' = Uncounted
      BY <2>1, DetachFields DEF Uncounted
    <2>3. QED
      BY <1>0, <2>1, <2>2, DebtKept
  <1>9. ASSUME NEW end \in BOOLEAN, Write(end) PROVE DebtInv'
    <2> DEFINE x == [turn |-> Answering, end |-> end]
    <2>1. /\ epoch' = epoch /\ read' = read /\ submitted' = submitted /\ stream' = stream
          /\ unfinished' = unfinished /\ disturbed' = disturbed
          /\ log'[epoch] = Append(log[epoch], x)
      BY <1>0, <1>9 DEF Write, TypeOK
    <2>2. x \in Entry
      BY <1>0, TurnAtType DEF Answering, Entry
    <2>3. TurnAt(log'[epoch], read + 1) = TurnAt(log[epoch], read + 1)
      BY <1>0, <2>1, <2>2, TurnAtAppend
    <2>4. Uncounted' = Uncounted
      BY <2>1 DEF Uncounted
    <2>5. QED
      BY <2>1, <2>3, <2>4 DEF DebtInv
  <1>10. ASSUME LaptopInput PROVE DebtInv'
    <2>1. /\ submitted' = [submitted EXCEPT ![epoch] = submitted[epoch] + 1]
          /\ epoch' = epoch /\ disturbed'[epoch]
      BY <1>0, <1>10 DEF LaptopInput
    <2>2. QED
      BY <1>0, <2>1 DEF DebtInv, TypeOK
  <1>11. CASE UNCHANGED vars
    BY <1>11 DEF vars, DebtInv, Uncounted
  <1>12. QED
    BY <1>1, <1>2, <1>3, <1>4, <1>5, <1>6, <1>7, <1>8, <1>9, <1>10, <1>11
    DEF Next, StreamStep, SessionText, SessionEnd

\* A stream nothing was done to, but perhaps to end its queue, or to tell its
\* session more than it counts on.
LEMMA StreamKept ==
  ASSUME TypeOK, NEW t \in Streams, StreamOK(t), log' = log,
         \A e \in Epochs : disturbed[e] => disturbed'[e],
         stream'[t].status = stream[t].status,
         stream'[t].epoch = stream[t].epoch,
         stream'[t].skip = stream[t].skip,
         stream'[t].next = stream[t].next,
         stream'[t].own = stream[t].own,
         stream'[t].heard = stream[t].heard,
         ~stream'[t].ended => ~stream[t].ended,
         submitted'[stream[t].epoch] \in Nat,
         submitted[stream[t].epoch] <= submitted'[stream[t].epoch],
         ~disturbed[stream[t].epoch] /\ stream[t].status \in {"created", "sending"} =>
           submitted'[stream[t].epoch] = submitted[stream[t].epoch]
  PROVE  StreamOK(t)'
  <1>1. /\ stream[t].epoch \in Epochs /\ stream[t].own \in Nat
        /\ submitted[stream[t].epoch] \in Nat
    BY DEF TypeOK, Stream
  <1> SUFFICES ASSUME ~disturbed'[stream'[t].epoch]
               PROVE  /\ stream'[t].status \in {"created", "sending"} => UnsentInv(t)'
                      /\ stream'[t].status \in {"sent", "receiving"} => SentInv(t)'
                      /\ stream'[t].status = "done" /\ ~stream'[t].ended =>
                           EndedByOwnEndInv(t)'
                      /\ stream'[t].heard \subseteq ReplyTo(log'[stream'[t].epoch], stream'[t].own)
    BY DEF StreamOK
  <1>2. ~disturbed[stream[t].epoch]
    BY <1>1
  <1>3. PassedReply(t)' = PassedReply(t)
    BY DEF PassedReply, ReplyTo
  <1>4. stream'[t].status \in {"created", "sending"} => UnsentInv(t)'
    BY <1>2 DEF StreamOK, UnsentInv, TurnAt
  <1>5. stream'[t].status \in {"sent", "receiving"} => SentInv(t)'
    BY <1>1, <1>2, <1>3 DEF StreamOK, SentInv, TurnAt
  <1>6. stream'[t].status = "done" /\ ~stream'[t].ended => EndedByOwnEndInv(t)'
    BY <1>2, <1>3 DEF StreamOK, EndedByOwnEndInv
  <1>7. stream'[t].heard \subseteq ReplyTo(log'[stream'[t].epoch], stream'[t].own)
    BY <1>2 DEF StreamOK, ReplyTo
  <1>8. QED
    BY <1>4, <1>5, <1>6, <1>7

\* The streams keep what the invariant says of each of them.
LEMMA StreamsStep == TypeOK /\ IInv /\ [Next]_vars => StreamInv'
  <1> SUFFICES ASSUME TypeOK, IInv, [Next]_vars, NEW t \in Streams PROVE StreamOK(t)'
    BY DEF StreamInv
  <1>0. /\ LogInv /\ CursorInv /\ PendingInv /\ DebtInv /\ StreamOK(t)
        /\ epoch \in Epochs /\ stream \in [Streams -> Stream]
        /\ stream[t] \in Stream
        /\ disturbed \in [Epochs -> BOOLEAN]
        /\ \A e \in Epochs : disturbed[e] => disturbed'[e]
    BY DisturbedForGood DEF TypeOK, IInv, StreamInv
  <1> DEFINE e == stream[t].epoch
             l == log[e]
             n == stream[t].next
  <1>a. /\ e \in Epochs /\ l \in Seq(Entry) /\ Len(l) \in Nat
        /\ n \in Nat /\ n # 0 /\ n <= Len(l) + 1 /\ n \in 1..(Len(l) + 1)
        /\ stream[t].skip \in Nat /\ stream[t].own \in Nat
        /\ stream[t].limit \in Nat /\ stream[t].limit <= Len(l)
        /\ submitted[e] \in Nat
        /\ DOMAIN l = 1..Len(l)
    BY <1>0 DEF TypeOK, Stream, CursorInv
  <1>b. TurnAt(l, n) \in Nat \ {0}
    BY <1>a, TurnAtType
  <1>c. n <= Len(l) => l[n] \in Entry /\ l[n].turn = TurnAt(l, n) /\ l[n].turn \in Nat
    <2>1. n <= Len(l) => n \in 1..Len(l)
      BY <1>a
    <2>2. n <= Len(l) => l[n] \in Entry
      BY <1>a, <2>1
    <2>3. n <= Len(l) => l[n].turn = TurnAt(l, n)
      BY <1>0, <1>a, <2>1 DEF LogInv
    <2>4. QED
      BY <2>2, <2>3 DEF Entry
  <1>d. TurnAt(l, n + 1) = IF l[n].end THEN l[n].turn + 1 ELSE l[n].turn
    BY <1>a, SMTT(30) DEF TurnAt
  <1>1. ASSUME NEW s \in Streams, s # t, StreamStep(s) \/ Abandon(s), ~Submit(s)
        PROVE  StreamOK(t)'
    <2>1. stream'[t] = stream[t] /\ log' = log
      BY <1>1, StreamStepFrame
    <2>2. submitted' = submitted
      BY <1>1 DEF StreamStep, BeginSend, SendDone, TakeText, SkipEnd, TakeOwnEnd,
                  EndQuietly, Abandon
    <2>3. QED
      BY <1>0, <1>a, <2>1, <2>2, StreamKept
  <1>2. ASSUME NEW s \in Streams, s # t, Submit(s) PROVE StreamOK(t)'
    <2>1. s \in Pending /\ stream[s].status = "sending"
      BY <1>2 DEF Submit, Pending
    <2>2. /\ stream[s].session \in Epochs
          /\ stream[s].session # epoch => disturbed[stream[s].session]
      BY <1>0, <2>1, SessionOfPending
    <2>3. /\ stream'[t] = stream[t] /\ log' = log
          /\ submitted' = [submitted EXCEPT ![stream[s].session] =
                             submitted[stream[s].session] + 1]
      BY <1>0, <1>2 DEF Submit
    <2>4. submitted'[e] = IF e = stream[s].session THEN submitted[e] + 1 ELSE submitted[e]
      BY <1>a, <2>2, <2>3 DEF TypeOK
    <2>5. ASSUME ~disturbed[e], stream[t].status \in {"created", "sending"}
          PROVE  e # stream[s].session
      <3>1. t \in Pending
        BY <2>5 DEF Pending
      <3>2. e = stream[s].session => e = epoch
        BY <2>2, <2>5
      <3>3. QED
        BY <1>0, <1>2, <2>1, <2>5, <3>1, <3>2 DEF PendingInv
    <2>6. /\ submitted'[e] \in Nat /\ submitted[e] <= submitted'[e]
          /\ ~disturbed[e] /\ stream[t].status \in {"created", "sending"} =>
               submitted'[e] = submitted[e]
      BY <1>a, <2>4, <2>5
    <2>7. QED
      BY <1>0, <2>3, <2>6, StreamKept
  <1>3. ASSUME BeginSend(t) \/ SendDone(t) PROVE StreamOK(t)'
    <2>1. /\ stream'[t].epoch = e /\ stream'[t].skip = stream[t].skip
          /\ stream'[t].next = n /\ stream'[t].own = stream[t].own
          /\ stream'[t].heard = stream[t].heard
          /\ \/ stream[t].status = "created" /\ stream'[t].status = "sending"
             \/ stream[t].status = "sent" /\ stream'[t].status = "receiving"
          /\ log' = log /\ submitted' = submitted /\ disturbed' = disturbed
      <3>1. CASE BeginSend(t)
        BY <1>0, <3>1 DEF BeginSend, Stream
      <3>2. CASE SendDone(t)
        BY <1>0, <3>2 DEF SendDone, Stream
      <3>3. QED
        BY <1>3, <3>1, <3>2
    <2>2. PassedReply(t)' = PassedReply(t)
      BY <2>1 DEF PassedReply, ReplyTo
    <2>3. UnsentInv(t) => UnsentInv(t)'
      BY <2>1 DEF UnsentInv, TurnAt
    <2>4. SentInv(t) => SentInv(t)'
      BY <2>1, <2>2 DEF SentInv, TurnAt
    <2>5. QED
      BY <1>0, <2>1, <2>3, <2>4 DEF StreamOK, ReplyTo
  <1>4. ASSUME Submit(t) PROVE StreamOK(t)'
    <2>1. t \in Pending /\ stream[t].status = "sending"
      BY <1>4 DEF Submit, Pending
    <2> SUFFICES ASSUME ~disturbed[e] PROVE StreamOK(t)'
      <3>1. stream'[t].epoch = e /\ disturbed' = disturbed
        BY <1>0, <1>4 DEF Submit, Stream
      <3>2. QED
        BY <3>1 DEF StreamOK
    <2>2. e = epoch /\ stream[t].session = e
      BY <1>0, <2>1, SessionOfPending DEF PendingInv
    <2>3. /\ stream'[t].epoch = e /\ stream'[t].skip = stream[t].skip
          /\ stream'[t].next = n /\ stream'[t].own = submitted[e] + 1
          /\ stream'[t].heard = stream[t].heard
          /\ stream'[t].status = "sent"
          /\ log' = log /\ submitted'[e] = submitted[e] + 1
      BY <1>0, <1>4, <1>a, <2>2 DEF Submit, Stream, TypeOK
    <2>4. UnsentInv(t)
      BY <1>0, <2>1 DEF StreamOK
    <2>5. TurnAt(log'[e], n) = TurnAt(l, n)
      BY <2>3
    <2>6. PassedReply(t)' = {}
      <3>1. \A i \in 1..Len(l) : l[i].turn <= submitted[e] /\ l[i].turn \in Nat
        <4>1. \A i \in 1..Len(l) : l[i] \in Entry
          BY <1>a
        <4>2. QED
          BY <1>0, <1>a, <4>1 DEF LogInv, Entry
      <3>2. \A i \in 1..Len(l) : l[i].turn # submitted[e] + 1
        BY <1>a, <3>1
      <3>3. ReplyTo(l, submitted[e] + 1) = {}
        BY <1>a, <3>2 DEF ReplyTo
      <3>4. PassedReply(t)' = ReplyTo(l, submitted[e] + 1) \cap 1..(n - 1)
        BY <2>3 DEF PassedReply, ReplyTo
      <3>5. QED
        BY <3>3, <3>4
    <2>7. SentInv(t)'
      BY <1>a, <2>3, <2>4, <2>5, <2>6 DEF UnsentInv, SentInv
    <2>8. QED
      BY <2>3, <2>4, <2>7 DEF StreamOK, UnsentInv
  <1>5. ASSUME TakeText(t) \/ SkipEnd(t) \/ TakeOwnEnd(t) PROVE StreamOK(t)'
    <2>1. /\ n <= Len(l) /\ stream[t].status = "receiving"
          /\ log' = log /\ submitted' = submitted /\ disturbed' = disturbed
      BY <1>5, <1>a DEF TakeText, SkipEnd, TakeOwnEnd
    <2>2. /\ stream'[t].epoch = e /\ stream'[t].next = n + 1
          /\ stream'[t].own = stream[t].own
      <3>1. CASE TakeText(t)
        BY <1>0, <3>1 DEF TakeText, Stream
      <3>2. CASE SkipEnd(t)
        BY <1>0, <3>2 DEF SkipEnd, Stream
      <3>3. CASE TakeOwnEnd(t)
        BY <1>0, <3>3 DEF TakeOwnEnd, Stream
      <3>4. QED
        BY <1>5, <3>1, <3>2, <3>3
    <2> SUFFICES ASSUME ~disturbed[e] PROVE StreamOK(t)'
      BY <2>1, <2>2 DEF StreamOK
    <2>3. /\ stream[t].skip + TurnAt(l, n) = stream[t].own
          /\ stream[t].own <= submitted[e]
          /\ stream[t].heard = PassedReply(t)
      BY <1>0, <2>1 DEF StreamOK, SentInv
    <2>4. l[n] \in Entry /\ l[n].turn = TurnAt(l, n) /\ l[n].end \in BOOLEAN
      BY <1>c, <2>1 DEF Entry
    <2>5. PassedReply(t)' =
            PassedReply(t) \cup (IF l[n].turn = stream[t].own /\ ~l[n].end THEN {n} ELSE {})
      <3>1. 1..((n + 1) - 1) = 1..(n - 1) \cup {n}
        BY <1>a
      <3>2. n \in DOMAIN l
        BY <1>a, <2>1
      <3>3. PassedReply(t)' = ReplyTo(l, stream[t].own) \cap 1..((n + 1) - 1)
        BY <2>1, <2>2 DEF PassedReply, ReplyTo
      <3>4. n \in ReplyTo(l, stream[t].own) <=> l[n].turn = stream[t].own /\ ~l[n].end
        BY <3>2 DEF ReplyTo
      <3>5. QED
        BY <3>1, <3>3, <3>4 DEF PassedReply
    <2>6. stream'[t].heard = PassedReply(t)' => stream'[t].heard \subseteq
            ReplyTo(log'[stream'[t].epoch], stream'[t].own)
      BY DEF PassedReply
    <2>7. CASE TakeText(t)
      <3>1. /\ stream'[t].status = "receiving" /\ stream'[t].skip = stream[t].skip
            /\ stream'[t].heard = HeardAfterText(t) /\ ~l[n].end
        BY <1>0, <2>7 DEF TakeText, Stream
      <3>2. l[n].turn = stream[t].own <=> stream[t].skip = 0
        BY <1>a, <1>b, <2>3, <2>4
      <3>3. stream'[t].heard = PassedReply(t)'
        BY <2>3, <2>5, <3>1, <3>2 DEF HeardAfterText
      <3>4. SentInv(t)'
        BY <1>d, <2>1, <2>2, <2>3, <2>4, <3>1, <3>3 DEF SentInv
      <3>5. QED
        BY <2>6, <3>1, <3>3, <3>4 DEF StreamOK
    <2>8. CASE SkipEnd(t)
      <3>1. /\ stream'[t].status = "receiving" /\ stream'[t].skip = stream[t].skip - 1
            /\ stream'[t].heard = stream[t].heard /\ l[n].end
        BY <1>0, <2>8 DEF SkipEnd, Stream
      <3>2. stream'[t].heard = PassedReply(t)'
        BY <2>3, <2>5, <3>1
      <3>3. TurnAt(l, n + 1) = TurnAt(l, n) + 1
        BY <1>d, <2>4, <3>1
      <3>4. SentInv(t)'
        BY <1>a, <1>b, <2>1, <2>2, <2>3, <3>1, <3>2, <3>3, SMTT(30) DEF SentInv
      <3>5. QED
        BY <2>6, <3>1, <3>2, <3>4 DEF StreamOK
    <2>9. CASE TakeOwnEnd(t)
      <3>1. /\ stream'[t].status = "done" /\ stream[t].skip = 0
            /\ stream'[t].heard = stream[t].heard /\ l[n].end
        BY <1>0, <2>9 DEF TakeOwnEnd, AtOwnEnd, Stream
      <3>2. stream'[t].heard = PassedReply(t)'
        BY <2>3, <2>5, <3>1
      <3>3. EndedByOwnEndInv(t)'
        BY <1>a, <1>b, <2>1, <2>2, <2>3, <2>4, <3>1, <3>2 DEF EndedByOwnEndInv
      <3>4. QED
        BY <2>6, <3>1, <3>2, <3>3 DEF StreamOK
    <2>10. QED
      BY <1>5, <2>7, <2>8, <2>9
  <1>6. ASSUME EndQuietly(t) \/ Abandon(t) PROVE StreamOK(t)'
    <2>1. /\ stream'[t].epoch = e /\ stream'[t].own = stream[t].own
          /\ stream'[t].heard = stream[t].heard
          /\ stream'[t].status = "abandoned" \/ (stream'[t].status = "done" /\ stream'[t].ended)
          /\ log' = log
      BY <1>0, <1>6, SMTT(30) DEF EndQuietly, Abandon, Stream
    <2>2. QED
      BY <1>0, <1>a, <2>1 DEF StreamOK, ReplyTo
  <1>7. ASSUME Turn(t) PROVE StreamOK(t)'
    <2>1. /\ stream'[t] = NewStream /\ log' = log /\ submitted' = submitted
          /\ disturbed[epoch] \/ CutAcross => disturbed'[epoch]
      BY <1>0, <1>7 DEF Turn, DetachActive
    <2>2. /\ stream'[t].status = "created" /\ stream'[t].epoch = epoch
          /\ stream'[t].skip = unfinished /\ stream'[t].next = read + 1
          /\ stream'[t].heard = {}
      BY <2>1 DEF NewStream, SkipAtTurn
    <2>3. ~CutAcross => Uncounted = 0
      BY DEF CutAcross, Pending, Uncounted
    <2>4. ~disturbed'[epoch] => unfinished + TurnAt(log[epoch], read + 1) = submitted[epoch] + 1
      <3>1. unfinished \in Nat
        BY DEF TypeOK
      <3>2. QED
        BY <1>0, <2>1, <2>3, <3>1 DEF DebtInv
    <2>5. ~disturbed'[epoch] => UnsentInv(t)'
      BY <2>1, <2>2, <2>4 DEF UnsentInv
    <2>6. QED
      BY <2>2, <2>5 DEF StreamOK
  <1>8. ASSUME \/ \E s \in Streams : s # t /\ Turn(s)
               \/ Reset \/ Close \/ Poll \/ LaptopInput
        PROVE  StreamOK(t)'
    <2>1. /\ stream'[t].status = stream[t].status
          /\ stream'[t].epoch = stream[t].epoch
          /\ stream'[t].skip = stream[t].skip
          /\ stream'[t].next = stream[t].next
          /\ stream'[t].own = stream[t].own
          /\ stream'[t].heard = stream[t].heard
          /\ ~stream'[t].ended => ~stream[t].ended
      <3>1. CASE Poll
        BY <1>0, <3>1 DEF Poll, Stream
      <3>2. CASE LaptopInput
        BY <3>2 DEF LaptopInput
      <3>3. CASE ~Poll /\ ~LaptopInput
        <4>1. stream'[t] = DetachActive[t]
          BY <1>8, <3>3 DEF Turn, Reset, Close, DetachActive
        <4>2. QED
          BY <4>1, DetachFields
      <3>4. QED
        BY <3>1, <3>2, <3>3
    <2>2. log' = log
      BY <1>8 DEF Turn, Reset, Close, Poll, LaptopInput
    <2>3. CASE ~LaptopInput
      <3>1. submitted' = submitted
        BY <1>8, <2>3 DEF Turn, Reset, Close, Poll
      <3>2. QED
        BY <1>0, <1>a, <2>1, <2>2, <3>1, StreamKept
    <2>4. CASE LaptopInput
      <3>1. CASE e = epoch
        <4>1. disturbed'[e]
          BY <1>0, <2>4, <3>1 DEF LaptopInput
        <4>2. QED
          BY <2>1, <4>1 DEF StreamOK
      <3>2. CASE e # epoch
        <4>1. submitted'[e] = submitted[e]
          BY <1>a, <2>4, <3>2 DEF LaptopInput, TypeOK
        <4>2. QED
          BY <1>0, <1>a, <2>1, <2>2, <4>1, StreamKept
      <3>3. QED
        BY <3>1, <3>2
    <2>5. QED
      BY <2>3, <2>4
  <1>9. ASSUME NEW end \in BOOLEAN, Write(end) PROVE StreamOK(t)'
    <2>1. stream' = stream /\ submitted' = submitted /\ disturbed' = disturbed
      BY <1>9 DEF Write
    <2> DEFINE x == [turn |-> Answering, end |-> end]
               m == log'[e]
    <2>2. x \in Entry
      <3>1. log[epoch] \in Seq(Entry)
        BY <1>0 DEF TypeOK
      <3>2. QED
        BY <3>1, TurnAtType DEF Answering, Entry
    <2>3. m = l \/ m = Append(l, x)
      BY <1>0, <1>9, <1>a DEF Write, TypeOK
    <2>4. /\ DOMAIN l \subseteq DOMAIN m
          /\ \A i \in DOMAIN l : m[i] = l[i]
      BY <1>a, <2>2, <2>3
    <2>5. TurnAt(m, n) = TurnAt(l, n)
      BY <1>a, <2>2, <2>3, TurnAtAppend
    <2>6. ReplyTo(l, stream[t].own) \subseteq ReplyTo(m, stream[t].own)
      BY <2>4 DEF ReplyTo
    <2>7. 1..(n - 1) \subseteq DOMAIN l
      BY <1>a
    <2>8. PassedReply(t)' = PassedReply(t)
      <3>1. PassedReply(t)' = ReplyTo(m, stream[t].own) \cap 1..(n - 1)
        BY <2>1 DEF PassedReply
      <3>2. \A i \in 1..(n - 1) : i \in ReplyTo(m, stream[t].own) <=> i \in ReplyTo(l, stream[t].own)
        BY <2>4, <2>7 DEF ReplyTo
      <3>3. QED
        BY <3>1, <3>2 DEF PassedReply
    <2>9. UnsentInv(t) => UnsentInv(t)'
      BY <2>1, <2>5 DEF UnsentInv
    <2>10. SentInv(t) => SentInv(t)'
      BY <2>1, <2>5, <2>8 DEF SentInv
    <2>11. EndedByOwnEndInv(t) => EndedByOwnEndInv(t)'
      <3>1. ASSUME EndedByOwnEndInv(t) PROVE EndedByOwnEndInv(t)'
        <4>1. /\ n - 1 \in 1..Len(l) /\ l[n - 1].end
              /\ l[n - 1].turn = stream[t].own /\ stream[t].heard = PassedReply(t)
          BY <3>1 DEF EndedByOwnEndInv
        <4>2. n - 1 \in 1..Len(m) /\ m[n - 1] = l[n - 1]
          BY <1>a, <2>2, <2>3, <2>4, <4>1
        <4>3. QED
          BY <2>1, <2>8, <4>1, <4>2 DEF EndedByOwnEndInv
      <3>2. QED
        BY <3>1
    <2>12. QED
      BY <1>0, <2>1, <2>6, <2>9, <2>10, <2>11 DEF StreamOK
  <1>10. CASE UNCHANGED vars
    <2>1. stream' = stream /\ log' = log /\ submitted' = submitted
      BY <1>10 DEF vars
    <2>2. QED
      BY <1>0, <1>a, <2>1, StreamKept
  <1>11. QED
    BY <1>1, <1>2, <1>3, <1>4, <1>5, <1>6, <1>7, <1>8, <1>9, <1>10
    DEF Next, StreamStep, SessionText, SessionEnd

-----------------------------------------------------------------------------
(* The theorems.                                                           *)

\* Before the first input nothing is owed, nothing is queued and nothing is on
\* its way.
LEMMA InitIInv == Init => IInv
  <1> SUFFICES ASSUME Init PROVE IInv
    OBVIOUS
  <1>1. 1 \in Epochs /\ Epochs \subseteq Nat
    BY ConvoBridgeAssumption DEF Epochs
  <1>2. \A s \in Streams : stream[s] = Unused
    BY DEF Init
  <1>3. Pending = {}
    BY <1>2 DEF Pending, Unused
  <1>4. LogInv
    BY DEF Init, LogInv
  <1>5. CursorInv
    BY <1>1, <1>2 DEF Init, CursorInv, Unused
  <1>6. PendingInv
    BY <1>3 DEF PendingInv
  <1>7. DebtInv
    <2>1. Uncounted = 0
      BY <1>2 DEF Uncounted, Unused
    <2>2. TurnAt(log[epoch], read + 1) = 1
      BY DEF Init, TurnAt
    <2>3. QED
      BY <1>1, <2>1, <2>2 DEF Init, DebtInv
  <1>8. StreamInv
    BY <1>2 DEF StreamInv, StreamOK, Unused
  <1>9. QED
    BY <1>4, <1>5, <1>6, <1>7, <1>8 DEF IInv

\* Every reachable state satisfies the inductive invariant.
THEOREM Inductive == Spec => [](TypeOK /\ IInv)
  <1>1. Init => TypeOK /\ IInv
    BY InitTypeOK, InitIInv
  <1>2. TypeOK /\ IInv /\ [Next]_vars => TypeOK' /\ IInv'
    BY TypeStep, LogStep, CursorStep, PendingStep, DebtStep, StreamsStep DEF IInv
  <1>3. QED
    BY <1>1, <1>2, PTL DEF Spec

\* A stream speaks only the reply to its own text, as long as no send of its
\* session was cut across: turn() keeps the promise of its docstring there.
THEOREM SpeaksOwnReplyAlways == Spec => []SpeaksOwnReply
  <1>1. IInv => SpeaksOwnReply
    BY DEF IInv, StreamInv, StreamOK, SpeaksOwnReply
  <1>2. QED
    BY <1>1, Inductive, PTL

\* _unfinished is what the session owes run(), whenever no text is on its way.
THEOREM CountsOwedEndsAlways == Spec => []CountsOwedEnds
  <1>1. TypeOK /\ IInv => CountsOwedEnds
    <2> SUFFICES ASSUME TypeOK, IInv, ~disturbed[epoch], Pending = {}
                 PROVE  unfinished + TurnAt(log[epoch], read + 1) = submitted[epoch] + 1
      BY DEF CountsOwedEnds
    <2>1. Uncounted = 0 /\ unfinished \in Nat
      BY DEF Pending, Uncounted, TypeOK
    <2>2. QED
      BY <2>1 DEF IInv, DebtInv
  <1>2. QED
    BY <1>1, Inductive, PTL

\* A stream that ran into its own TurnEnd has yielded every text block of its
\* reply: nothing of that reply can follow the end that ended the stream.
THEOREM SpeaksWholeReplyAlways == Spec => []SpeaksWholeReply
  <1>1. TypeOK /\ IInv => SpeaksWholeReply
    <2> SUFFICES ASSUME TypeOK, IInv, NEW s \in Streams, stream[s].status = "done",
                        ~stream[s].ended, ~disturbed[stream[s].epoch]
                 PROVE  stream[s].heard = ReplyTo(log[stream[s].epoch], stream[s].own)
      BY DEF SpeaksWholeReply
    <2> DEFINE e == stream[s].epoch
               l == log[e]
               last == stream[s].next - 1
    <2>1. /\ last \in 1..Len(l) /\ l[last].end /\ l[last].turn = stream[s].own
          /\ stream[s].heard = PassedReply(s)
      BY DEF IInv, StreamInv, StreamOK, EndedByOwnEndInv
    <2>2. e \in Epochs /\ l \in Seq(Entry) /\ Len(l) \in Nat /\ DOMAIN l = 1..Len(l)
      BY DEF TypeOK, Stream
    <2>3. ASSUME NEW i \in 1..Len(l), i > last PROVE l[i].turn # stream[s].own
      <3>1. l[last].turn < l[i].turn
        BY <2>1, <2>2, <2>3 DEF IInv, LogInv
      <3>2. l[last] \in Entry /\ l[i] \in Entry
        BY <2>1, <2>2
      <3>3. QED
        BY <2>1, <3>1, <3>2 DEF Entry
    <2>4. ReplyTo(l, stream[s].own) \subseteq 1..last
      BY <2>1, <2>2, <2>3 DEF ReplyTo
    <2>5. QED
      BY <2>1, <2>4 DEF PassedReply
  <1>2. QED
    BY <1>1, Inductive, PTL

\* No stream goes past its own TurnEnd and waits for another.
THEOREM StopsAtOwnEndAlways == Spec => []StopsAtOwnEnd
  <1>1. TypeOK /\ IInv => StopsAtOwnEnd
    <2> SUFFICES ASSUME TypeOK, IInv, NEW s \in Streams, stream[s].status = "receiving",
                        ~disturbed[stream[s].epoch],
                        NEW i \in 1..(stream[s].next - 1),
                        log[stream[s].epoch][i].end
                 PROVE  log[stream[s].epoch][i].turn # stream[s].own
      BY DEF StopsAtOwnEnd
    <2> DEFINE e == stream[s].epoch
               n == stream[s].next
    <2>1. /\ e \in Epochs /\ n \in 1..(Len(log[e]) + 1)
          /\ stream[s].skip \in Nat /\ log[e] \in Seq(Entry)
      BY SMTT(30) DEF TypeOK, Stream, IInv, CursorInv
    <2>2. TurnAt(log[e], n) \in Nat \ {0}
      BY <2>1, TurnAtType
    <2>3. stream[s].skip + TurnAt(log[e], n) = stream[s].own
      BY DEF IInv, StreamInv, StreamOK, SentInv
    <2>4. i \in 1..Len(log[e]) /\ log[e][i].turn < TurnAt(log[e], n)
      BY <2>1, TurnAtLater DEF IInv
    <2>5. log[e][i].turn \in Nat
      <3>1. log[e][i] \in Entry
        BY <2>1, <2>4
      <3>2. QED
        BY <3>1 DEF Entry
    <2>6. QED
      BY <2>1, <2>2, <2>3, <2>4, <2>5
  <1>2. QED
    BY <1>1, Inductive, PTL
=============================================================================
