--------------------------- MODULE ConvoRuntime_proofs ---------------------------
(***************************************************************************)
(* Proofs about ConvoRuntime, for every number of sockets, chat entries    *)
(* and pipelines: type correctness; who has the place, the pipeline and    *)
(* the lock; and the chat on the live phone.                               *)
(***************************************************************************)
EXTENDS ConvoRuntime, SequenceTheorems, TLAPS

-----------------------------------------------------------------------------
(* The inductive invariants.                                               *)

Teardown == {"closing", "cancelling", "parting"}
Busy == Teardown \cup {"replaying"}

\* The lock is held from the first await of attach() or detach() to its end, and
\* meanwhile the runtime has no socket and no pipeline; what it had is in old until
\* it is disposed of.
LockInv ==
  /\ \A c \in Conns : socket[c].at \in Busy <=> lock = c
  /\ lock # None => conn = None
  /\ lock = None \/ socket[lock].at = "replaying" => old = Nothing
  /\ lock # None /\ socket[lock].at \in Teardown =>
       /\ old.conn # None /\ old.pipeline # 0
       /\ socket[lock].at = "parting" => old.conn # lock
       /\ socket[lock].at \in {"cancelling", "parting"} => pipe[old.pipeline].closed

\* The live socket has the pushes and a pipeline of its own, and if it leaves the
\* phone is gone.
PlaceInv ==
  /\ pushConn = conn
  /\ conn = None <=> pipeline = 0
  /\ conn # None =>
       /\ pipe[pipeline].owner = conn
       /\ socket[conn].at \in {"live", "leaving"}
       /\ socket[conn].at = "leaving" => ~socket[conn].open

\* A task that sleeps has closed its pipeline; that is why the next one is alone.
TaskInv ==
  \A c \in Conns :
    /\ task[c].at # "none" => task[c].pipeline # 0
    /\ task[c].at = "sleeping" => pipe[task[c].pipeline].closed

RuntimeInv == LockInv /\ PlaceInv /\ TaskInv /\ NoPipelineLeaks /\ SwitchesSurvive

UpTo(n) == [i \in 1..n |-> i]

\* A socket has been sent nothing before its replay, then the history as far as it
\* goes; and the history that nothing slipped past is all n entries pushed so far.
Sent(s, n) ==
  /\ ~s.open => s.got = <<>>
  /\ s.at \in {"away", "waiting"} \cup Teardown => s.got = <<>>
  /\ s.at # "replaying" => s.sent = 0
  /\ s.at = "replaying" =>
       /\ s.sent < s.history
       /\ s.open => s.got = UpTo(s.sent)
       /\ ~s.slipped => s.history = n

\* What it must have been sent to go live.
Whole(s, n) == s.open /\ ~s.slipped => s.got = UpTo(n)

ChatInv ==
  \A c \in Conns : Sent(socket[c], fanned) /\ (conn = c => Whole(socket[c], fanned))

-----------------------------------------------------------------------------
(* What the pieces of the actions do to the pipelines and the sockets.     *)

\* A pipeline more.
LEMMA Appended ==
  ASSUME NEW q \in Seq(Pipe), NEW p \in Pipe
  PROVE  /\ Append(q, p) \in Seq(Pipe)
         /\ Len(q) + 1 \in Nat \ {0} /\ Len(q) + 1 \notin DOMAIN q
         /\ DOMAIN Append(q, p) = DOMAIN q \cup {Len(q) + 1}
         /\ \A i \in DOMAIN q : Append(q, p)[i] = q[i]
         /\ Append(q, p)[Len(q) + 1] = p
  <1>1. /\ Append(q, p) \in Seq(Pipe) /\ Len(Append(q, p)) = Len(q) + 1
        /\ \A i \in 1..Len(q) : Append(q, p)[i] = q[i]
        /\ Append(q, p)[Len(q) + 1] = p
    BY AppendProperties
  <1>2. Len(q) \in Nat /\ DOMAIN q = 1..Len(q) /\ DOMAIN Append(q, p) = 1..(Len(q) + 1)
    BY <1>1, LenProperties
  <1>3. QED
    BY <1>1, <1>2

\* One pipeline changed, if there is such a one.
LEMMA Replaced ==
  ASSUME NEW q \in Seq(Pipe), NEW i \in Nat, NEW p, i \in DOMAIN q => p \in Pipe
  PROVE  /\ [q EXCEPT ![i] = p] \in Seq(Pipe)
         /\ DOMAIN [q EXCEPT ![i] = p] = DOMAIN q
         /\ \A j \in DOMAIN q : [q EXCEPT ![i] = p][j] = IF j = i THEN p ELSE q[j]
  <1>1. Len(q) \in Nat /\ DOMAIN q = 1..Len(q)
    BY LenProperties
  <1>2. CASE i \in DOMAIN q
    <2>1. i \in 1..Len(q) /\ p \in Pipe
      BY <1>1, <1>2
    <2>2. [q EXCEPT ![i] = p] \in Seq(Pipe)
      BY <2>1, ExceptSeq
    <2>3. QED
      BY <1>1, <1>2, <2>2
  <1>3. CASE i \notin DOMAIN q
    <2>1. [q EXCEPT ![i] = p] = q
      BY <1>1, <1>3
    <2>2. QED
      BY <1>1, <1>3, <2>1
  <1>4. QED
    BY <1>2, <1>3

\* A closed pipeline keeps its owner; all others stay as they are.
LEMMA Closed ==
  ASSUME pipe \in Seq(Pipe), NEW p \in Nat, ClosePipe(p)
  PROVE  /\ pipe' \in Seq(Pipe) /\ DOMAIN pipe' = DOMAIN pipe
         /\ \A i \in DOMAIN pipe : pipe'[i].owner = pipe[i].owner /\ (i # p => pipe'[i] = pipe[i])
         /\ p \in DOMAIN pipe => pipe'[p].closed
  <1> DEFINE shut == [pipe[p] EXCEPT !.closed = TRUE, !.switches = {}]
  <1>1. pipe' = [pipe EXCEPT ![p] = shut]
    BY DEF ClosePipe
  <1>2. ASSUME p \in DOMAIN pipe
        PROVE  shut \in Pipe /\ shut.closed /\ shut.owner = pipe[p].owner
    <2>1. pipe[p] \in Pipe
      BY <1>2, LenProperties, ElementOfSeq
    <2>2. QED
      BY <2>1 DEF Pipe
  <1> HIDE DEF shut
  <1>3. /\ pipe' \in Seq(Pipe) /\ DOMAIN pipe' = DOMAIN pipe
        /\ \A j \in DOMAIN pipe : pipe'[j] = IF j = p THEN shut ELSE pipe[j]
    BY <1>1, <1>2, Replaced
  <1>4. \A i \in DOMAIN pipe : pipe'[i].owner = pipe[i].owner
    BY <1>2, <1>3
  <1>5. QED
    BY <1>2, <1>3, <1>4

\* The updates of a socket that the steps make leave a socket.
LEMMA SocketUpdate ==
  ASSUME NEW s \in Socket
  PROVE  /\ \A stage \in Stage : [s EXCEPT !.at = stage] \in Socket
         /\ CutOff(s) \in Socket
         /\ \A entry \in Nat : Receives(s, entry) \in Socket
         /\ \A n \in Nat : [s EXCEPT !.sent = n] \in Socket
         /\ \A n \in Nat, b \in BOOLEAN : [s EXCEPT !.history = n, !.slipped = b] \in Socket
         /\ \A b \in BOOLEAN : [s EXCEPT !.slipped = b] \in Socket
         /\ [s EXCEPT !.at = "live", !.history = 0, !.sent = 0] \in Socket
  <1>1. "live" \in Stage
    BY DEF Stage
  <1>2. CutOff(s) \in Socket
    <2>1. <<>> \in Seq(Nat)
      BY EmptySeq
    <2>2. QED
      BY <2>1 DEF CutOff, Socket
  <1>3. ASSUME NEW entry \in Nat PROVE Receives(s, entry) \in Socket
    <2>1. s.got \in Seq(Nat)
      BY DEF Socket
    <2>2. PICK g \in Seq(Nat) : g = Append(s.got, entry)
      BY <2>1, AppendProperties
    <2>3. [s EXCEPT !.got = g] \in Socket
      BY DEF Socket
    <2>4. QED
      BY <2>2, <2>3 DEF Receives
  <1>4. QED
    BY <1>1, <1>2, <1>3 DEF Socket

\* Nobody is on the new socket yet, and a socket that is done is one too.
LEMMA NewSocketType == NewSocket \in Socket /\ [CutOff(NewSocket) EXCEPT !.at = "gone"] \in Socket
  <1>1. NewSocket \in Socket
    <2>1. <<>> \in Seq(Nat) /\ "away" \in Stage
      BY EmptySeq DEF Stage
    <2>2. QED
      BY <2>1 DEF NewSocket, Socket
  <1>2. "gone" \in Stage
    BY DEF Stage
  <1>3. QED
    BY <1>1, <1>2, SocketUpdate

-----------------------------------------------------------------------------
(* Type correctness.                                                       *)

\* Going live keeps the types.
LEMMA GoLiveType ==
  ASSUME TypeOK, NEW c \in Conns, NEW sockets \in [Conns -> Socket], GoLive(c, sockets), ChatUnchanged,
         old' = old \/ old' = Nothing
  PROVE  TypeOK'
  <1>1. FreshPipe(c) \in Pipe
    BY DEF FreshPipe, Pipe
  <1>2. /\ pipe' \in Seq(Pipe) /\ DOMAIN pipe' = DOMAIN pipe \cup {Len(pipe) + 1}
    BY <1>1, Appended DEF TypeOK, GoLive
  <1>3. task' \in [Conns -> [at : TaskStage, pipeline : {0} \cup DOMAIN pipe']]
    <2>1. [at |-> "running", pipeline |-> Len(pipe) + 1] \in [at : TaskStage, pipeline : {0} \cup DOMAIN pipe']
      BY <1>2 DEF TaskStage
    <2>2. task \in [Conns -> [at : TaskStage, pipeline : {0} \cup DOMAIN pipe']]
      BY <1>2 DEF TypeOK
    <2>3. QED
      BY <2>1, <2>2 DEF GoLive
  <1>4. socket' \in [Conns -> Socket]
    BY SocketUpdate DEF TypeOK, GoLive
  <1>5. old' \in [conn : Conns \cup {None}, pipeline : {0} \cup DOMAIN pipe']
    BY <1>2 DEF TypeOK, Nothing
  <1>6. QED
    BY <1>2, <1>3, <1>4, <1>5 DEF TypeOK, GoLive, ChatUnchanged, LockReleased

\* So does the start of a replay.
LEMMA StartReplayType ==
  ASSUME TypeOK, NEW c \in Conns, NEW sockets \in [Conns -> Socket], StartReplay(c, sockets), ChatUnchanged,
         old' = old \/ old' = Nothing
  PROVE  TypeOK'
  <1> DEFINE read == [sockets EXCEPT ![c] = [@ EXCEPT !.history = log, !.slipped = fanned # log]]
  <1>1. read \in [Conns -> Socket]
    <2>1. PICK b \in BOOLEAN : b = (fanned # log)
      OBVIOUS
    <2>2. [sockets[c] EXCEPT !.history = log, !.slipped = b] \in Socket
      BY SocketUpdate DEF TypeOK
    <2>3. QED
      BY <2>1, <2>2
  <1>2. \/ GoLive(c, read)
        \/ /\ lock' = c /\ socket' = [read EXCEPT ![c] = [read[c] EXCEPT !.at = "replaying"]]
           /\ PlaceUnchanged /\ UNCHANGED <<pipe, task>>
    BY DEF StartReplay
  <1> HIDE DEF read
  <1>3. CASE GoLive(c, read)
    BY <1>1, <1>3, GoLiveType
  <1>4. CASE /\ lock' = c /\ socket' = [read EXCEPT ![c] = [read[c] EXCEPT !.at = "replaying"]]
             /\ PlaceUnchanged /\ UNCHANGED <<pipe, task>>
    <2>1. [read[c] EXCEPT !.at = "replaying"] \in Socket
      BY <1>1, SocketUpdate DEF Stage
    <2>2. socket' \in [Conns -> Socket]
      BY <1>1, <1>4, <2>1
    <2>3. QED
      BY <1>4, <2>2 DEF TypeOK, ChatUnchanged, PlaceUnchanged, Nothing
  <1>5. QED
    BY <1>2, <1>3, <1>4

\* And the start of a teardown.
LEMMA StartTeardownType ==
  ASSUME TypeOK, NEW c \in Conns, StartTeardown(c), ChatUnchanged
  PROVE  TypeOK'
  <1>1. socket' \in [Conns -> Socket]
    BY SocketUpdate DEF TypeOK, StartTeardown, Go, Stage
  <1>2. QED
    BY <1>1 DEF TypeOK, StartTeardown, ChatUnchanged, PushAfterTeardown

\* Every step keeps the types.
LEMMA TypeStep == TypeOK /\ [Next]_vars => TypeOK'
  <1> SUFFICES ASSUME TypeOK, [Next]_vars PROVE TypeOK'
    OBVIOUS
  <1>0. /\ pipe \in Seq(Pipe) /\ \A c \in Conns : socket[c] \in Socket /\ task[c].pipeline \in {0} \cup DOMAIN pipe
        /\ Len(pipe) \in Nat /\ DOMAIN pipe = 1..Len(pipe)
    BY LenProperties DEF TypeOK
  <1>1. ASSUME NEW c \in Conns, NEW stage \in Stage, Go(c, stage) PROVE socket' \in [Conns -> Socket]
    BY <1>1, SocketUpdate DEF TypeOK, Go
  <1>2. ASSUME NEW c \in Conns, BeGone(c) PROVE socket' \in [Conns -> Socket]
    BY <1>2, NewSocketType DEF TypeOK, BeGone
  <1>3. ASSUME NEW c \in Conns, Hello(c) PROVE TypeOK'
    <2>1. socket' \in [Conns -> Socket]
      BY <1>1, <1>3 DEF Hello, Stage
    <2>2. QED
      BY <1>3, <2>1 DEF Hello, TypeOK, ChatUnchanged, PlaceUnchanged
  <1>4. ASSUME NEW c \in Conns, Attach(c) PROVE TypeOK'
    <2>1. CASE StartTeardown(c)
      BY <1>4, <2>1, StartTeardownType DEF Attach
    <2>2. CASE StartReplay(c, socket) /\ UNCHANGED old
      <3>1. socket \in [Conns -> Socket] /\ ChatUnchanged
        BY <1>4 DEF Attach, TypeOK
      <3>2. QED
        BY <2>2, <3>1, StartReplayType
    <2>3. QED
      BY <1>4, <2>1, <2>2 DEF Attach
  <1>5. ASSUME NEW c \in Conns, Drop(c) PROVE TypeOK'
    <2>1. socket' \in [Conns -> Socket]
      BY <1>5, SocketUpdate DEF Drop, TypeOK
    <2>2. QED
      BY <1>5, <2>1 DEF Drop, TypeOK, ChatUnchanged, PlaceUnchanged
  <1>6. ASSUME NEW c \in Conns, Leave(c) PROVE TypeOK'
    <2>1. socket' \in [Conns -> Socket]
      BY <1>1, <1>6 DEF Leave, Stage
    <2>2. QED
      BY <1>6, <2>1 DEF Leave, TypeOK, ChatUnchanged, PlaceUnchanged
  <1>7. ASSUME NEW c \in Conns, Detach(c) PROVE TypeOK'
    <2>1. CASE StartTeardown(c)
      BY <1>7, <2>1, StartTeardownType DEF Detach
    <2>2. CASE BeGone(c) /\ PlaceUnchanged /\ UNCHANGED <<lock, old, pipe, task>>
      BY <1>2, <1>7, <2>2 DEF Detach, TypeOK, ChatUnchanged, PlaceUnchanged
    <2>3. QED
      BY <1>7, <2>1, <2>2 DEF Detach
  <1>8. ASSUME NEW c \in Conns, PipelineClosed(c) PROVE TypeOK'
    <2>1. socket' \in [Conns -> Socket]
      BY <1>1, <1>8 DEF PipelineClosed, Stage
    <2>2. old.pipeline \in Nat
      BY <1>0 DEF TypeOK
    <2>3. pipe' \in Seq(Pipe) /\ DOMAIN pipe' = DOMAIN pipe
      BY <1>0, <1>8, <2>2, Closed DEF PipelineClosed
    <2>4. QED
      BY <1>8, <2>1, <2>3 DEF PipelineClosed, TypeOK, ChatUnchanged, PlaceUnchanged
  <1>9. ASSUME NEW c \in Conns, TaskCancelled(c) PROVE TypeOK'
    <2>1. socket' \in [Conns -> Socket]
      BY <1>1, <1>2, <1>9 DEF TaskCancelled, Stage
    <2>2. NoTask \in [at : TaskStage, pipeline : {0} \cup DOMAIN pipe]
      BY DEF NoTask, TaskStage
    <2>3. task' \in [Conns -> [at : TaskStage, pipeline : {0} \cup DOMAIN pipe]]
      BY <1>9, <2>2 DEF TaskCancelled, TypeOK
    <2>4. QED
      BY <1>9, <2>1, <2>3 DEF TaskCancelled, TypeOK, ChatUnchanged, PlaceUnchanged, LockReleased, Nothing
  <1>10. ASSUME NEW c \in Conns, Parted(c) PROVE TypeOK'
    <2>1. [socket EXCEPT ![old.conn] = CutOff(@)] \in [Conns -> Socket]
      BY SocketUpdate DEF TypeOK
    <2>2. ChatUnchanged /\ old' = Nothing /\ StartReplay(c, [socket EXCEPT ![old.conn] = CutOff(@)])
      BY <1>10 DEF Parted
    <2>3. QED
      BY <2>1, <2>2, StartReplayType
  <1>11. ASSUME NEW c \in Conns, Replay(c) PROVE TypeOK'
    <2> DEFINE entry == socket[c].sent + 1
               sockets == [socket EXCEPT ![c] = [Receives(socket[c], entry) EXCEPT !.sent = entry]]
    <2>1. sockets \in [Conns -> Socket]
      <3>1. entry \in Nat
        BY <1>0 DEF Socket
      <3>2. QED
        BY <1>0, <3>1, SocketUpdate DEF TypeOK
    <2>2. \/ GoLive(c, sockets)
          \/ socket' = sockets /\ PlaceUnchanged /\ UNCHANGED <<lock, pipe, task>>
      BY <1>11 DEF Replay
    <2>3. ChatUnchanged /\ UNCHANGED old
      BY <1>11 DEF Replay
    <2> HIDE DEF sockets
    <2>4. CASE GoLive(c, sockets)
      BY <2>1, <2>3, <2>4, GoLiveType
    <2>5. CASE socket' = sockets /\ PlaceUnchanged /\ UNCHANGED <<lock, pipe, task>>
      BY <2>1, <2>3, <2>5 DEF TypeOK, ChatUnchanged, PlaceUnchanged
    <2>6. QED
      BY <2>2, <2>4, <2>5
  <1>12. ASSUME NEW c \in Conns, NEW k \in Switches, Switch(c, k) PROVE TypeOK'
    <2> DEFINE on == IF k \in switches THEN switches \ {k} ELSE switches \cup {k}
    <2>1. on \in SUBSET Switches
      BY DEF TypeOK
    <2>2. /\ switches' = on /\ (pipe' = pipe \/ pipe' = [pipe EXCEPT ![pipeline] = [pipe[pipeline] EXCEPT !.switches = on]])
          /\ ChatUnchanged /\ UNCHANGED <<conn, pushConn, pipeline, lock, old, task, socket>>
      BY <1>12 DEF Switch
    <2> HIDE DEF on
    <2>3. ASSUME pipeline \in DOMAIN pipe PROVE [pipe[pipeline] EXCEPT !.switches = on] \in Pipe
      <3>1. pipe[pipeline] \in Pipe
        BY <1>0, <2>3, ElementOfSeq
      <3>2. QED
        BY <2>1, <3>1 DEF Pipe
    <2>4. pipe' \in Seq(Pipe) /\ DOMAIN pipe' = DOMAIN pipe
      <3>1. pipeline \in Nat
        BY <1>0 DEF TypeOK
      <3>2. QED
        BY <1>0, <2>2, <2>3, <3>1, Replaced
    <2>5. QED
      BY <2>1, <2>2, <2>4 DEF TypeOK, ChatUnchanged
  <1>13. ASSUME NEW c \in Conns, ProviderFails(c) PROVE TypeOK'
    <2>1. [task[c] EXCEPT !.at = "failed"] \in [at : TaskStage, pipeline : {0} \cup DOMAIN pipe]
          /\ NoTask \in [at : TaskStage, pipeline : {0} \cup DOMAIN pipe]
      BY DEF TypeOK, TaskStage, NoTask
    <2>2. task' \in [Conns -> [at : TaskStage, pipeline : {0} \cup DOMAIN pipe]]
      BY <1>13, <2>1 DEF ProviderFails, TypeOK
    <2>3. QED
      BY <1>13, <2>2 DEF ProviderFails, TypeOK, ChatUnchanged, PlaceUnchanged
  <1>14. ASSUME NEW c \in Conns, FailedClosed(c) PROVE TypeOK'
    <2>1. [task[c] EXCEPT !.at = "sleeping"] \in [at : TaskStage, pipeline : {0} \cup DOMAIN pipe]
      BY DEF TypeOK, TaskStage
    <2>2. task' \in [Conns -> [at : TaskStage, pipeline : {0} \cup DOMAIN pipe]]
      BY <1>14, <2>1 DEF FailedClosed, TypeOK
    <2>3. task[c].pipeline \in Nat
      BY <1>0
    <2>4. pipe' \in Seq(Pipe) /\ DOMAIN pipe' = DOMAIN pipe
      BY <1>0, <1>14, <2>3, Closed DEF FailedClosed
    <2>5. QED
      BY <1>14, <2>2, <2>4 DEF FailedClosed, TypeOK, ChatUnchanged, PlaceUnchanged
  <1>15. ASSUME NEW c \in Conns, Reconnect(c) PROVE TypeOK'
    <2>1. CASE /\ pipe' = Append(pipe, NewPipe(c)) /\ pipeline' = Len(pipe) + 1
               /\ task' = [task EXCEPT ![c] = [at |-> "running", pipeline |-> Len(pipe) + 1]]
      <3>1. NewPipe(c) \in Pipe
        BY DEF NewPipe, Pipe, TypeOK
      <3>2. pipe' \in Seq(Pipe) /\ DOMAIN pipe' = DOMAIN pipe \cup {Len(pipe) + 1}
        BY <1>0, <2>1, <3>1, Appended
      <3>3. task' \in [Conns -> [at : TaskStage, pipeline : {0} \cup DOMAIN pipe']]
        <4>1. [at |-> "running", pipeline |-> Len(pipe) + 1] \in [at : TaskStage, pipeline : {0} \cup DOMAIN pipe']
          BY <3>2 DEF TaskStage
        <4>2. task \in [Conns -> [at : TaskStage, pipeline : {0} \cup DOMAIN pipe']]
          BY <3>2 DEF TypeOK
        <4>3. QED
          BY <2>1, <4>1, <4>2
      <3>4. old \in [conn : Conns \cup {None}, pipeline : {0} \cup DOMAIN pipe']
        BY <3>2 DEF TypeOK
      <3>5. QED
        BY <1>15, <2>1, <3>2, <3>3, <3>4 DEF Reconnect, TypeOK, ChatUnchanged
    <2>2. CASE task' = [task EXCEPT ![c] = NoTask] /\ UNCHANGED <<pipe, pipeline>>
      <3>1. NoTask \in [at : TaskStage, pipeline : {0} \cup DOMAIN pipe]
        BY DEF TaskStage, NoTask
      <3>2. task' \in [Conns -> [at : TaskStage, pipeline : {0} \cup DOMAIN pipe]]
        BY <2>2, <3>1 DEF TypeOK
      <3>3. QED
        BY <1>15, <2>2, <3>2 DEF Reconnect, TypeOK, ChatUnchanged
    <2>3. QED
      BY <1>15, <2>1, <2>2 DEF Reconnect
  <1>16. CASE Write
    BY <1>16 DEF Write, TypeOK, PlaceUnchanged
  <1>17. CASE Poll
    BY <1>17 DEF Poll, TypeOK, PlaceUnchanged, TailAfterPoll
  <1>18. CASE FanOut
    <2>1. fanned + 1 \in 0..polled
      BY <1>18 DEF FanOut, TypeOK
    <2>2. ASSUME NEW c \in Conns
          PROVE  /\ Receives(socket[c], fanned + 1) \in Socket
                 /\ [socket[c] EXCEPT !.slipped = @ \/ socket[c].at = "replaying"] \in Socket
      <3>1. fanned + 1 \in Nat
        BY <2>1 DEF TypeOK
      <3>2. PICK b \in BOOLEAN : b = (socket[c].slipped \/ socket[c].at = "replaying")
        OBVIOUS
      <3>3. [socket[c] EXCEPT !.slipped = b] \in Socket
        BY <1>0, SocketUpdate
      <3>4. QED
        BY <1>0, <3>1, <3>2, <3>3, SocketUpdate
    <2>3. socket' \in [Conns -> Socket]
      BY <1>18, <2>2 DEF FanOut
    <2>4. QED
      BY <1>18, <2>1, <2>3 DEF FanOut, TypeOK, PlaceUnchanged
  <1>19. CASE UNCHANGED vars
    BY <1>19 DEF vars, TypeOK
  <1>20. QED
    BY <1>3, <1>4, <1>5, <1>6, <1>7, <1>8, <1>9, <1>10, <1>11, <1>12, <1>13, <1>14, <1>15, <1>16,
       <1>17, <1>18, <1>19 DEF Next, SocketStep

\* ConvoRuntime keeps its type invariant, for any number of sockets and entries.
THEOREM TypeCorrect == Spec => []TypeOK
  <1>1. Init => TypeOK
    <2> SUFFICES ASSUME Init PROVE TypeOK
      OBVIOUS
    <2>1. pipe \in Seq(Pipe)
      BY EmptySeq DEF Init
    <2>2. socket \in [Conns -> Socket]
      BY NewSocketType DEF Init
    <2>3. task \in [Conns -> [at : TaskStage, pipeline : {0} \cup DOMAIN pipe]]
      BY DEF Init, NoTask, TaskStage
    <2>4. log \in Nat /\ polled \in 0..log /\ fanned \in 0..polled
      BY ConvoRuntimeAssumption DEF Init
    <2>5. QED
      BY <2>1, <2>2, <2>3, <2>4 DEF Init, TypeOK, Nothing
  <1>2. QED
    BY <1>1, TypeStep, PTL DEF Spec

-----------------------------------------------------------------------------
(* The place, the pipelines and the lock.                                  *)

\* What the types say of the pipelines, and of no socket.
LEMMA RuntimeTypes ==
  ASSUME TypeOK
  PROVE  /\ None \notin Conns /\ lock \in Conns \cup {None} /\ conn \in Conns \cup {None}
         /\ old.conn \in Conns \cup {None} /\ old.pipeline \in {0} \cup DOMAIN pipe
         /\ pipe \in Seq(Pipe) /\ Len(pipe) \in Nat /\ DOMAIN pipe = 1..Len(pipe) /\ 0 \notin DOMAIN pipe
         /\ pipeline \in {0} \cup DOMAIN pipe
         /\ \A p \in DOMAIN pipe : pipe[p] \in Pipe
         /\ \A c \in Conns : /\ task[c] \in [at : TaskStage, pipeline : {0} \cup DOMAIN pipe]
                             /\ socket[c] \in Socket
  <1>1. pipe \in Seq(Pipe) /\ Len(pipe) \in Nat /\ DOMAIN pipe = 1..Len(pipe)
    BY LenProperties DEF TypeOK
  <1>2. \A p \in DOMAIN pipe : pipe[p] \in Pipe
    BY <1>1, ElementOfSeq
  <1>3. QED
    BY <1>1, <1>2, ConvoRuntimeAssumption DEF TypeOK

\* With the place free and every pipeline closed, a socket that goes live is alone.
LEMMA GoLiveRuntime ==
  ASSUME TypeOK, NEW c \in Conns, NEW sockets \in [Conns -> Socket], GoLive(c, sockets), old' = Nothing,
         \A d \in Conns \ {c} : sockets[d].at \notin Busy,
         TaskInv, \A p \in DOMAIN pipe : pipe[p].closed
  PROVE  RuntimeInv'
  <1> USE RuntimeTypes
  <1>1. FreshPipe(c) \in Pipe
    BY DEF FreshPipe, Pipe
  <1>2. /\ DOMAIN pipe' = DOMAIN pipe \cup {Len(pipe) + 1} /\ Len(pipe) + 1 \notin DOMAIN pipe
        /\ Len(pipe) + 1 # 0
        /\ \A i \in DOMAIN pipe : pipe'[i] = pipe[i]
        /\ pipe'[Len(pipe) + 1] = FreshPipe(c)
    BY <1>1, Appended DEF GoLive
  <1>3. /\ conn' = c /\ pushConn' = c /\ switches' = {} /\ pipeline' = Len(pipe) + 1 /\ lock' = None
        /\ task'[c] = [at |-> "running", pipeline |-> Len(pipe) + 1]
        /\ \A d \in Conns \ {c} : task'[d] = task[d] /\ socket'[d] = sockets[d]
        /\ socket'[c] = [sockets[c] EXCEPT !.at = "live", !.history = 0, !.sent = 0]
    BY DEF GoLive, TypeOK, LockReleased
  <1>4. socket'[c].at = "live"
    BY <1>3 DEF Socket
  <1>5. LockInv'
    BY <1>3, <1>4 DEF LockInv, Busy, Teardown
  <1>6. PlaceInv'
    BY <1>2, <1>3, <1>4 DEF PlaceInv, FreshPipe
  <1>7. TaskInv'
    BY <1>2, <1>3 DEF TaskInv
  <1>8. NoPipelineLeaks' /\ SwitchesSurvive'
    BY <1>2, <1>3 DEF NoPipelineLeaks, SwitchesSurvive, FreshPipe
  <1>9. QED
    BY <1>5, <1>6, <1>7, <1>8 DEF RuntimeInv

\* The same for one that has a history to be sent first.
LEMMA StartReplayRuntime ==
  ASSUME TypeOK, NEW c \in Conns, NEW sockets \in [Conns -> Socket], StartReplay(c, sockets), old' = Nothing,
         \A d \in Conns \ {c} : sockets[d].at \notin Busy,
         conn = None, PlaceInv, TaskInv, \A p \in DOMAIN pipe : pipe[p].closed
  PROVE  RuntimeInv'
  <1> USE RuntimeTypes
  <1> DEFINE read == [sockets EXCEPT ![c] = [sockets[c] EXCEPT !.history = log, !.slipped = fanned # log]]
  <1>1. read \in [Conns -> Socket]
    <2>1. PICK b \in BOOLEAN : b = (fanned # log)
      OBVIOUS
    <2>2. [sockets[c] EXCEPT !.history = log, !.slipped = b] \in Socket
      BY SocketUpdate DEF TypeOK
    <2>3. QED
      BY <2>1, <2>2
  <1>2. \A d \in Conns \ {c} : read[d].at \notin Busy
    OBVIOUS
  <1>3. \/ GoLive(c, read)
        \/ /\ lock' = c /\ socket' = [read EXCEPT ![c] = [read[c] EXCEPT !.at = "replaying"]]
           /\ PlaceUnchanged /\ UNCHANGED <<pipe, task>>
    BY DEF StartReplay
  <1> HIDE DEF read
  <1>4. CASE GoLive(c, read)
    BY <1>1, <1>2, <1>4, GoLiveRuntime
  <1>5. CASE /\ lock' = c /\ socket' = [read EXCEPT ![c] = [read[c] EXCEPT !.at = "replaying"]]
             /\ PlaceUnchanged /\ UNCHANGED <<pipe, task>>
    <2>1. socket'[c].at = "replaying" /\ \A d \in Conns \ {c} : socket'[d].at \notin Busy
      BY <1>1, <1>2, <1>5 DEF Socket
    <2>2. LockInv'
      BY <1>5, <2>1 DEF LockInv, PlaceUnchanged, Busy, Teardown
    <2>3. PlaceInv' /\ TaskInv' /\ NoPipelineLeaks' /\ SwitchesSurvive'
      BY <1>5 DEF PlaceUnchanged, PlaceInv, TaskInv, NoPipelineLeaks, SwitchesSurvive
    <2>4. QED
      BY <2>2, <2>3 DEF RuntimeInv
  <1>6. QED
    BY <1>3, <1>4, <1>5

\* A teardown takes what is live out of the runtime, and remembers it.
LEMMA StartTeardownRuntime ==
  ASSUME TypeOK, RuntimeInv, NEW c \in Conns, lock = None, conn # None, StartTeardown(c)
  PROVE  RuntimeInv'
  <1> USE RuntimeTypes
  <1>1. /\ lock' = c /\ old' = [conn |-> conn, pipeline |-> pipeline] /\ conn' = None /\ pushConn' = None
        /\ pipeline' = 0 /\ UNCHANGED <<switches, pipe, task>>
        /\ socket'[c].at = "closing" /\ \A d \in Conns \ {c} : socket'[d] = socket[d]
    <2>1. socket'[c] = [socket[c] EXCEPT !.at = "closing"] /\ \A d \in Conns \ {c} : socket'[d] = socket[d]
      BY DEF StartTeardown, Go, TypeOK
    <2>2. socket'[c].at = "closing"
      BY <2>1 DEF Socket
    <2>3. QED
      BY <2>1, <2>2 DEF StartTeardown, PushAfterTeardown
  <1>2. old = Nothing /\ \A d \in Conns : socket[d].at \notin Busy
    BY DEF RuntimeInv, LockInv
  <1>3. pipeline # 0
    BY DEF RuntimeInv, PlaceInv
  <1>4. LockInv'
    BY <1>1, <1>2, <1>3 DEF LockInv, Busy, Teardown
  <1>5. PlaceInv' /\ TaskInv' /\ SwitchesSurvive'
    BY <1>1 DEF RuntimeInv, PlaceInv, TaskInv, SwitchesSurvive
  <1>6. NoPipelineLeaks'
    BY <1>1, <1>2 DEF RuntimeInv, NoPipelineLeaks, Nothing
  <1>7. QED
    BY <1>4, <1>5, <1>6 DEF RuntimeInv

AllButSockets == <<conn, pushConn, pipeline, switches, lock, old, pipe, task>>

\* No socket takes or leaves the lock, and the one that has the place may keep it.
OrdinaryStep ==
  \A d \in Conns :
    /\ \/ socket'[d].at = socket[d].at
       \/ socket'[d].at \notin Busy /\ socket[d].at \notin Busy
    /\ conn = d => /\ socket'[d].at \in {"live", "leaving"}
                   /\ socket'[d].at = "leaving" => ~socket'[d].open

\* A step of sockets that neither hold the lock nor have the place.
LEMMA SocketsRuntime ==
  ASSUME TypeOK, RuntimeInv, UNCHANGED AllButSockets, OrdinaryStep
  PROVE  RuntimeInv'
  <1> USE RuntimeTypes DEF AllButSockets, OrdinaryStep
  <1>1. LockInv'
    <2>1. \A d \in Conns : socket'[d].at \in Busy <=> lock = d
      BY DEF RuntimeInv, LockInv
    <2>2. lock # None => socket'[lock].at = socket[lock].at
      BY DEF RuntimeInv, LockInv
    <2>3. QED
      BY <2>1, <2>2 DEF RuntimeInv, LockInv
  <1>2. PlaceInv' /\ TaskInv' /\ NoPipelineLeaks' /\ SwitchesSurvive'
    BY DEF RuntimeInv, PlaceInv, TaskInv, NoPipelineLeaks, SwitchesSurvive
  <1>3. QED
    BY <1>1, <1>2 DEF RuntimeInv

\* RuntimeInv is inductive.
LEMMA RuntimeStep == TypeOK /\ TypeOK' /\ RuntimeInv /\ [Next]_vars => RuntimeInv'
  <1> SUFFICES ASSUME TypeOK, TypeOK', RuntimeInv, [Next]_vars PROVE RuntimeInv'
    OBVIOUS
  <1> USE RuntimeTypes
  <1>0. LockInv /\ PlaceInv /\ TaskInv /\ NoPipelineLeaks /\ SwitchesSurvive
    BY DEF RuntimeInv
  <1>1. ASSUME NEW c \in Conns, NEW stage \in Stage, Go(c, stage)
        PROVE  /\ socket'[c] = [socket[c] EXCEPT !.at = stage] /\ socket'[c].at = stage
               /\ socket'[c].open = socket[c].open
               /\ \A d \in Conns \ {c} : socket'[d] = socket[d]
    <2>1. socket'[c] = [socket[c] EXCEPT !.at = stage] /\ \A d \in Conns \ {c} : socket'[d] = socket[d]
      BY <1>1 DEF Go, TypeOK
    <2>2. QED
      BY <2>1 DEF Socket
  <1>2. ASSUME NEW c \in Conns, BeGone(c)
        PROVE  socket'[c].at = "gone" /\ ~socket'[c].open /\ \A d \in Conns \ {c} : socket'[d] = socket[d]
    BY <1>2 DEF BeGone, TypeOK, CutOff, NewSocket
  <1>3. ASSUME NEW c \in Conns, Hello(c) PROVE RuntimeInv'
    <2>1. socket'[c].at = "waiting" /\ socket[c].at = "away" /\ \A d \in Conns \ {c} : socket'[d] = socket[d]
      BY <1>1, <1>3 DEF Hello, Stage
    <2>2. conn # c
      BY <1>0, <2>1 DEF PlaceInv
    <2>3. QED
      <3>1. OrdinaryStep
        BY <1>0, <2>1, <2>2 DEF OrdinaryStep, PlaceInv, Busy, Teardown
      <3>2. UNCHANGED AllButSockets
        BY <1>3 DEF Hello, PlaceUnchanged, AllButSockets
      <3>3. QED
        BY <3>1, <3>2, SocketsRuntime
  <1>4. ASSUME NEW c \in Conns, Attach(c) PROVE RuntimeInv'
    <2>1. CASE conn # None /\ StartTeardown(c)
      BY <1>4, <2>1, StartTeardownRuntime DEF Attach
    <2>2. CASE conn = None /\ StartReplay(c, socket) /\ UNCHANGED old
      <3>1. old = Nothing /\ \A d \in Conns : socket[d].at \notin Busy
        BY <1>0, <1>4 DEF Attach, LockInv
      <3>2. pipeline = 0 /\ \A p \in DOMAIN pipe : pipe[p].closed
        BY <1>0, <2>2, <3>1 DEF PlaceInv, NoPipelineLeaks, Nothing
      <3>3. socket \in [Conns -> Socket]
        BY DEF TypeOK
      <3>4. QED
        BY <1>0, <2>2, <3>1, <3>2, <3>3, StartReplayRuntime
    <2>3. QED
      BY <1>4, <2>1, <2>2 DEF Attach
  <1>5. ASSUME NEW c \in Conns, Drop(c) PROVE RuntimeInv'
    <2>1. socket'[c] = CutOff(socket[c]) /\ \A d \in Conns \ {c} : socket'[d] = socket[d]
      BY <1>5 DEF Drop, TypeOK
    <2>2. socket'[c].at = socket[c].at /\ ~socket'[c].open
      BY <2>1 DEF CutOff, Socket
    <2>3. QED
      <3>1. OrdinaryStep
        BY <1>0, <2>1, <2>2 DEF OrdinaryStep, PlaceInv
      <3>2. UNCHANGED AllButSockets
        BY <1>5 DEF Drop, PlaceUnchanged, AllButSockets
      <3>3. QED
        BY <3>1, <3>2, SocketsRuntime
  <1>6. ASSUME NEW c \in Conns, Leave(c) PROVE RuntimeInv'
    <2>1. /\ socket'[c].at = "leaving" /\ socket'[c].open = socket[c].open /\ socket[c].at = "live"
          /\ \A d \in Conns \ {c} : socket'[d] = socket[d]
      BY <1>1, <1>6 DEF Leave, Stage
    <2>2. conn = c => ~socket[c].open
      BY <1>6 DEF Leave
    <2>3. QED
      <3>1. OrdinaryStep
        BY <1>0, <2>1, <2>2 DEF OrdinaryStep, PlaceInv, Busy, Teardown
      <3>2. UNCHANGED AllButSockets
        BY <1>6 DEF Leave, PlaceUnchanged, AllButSockets
      <3>3. QED
        BY <3>1, <3>2, SocketsRuntime
  <1>7. ASSUME NEW c \in Conns, Detach(c) PROVE RuntimeInv'
    <2>1. CASE StillLive(c) /\ StartTeardown(c)
      BY <1>7, <2>1, StartTeardownRuntime DEF Detach, StillLive
    <2>2. CASE ~StillLive(c) /\ BeGone(c) /\ PlaceUnchanged /\ UNCHANGED <<lock, old, pipe, task>>
      <3>1. socket[c].at = "leaving" /\ conn # c
        BY <1>7, <2>2 DEF Detach, StillLive
      <3>2. socket'[c].at = "gone" /\ \A d \in Conns \ {c} : socket'[d] = socket[d]
        BY <1>2, <2>2
      <3>3. OrdinaryStep
        BY <1>0, <3>1, <3>2 DEF OrdinaryStep, PlaceInv, Busy, Teardown
      <3>4. UNCHANGED AllButSockets
        BY <2>2 DEF PlaceUnchanged, AllButSockets
      <3>5. QED
        BY <3>3, <3>4, SocketsRuntime
    <2>3. QED
      BY <1>7, <2>1, <2>2 DEF Detach
  <1>8. ASSUME NEW c \in Conns, PipelineClosed(c) PROVE RuntimeInv'
    <2>1. /\ socket'[c].at = "cancelling" /\ socket[c].at = "closing" /\ lock = c
          /\ \A d \in Conns \ {c} : socket'[d] = socket[d]
          /\ ClosePipe(old.pipeline) /\ UNCHANGED <<conn, pushConn, pipeline, switches, lock, old, task>>
      BY <1>0, <1>1, <1>8 DEF PipelineClosed, PlaceUnchanged, Stage, LockInv, Busy, Teardown
    <2>2. /\ conn = None /\ pipeline = 0 /\ old.conn # None /\ old.pipeline # 0
      BY <1>0, <2>1 DEF LockInv, PlaceInv, Teardown
    <2>3. /\ old.pipeline \in DOMAIN pipe /\ DOMAIN pipe' = DOMAIN pipe /\ pipe'[old.pipeline].closed
          /\ \A i \in DOMAIN pipe : i # old.pipeline => pipe'[i] = pipe[i]
      <3>1. PICK p \in DOMAIN pipe : p = old.pipeline
        BY <2>2
      <3>2. p \in Nat /\ pipe \in Seq(Pipe) /\ ClosePipe(p)
        BY <2>1, <3>1
      <3>3. /\ DOMAIN pipe' = DOMAIN pipe /\ pipe'[p].closed
            /\ \A i \in DOMAIN pipe : i # p => pipe'[i] = pipe[i]
        BY <3>2, Closed
      <3>4. QED
        BY <3>1, <3>3
    <2>4. LockInv'
      BY <1>0, <2>1, <2>2, <2>3 DEF LockInv, Busy, Teardown
    <2>5. PlaceInv'
      BY <1>0, <2>1, <2>2 DEF PlaceInv
    <2>6. TaskInv' /\ NoPipelineLeaks' /\ SwitchesSurvive'
      BY <1>0, <2>1, <2>2, <2>3 DEF TaskInv, NoPipelineLeaks, SwitchesSurvive
    <2>7. QED
      BY <2>4, <2>5, <2>6 DEF RuntimeInv
  <1>9. ASSUME NEW c \in Conns, TaskCancelled(c) PROVE RuntimeInv'
    <2>1. /\ socket[c].at = "cancelling" /\ lock = c /\ conn = None /\ pipeline = 0
          /\ old.conn # None /\ pipe[old.pipeline].closed
          /\ UNCHANGED <<conn, pushConn, pipeline, switches, pipe>>
      BY <1>0, <1>9 DEF TaskCancelled, PlaceUnchanged, LockInv, PlaceInv, Busy, Teardown
    <2>2. TaskInv'
      BY <1>0, <1>9, <2>1 DEF TaskInv, TaskCancelled, NoTask, TypeOK
    <2>3. PlaceInv' /\ SwitchesSurvive'
      BY <1>0, <2>1 DEF PlaceInv, SwitchesSurvive
    <2>4. \A p \in DOMAIN pipe : pipe[p].closed
      BY <1>0, <2>1 DEF NoPipelineLeaks
    <2>5. CASE old.conn # c /\ Go(c, "parting") /\ UNCHANGED <<lock, old>>
      <3>1. socket'[c].at = "parting" /\ \A d \in Conns \ {c} : socket'[d] = socket[d]
        BY <1>1, <2>5 DEF Stage
      <3>2. LockInv'
        BY <1>0, <2>1, <2>5, <3>1 DEF LockInv, Busy, Teardown
      <3>3. QED
        BY <2>1, <2>2, <2>3, <2>4, <3>2 DEF RuntimeInv, NoPipelineLeaks
    <2>6. CASE BeGone(c) /\ lock' = LockReleased /\ old' = Nothing
      <3>1. LockInv'
        BY <1>0, <1>2, <2>1, <2>6 DEF LockInv, Busy, Teardown, LockReleased
      <3>2. QED
        BY <2>1, <2>2, <2>3, <2>4, <3>1 DEF RuntimeInv, NoPipelineLeaks
    <2>7. QED
      BY <1>9, <2>5, <2>6 DEF TaskCancelled
  <1>10. ASSUME NEW c \in Conns, Parted(c) PROVE RuntimeInv'
    <2> DEFINE sockets == [socket EXCEPT ![old.conn] = CutOff(@)]
    <2>1. /\ socket[c].at = "parting" /\ lock = c /\ conn = None /\ pipeline = 0
          /\ old.conn # None /\ pipe[old.pipeline].closed
          /\ old' = Nothing /\ StartReplay(c, sockets)
      BY <1>0, <1>10 DEF Parted, LockInv, PlaceInv, Busy, Teardown
    <2>2. sockets \in [Conns -> Socket]
      BY SocketUpdate DEF TypeOK
    <2>3. \A d \in Conns : sockets[d].at = socket[d].at
      BY DEF CutOff, Socket, TypeOK
    <2>4. \A d \in Conns \ {c} : sockets[d].at \notin Busy
      BY <1>0, <2>1, <2>3 DEF LockInv
    <2>5. \A p \in DOMAIN pipe : pipe[p].closed
      BY <1>0, <2>1 DEF NoPipelineLeaks
    <2> HIDE DEF sockets
    <2>6. QED
      BY <1>0, <2>1, <2>2, <2>4, <2>5, StartReplayRuntime
  <1>11. ASSUME NEW c \in Conns, Replay(c) PROVE RuntimeInv'
    <2> DEFINE entry == socket[c].sent + 1
               sockets == [socket EXCEPT ![c] = [Receives(socket[c], entry) EXCEPT !.sent = entry]]
    <2>1. /\ \/ GoLive(c, sockets)
             \/ socket' = sockets /\ PlaceUnchanged /\ UNCHANGED <<lock, pipe, task>>
          /\ UNCHANGED old /\ socket[c].at = "replaying"
      BY <1>11 DEF Replay
    <2>2. entry \in Nat /\ sockets[c].at = socket[c].at
      <3>1. entry \in Nat /\ socket[c] \in Socket
        BY DEF Socket
      <3>2. PICK s \in Socket : s = Receives(socket[c], entry)
        BY <3>1, SocketUpdate
      <3>3. s.at = socket[c].at
        BY <3>1, <3>2 DEF Receives, Socket
      <3>4. sockets[c] = [s EXCEPT !.sent = entry]
        BY <3>2 DEF TypeOK
      <3>5. QED
        BY <3>1, <3>3, <3>4 DEF Socket
    <2>3. sockets \in [Conns -> Socket] /\ \A d \in Conns \ {c} : sockets[d] = socket[d]
      BY <2>2, SocketUpdate DEF TypeOK
    <2>4. lock = c /\ conn = None /\ pipeline = 0 /\ old = Nothing
      BY <1>0, <2>1 DEF LockInv, PlaceInv, Busy
    <2> HIDE DEF sockets
    <2>5. CASE GoLive(c, sockets)
      <3>1. \A d \in Conns \ {c} : sockets[d].at \notin Busy
        BY <1>0, <2>3, <2>4 DEF LockInv
      <3>2. \A p \in DOMAIN pipe : pipe[p].closed
        BY <1>0, <2>4 DEF NoPipelineLeaks, Nothing
      <3>3. QED
        BY <1>0, <2>1, <2>3, <2>4, <2>5, <3>1, <3>2, GoLiveRuntime
    <2>6. CASE socket' = sockets /\ PlaceUnchanged /\ UNCHANGED <<lock, pipe, task>>
      <3>1. OrdinaryStep
        BY <2>2, <2>3, <2>4, <2>6 DEF OrdinaryStep
      <3>2. UNCHANGED AllButSockets
        BY <2>1, <2>6 DEF PlaceUnchanged, AllButSockets
      <3>3. QED
        BY <3>1, <3>2, SocketsRuntime
    <2>7. QED
      BY <2>1, <2>5, <2>6
  <1>12. ASSUME NEW c \in Conns, NEW k \in Switches, Switch(c, k) PROVE RuntimeInv'
    <2> DEFINE on == IF k \in switches THEN switches \ {k} ELSE switches \cup {k}
    <2>1. /\ conn = c /\ switches' = on
          /\ pipe' = IF pipe[pipeline].closed THEN pipe
                     ELSE [pipe EXCEPT ![pipeline] = [pipe[pipeline] EXCEPT !.switches = on]]
          /\ UNCHANGED <<conn, pushConn, pipeline, lock, old, task, socket>>
      BY <1>12 DEF Switch
    <2>2. pipeline \in DOMAIN pipe /\ pipe[pipeline] \in Pipe
      BY <1>0, <2>1 DEF PlaceInv
    <2> HIDE DEF on
    <2>3. /\ DOMAIN pipe' = DOMAIN pipe
          /\ \A p \in DOMAIN pipe : pipe'[p].closed = pipe[p].closed /\ pipe'[p].owner = pipe[p].owner
          /\ ~pipe[pipeline].closed => pipe'[pipeline].switches = on
      <3>1. CASE pipe[pipeline].closed
        BY <2>1, <3>1
      <3>2. CASE ~pipe[pipeline].closed
        <4> DEFINE set == [pipe[pipeline] EXCEPT !.switches = on]
        <4>1. pipe' = [pipe EXCEPT ![pipeline] = set]
          BY <2>1, <3>2
        <4>2. set.closed = pipe[pipeline].closed /\ set.owner = pipe[pipeline].owner /\ set.switches = on
          BY <2>2 DEF Pipe
        <4> HIDE DEF set
        <4>3. QED
          BY <2>2, <4>1, <4>2
      <3>3. QED
        BY <3>1, <3>2
    <2>4. LockInv' /\ PlaceInv'
      BY <1>0, <2>1, <2>2, <2>3 DEF LockInv, PlaceInv
    <2>5. TaskInv' /\ NoPipelineLeaks' /\ SwitchesSurvive'
      BY <1>0, <2>1, <2>2, <2>3 DEF TaskInv, NoPipelineLeaks, SwitchesSurvive
    <2>6. QED
      BY <2>4, <2>5 DEF RuntimeInv
  <1>13. ASSUME NEW c \in Conns, ProviderFails(c) PROVE RuntimeInv'
    <2>1. /\ task[c].at = "running" /\ \A d \in Conns \ {c} : task'[d] = task[d]
          /\ task'[c] = [task[c] EXCEPT !.at = "failed"] \/ task'[c] = NoTask
          /\ UNCHANGED <<conn, pushConn, pipeline, switches, lock, old, pipe, socket>>
      BY <1>13 DEF ProviderFails, PlaceUnchanged, TypeOK
    <2>2. task'[c].at \in {"failed", "none"} /\ (task'[c].at = "failed" => task'[c].pipeline = task[c].pipeline)
      BY <2>1 DEF NoTask
    <2>3. TaskInv'
      BY <1>0, <2>1, <2>2 DEF TaskInv
    <2>4. LockInv' /\ PlaceInv' /\ NoPipelineLeaks' /\ SwitchesSurvive'
      BY <1>0, <2>1 DEF LockInv, PlaceInv, NoPipelineLeaks, SwitchesSurvive
    <2>5. QED
      BY <2>3, <2>4 DEF RuntimeInv
  <1>14. ASSUME NEW c \in Conns, FailedClosed(c) PROVE RuntimeInv'
    <2> DEFINE p == task[c].pipeline
    <2>1. /\ task[c].at = "failed" /\ ClosePipe(task[c].pipeline) /\ \A d \in Conns \ {c} : task'[d] = task[d]
          /\ task'[c] = [task[c] EXCEPT !.at = "sleeping"]
          /\ UNCHANGED <<conn, pushConn, pipeline, switches, lock, old, socket>>
      BY <1>14 DEF FailedClosed, PlaceUnchanged, TypeOK
    <2>2. task'[c].at = "sleeping" /\ task'[c].pipeline = p /\ p \in DOMAIN pipe
      BY <1>0, <2>1 DEF TaskInv
    <2>3. /\ DOMAIN pipe' = DOMAIN pipe /\ pipe'[p].closed
          /\ \A i \in DOMAIN pipe : pipe'[i].owner = pipe[i].owner /\ (i # p => pipe'[i] = pipe[i])
      <3>1. PICK q \in DOMAIN pipe : q = task[c].pipeline
        BY <2>2
      <3>2. q \in Nat /\ pipe \in Seq(Pipe) /\ ClosePipe(q)
        BY <2>1, <3>1
      <3>3. /\ DOMAIN pipe' = DOMAIN pipe /\ pipe'[q].closed
            /\ \A i \in DOMAIN pipe : pipe'[i].owner = pipe[i].owner /\ (i # q => pipe'[i] = pipe[i])
        BY <3>1, <3>2, Closed
      <3>4. QED
        BY <3>1, <3>3
    <2> HIDE DEF p
    <2>4. TaskInv'
      <3> SUFFICES ASSUME NEW d \in Conns
                   PROVE  /\ task'[d].at # "none" => task'[d].pipeline # 0
                          /\ task'[d].at = "sleeping" => pipe'[task'[d].pipeline].closed
        BY DEF TaskInv
      <3>1. CASE d = c
        BY <2>2, <2>3, <3>1
      <3>2. CASE d # c
        <4>1. task'[d] = task[d] /\ task[d].pipeline \in {0} \cup DOMAIN pipe
          BY <2>1, <3>2
        <4>2. ASSUME task[d].at = "sleeping"
              PROVE  pipe'[task[d].pipeline].closed
          <5>1. task[d].pipeline \in DOMAIN pipe /\ pipe[task[d].pipeline].closed
            BY <1>0, <4>1, <4>2 DEF TaskInv
          <5>2. QED
            BY <2>3, <5>1
        <4>3. QED
          BY <1>0, <4>1, <4>2 DEF TaskInv
      <3>3. QED
        BY <3>1, <3>2
    <2>5. LockInv'
      BY <1>0, <2>1, <2>3 DEF LockInv
    <2>6. PlaceInv' /\ NoPipelineLeaks' /\ SwitchesSurvive'
      BY <1>0, <2>1, <2>3 DEF PlaceInv, NoPipelineLeaks, SwitchesSurvive
    <2>7. QED
      BY <2>4, <2>5, <2>6 DEF RuntimeInv
  <1>15. ASSUME NEW c \in Conns, Reconnect(c) PROVE RuntimeInv'
    <2>1. UNCHANGED <<conn, pushConn, switches, lock, old, socket>> /\ task[c].at = "sleeping"
      BY <1>15 DEF Reconnect
    <2>2. CASE /\ StillMine(c, task[c].pipeline)
               /\ pipe' = Append(pipe, NewPipe(c)) /\ pipeline' = Len(pipe) + 1
               /\ task' = [task EXCEPT ![c] = [at |-> "running", pipeline |-> Len(pipe) + 1]]
      <3>1. conn = c /\ pipeline \in DOMAIN pipe /\ pipe[pipeline].closed
        BY <1>0, <2>1, <2>2 DEF StillMine, TaskInv, PlaceInv
      <3>2. lock = None /\ old = Nothing
        BY <1>0, <3>1 DEF LockInv
      <3>3. NewPipe(c) \in Pipe
        BY DEF NewPipe, Pipe, TypeOK
      <3>4. /\ DOMAIN pipe' = DOMAIN pipe \cup {Len(pipe) + 1} /\ Len(pipe) + 1 # 0
            /\ \A i \in DOMAIN pipe : pipe'[i] = pipe[i]
            /\ pipe'[Len(pipe) + 1] = NewPipe(c)
        BY <2>2, <3>3, Appended
      <3>5. task'[c] = [at |-> "running", pipeline |-> Len(pipe) + 1] /\ \A d \in Conns \ {c} : task'[d] = task[d]
        BY <2>2 DEF TypeOK
      <3>6. TaskInv'
        BY <1>0, <3>4, <3>5 DEF TaskInv
      <3>7. LockInv'
        BY <1>0, <2>1, <3>2 DEF LockInv
      <3>8. PlaceInv'
        BY <1>0, <2>1, <2>2, <3>1, <3>4 DEF PlaceInv, NewPipe
      <3>9. \A i \in DOMAIN pipe : pipe[i].closed
        BY <1>0, <3>1, <3>2 DEF NoPipelineLeaks, Nothing
      <3>10. NoPipelineLeaks' /\ SwitchesSurvive'
        BY <2>1, <2>2, <3>4, <3>9 DEF NoPipelineLeaks, SwitchesSurvive, NewPipe
      <3>11. QED
        BY <3>6, <3>7, <3>8, <3>10 DEF RuntimeInv
    <2>3. CASE task' = [task EXCEPT ![c] = NoTask] /\ UNCHANGED <<pipe, pipeline>>
      <3>1. task'[c] = NoTask /\ \A d \in Conns \ {c} : task'[d] = task[d]
        BY <2>3 DEF TypeOK
      <3>2. TaskInv'
        BY <1>0, <2>3, <3>1 DEF TaskInv, NoTask
      <3>3. LockInv' /\ PlaceInv' /\ NoPipelineLeaks' /\ SwitchesSurvive'
        BY <1>0, <2>1, <2>3 DEF LockInv, PlaceInv, NoPipelineLeaks, SwitchesSurvive
      <3>4. QED
        BY <3>2, <3>3 DEF RuntimeInv
    <2>4. QED
      BY <1>15, <2>2, <2>3 DEF Reconnect
  <1>16. CASE FanOut
    <2>1. \A d \in Conns : socket'[d].at = socket[d].at /\ socket'[d].open = socket[d].open
      BY <1>16 DEF FanOut, Receives, Socket
    <2>2. QED
      <3>1. OrdinaryStep
        BY <1>0, <2>1 DEF OrdinaryStep, PlaceInv
      <3>2. UNCHANGED AllButSockets
        BY <1>16 DEF FanOut, PlaceUnchanged, AllButSockets
      <3>3. QED
        BY <3>1, <3>2, SocketsRuntime
  <1>17. CASE Write \/ Poll \/ UNCHANGED vars
    <2>1. UNCHANGED <<conn, pushConn, pipeline, switches, lock, old, pipe, task, socket>>
      BY <1>17 DEF Write, Poll, vars, PlaceUnchanged
    <2>2. QED
      <3>1. OrdinaryStep
        BY <1>0, <2>1 DEF OrdinaryStep, PlaceInv
      <3>2. UNCHANGED AllButSockets
        BY <2>1 DEF AllButSockets
      <3>3. QED
        BY <3>1, <3>2, SocketsRuntime
  <1>18. QED
    BY <1>3, <1>4, <1>5, <1>6, <1>7, <1>8, <1>9, <1>10, <1>11, <1>12, <1>13, <1>14, <1>15, <1>16,
       <1>17 DEF Next, SocketStep

\* The invariant holds from the start, and so always.
LEMMA RuntimeAlways == Spec => [](TypeOK /\ RuntimeInv)
  <1>1. Init => RuntimeInv
    <2> SUFFICES ASSUME Init PROVE RuntimeInv
      OBVIOUS
    <2>1. /\ conn = None /\ pushConn = None /\ pipeline = 0 /\ lock = None /\ old = Nothing /\ DOMAIN pipe = {}
          /\ \A c \in Conns : socket[c].at = "away" /\ task[c].at = "none"
      BY DEF Init, NewSocket, NoTask
    <2>2. LockInv
      BY <2>1, ConvoRuntimeAssumption DEF LockInv, Busy, Teardown
    <2>3. PlaceInv /\ TaskInv /\ NoPipelineLeaks /\ SwitchesSurvive
      BY <2>1 DEF PlaceInv, TaskInv, NoPipelineLeaks, SwitchesSurvive
    <2>4. QED
      BY <2>2, <2>3 DEF RuntimeInv
  <1>2. QED
    BY TypeCorrect, RuntimeStep, <1>1, PTL DEF Spec

\* The one open pipeline is the runtime's or the one being torn down: whatever
\* number of sockets take over, drop and leave, and of providers fail.
THEOREM NoPipelineLeaksAlways == Spec => []NoPipelineLeaks
  <1>1. RuntimeInv => NoPipelineLeaks
    BY DEF RuntimeInv
  <1>2. QED
    BY RuntimeAlways, <1>1, PTL

\* Whenever the lock is free, one socket is live, gets the pushes and owns the
\* pipeline, or none does.
THEOREM OneLiveSocketAlways == Spec => []OneLiveSocket
  <1>1. RuntimeInv => OneLiveSocket
    BY DEF RuntimeInv, PlaceInv, OneLiveSocket
  <1>2. QED
    BY RuntimeAlways, <1>1, PTL

\* The open pipeline has the switches the phone set, also if it replaced another.
THEOREM SwitchesSurviveAlways == Spec => []SwitchesSurvive
  <1>1. RuntimeInv => SwitchesSurvive
    BY DEF RuntimeInv
  <1>2. QED
    BY RuntimeAlways, <1>1, PTL

\* No socket with a phone behind it loses its place but to one that attaches: not
\* to a detach(), however late, and not to a pipeline that fails.
THEOREM PlaceLostToSuccessorAlways == Spec => PlaceLostToSuccessor
  <1>1. TypeOK /\ RuntimeInv /\ [Next]_vars =>
          [conn # None /\ conn' # conn =>
             ~socket[conn].open \/ (lock' # None /\ socket[lock'].at = "waiting")]_vars
    <2> SUFFICES ASSUME TypeOK, RuntimeInv, Next, conn # None, conn' # conn
                 PROVE  ~socket[conn].open \/ (lock' # None /\ socket[lock'].at = "waiting")
      BY DEF vars
    <2> USE RuntimeTypes
    <2>0. LockInv /\ PlaceInv
      BY DEF RuntimeInv
    <2>1. ASSUME NEW c \in Conns, Attach(c)
          PROVE  lock' # None /\ socket[lock'].at = "waiting"
      BY <2>1 DEF Attach, StartTeardown
    <2>2. ASSUME NEW c \in Conns, Detach(c)
          PROVE  ~socket[conn].open
      BY <2>0, <2>2 DEF Detach, StillLive, PlaceInv, PlaceUnchanged
    <2>3. \A c \in Conns : ~Parted(c) /\ ~Replay(c)
      BY <2>0 DEF LockInv, Parted, Replay, Busy, Teardown
    <2>4. QED
      BY <2>1, <2>2, <2>3 DEF Next, SocketStep, Hello, Drop, Leave, PipelineClosed, TaskCancelled, Switch,
         ProviderFails, FailedClosed, Reconnect, Write, Poll, FanOut, PlaceUnchanged
  <1>2. QED
    BY RuntimeAlways, <1>1, PTL DEF Spec, PlaceLostToSuccessor

-----------------------------------------------------------------------------
(* The chat.                                                               *)

\* One entry more, and it is still every entry in order.
LEMMA UpToNext ==
  ASSUME NEW n \in Nat
  PROVE  UpTo(0) = <<>> /\ Append(UpTo(n), n + 1) = UpTo(n + 1)
  <1>1. \A k \in Nat : UpTo(k) \in Seq(Nat) /\ Len(UpTo(k)) = k /\ \A i \in 1..k : UpTo(k)[i] = i
    BY DEF UpTo
  <1>2. UpTo(0) = <<>>
    BY <1>1, EmptySeq
  <1>3. /\ Append(UpTo(n), n + 1) \in Seq(Nat) /\ Len(Append(UpTo(n), n + 1)) = n + 1
        /\ \A i \in 1..n : Append(UpTo(n), n + 1)[i] = i
        /\ Append(UpTo(n), n + 1)[n + 1] = n + 1
    BY <1>1, AppendProperties
  <1>4. n + 1 \in Nat /\ \A i \in 1..(n + 1) : Append(UpTo(n), n + 1)[i] = UpTo(n + 1)[i]
    BY <1>1, <1>3
  <1>5. Append(UpTo(n), n + 1) = UpTo(n + 1)
    BY <1>1, <1>3, <1>4, SeqEqual
  <1>6. QED
    BY <1>2, <1>5

\* A socket that loses its phone, or changes its place outside the replay, has been
\* sent no less than it should.
LEMMA SentKept ==
  ASSUME NEW s \in Socket, NEW n \in Nat, Sent(s, n)
  PROVE  /\ Sent(CutOff(s), n)
         /\ \A stage \in Stage :
              /\ stage # "replaying" /\ s.at # "replaying"
              /\ stage \in {"away", "waiting"} \cup Teardown => s.got = <<>>
              => Sent([s EXCEPT !.at = stage], n)
         /\ Sent([CutOff(NewSocket) EXCEPT !.at = "gone"], n)
  <1>1. Sent(CutOff(s), n)
    BY DEF Sent, CutOff, Socket
  <1>2. ASSUME NEW stage \in Stage, stage # "replaying", s.at # "replaying",
               stage \in {"away", "waiting"} \cup Teardown => s.got = <<>>
        PROVE  Sent([s EXCEPT !.at = stage], n)
    BY <1>2 DEF Sent, Socket
  <1>3. Sent([CutOff(NewSocket) EXCEPT !.at = "gone"], n)
    BY DEF Sent, CutOff, NewSocket, Teardown
  <1>4. QED
    BY <1>1, <1>2, <1>3

\* The steps that neither push nor give away the place: each socket is as before, or
\* has been sent what it should.
LEMMA ChatKept ==
  ASSUME TypeOK, ChatInv, fanned' = fanned, conn' = conn \/ conn' = None,
         \A d \in Conns : socket'[d] # socket[d] =>
           Sent(socket'[d], fanned) /\ (conn' = d => Whole(socket'[d], fanned))
  PROVE  ChatInv'
  BY RuntimeTypes DEF ChatInv

\* Going live with the whole chat.
LEMMA GoLiveChat ==
  ASSUME NEW c \in Conns, NEW sockets \in [Conns -> Socket], GoLive(c, sockets), fanned' = fanned,
         \A d \in Conns \ {c} : Sent(sockets[d], fanned),
         ~sockets[c].open => sockets[c].got = <<>>, Whole(sockets[c], fanned)
  PROVE  ChatInv'
  <1>1. /\ conn' = c /\ \A d \in Conns \ {c} : socket'[d] = sockets[d]
        /\ socket'[c] = [sockets[c] EXCEPT !.at = "live", !.history = 0, !.sent = 0]
    BY DEF GoLive
  <1>2. /\ socket'[c].at = "live" /\ socket'[c].sent = 0
        /\ socket'[c].open = sockets[c].open /\ socket'[c].got = sockets[c].got
        /\ socket'[c].slipped = sockets[c].slipped
    BY <1>1 DEF Socket
  <1>3. Sent(socket'[c], fanned) /\ Whole(socket'[c], fanned)
    BY <1>2 DEF Sent, Whole, Teardown
  <1>4. QED
    BY <1>1, <1>3 DEF ChatInv

\* A history is read, and sent from the start.
LEMMA StartReplayChat ==
  ASSUME TypeOK, NEW c \in Conns, NEW sockets \in [Conns -> Socket], StartReplay(c, sockets),
         conn = None, fanned' = fanned, \A d \in Conns : Sent(sockets[d], fanned),
         sockets[c].got = <<>>, sockets[c].sent = 0
  PROVE  ChatInv'
  <1> DEFINE read == [sockets EXCEPT ![c] = [sockets[c] EXCEPT !.history = log, !.slipped = fanned # log]]
  <1>1. PICK b \in BOOLEAN : b = (fanned # log)
    OBVIOUS
  <1>2. read = [sockets EXCEPT ![c] = [sockets[c] EXCEPT !.history = log, !.slipped = b]]
    BY <1>1
  <1>3. /\ log \in Nat /\ fanned \in Nat /\ fanned <= log /\ conn = None
    BY DEF TypeOK
  <1>4. [sockets[c] EXCEPT !.history = log, !.slipped = b] \in Socket
    BY <1>3, SocketUpdate
  <1>5. /\ read \in [Conns -> Socket] /\ \A d \in Conns \ {c} : read[d] = sockets[d]
        /\ read[c].got = <<>> /\ read[c].sent = 0 /\ read[c].open = sockets[c].open
        /\ read[c].history = log /\ read[c].slipped = b
    BY <1>2, <1>4 DEF Socket
  <1>6. \/ log = 0 /\ GoLive(c, read)
        \/ /\ log # 0 /\ socket' = [read EXCEPT ![c] = [read[c] EXCEPT !.at = "replaying"]]
           /\ PlaceUnchanged
    BY DEF StartReplay
  <1> HIDE DEF read
  <1>7. CASE log = 0 /\ GoLive(c, read)
    <2>1. Whole(read[c], fanned)
      BY <1>3, <1>5, <1>7, UpToNext DEF Whole
    <2>2. QED
      BY <1>5, <1>7, <2>1, GoLiveChat
  <1>8. CASE log # 0 /\ socket' = [read EXCEPT ![c] = [read[c] EXCEPT !.at = "replaying"]] /\ PlaceUnchanged
    <2>1. \A d \in Conns \ {c} : socket'[d] = sockets[d]
      BY <1>5, <1>8
    <2>2. /\ socket'[c].at = "replaying" /\ socket'[c].got = <<>> /\ socket'[c].sent = 0
          /\ socket'[c].history = log /\ socket'[c].slipped = b
      BY <1>5, <1>8 DEF Socket
    <2>3. ~b => log = fanned
      BY <1>1
    <2>4. Sent(socket'[c], fanned)
      BY <1>3, <1>8, <2>2, <2>3, UpToNext DEF Sent, Teardown
    <2>5. conn' = None
      BY <1>3, <1>8 DEF PlaceUnchanged
    <2>6. QED
      BY <2>1, <2>4, <2>5, ConvoRuntimeAssumption DEF ChatInv
  <1>9. QED
    BY <1>6, <1>7, <1>8

\* ChatInv is inductive, with what RuntimeInv says of the place and the lock.
LEMMA ChatStep == TypeOK /\ RuntimeInv /\ ChatInv /\ [Next]_vars => ChatInv'
  <1> SUFFICES ASSUME TypeOK, RuntimeInv, ChatInv, [Next]_vars PROVE ChatInv'
    OBVIOUS
  <1>0. /\ LockInv /\ PlaceInv /\ conn \in Conns \cup {None} /\ None \notin Conns
        /\ fanned \in Nat /\ socket \in [Conns -> Socket] /\ lock \in Conns \cup {None}
    BY ConvoRuntimeAssumption DEF RuntimeInv, TypeOK
  <1>1. \A c \in Conns : socket[c] \in Socket /\ Sent(socket[c], fanned)
    BY <1>0 DEF ChatInv
  <1>2. ASSUME NEW c \in Conns, NEW stage \in Stage, Go(c, stage), stage # "replaying",
               socket[c].at # "replaying", conn' = conn \/ conn' = None, ChatUnchanged,
               stage \in {"away", "waiting"} \cup Teardown => socket[c].got = <<>>
        PROVE  ChatInv'
    <2>1. socket'[c] = [socket[c] EXCEPT !.at = stage] /\ \A d \in Conns \ {c} : socket'[d] = socket[d]
      BY <1>0, <1>2 DEF Go
    <2>2. Sent(socket'[c], fanned)
      BY <1>0, <1>1, <1>2, <2>1, SentKept
    <2>3. /\ socket'[c].open = socket[c].open /\ socket'[c].got = socket[c].got
          /\ socket'[c].slipped = socket[c].slipped
      BY <1>1, <2>1 DEF Socket
    <2>4. conn' = c => Whole(socket'[c], fanned)
      BY <1>0, <1>2, <2>3 DEF ChatInv, Whole
    <2>5. fanned' = fanned /\ \A d \in Conns : socket'[d] # socket[d] =>
            Sent(socket'[d], fanned) /\ (conn' = d => Whole(socket'[d], fanned))
      BY <1>2, <2>1, <2>2, <2>4 DEF ChatUnchanged
    <2>6. QED
      BY <1>2, <2>5, ChatKept
  <1>3. ASSUME NEW c \in Conns, BeGone(c), PlaceUnchanged, ChatUnchanged PROVE ChatInv'
    <2>1. /\ socket'[c] = [CutOff(NewSocket) EXCEPT !.at = "gone"]
          /\ \A d \in Conns \ {c} : socket'[d] = socket[d]
      BY <1>0, <1>3 DEF BeGone
    <2>2. Sent(socket'[c], fanned)
      BY <1>0, <1>1, <2>1, SentKept
    <2>3. ~socket'[c].open
      BY <2>1 DEF CutOff, NewSocket
    <2>4. Whole(socket'[c], fanned)
      BY <2>3 DEF Whole
    <2>5. fanned' = fanned /\ conn' = conn
      BY <1>3 DEF PlaceUnchanged, ChatUnchanged
    <2>6. QED
      BY <2>1, <2>2, <2>4, <2>5, ChatKept
  <1>4. ASSUME NEW c \in Conns, StartTeardown(c), ChatUnchanged, socket[c].at # "replaying",
               socket[c].got = <<>>
        PROVE  ChatInv'
    BY <1>2, <1>4 DEF StartTeardown, Stage
  <1>5. ASSUME NEW c \in Conns, Hello(c) PROVE ChatInv'
    <2>1. socket[c].got = <<>> /\ socket[c].at = "away"
      BY <1>1, <1>5 DEF Hello, Sent
    <2>2. QED
      BY <1>2, <1>5, <2>1 DEF Hello, PlaceUnchanged, Stage
  <1>6. ASSUME NEW c \in Conns, Attach(c) PROVE ChatInv'
    <2>1. socket[c].got = <<>> /\ socket[c].at = "waiting" /\ socket[c].sent = 0 /\ ChatUnchanged
      BY <1>1, <1>6 DEF Attach, Sent
    <2>2. CASE StartTeardown(c)
      BY <1>4, <2>1, <2>2
    <2>3. CASE conn = None /\ StartReplay(c, socket)
      <3>1. fanned' = fanned
        BY <2>1 DEF ChatUnchanged
      <3>2. QED
        BY <1>0, <1>1, <2>1, <2>3, <3>1, StartReplayChat
    <2>4. QED
      BY <1>6, <2>2, <2>3 DEF Attach
  <1>7. ASSUME NEW c \in Conns, Drop(c) PROVE ChatInv'
    <2>1. /\ socket'[c] = CutOff(socket[c]) /\ \A d \in Conns \ {c} : socket'[d] = socket[d]
          /\ conn' = conn /\ fanned' = fanned
      BY <1>0, <1>7 DEF Drop, PlaceUnchanged, ChatUnchanged
    <2>2. Sent(socket'[c], fanned)
      BY <1>0, <1>1, <2>1, SentKept
    <2>3. Whole(socket'[c], fanned)
      BY <1>1, <2>1 DEF CutOff, Socket, Whole
    <2>4. QED
      BY <2>1, <2>2, <2>3, ChatKept
  <1>8. ASSUME NEW c \in Conns, Leave(c) PROVE ChatInv'
    BY <1>2, <1>8 DEF Leave, PlaceUnchanged, Stage, Teardown
  <1>9. ASSUME NEW c \in Conns, Detach(c) PROVE ChatInv'
    <2>1. CASE StillLive(c) /\ StartTeardown(c)
      <3>1. socket[c].at = "leaving" /\ conn = c /\ ChatUnchanged
        BY <1>9, <2>1 DEF Detach, StillLive
      <3>2. ~socket[c].open
        BY <1>0, <3>1 DEF PlaceInv
      <3>3. socket[c].got = <<>>
        BY <1>1, <3>2 DEF Sent
      <3>4. QED
        BY <1>4, <2>1, <3>1, <3>3
    <2>2. CASE BeGone(c) /\ PlaceUnchanged
      BY <1>3, <1>9, <2>2 DEF Detach
    <2>3. QED
      BY <1>9, <2>1, <2>2 DEF Detach
  <1>10. ASSUME NEW c \in Conns, PipelineClosed(c) PROVE ChatInv'
    <2>1. socket[c].got = <<>> /\ socket[c].at = "closing"
      BY <1>1, <1>10 DEF PipelineClosed, Sent, Teardown
    <2>2. QED
      BY <1>2, <1>10, <2>1 DEF PipelineClosed, PlaceUnchanged, Stage
  <1>11. ASSUME NEW c \in Conns, TaskCancelled(c) PROVE ChatInv'
    <2>1. socket[c].got = <<>> /\ socket[c].at = "cancelling" /\ PlaceUnchanged /\ ChatUnchanged
      BY <1>1, <1>11 DEF TaskCancelled, Sent, Teardown
    <2>2. CASE Go(c, "parting")
      BY <1>2, <2>1, <2>2 DEF PlaceUnchanged, Stage
    <2>3. CASE BeGone(c)
      BY <1>3, <2>1, <2>3
    <2>4. QED
      BY <1>11, <2>2, <2>3 DEF TaskCancelled
  <1>12. ASSUME NEW c \in Conns, Parted(c) PROVE ChatInv'
    <2> DEFINE sockets == [socket EXCEPT ![old.conn] = CutOff(@)]
    <2>1. socket[c].at = "parting" /\ StartReplay(c, sockets) /\ fanned' = fanned
      BY <1>12 DEF Parted, ChatUnchanged
    <2>2. socket[c].got = <<>> /\ socket[c].sent = 0
      BY <1>1, <2>1 DEF Sent, Teardown
    <2>3. lock = c /\ conn = None /\ old.conn # c
      BY <1>0, <2>1 DEF LockInv, Busy, Teardown
    <2>4. sockets[c] = socket[c] /\ \A d \in Conns : sockets[d] = socket[d] \/ sockets[d] = CutOff(socket[d])
      BY <1>0, <2>3
    <2>5. \A d \in Conns : sockets[d] \in Socket /\ Sent(sockets[d], fanned)
      BY <1>0, <1>1, <2>4, SentKept, SocketUpdate
    <2>6. sockets \in [Conns -> Socket]
      BY <1>0, <2>5
    <2> HIDE DEF sockets
    <2>7. QED
      BY <2>1, <2>2, <2>3, <2>4, <2>5, <2>6, StartReplayChat
  <1>13. ASSUME NEW c \in Conns, Replay(c) PROVE ChatInv'
    <2> DEFINE entry == socket[c].sent + 1
               sockets == [socket EXCEPT ![c] = [Receives(socket[c], entry) EXCEPT !.sent = entry]]
    <2>1. /\ socket[c].at = "replaying" /\ fanned' = fanned
          /\ \/ entry = socket[c].history /\ GoLive(c, sockets)
             \/ entry < socket[c].history /\ socket' = sockets /\ PlaceUnchanged
      BY <1>13 DEF Replay, ChatUnchanged
    <2>2. /\ lock = c /\ conn = None
      BY <1>0, <2>1 DEF LockInv, Busy, Teardown
    <2>3. /\ socket[c].open => socket[c].got = UpTo(socket[c].sent)
          /\ ~socket[c].open => socket[c].got = <<>>
          /\ ~socket[c].slipped => socket[c].history = fanned
      BY <1>1, <2>1 DEF Sent
    <2>4. PICK n \in Nat : n = socket[c].sent
      BY <1>1 DEF Socket
    <2>5. PICK s \in Socket : s = Receives(socket[c], n + 1)
      <3>1. PICK m \in Nat : m = n + 1
        OBVIOUS
      <3>2. Receives(socket[c], m) \in Socket
        BY <1>1, SocketUpdate
      <3>3. QED
        BY <3>1, <3>2
    <2>6. /\ s.at = socket[c].at /\ s.open = socket[c].open /\ s.slipped = socket[c].slipped
          /\ s.history = socket[c].history
          /\ s.open => s.got = UpTo(n + 1)
          /\ ~s.open => s.got = <<>>
      <3>1. CASE socket[c].open
        <4>1. s = [socket[c] EXCEPT !.got = Append(UpTo(n), n + 1)]
          BY <2>3, <2>4, <2>5, <3>1 DEF Receives
        <4>2. s = [socket[c] EXCEPT !.got = UpTo(n + 1)]
          BY <4>1, UpToNext
        <4>3. QED
          BY <1>1, <3>1, <4>2 DEF Socket
      <3>2. CASE ~socket[c].open
        BY <2>3, <2>5, <3>2 DEF Receives
      <3>3. QED
        BY <3>1, <3>2
    <2>7. sockets = [socket EXCEPT ![c] = [s EXCEPT !.sent = n + 1]]
      BY <2>4, <2>5
    <2> HIDE DEF sockets
    <2>8. /\ sockets[c] = [s EXCEPT !.sent = n + 1] /\ \A d \in Conns \ {c} : sockets[d] = socket[d]
      BY <1>0, <2>7
    <2>9. n + 1 \in Nat /\ [s EXCEPT !.sent = n + 1] \in Socket
      <3>1. PICK m \in Nat : m = n + 1
        OBVIOUS
      <3>2. [s EXCEPT !.sent = m] \in Socket
        BY SocketUpdate
      <3>3. QED
        BY <3>1, <3>2
    <2>10. sockets \in [Conns -> Socket]
      BY <1>0, <2>7, <2>9
    <2>11. /\ sockets[c].at = "replaying" /\ sockets[c].open = s.open /\ sockets[c].slipped = s.slipped
           /\ sockets[c].history = s.history /\ sockets[c].got = s.got /\ sockets[c].sent = n + 1
      BY <2>1, <2>6, <2>8 DEF Socket
    <2>12. CASE entry = socket[c].history /\ GoLive(c, sockets)
      <3>1. Whole(sockets[c], fanned) /\ (~sockets[c].open => sockets[c].got = <<>>)
        BY <2>3, <2>4, <2>6, <2>11, <2>12 DEF Whole
      <3>2. \A d \in Conns \ {c} : Sent(sockets[d], fanned)
        BY <1>1, <2>8
      <3>3. QED
        BY <2>1, <2>10, <2>12, <3>1, <3>2, GoLiveChat
    <2>13. CASE entry < socket[c].history /\ socket' = sockets /\ PlaceUnchanged
      <3>1. n + 1 < socket[c].history
        BY <2>4, <2>13
      <3>2. /\ socket'[c].at = "replaying" /\ socket'[c].open = s.open /\ socket'[c].slipped = socket[c].slipped
            /\ socket'[c].history = socket[c].history /\ socket'[c].got = s.got /\ socket'[c].sent = n + 1
        BY <2>6, <2>11, <2>13
      <3>3. Sent(socket'[c], fanned)
        BY <2>3, <2>6, <3>1, <3>2 DEF Sent, Teardown
      <3>4. conn' = None
        BY <2>2, <2>13 DEF PlaceUnchanged
      <3>5. \A d \in Conns \ {c} : socket'[d] = socket[d]
        BY <2>8, <2>13
      <3>6. QED
        BY <1>0, <2>1, <3>3, <3>4, <3>5, ChatKept
    <2>14. QED
      BY <2>1, <2>12, <2>13
  <1>14. CASE FanOut
    <2>1. PICK n \in Nat : n = fanned
      BY <1>0
    <2>2. /\ fanned' = n + 1 /\ conn' = conn /\ pushConn = conn
          /\ \A d \in Conns : socket'[d] = IF d = pushConn THEN Receives(socket[d], n + 1)
                ELSE [socket[d] EXCEPT !.slipped = socket[d].slipped \/ socket[d].at = "replaying"]
      BY <1>0, <1>14, <2>1 DEF FanOut, PlaceUnchanged, PlaceInv
    <2>3. ASSUME NEW d \in Conns, d # conn
          PROVE  Sent(socket'[d], n + 1)
      <3>1. PICK b \in BOOLEAN : b = (socket[d].slipped \/ socket[d].at = "replaying")
        OBVIOUS
      <3>2. socket'[d] = [socket[d] EXCEPT !.slipped = b]
        BY <2>2, <2>3, <3>1
      <3>3. /\ socket'[d].at = socket[d].at /\ socket'[d].open = socket[d].open
            /\ socket'[d].got = socket[d].got /\ socket'[d].history = socket[d].history
            /\ socket'[d].sent = socket[d].sent /\ socket'[d].slipped = b
        BY <1>1, <3>2 DEF Socket
      <3>4. socket[d].at = "replaying" => b
        BY <3>1
      <3>5. QED
        BY <1>1, <3>3, <3>4 DEF Sent
    <2>4. ASSUME NEW d \in Conns, d = conn
          PROVE  Sent(socket'[d], n + 1) /\ Whole(socket'[d], n + 1)
      <3>1. /\ socket[d].at \in {"live", "leaving"} /\ Whole(socket[d], n) /\ Sent(socket[d], n)
            /\ socket[d] \in Socket
        BY <1>0, <1>1, <2>1, <2>4 DEF PlaceInv, ChatInv
      <3>2. socket'[d] = Receives(socket[d], n + 1)
        BY <2>2, <2>4
      <3>3. CASE socket[d].open
        <4>1. socket[d].got \in Seq(Nat)
          BY <3>1 DEF Socket
        <4>2. PICK g : g = Append(socket[d].got, n + 1)
          OBVIOUS
        <4>3. socket'[d] = [socket[d] EXCEPT !.got = g]
          BY <3>2, <3>3, <4>2 DEF Receives
        <4>4. /\ socket'[d].at = socket[d].at /\ socket'[d].open /\ socket'[d].sent = socket[d].sent
              /\ socket'[d].slipped = socket[d].slipped /\ socket'[d].got = g
          BY <3>1, <3>3, <4>3 DEF Socket
        <4>5. Sent(socket'[d], n + 1)
          BY <3>1, <4>4 DEF Sent, Teardown
        <4>6. ~socket[d].slipped => g = UpTo(n + 1)
          BY <3>1, <3>3, <4>2, UpToNext DEF Whole
        <4>7. QED
          BY <4>4, <4>5, <4>6 DEF Whole
      <3>4. CASE ~socket[d].open
        <4>1. socket'[d] = socket[d]
          BY <3>2, <3>4 DEF Receives
        <4>2. QED
          BY <3>1, <3>4, <4>1 DEF Sent, Whole
      <3>5. QED
        BY <3>3, <3>4
    <2>5. QED
      BY <2>2, <2>3, <2>4 DEF ChatInv
  <1>15. ASSUME UNCHANGED <<fanned, conn, socket>> PROVE ChatInv'
    BY <1>15 DEF ChatInv
  <1>16. ASSUME NEW c \in Conns,
                \/ \E k \in Switches : Switch(c, k)
                \/ ProviderFails(c) \/ FailedClosed(c) \/ Reconnect(c)
         PROVE  ChatInv'
    BY <1>15, <1>16 DEF Switch, ProviderFails, FailedClosed, Reconnect, ChatUnchanged, PlaceUnchanged
  <1>17. CASE Write \/ Poll \/ UNCHANGED vars
    BY <1>15, <1>17 DEF Write, Poll, vars, PlaceUnchanged
  <1>18. QED
    BY <1>5, <1>6, <1>7, <1>8, <1>9, <1>10, <1>11, <1>12, <1>13, <1>14, <1>16, <1>17 DEF Next, SocketStep

\* If no entry was pushed between reading the history and going live, the chat on the
\* live phone is every entry pushed so far, once and in order.
THEOREM ChatIsWholeAlways == Spec => []ChatIsWhole
  <1>1. Init => ChatInv
    <2> SUFFICES ASSUME Init, NEW c \in Conns PROVE Sent(socket[c], fanned) /\ conn # c
      BY DEF ChatInv
    <2>1. socket[c] = NewSocket /\ conn = None
      BY DEF Init
    <2>2. QED
      BY <2>1, ConvoRuntimeAssumption DEF Sent, NewSocket
  <1>2. TypeOK /\ ChatInv => ChatIsWhole
    BY DEF ChatInv, Whole, UpTo, ChatIsWhole, TypeOK
  <1>3. QED
    BY RuntimeAlways, ChatStep, <1>1, <1>2, PTL DEF Spec
=============================================================================
