------------------------------ MODULE ConvoRuntime ------------------------------
(***************************************************************************)
(* ConvoRuntime (src/remote_workstreams/server/runtime.py) and the socket  *)
(* endpoint in front of it (server/ws.py): one conversation, one live      *)
(* socket.  A new socket takes over from the live one, is sent the history *)
(* of the chat, and then gets every new entry from the fan-out; a pipeline *)
(* whose provider fails is replaced for the same socket.                   *)
(*                                                                         *)
(* attach() and detach() run under one lock, but the fan-out and the       *)
(* pipeline's task do not: they go on while the lock's holder waits for    *)
(* the old pipeline to close or for the history to be sent.                *)
(*                                                                         *)
(* Chat entries are positions of one transcript.  history() is the last    *)
(* 200 of them; MaxLog stays below.  Buttons, the detail view's watch task *)
(* and a Clear of the conversation do not touch any of this.               *)
(***************************************************************************)
EXTENDS Naturals, Sequences, FiniteSets

CONSTANTS
  Conns,        \* sockets; each connects once
  Switches,     \* what the phone switches on and off: mute, hush
  MaxLog,       \* bound: chat entries written
  MaxPipelines, \* bound: no provider fails once so many pipelines were made
  None          \* no socket

ASSUME ConvoRuntimeAssumption ==
  /\ MaxLog \in 0..200
  /\ MaxPipelines \in Nat
  /\ None \notin Conns

VARIABLES
  log,        \* chat entries in the transcript
  polled,     \* of these, those the bridge has read and queued for the fan-out
  fanned,     \* of these, those the fan-out has pushed
  conn,       \* conn
  pushConn,   \* push.conn
  pipeline,   \* pipeline, as an index into pipe, or 0
  switches,   \* _muted, _hushed: those that are on
  lock,       \* the socket whose attach() or detach() holds _lock
  old,        \* what the _teardown under way has taken: its conn and pipeline
  pipe,       \* the pipelines made, oldest first
  task,       \* task[c]: where _run_pipeline is for socket c
  socket      \* the sockets

vars == <<log, polled, fanned, conn, pushConn, pipeline, switches, lock, old, pipe,
          task, socket>>

\* closing, cancelling, parting: in _teardown, awaiting the pipeline, its task,
\* and the farewell to the old socket.
Stage == {"away", "waiting", "closing", "cancelling", "parting", "replaying", "live",
          "leaving", "gone"}

Socket == [ at      : Stage,
            open    : BOOLEAN,     \* the phone still receives on it
            got     : Seq(Nat),    \* the chat entries it was sent
            history : Nat,         \* how many entries history() had
            sent    : Nat,         \* how many of these attach() has sent
            slipped : BOOLEAN ]    \* history: chat moved on between history() and live

\* What is switched on in a closed pipeline is of no use, and not kept.
Pipe == [owner : Conns, switches : SUBSET Switches, closed : BOOLEAN]

TaskStage == {"none", "running", "failed", "sleeping"}

TypeOK ==
  /\ log \in Nat /\ polled \in 0..log /\ fanned \in 0..polled
  /\ conn \in Conns \cup {None}
  /\ pushConn \in Conns \cup {None}
  /\ pipe \in Seq(Pipe)
  /\ pipeline \in {0} \cup DOMAIN pipe
  /\ switches \subseteq Switches
  /\ lock \in Conns \cup {None}
  /\ old \in [conn : Conns \cup {None}, pipeline : {0} \cup DOMAIN pipe]
  /\ task \in [Conns -> [at : TaskStage, pipeline : {0} \cup DOMAIN pipe]]
  /\ socket \in [Conns -> Socket]

NewSocket == [at |-> "away", open |-> TRUE, got |-> <<>>, history |-> 0, sent |-> 0,
              slipped |-> FALSE]

NoTask == [at |-> "none", pipeline |-> 0]

Nothing == [conn |-> None, pipeline |-> 0]

Init ==
  /\ log \in 0..MaxLog        \* the server may start on a conversation of any length
  /\ polled = log /\ fanned = log   \* read before anybody subscribes
  /\ conn = None /\ pushConn = None /\ pipeline = 0
  /\ switches = {}
  /\ lock = None /\ old = Nothing
  /\ pipe = <<>>
  /\ task = [c \in Conns |-> NoTask]
  /\ socket = [c \in Conns |-> NewSocket]

-----------------------------------------------------------------------------
(* The pieces a later edit is most likely to get wrong, each with the      *)
(* wrong form kept in front of it.                                         *)

LockKept == lock
\* `async with self._lock' is left.
LockReleased == None

Anyone(c) == conn # None
\* detach(): a socket that was taken over must not tear down its successor.
StillLive(c) == conn = c

NeverReplaced(c, p) == TRUE
\* _run_pipeline: the runtime still has this socket and this pipeline.
StillMine(c, p) == conn = c /\ pipeline = p

FreshPipe(c) == [owner |-> c, switches |-> {}, closed |-> FALSE]
\* _new_pipeline: the phone's mute and hush carry over.
NewPipe(c) == [owner |-> c, switches |-> switches, closed |-> FALSE]

TailFromStart == 0
\* The bridge's tail keeps its place in the transcript.
TailAfterPoll == log

PushFirst(c) == c
\* _teardown: nothing is pushed until the new socket has its history.
PushAfterTeardown(c) == None

-----------------------------------------------------------------------------
Go(c, stage) == socket' = [socket EXCEPT ![c].at = stage]

\* The phone is gone, and the chat it showed with it.
CutOff(s) == [s EXCEPT !.open = FALSE, !.got = <<>>]

BeGone(c) == socket' = [socket EXCEPT ![c] = [CutOff(NewSocket) EXCEPT !.at = "gone"]]

ClosePipe(p) == pipe' = [pipe EXCEPT ![p] = [@ EXCEPT !.closed = TRUE, !.switches = {}]]

Receives(s, entry) == IF s.open THEN [s EXCEPT !.got = Append(@, entry)] ELSE s

ChatUnchanged == UNCHANGED <<log, polled, fanned>>

PlaceUnchanged == UNCHANGED <<conn, pushConn, pipeline, switches>>

\* _teardown, up to its first await: what is live is taken out of the runtime.
StartTeardown(c) ==
  /\ lock' = c
  /\ old' = [conn |-> conn, pipeline |-> pipeline]
  /\ conn' = None
  /\ pushConn' = PushAfterTeardown(c)
  /\ pipeline' = 0
  /\ Go(c, "closing")
  /\ UNCHANGED <<switches, pipe, task>>

\* The end of attach(): the socket is live, with a pipeline of its own.
GoLive(c, sockets) ==
  /\ conn' = c
  /\ pushConn' = c
  /\ switches' = {}
  /\ pipe' = Append(pipe, FreshPipe(c))
  /\ pipeline' = Len(pipe) + 1
  /\ task' = [task EXCEPT ![c] = [at |-> "running", pipeline |-> Len(pipe) + 1]]
  /\ socket' = [sockets EXCEPT ![c] = [@ EXCEPT !.at = "live", !.history = 0, !.sent = 0]]
  /\ lock' = LockReleased

\* history() reads the transcript afresh, whatever the fan-out is still to push.
StartReplay(c, sockets) ==
  LET read == [sockets EXCEPT ![c] = [@ EXCEPT !.history = log, !.slipped = fanned # log]] IN
  \/ log = 0 /\ GoLive(c, read)
  \/ /\ log # 0
     /\ lock' = c
     /\ socket' = [read EXCEPT ![c].at = "replaying"]
     /\ PlaceUnchanged /\ UNCHANGED <<pipe, task>>

-----------------------------------------------------------------------------
(* The socket endpoint, with attach() and detach().                        *)

\* The hello was accepted: attach() waits for the lock.
Hello(c) ==
  /\ socket[c].at = "away"
  /\ Go(c, "waiting")
  /\ ChatUnchanged /\ PlaceUnchanged /\ UNCHANGED <<lock, old, pipe, task>>

Attach(c) ==
  /\ socket[c].at = "waiting"
  /\ lock = None
  /\ \/ conn # None /\ StartTeardown(c)
     \/ conn = None /\ StartReplay(c, socket) /\ UNCHANGED old
  /\ ChatUnchanged

\* The connection breaks: whatever is sent from now on is dropped.
Drop(c) ==
  /\ socket[c].at \notin {"away", "gone"}
  /\ socket[c].open
  /\ socket' = [socket EXCEPT ![c] = CutOff(@)]
  /\ ChatUnchanged /\ PlaceUnchanged /\ UNCHANGED <<lock, old, pipe, task>>

\* The endpoint's loop ends: the socket is closed, or a message comes on one that
\* was taken over.
Leave(c) ==
  /\ socket[c].at = "live"
  /\ ~socket[c].open \/ conn # c
  /\ Go(c, "leaving")
  /\ ChatUnchanged /\ PlaceUnchanged /\ UNCHANGED <<lock, old, pipe, task>>

Detach(c) ==
  /\ socket[c].at = "leaving"
  /\ lock = None
  /\ \/ StillLive(c) /\ StartTeardown(c)
     \/ /\ ~StillLive(c)
        /\ BeGone(c)
        /\ PlaceUnchanged /\ UNCHANGED <<lock, old, pipe, task>>
  /\ ChatUnchanged

\* _teardown goes on: the pipeline is closed, its task cancelled ...
PipelineClosed(c) ==
  /\ socket[c].at = "closing"
  /\ ClosePipe(old.pipeline)
  /\ Go(c, "cancelling")
  /\ ChatUnchanged /\ PlaceUnchanged /\ UNCHANGED <<lock, old, task>>

\* ... and, when another socket has taken over, the old one is to be told.
TaskCancelled(c) ==
  /\ socket[c].at = "cancelling"
  /\ task' = [task EXCEPT ![old.conn] = NoTask]
  /\ \/ old.conn # c /\ Go(c, "parting") /\ UNCHANGED <<lock, old>>
     \/ old.conn = c /\ BeGone(c) /\ lock' = LockReleased /\ old' = Nothing
  /\ ChatUnchanged /\ PlaceUnchanged /\ UNCHANGED pipe

Parted(c) ==
  /\ socket[c].at = "parting"
  /\ old' = Nothing
  /\ StartReplay(c, [socket EXCEPT ![old.conn] = CutOff(@)])
  /\ ChatUnchanged

\* One entry of the history is sent, the last of them just before going live.
Replay(c) ==
  LET entry   == socket[c].sent + 1
      sockets == [socket EXCEPT ![c] = [Receives(@, entry) EXCEPT !.sent = entry]]
  IN  /\ socket[c].at = "replaying"
      /\ \/ entry = socket[c].history /\ GoLive(c, sockets)
         \/ /\ entry < socket[c].history
            /\ socket' = sockets
            /\ PlaceUnchanged /\ UNCHANGED <<lock, pipe, task>>
      /\ ChatUnchanged /\ UNCHANGED old

\* A switch is set, by a message on the live socket.
Switch(c, k) ==
  LET on == IF k \in switches THEN switches \ {k} ELSE switches \cup {k} IN
  /\ socket[c].at = "live" /\ socket[c].open /\ conn = c
  /\ switches' = on
  /\ pipe' = IF pipe[pipeline].closed THEN pipe
             ELSE [pipe EXCEPT ![pipeline].switches = on]
  /\ ChatUnchanged /\ UNCHANGED <<conn, pushConn, pipeline, lock, old, task, socket>>

-----------------------------------------------------------------------------
(* _run_pipeline, for one socket.                                          *)

\* run() of its pipeline returns or raises.
ProviderFails(c) ==
  LET p == task[c].pipeline IN
  /\ task[c].at = "running"
  /\ Len(pipe) < MaxPipelines
  /\ task' = [task EXCEPT ![c] = IF StillMine(c, p) THEN [@ EXCEPT !.at = "failed"] ELSE NoTask]
  /\ ChatUnchanged /\ PlaceUnchanged /\ UNCHANGED <<lock, old, pipe, socket>>

FailedClosed(c) ==
  /\ task[c].at = "failed"
  /\ ClosePipe(task[c].pipeline)
  /\ task' = [task EXCEPT ![c].at = "sleeping"]
  /\ ChatUnchanged /\ PlaceUnchanged /\ UNCHANGED <<lock, old, socket>>

\* After the pause, a new pipeline if all is as before; otherwise the loop ends.
Reconnect(c) ==
  /\ task[c].at = "sleeping"
  /\ \/ /\ StillMine(c, task[c].pipeline)
        /\ pipe' = Append(pipe, NewPipe(c))
        /\ pipeline' = Len(pipe) + 1
        /\ task' = [task EXCEPT ![c] = [at |-> "running", pipeline |-> Len(pipe) + 1]]
     \/ /\ ~StillMine(c, task[c].pipeline)
        /\ task' = [task EXCEPT ![c] = NoTask]
        /\ UNCHANGED <<pipe, pipeline>>
  /\ ChatUnchanged /\ UNCHANGED <<conn, pushConn, switches, lock, old, socket>>

-----------------------------------------------------------------------------
(* The chat: the session writes, the bridge polls, the fan-out pushes.     *)

Write ==
  /\ log < MaxLog
  /\ log' = log + 1
  /\ PlaceUnchanged /\ UNCHANGED <<polled, fanned, lock, old, pipe, task, socket>>

Poll ==
  /\ polled < log
  /\ polled' = TailAfterPoll
  /\ PlaceUnchanged /\ UNCHANGED <<log, fanned, lock, old, pipe, task, socket>>

FanOut ==
  /\ fanned < polled
  /\ fanned' = fanned + 1
  /\ socket' = [c \in Conns |->
       IF c = pushConn THEN Receives(socket[c], fanned + 1)
       ELSE [socket[c] EXCEPT !.slipped = @ \/ socket[c].at = "replaying"]]
  /\ PlaceUnchanged /\ UNCHANGED <<log, polled, lock, old, pipe, task>>

-----------------------------------------------------------------------------
SocketStep(c) ==
  \/ PipelineClosed(c) \/ TaskCancelled(c) \/ Parted(c) \/ Replay(c)

Next ==
  \/ \E c \in Conns :
       \/ Hello(c) \/ Attach(c) \/ Drop(c) \/ Leave(c) \/ Detach(c) \/ SocketStep(c)
       \/ \E k \in Switches : Switch(c, k)
       \/ ProviderFails(c) \/ FailedClosed(c) \/ Reconnect(c)
  \/ Write \/ Poll \/ FanOut

Spec == Init /\ [][Next]_vars

(* asyncio.Lock is fair; what attach() and detach() await comes to an end. *)
Fairness ==
  \A c \in Conns :
    /\ WF_vars(SocketStep(c))
    /\ SF_vars(Attach(c)) /\ SF_vars(Detach(c))

FairSpec == Spec /\ Fairness

-----------------------------------------------------------------------------
(* Properties.                                                             *)

\* Everything the pipeline of a socket costs ends with its place: the one open
\* pipeline is the runtime's, or the one being torn down, whatever fails, drops
\* or takes over in whatever order.
NoPipelineLeaks ==
  \A p \in DOMAIN pipe : pipe[p].closed \/ p = pipeline \/ p = old.pipeline

\* The parts of "one live socket" agree whenever nobody holds the lock: the same
\* socket is live, gets the pushes and owns the pipeline.
OneLiveSocket ==
  lock = None =>
    /\ pushConn = conn
    /\ conn = None <=> pipeline = 0
    /\ conn # None => pipe[pipeline].owner = conn

\* The phone's switches survive the replacement of a failed pipeline
\* (_run_pipeline's docstring, runtime.py lines 356-359).
SwitchesSurvive ==
  pipeline # 0 /\ ~pipe[pipeline].closed => pipe[pipeline].switches = switches

\* A socket loses its place only by being gone or to one that attaches: in
\* particular not to the belated detach() of a socket that was taken over.
PlaceLostToSuccessor ==
  [][conn # None /\ conn' # conn =>
       ~socket[conn].open \/ (lock' # None /\ socket[lock'].at = "waiting")]_vars

\* The chat on the live phone: if nothing slipped between reading the history and
\* going live, it holds every entry pushed so far once and in order.
ChatIsWhole ==
  conn # None /\ socket[conn].open /\ ~socket[conn].slipped =>
    socket[conn].got = [i \in 1..fanned |-> i]

\* The same without the condition: "replays chat history to the new socket, then
\* live entries stream via the fan-out" (attach()'s docstring).
ChatInOrder ==
  \A c \in Conns : \A i \in DOMAIN socket[c].got : socket[c].got[i] = i

\* Whoever asks to attach gets its turn, and whoever leaves gets out.
EverySocketIsServed ==
  \A c \in Conns :
    /\ (socket[c].at = "waiting") ~> (socket[c].at = "live")
    /\ (socket[c].at = "leaving") ~> (socket[c].at = "gone")
=============================================================================
