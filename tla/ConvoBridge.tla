------------------------------ MODULE ConvoBridge ------------------------------
(***************************************************************************)
(* ConvoBridge (src/remote_workstreams/convo.py): the only way to talk to  *)
(* the agent session of the window voice:convo.  turn() types a text into  *)
(* the session and returns a stream of what the session answers; run()     *)
(* polls the session's transcript and puts every entry into the queue of   *)
(* the active stream.  Nothing ties an entry to the text it answers: a     *)
(* stream counts TurnEnds, and speaks once it has skipped as many of them  *)
(* as were owed when it was created.                                       *)
(*                                                                         *)
(* One event loop runs all of this, so the code between two awaits is one  *)
(* action.  A queue only ever receives consecutive transcript entries, so  *)
(* it is held as the interval next..limit of positions of a transcript,    *)
(* followed by the None that detaches the stream when `ended' is set.      *)
(* Entries other than AssistantText and TurnEnd never reach a stream's     *)
(* consumer and are left out; the sentences of one text block are one.     *)
(*                                                                         *)
(* The agent (Claude Code or Codex in tmux) is not part of the repository: *)
(* the session takes the texts typed into it one at a time, in order, and  *)
(* writes some text blocks and one end mark for each.                      *)
(***************************************************************************)
EXTENDS Naturals, Sequences, FiniteSets

CONSTANTS
  Streams,      \* identities of the streams turn() returns
  MaxEpoch,     \* bound: sessions the window voice:convo is given in turn
  MaxLog,       \* bound: no text block is written to a longer transcript
  MaxInputs,    \* bound: the laptop adds no input to a session given that many
  Laptop,       \* whether somebody also types into the tmux window
  None          \* no stream: _turn_queue is None

ASSUME ConvoBridgeAssumption ==
  /\ MaxEpoch \in Nat \ {0}
  /\ MaxLog \in Nat
  /\ MaxInputs \in Nat
  /\ Laptop \in BOOLEAN
  /\ None \notin Streams

VARIABLES
  epoch,        \* _session, as the number of sessions the window has had
  log,          \* log[e]: the transcript of session e
  submitted,    \* submitted[e]: how many texts session e has been given
  read,         \* _tail: how many entries of log[epoch] run() has polled
  unfinished,   \* _unfinished
  turnQueue,    \* _turn_queue, as the stream that owns the queue
  stream,       \* the stream objects
  closed,       \* _closed
  disturbed     \* history: disturbed[e], the turn count of session e was upset

vars == <<epoch, log, submitted, read, unfinished, turnQueue, stream, closed,
          disturbed>>

Epochs == 1..MaxEpoch

\* A transcript line: the input it answers, and whether it is the TurnEnd.
Entry == [turn : Nat \ {0}, end : BOOLEAN]

\* created: turn() has returned, the generator has not run;  sending: inside
\* `await self.send' before the Enter key lands;  sent: after it;  receiving:
\* in the loop over the queue;  done: returned;  abandoned: closed from outside.
Status == {"unused", "created", "sending", "sent", "receiving", "done", "abandoned"}

Stream == [ status  : Status,
            epoch   : Epochs,          \* whose transcript its queue gets
            session : Epochs \cup {0}, \* where its text was typed
            skip    : Nat,             \* skip, of turn()
            next    : Nat \ {0},       \* first entry still in its queue
            limit   : Nat,             \* last entry put into its queue
            ended   : BOOLEAN,         \* None was put behind them
            own     : Nat,             \* which input of its session it is
            heard   : SUBSET Nat ]     \* the text entries it has yielded

Unused == [status |-> "unused", epoch |-> 1, session |-> 0, skip |-> 0, next |-> 1,
           limit |-> 0, ended |-> FALSE, own |-> 0, heard |-> {}]

\* The input that entry i of transcript l answers: ends move on to the next.
TurnAt(l, i) ==
  IF i = 1 THEN 1 ELSE IF l[i - 1].end THEN l[i - 1].turn + 1 ELSE l[i - 1].turn

\* Streams whose text is on its way and not yet counted in _unfinished.
Pending == {s \in Streams : stream[s].status \in {"created", "sending", "sent"}}

TypeOK ==
  /\ epoch \in Epochs
  /\ log \in [Epochs -> Seq(Entry)]
  /\ submitted \in [Epochs -> Nat]
  /\ read \in Nat
  /\ unfinished \in Nat
  /\ turnQueue \in Streams \cup {None}
  /\ stream \in [Streams -> Stream]
  /\ closed \in BOOLEAN
  /\ disturbed \in [Epochs -> BOOLEAN]

Init ==
  /\ epoch = 1
  /\ log = [e \in Epochs |-> <<>>]
  /\ submitted = [e \in Epochs |-> 0]
  /\ read = 0
  /\ unfinished = 0
  /\ turnQueue = None
  /\ stream = [s \in Streams |-> Unused]
  /\ closed = FALSE
  /\ disturbed = [e \in Epochs |-> FALSE]

-----------------------------------------------------------------------------
(* The pieces of the handlers that a later edit is most likely to get      *)
(* wrong, each with the wrong forms kept in front of it.                   *)

DetachNothing == stream
\* turn() and reset() put None into the queue of the active stream.
DetachActive ==
  [s \in Streams |-> IF s = turnQueue THEN [stream[s] EXCEPT !.ended = TRUE] ELSE stream[s]]

SkipNothing == 0
SkipOneMore == unfinished + 1
\* The TurnEnds owed to earlier turns, as turn() counts them.
SkipAtTurn == unfinished

CountNoEnd(entry) == unfinished
CountBelowZero(entry) == IF entry.end THEN unfinished - 1 ELSE unfinished
\* run(): max(0, _unfinished - 1) for a TurnEnd.
CountEnd(entry) ==
  IF entry.end /\ unfinished > 0 THEN unfinished - 1 ELSE unfinished

KeepUnfinished == unfinished
\* A brand-new session owes nothing.
UnfinishedAfterReset == 0

OwnEndTooEarly(s) == stream[s].skip <= 1
\* The TurnEnd at hand is this stream's own.
AtOwnEnd(s) == stream[s].skip = 0

\* The finally clause: a stream that ends gives up the queue if it is still its.
Release(s) == IF turnQueue = s THEN None ELSE turnQueue

\* A text still on its way when the count is taken or started over makes it wrong.
CutAcross == Pending # {}

-----------------------------------------------------------------------------
(* turn(), up to the return of the generator.  Its queue is empty: it gets *)
(* what run() polls from now on.                                           *)
NewStream ==
  [status |-> "created", epoch |-> epoch, session |-> 0, skip |-> SkipAtTurn,
   next |-> read + 1, limit |-> read, ended |-> FALSE, own |-> 0, heard |-> {}]

Turn(s) ==
  /\ ~closed
  /\ stream[s].status = "unused"
  /\ stream' = [DetachActive EXCEPT ![s] = NewStream]
  /\ turnQueue' = s
  /\ disturbed' = [disturbed EXCEPT ![epoch] = @ \/ CutAcross]
  /\ UNCHANGED <<epoch, log, submitted, read, unfinished, closed>>

(* The consumer asks for the first sentence: the generator starts to send, *)
(* to the session the bridge points at now.                                *)
BeginSend(s) ==
  /\ stream[s].status = "created"
  /\ stream' = [stream EXCEPT ![s] = [@ EXCEPT !.status = "sending", !.session = epoch]]
  /\ UNCHANGED <<epoch, log, submitted, read, unfinished, turnQueue, closed, disturbed>>

(* The Enter key reaches the session, which queues the text.               *)
Submit(s) ==
  LET e == stream[s].session IN
  /\ stream[s].status = "sending"
  /\ submitted' = [submitted EXCEPT ![e] = @ + 1]
  /\ stream' = [stream EXCEPT ![s] =
                  [@ EXCEPT !.status = "sent",
                            !.own = IF e = stream[s].epoch THEN submitted[e] + 1 ELSE 0]]
  /\ UNCHANGED <<epoch, log, read, unfinished, turnQueue, closed, disturbed>>

(* `await self.send(text)' returns and the turn is counted.                *)
SendDone(s) ==
  /\ stream[s].status = "sent"
  /\ stream' = [stream EXCEPT ![s].status = "receiving"]
  /\ unfinished' = unfinished + 1
  /\ UNCHANGED <<epoch, log, submitted, read, turnQueue, closed, disturbed>>

(* run() polls one entry.  A real poll takes every complete line there is; *)
(* taking them one by one allows every result of that and more.            *)
Poll ==
  /\ ~closed
  /\ read < Len(log[epoch])
  /\ LET entry == log[epoch][read + 1] IN
     /\ unfinished' = CountEnd(entry)
     \* an end nobody is known to be owed: the send has not returned yet
     /\ disturbed' = [disturbed EXCEPT ![epoch] = @ \/ (entry.end /\ unfinished = 0)]
  /\ read' = read + 1
  /\ stream' = [s \in Streams |->
                  IF s = turnQueue THEN [stream[s] EXCEPT !.limit = read + 1] ELSE stream[s]]
  /\ UNCHANGED <<epoch, log, submitted, turnQueue, closed>>

(* The stream takes a text block off its queue and yields it, or skips it. *)
HeardAfterText(s) ==
  stream[s].heard \cup (IF stream[s].skip = 0 THEN {stream[s].next} ELSE {})

TakeText(s) ==
  /\ stream[s].status = "receiving"
  /\ stream[s].next <= stream[s].limit
  /\ ~log[stream[s].epoch][stream[s].next].end
  /\ stream' = [stream EXCEPT ![s] =
                  [@ EXCEPT !.next = stream[s].next + 1, !.heard = HeardAfterText(s)]]
  /\ UNCHANGED <<epoch, log, submitted, read, unfinished, turnQueue, closed, disturbed>>

(* The stream takes a TurnEnd off its queue: an owed one is skipped ...    *)
SkipEnd(s) ==
  /\ stream[s].status = "receiving"
  /\ stream[s].next <= stream[s].limit
  /\ log[stream[s].epoch][stream[s].next].end
  /\ ~AtOwnEnd(s)
  /\ stream' = [stream EXCEPT ![s] = [@ EXCEPT !.next = stream[s].next + 1, !.skip = stream[s].skip - 1]]
  /\ UNCHANGED <<epoch, log, submitted, read, unfinished, turnQueue, closed, disturbed>>

(* ... and its own one ends it.                                            *)
TakeOwnEnd(s) ==
  /\ stream[s].status = "receiving"
  /\ stream[s].next <= stream[s].limit
  /\ log[stream[s].epoch][stream[s].next].end
  /\ AtOwnEnd(s)
  /\ stream' = [stream EXCEPT ![s] = [@ EXCEPT !.next = stream[s].next + 1, !.status = "done"]]
  /\ turnQueue' = Release(s)
  /\ UNCHANGED <<epoch, log, submitted, read, unfinished, closed, disturbed>>

(* The stream takes None off its queue: it was detached and ends quietly.  *)
EndQuietly(s) ==
  /\ stream[s].status = "receiving"
  /\ stream[s].next > stream[s].limit
  /\ stream[s].ended
  /\ stream' = [stream EXCEPT ![s].status = "done"]
  /\ turnQueue' = Release(s)
  /\ UNCHANGED <<epoch, log, submitted, read, unfinished, closed, disturbed>>

(* The consumer is cancelled, or tmux fails.  Before the loop the finally  *)
(* clause does not run, and a text already submitted stays uncounted.      *)
Abandon(s) ==
  /\ stream[s].status \in {"created", "sending", "sent", "receiving"}
  /\ stream' = [stream EXCEPT ![s].status = "abandoned"]
  /\ turnQueue' = IF stream[s].status = "receiving" THEN Release(s) ELSE turnQueue
  /\ disturbed' = [disturbed EXCEPT ![epoch] = @ \/ stream[s].status = "sent"]
  /\ UNCHANGED <<epoch, log, submitted, read, unfinished, closed>>

(* reset(): Clear, or a switch of engine, gave the window a new session.   *)
Reset ==
  /\ ~closed
  /\ epoch < MaxEpoch
  /\ epoch' = epoch + 1
  /\ read' = 0
  /\ unfinished' = UnfinishedAfterReset
  /\ stream' = DetachActive
  /\ turnQueue' = None
  /\ disturbed' = [e \in Epochs |-> disturbed[e] \/ (CutAcross /\ e \in {epoch, epoch + 1})]
  /\ UNCHANGED <<log, submitted, closed>>

(* close(): the server stops; the active stream is told, but keeps the     *)
(* queue.  The runtime has been shut down before, so no turn() follows.    *)
Close ==
  /\ ~closed
  /\ closed' = TRUE
  /\ stream' = DetachActive
  /\ UNCHANGED <<epoch, log, submitted, read, unfinished, turnQueue, disturbed>>

-----------------------------------------------------------------------------
(* The agent session in the window.  Sessions given up by reset() may keep *)
(* writing; nobody reads them.                                             *)
Answering == TurnAt(log[epoch], Len(log[epoch]) + 1)

Write(end) ==
  /\ Answering <= submitted[epoch]
  /\ log' = [log EXCEPT ![epoch] = Append(@, [turn |-> Answering, end |-> end])]
  /\ UNCHANGED <<epoch, submitted, read, unfinished, turnQueue, stream, closed, disturbed>>

SessionText == Len(log[epoch]) < MaxLog /\ Write(FALSE)

SessionEnd == Write(TRUE)

(* Somebody types into the tmux window, or a turn begun before the server  *)
(* was restarted is still running: an input the bridge knows nothing of.   *)
LaptopInput ==
  /\ Laptop
  /\ submitted[epoch] < MaxInputs
  /\ submitted' = [submitted EXCEPT ![epoch] = @ + 1]
  /\ disturbed' = [disturbed EXCEPT ![epoch] = TRUE]
  /\ UNCHANGED <<epoch, log, read, unfinished, turnQueue, stream, closed>>

-----------------------------------------------------------------------------
StreamStep(s) ==
  \/ BeginSend(s) \/ Submit(s) \/ SendDone(s)
  \/ TakeText(s) \/ SkipEnd(s) \/ TakeOwnEnd(s) \/ EndQuietly(s)

Next ==
  \/ \E s \in Streams : Turn(s) \/ StreamStep(s) \/ Abandon(s)
  \/ Poll \/ Reset \/ Close
  \/ SessionText \/ SessionEnd \/ LaptopInput

Spec == Init /\ [][Next]_vars

(* run() keeps polling, the consumer of a stream keeps asking for the next *)
(* sentence, tmux answers, and the agent ends every turn it was given.     *)
Fairness ==
  /\ WF_vars(Poll)
  /\ WF_vars(SessionEnd)
  /\ \A s \in Streams : WF_vars(StreamStep(s))

FairSpec == Spec /\ Fairness

-----------------------------------------------------------------------------
(* Properties.                                                             *)

\* The entries of transcript l that are text blocks of the answer to input n.
ReplyTo(l, n) == {i \in DOMAIN l : l[i].turn = n /\ ~l[i].end}

\* A stream speaks only the reply to its own text (turn()'s contract, convo.py
\* lines 86-90), as long as no send was cut across in its session: skipping
\* _unfinished TurnEnds skips exactly the replies still owed.
SpeaksOwnReply ==
  \A s \in Streams : ~disturbed[stream[s].epoch] =>
    stream[s].heard \subseteq ReplyTo(log[stream[s].epoch], stream[s].own)

\* The same contract without the condition: what the docstring promises.
SpeaksOnlyItsOwnReply ==
  \A s \in Streams :
    stream[s].heard \subseteq ReplyTo(log[stream[s].epoch], stream[s].own)

\* A stream that returned without having been detached has yielded every text
\* block of its reply: turn() registers the queue before it sends, so no entry
\* can land unseen, and it does not mistake an earlier TurnEnd for its own.
SpeaksWholeReply ==
  \A s \in Streams :
    /\ stream[s].status = "done"
    /\ ~stream[s].ended
    /\ ~disturbed[stream[s].epoch]
    => stream[s].heard = ReplyTo(log[stream[s].epoch], stream[s].own)

\* No stream is left waiting once its own TurnEnd has gone through its hands:
\* the pipeline would stay THINKING with the reply complete.
StopsAtOwnEnd ==
  \A s \in Streams :
    /\ stream[s].status = "receiving"
    /\ ~disturbed[stream[s].epoch]
    => \A i \in 1..(stream[s].next - 1) :
         ~(/\ i \in DOMAIN log[stream[s].epoch]
           /\ log[stream[s].epoch][i].end
           /\ log[stream[s].epoch][i].turn = stream[s].own)

\* With no send on its way, _unfinished is exactly the number of TurnEnds the
\* session still owes run(): the count run(), turn() and reset() keep together.
CountsOwedEnds ==
  (~disturbed[epoch] /\ Pending = {}) =>
    unfinished + TurnAt(log[epoch], read + 1) = submitted[epoch] + 1

\* Every stream ends, is abandoned, or was in a session whose count was upset:
\* a superseded one by its None, the active one by its TurnEnd.
EveryStreamEnds ==
  \A s \in Streams :
    (stream[s].status = "created") ~>
      (stream[s].status \in {"done", "abandoned"} \/ disturbed[stream[s].epoch])
=============================================================================
