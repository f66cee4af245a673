----------------------------- MODULE AudioPipeline -----------------------------
(***************************************************************************)
(* AudioPipeline (src/remote_workstreams/audio/pipeline.py) and its state  *)
(* machine (audio/state.py): user speech and typed text become turns, and  *)
(* a turn's reply is spoken unless the user talks over it, types, hushes   *)
(* the speaker or goes away.                                               *)
(*                                                                         *)
(* One event loop runs all of this, so the code between two awaits is one  *)
(* action.  But six tasks call into one pipeline - run() with what the     *)
(* speech recognition hears, the socket's text(), the grace timer's commit,*)
(* the flush of a mute, the silencing of a hush, close() - and any of them *)
(* may be suspended in the middle of _abort_turn, _set_state or _start_turn*)
(* while the others, and the turn itself, go on.  Each caller is therefore *)
(* a small program counter: where it waits, and how it goes on from there. *)
(*                                                                         *)
(* A word stands for a finalised piece of speech or a typed text.  Speech  *)
(* the echo guard takes for the pipeline's own voice is speech that is not *)
(* heard.  Audio bytes, captions and timings change nothing here.          *)
(***************************************************************************)
EXTENDS Naturals, Sequences, FiniteSets

CONSTANT MaxWords     \* bound: words the user says or types

ASSUME AudioPipelineAssumption == MaxWords \in Nat

VARIABLES
  sm,         \* _sm.state, what the phone shows
  spans,      \* _final_spans
  grace,      \* _grace_task is set: an endpoint is held, not yet committed
  hushed,     \* hushed
  closed,     \* _closed
  detached,   \* the runtime has torn the socket down: no message gets here
  turnTask,   \* _turn_task, as an index into turn, or 0
  turn,       \* the _speak_turn tasks, oldest first; words: those yet to be typed
  caller,     \* the tasks inside the pipeline's methods
  said,       \* how many words the user has said or typed so far
  sent,       \* history: the words some turn has typed into the conversation
  clash,      \* history: two callers were suspended in here at once
  caught      \* history: the callers that are suspended in here since before close()

history == <<clash, caught>>
vars == <<sm, spans, grace, hushed, closed, detached, turnTask, turn, caller, said,
          sent, history>>

States == {"listening", "thinking", "speaking", "interrupted"}

\* TRANSITIONS of audio/state.py.
Transitions ==
  {<<"listening", "thinking">>, <<"thinking", "speaking">>, <<"thinking", "listening">>,
   <<"speaking", "listening">>, <<"speaking", "interrupted">>,
   <<"interrupted", "thinking">>, <<"interrupted", "listening">>}

Legal(new) == <<sm, new>> \in Transitions

Words == 1..MaxWords

\* typing: created, its text not yet typed;  waiting: for the next sentence;
\* synth: in the loop over its audio;  ending: in sink.speech_end();  settling:
\* told the phone, about to return;  failing: closing its generators after an
\* error;  closing: the same after a cancel.
TurnStatus == {"typing", "waiting", "synth", "ending", "settling", "failing", "closing",
               "cancelled", "done"}

Live(t) == turn[t].status \notin {"cancelled", "done"}

\* stray: history: begun where no close() will find it, or left there (NewTurn, Begin).
Turn == [status : TurnStatus, audible : BOOLEAN, words : SUBSET Words, stray : BOOLEAN]

LiveTurns == {t \in DOMAIN turn : Live(t)}

\* One task of a kind at a time.  The socket handles one message after another;
\* two grace commits, two flushes or two silencings at once are left out.
Callers == {"run", "text", "grace", "flush", "silence", "close"}

\* ready: created, not begun;  aborting: in _abort_turn;  joining: awaits the
\* turn that is finishing;  telling: in sink.state;  gone: will not come back.
Pc == {"idle", "ready", "aborting", "joining", "telling", "gone"}

\* What a caller does once it has aborted or told the phone.
Goal == {"none", "interrupt", "hear", "supersede", "think", "begin", "silence",
         "leave", "rest"}

\* A TranscriptChunk: interim speech, final speech, final speech that ends the
\* utterance, or the bare end of an utterance.
Chunks == {"interim", "final", "finalEnd", "end"}

Caller == [ pc     : Pc,
            goal   : Goal,
            target : Nat,                   \* the turn it waits for
            words  : SUBSET Words,          \* what it is about to hand on
            chunk  : Chunks \cup {"none"} ] \* run(): the chunk in hand

Idle == [pc |-> "idle", goal |-> "none", target |-> 0, words |-> {}, chunk |-> "none"]
Gone == [Idle EXCEPT !.pc = "gone"]

\* The callers suspended between two steps of a method.
Inside == {c \in Callers : caller[c].pc \in {"aborting", "joining", "telling"}}

TypeOK ==
  /\ sm \in States
  /\ spans \subseteq Words
  /\ grace \in BOOLEAN
  /\ hushed \in BOOLEAN
  /\ closed \in BOOLEAN
  /\ detached \in BOOLEAN
  /\ turn \in Seq(Turn)
  /\ turnTask \in {0} \cup DOMAIN turn
  /\ caller \in [Callers -> Caller]
  /\ said \in 0..MaxWords
  /\ sent \subseteq Words
  /\ clash \in BOOLEAN
  /\ caught \subseteq Callers

Init ==
  /\ sm = "listening"
  /\ spans = {}
  /\ grace = FALSE
  /\ hushed \in BOOLEAN   \* a pipeline made after a failure is told at once
  /\ closed = FALSE
  /\ detached = FALSE
  /\ turn = <<>>
  /\ turnTask = 0
  /\ caller = [c \in Callers |-> Idle]
  /\ said = 0
  /\ sent = {}
  /\ clash = FALSE
  /\ caught = {}

-----------------------------------------------------------------------------
(* The pieces a later edit is most likely to get wrong, each with the      *)
(* wrong forms kept in front of it.                                        *)

\* _abort_turn cancels the current turn, unless it is done.
AbortTarget == IF turnTask # 0 /\ Live(turnTask) THEN turnTask ELSE 0

NeverFinishing == FALSE
\* _start_turn, second case: the previous turn is at its last steps.
Finishing == AbortTarget # 0

OneTooFar == Len(turn) + 2
\* The task _start_turn creates.
NewTurnTask == Len(turn) + 1

KeepGrace == grace
\* _cancel_grace: the held endpoint is given up.
CancelGrace == FALSE

KeepSpans == spans
\* _commit takes the words it hands on out of the spans.
SpansAfterCommit == {}

CommitAnyway == TRUE
\* _commit does nothing on a closed pipeline.
MayCommit == ~closed

SilencedIfInterrupted == sm = "interrupted"
\* _silence shows LISTENING unless that is what the phone shows already.
SilencedIfShowing == sm # "listening"

RecoverIfSpeaking == sm = "speaking"
\* So does a turn that failed.
RecoverIfShowing == sm # "listening"

-----------------------------------------------------------------------------
(* The tails the methods share.  Each says how caller c, with the words w  *)
(* in hand, goes on up to its next await: what becomes of sm, turnTask,    *)
(* turn, sent and caller.                                                  *)

GoOn(c, record) == caller' = [caller EXCEPT ![c] = record]

Return(c) == GoOn(c, Idle) /\ UNCHANGED <<sm, turnTask, turn, sent>>

\* History: two callers are suspended at once, or a text reached a closed pipeline;
\* and who of those that close() caught is suspended still.
Note(before) ==
  /\ clash' = (clash \/ Cardinality(Inside') > 1 \/ (closed /\ "text" \in Inside'))
  /\ caught' = before \cap Inside'

NoteClash == Note(caught)

\* _abort_turn, up to `await task'.
StartAbort(c, goal, w, k) ==
  /\ turnTask' = 0
  /\ turn' = [t \in DOMAIN turn |->
                IF t = AbortTarget THEN [turn[t] EXCEPT !.status = "closing"] ELSE turn[t]]
  /\ GoOn(c, [pc |-> "aborting", goal |-> goal, target |-> AbortTarget,
              words |-> w, chunk |-> k])
  /\ UNCHANGED <<sm, sent>>

\* IllegalTransition ends run() through its finally clause, and any other caller
\* at once: the words it had in hand are gone.
Raise(c) ==
  IF c = "run" THEN StartAbort(c, "leave", {}, "none") ELSE Return(c)

\* _set_state, up to `await self.sink.state'.
EnterState(c, new, goal, w, k) ==
  \/ /\ Legal(new)
     /\ sm' = new
     /\ GoOn(c, [pc |-> "telling", goal |-> goal, target |-> 0, words |-> w, chunk |-> k])
     /\ UNCHANGED <<turnTask, turn, sent>>
  \/ ~Legal(new) /\ Raise(c)

\* The task caller c creates.  On a closed pipeline it is a stray if c has been
\* suspended since before close(), or is text(), which does not ask.
NewTurn(c, w) ==
  [status |-> "typing", audible |-> FALSE, words |-> w,
   stray |-> closed /\ (c \in caught \/ c = "text")]

\* _start_turn, from its last statement backwards.  A turn that _turn_task is
\* taken from while it lives is a stray from then on.
Begin(c, w) ==
  /\ turn' = Append([t \in DOMAIN turn |->
                       IF t = AbortTarget THEN [turn[t] EXCEPT !.stray = TRUE] ELSE turn[t]],
                    NewTurn(c, w))
  /\ turnTask' = NewTurnTask
  /\ GoOn(c, Idle)
  /\ UNCHANGED <<sm, sent>>

Think(c, w) ==
  \/ sm = "thinking" /\ Begin(c, w)
  \/ sm # "thinking" /\ EnterState(c, "thinking", "begin", w, "none")

Supersede(c, w) ==
  \/ sm = "thinking" /\ StartAbort(c, "think", w, "none")
  \/ /\ sm # "thinking" /\ Finishing
     /\ GoOn(c, [pc |-> "joining", goal |-> "think", target |-> turnTask,
                 words |-> w, chunk |-> "none"])
     /\ UNCHANGED <<sm, turnTask, turn, sent>>
  \/ sm # "thinking" /\ ~Finishing /\ Think(c, w)

StartTurn(c, w) ==
  \/ sm = "speaking" /\ StartAbort(c, "interrupt", w, "none")
  \/ sm # "speaking" /\ Supersede(c, w)

Commit(c) ==
  \/ MayCommit /\ spans' = SpansAfterCommit /\ StartTurn(c, spans)
  \/ ~MayCommit /\ spans' = spans /\ Return(c)

\* The bare end of an utterance nothing is left of: the barge-in was noise.
NothingSaid(c) ==
  /\ grace' = CancelGrace
  /\ spans' = {}
  /\ \/ sm = "interrupted" /\ EnterState(c, "listening", "rest", {}, "none")
     \/ sm # "interrupted" /\ Return(c)

\* _handle_chunk after the barge-in: the words join the spans; an end of speech
\* is held for the grace period, anything said takes back the one held.
Hear(k, w) ==
  IF k = "end" /\ spans = {}
  THEN NothingSaid("run")
  ELSE /\ spans' = spans \cup w
       /\ grace' = IF k \in {"end", "finalEnd"} THEN TRUE ELSE CancelGrace
       /\ Return("run")

-----------------------------------------------------------------------------
(* The callers.                                                            *)

\* run() gets a chunk from the recogniser.
Chunk(k) ==
  LET w == IF k \in {"final", "finalEnd"} THEN {said + 1} ELSE {} IN
  /\ caller["run"].pc = "idle"
  /\ w \subseteq Words
  /\ said' = said + Cardinality(w)
  /\ \/ /\ k # "end" /\ sm = "speaking"
        /\ StartAbort("run", "interrupt", w, k)
        /\ UNCHANGED <<spans, grace>>
     \/ ~(k # "end" /\ sm = "speaking") /\ Hear(k, w)
  /\ NoteClash
  /\ UNCHANGED <<hushed, closed, detached>>

\* run() ends: the recogniser's stream failed, or close() ended the microphone.
RunEnds ==
  /\ caller["run"].pc = "idle"
  /\ StartAbort("run", "leave", {}, "none")
  /\ NoteClash
  /\ UNCHANGED <<spans, grace, hushed, closed, detached, said>>

\* The runtime cancels run() after it has closed the pipeline.
RunCancelled ==
  /\ detached
  /\ caller["close"].pc = "gone"
  /\ caller["run"].pc = "telling"
  /\ StartAbort("run", "leave", {}, "none")
  /\ NoteClash
  /\ UNCHANGED <<spans, grace, hushed, closed, detached, said>>

\* The socket handles one message at a time, until it is torn down.
AtSocket == ~detached /\ caller["text"].pc = "idle"

Text ==
  /\ AtSocket
  /\ said < MaxWords
  /\ said' = said + 1
  /\ StartTurn("text", {said + 1})
  /\ NoteClash
  /\ UNCHANGED <<spans, grace, hushed, closed, detached>>

\* set_hushed: a hush in the middle of a reply has it silenced.
SetHushed ==
  /\ AtSocket
  /\ hushed' = ~hushed
  /\ \/ /\ ~hushed /\ ~closed /\ sm = "speaking"
        /\ caller["silence"].pc = "idle"
        /\ GoOn("silence", [Idle EXCEPT !.pc = "ready"])
     \/ ~(~hushed /\ ~closed /\ sm = "speaking") /\ UNCHANGED caller
  /\ UNCHANGED <<sm, spans, grace, closed, detached, turnTask, turn, said, sent, history>>

Silence ==
  /\ caller["silence"].pc = "ready"
  /\ StartAbort("silence", "silence", {}, "none")
  /\ NoteClash
  /\ UNCHANGED <<spans, grace, hushed, closed, detached, said>>

\* set_muted(True): muting in the middle of an utterance ends it.
SetMuted ==
  /\ AtSocket
  /\ spans # {} /\ ~closed
  /\ caller["flush"].pc = "idle"
  /\ GoOn("flush", [Idle EXCEPT !.pc = "ready"])
  /\ UNCHANGED <<sm, spans, grace, hushed, closed, detached, turnTask, turn, said, sent, history>>

Flush ==
  /\ caller["flush"].pc = "ready"
  /\ \/ spans = {} /\ NothingSaid("flush")
     \/ spans # {} /\ grace' = CancelGrace /\ Commit("flush")
  /\ NoteClash
  /\ UNCHANGED <<hushed, closed, detached, said>>

\* The grace period is over.
GraceOver ==
  /\ grace
  /\ caller["grace"].pc = "idle"
  /\ grace' = FALSE
  /\ Commit("grace")
  /\ NoteClash
  /\ UNCHANGED <<hushed, closed, detached, said>>

\* close(), by the runtime's teardown, or because run() has ended.
Close ==
  /\ ~closed
  /\ closed' = TRUE
  /\ grace' = CancelGrace
  /\ detached' \in (IF caller["run"].pc = "gone" THEN BOOLEAN ELSE {TRUE})
  /\ StartAbort("close", "leave", {}, "none")
  /\ Note(Inside)
  /\ UNCHANGED <<spans, hushed, said>>

\* The socket goes away after the pipeline was closed for a new one.
Detach ==
  /\ closed /\ ~detached
  /\ detached' = TRUE
  /\ UNCHANGED <<sm, spans, grace, hushed, closed, turnTask, turn, caller, said, sent, history>>

-----------------------------------------------------------------------------
(* Where the callers wake up.                                              *)

\* The cancelled turn is done, and so is `await self.tts.cancel()'.
Aborted(c) ==
  LET me == caller[c] IN
  /\ me.pc = "aborting"
  /\ me.target # 0 => ~Live(me.target)
  /\ \/ /\ me.goal = "interrupt"
        /\ EnterState(c, "interrupted", IF c = "run" THEN "hear" ELSE "supersede",
                      me.words, me.chunk)
     \/ me.goal = "think" /\ Think(c, me.words)
     \/ /\ me.goal = "silence"
        /\ \/ SilencedIfShowing /\ EnterState(c, "listening", "rest", {}, "none")
           \/ ~SilencedIfShowing /\ Return(c)
     \/ me.goal = "leave" /\ GoOn(c, Gone) /\ UNCHANGED <<sm, turnTask, turn, sent>>
  /\ NoteClash
  /\ UNCHANGED <<spans, grace, hushed, closed, detached, said>>

\* The awaited turn is done.  Had somebody cancelled it, the awaiting task dies
\* of it too, the socket's with everything it serves.
Joined(c) ==
  LET me == caller[c] IN
  /\ me.pc = "joining"
  /\ ~Live(me.target)
  /\ \/ turn[me.target].status = "done" /\ Think(c, me.words)
     \/ /\ turn[me.target].status = "cancelled"
        /\ GoOn(c, IF c = "text" THEN Gone ELSE Idle)
        /\ UNCHANGED <<sm, turnTask, turn, sent>>
  /\ NoteClash
  /\ UNCHANGED <<spans, grace, hushed, closed, detached, said>>

\* The phone has been told.
Told(c) ==
  LET me == caller[c] IN
  /\ me.pc = "telling"
  /\ \/ me.goal = "hear" /\ Hear(me.chunk, me.words)
     \/ me.goal = "supersede" /\ Supersede(c, me.words) /\ UNCHANGED <<spans, grace>>
     \/ me.goal = "begin" /\ Begin(c, me.words) /\ UNCHANGED <<spans, grace>>
     \/ me.goal = "rest" /\ Return(c) /\ UNCHANGED <<spans, grace>>
  /\ NoteClash
  /\ UNCHANGED <<hushed, closed, detached, said>>

-----------------------------------------------------------------------------
(* A turn, _speak_turn.                                                    *)

Advance(t, status) == turn' = [turn EXCEPT ![t].status = status] /\ UNCHANGED sent

TurnOnly == UNCHANGED <<spans, grace, hushed, closed, detached, turnTask, caller, said, history>>

\* Its first steps: convo.turn()'s stream types the text.  A turn that is cancelled
\* or fails before keeps its words, and nobody types them any more.
Typed(t) ==
  /\ turn[t].status = "typing"
  /\ turn' = [turn EXCEPT ![t].status = "waiting", ![t].words = {}]
  /\ sent' = sent \cup turn[t].words
  /\ UNCHANGED sm /\ TurnOnly

\* A sentence to speak.  (While hushed, sentences are dropped right here.)
Sentence(t) ==
  /\ turn[t].status = "waiting"
  /\ ~hushed
  /\ Advance(t, "synth")
  /\ UNCHANGED sm /\ TurnOnly

\* The first audio of the reply; what follows changes nothing.
FirstAudio(t) ==
  /\ turn[t].status = "synth"
  /\ ~turn[t].audible
  /\ \/ /\ Legal("speaking")
        /\ sm' = "speaking"
        /\ turn' = [turn EXCEPT ![t].audible = TRUE]
        /\ UNCHANGED sent
     \/ ~Legal("speaking") /\ Advance(t, "failing") /\ UNCHANGED sm
  /\ TurnOnly

SentenceOver(t) ==
  /\ turn[t].status = "synth"
  /\ Advance(t, "waiting")
  /\ UNCHANGED sm /\ TurnOnly

\* _set_state(LISTENING), the turn's last statement.
Settle(t) ==
  \/ Legal("listening") /\ sm' = "listening" /\ Advance(t, "settling")
  \/ ~Legal("listening") /\ Advance(t, "failing") /\ UNCHANGED sm

ReplyOver(t) ==
  /\ turn[t].status = "waiting"
  /\ \/ turn[t].audible /\ Advance(t, "ending") /\ UNCHANGED sm
     \/ ~turn[t].audible /\ Settle(t)
  /\ TurnOnly

SpeechEnded(t) == turn[t].status = "ending" /\ Settle(t) /\ TurnOnly

Settled(t) ==
  turn[t].status = "settling" /\ Advance(t, "done") /\ UNCHANGED sm /\ TurnOnly

\* The synthesis fails, or tmux cannot be run.
Fail(t) ==
  /\ turn[t].status \in {"typing", "waiting", "synth"}
  /\ Advance(t, "failing")
  /\ UNCHANGED sm /\ TurnOnly

Recover(t) ==
  /\ turn[t].status = "failing"
  /\ \/ RecoverIfShowing /\ sm' = "listening" /\ Advance(t, "settling")
     \/ ~RecoverIfShowing /\ Advance(t, "done") /\ UNCHANGED sm
  /\ TurnOnly

Cancelled(t) ==
  turn[t].status = "closing" /\ Advance(t, "cancelled") /\ UNCHANGED sm /\ TurnOnly

-----------------------------------------------------------------------------
WakeUp(c) == Aborted(c) \/ Joined(c) \/ Told(c)

\* What a turn does without hearing from the outside.
TurnStep(t) ==
  \/ Typed(t) \/ FirstAudio(t) \/ SentenceOver(t) \/ SpeechEnded(t) \/ Settled(t) \/ Recover(t)
  \/ Cancelled(t)

Next ==
  \/ \E k \in Chunks : Chunk(k)
  \/ RunEnds \/ RunCancelled
  \/ Text \/ SetHushed \/ Silence \/ SetMuted \/ Flush \/ GraceOver \/ Close \/ Detach
  \/ \E c \in Callers : WakeUp(c)
  \/ \E t \in DOMAIN turn : Sentence(t) \/ ReplyOver(t) \/ Fail(t) \/ TurnStep(t)

Spec == Init /\ [][Next]_vars

(* The event loop runs every task that can go on, what a task awaits       *)
(* answers, and a reply is over some day however many sentences it has     *)
(* (ConvoBridge's EveryStreamEnds): strong, for it is not over in between. *)
Fairness ==
  /\ \A c \in Callers : WF_vars(WakeUp(c))
  /\ \A t \in Words :
       /\ WF_vars(t \in DOMAIN turn /\ TurnStep(t))
       /\ SF_vars(t \in DOMAIN turn /\ ReplyOver(t))

FairSpec == Spec /\ Fairness

-----------------------------------------------------------------------------
(* Properties.                                                             *)

\* An endpoint is only ever held for words that are still to be committed:
\* when the grace period ends, no empty turn is sent to the conversation
\* (_endpoint cancels the held one first, whoever calls it).
HeldEndpointHasWords == grace => spans # {}

\* The turns that w is in the hands of: to be typed, or lost with the turn that
\* was cancelled or failed before it had typed it.
Holders(w) == {t \in DOMAIN turn : w \in turn[t].words}

\* While no two callers are suspended in here at once and the pipeline is not
\* closed, everything the user said is in one place: in the spans, in the hands of
\* one caller, of one turn, or typed by one turn.  Barge-in, supersede and join
\* repeat no word, and lose none but with a turn that was itself cut off, by a
\* text, a hush or an error, before its text was typed (convo.py line 101).
EveryWordInOnePlace ==
  ~clash /\ ~closed =>
    \A w \in 1..said :
      Cardinality({c \in Callers : w \in caller[c].words}) + Cardinality(Holders(w))
        + (IF w \in spans THEN 1 ELSE 0) + (IF w \in sent THEN 1 ELSE 0) = 1

\* User input supersedes the turn in flight (pipeline.py lines 17-18): while no
\* two callers are suspended at once, at most one turn is alive, and it is the
\* one _turn_task points at, or the one a caller is waiting for.
OneLiveTurn ==
  ~clash =>
    \A t \in LiveTurns : t = turnTask \/ \E c \in Inside : caller[c].target = t

\* The promise without the condition: a superseded turn is cancelled before the
\* next one is created.
SupersededTurnIsCancelled ==
  \A t \in LiveTurns :
    turn[t].status # "closing" => t = Len(turn)

\* With nobody in between, the state the phone shows is what goes on: THINKING
\* and SPEAKING have a turn behind them, silent in one and audible in the other,
\* and LISTENING and INTERRUPTED have none but one that is about to return.
StateMatchesTurn ==
  (~clash /\ ~closed /\ Inside = {} /\ caller["run"].pc # "gone") =>
    IF sm \in {"thinking", "speaking"}
    THEN /\ turnTask \in LiveTurns
         /\ turn[turnTask].audible <=> sm = "speaking"
    ELSE \A t \in LiveTurns : turn[t].status = "settling"

\* Once close() has come and nobody is suspended in here any more, the only turns
\* alive are strays: begun by a commit that was itself suspended (in sink.state, in
\* an abort or a join) while close() ran, or by a text that came after it, or left
\* behind when another turn was begun over it.  Neither the held endpoint nor a
\* flush that was only scheduled when close() came begins one, and close() itself
\* leaves none.
ClosedIsQuiet == closed /\ Inside = {} => \A t \in LiveTurns : turn[t].stray

\* While the speaker is hushed, no turn begins to speak (pipeline.py lines 14-16,
\* protocol.py line 54).
HushedStaysSilent == [][hushed /\ sm # "speaking" => sm' # "speaking"]_vars

\* A turn that thinks or speaks comes to an end, whatever fails or interferes:
\* the phone is never left THINKING or SPEAKING, short of closing down.
TurnComesToAnEnd ==
  (sm \in {"thinking", "speaking"}) ~>
    (sm \in {"listening", "interrupted"} \/ closed \/ caller["run"].pc = "gone")
=============================================================================
