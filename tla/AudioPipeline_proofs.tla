--------------------------- MODULE AudioPipeline_proofs ---------------------------
(***************************************************************************)
(* Proofs about AudioPipeline, for every number of words: type             *)
(* correctness; what an endpoint is held for; while no two callers are     *)
(* suspended at once, the one live turn, the state the phone shows and the *)
(* whereabouts of every word; and, however they interleave, what is left   *)
(* alive after close().                                                    *)
(***************************************************************************)
EXTENDS AudioPipeline, SequenceTheorems, FiniteSetTheorems, TLAPS

-----------------------------------------------------------------------------
(* The inductive invariants.                                               *)

InsidePc == {"aborting", "joining", "telling"}

\* What a caller can be about to do where it waits, and with what in hand.
RecordOK(c, pc, goal, w, k) ==
  /\ pc \notin InsidePc => w = {}
  /\ pc = "aborting" => goal \in {"interrupt", "think", "silence", "leave"}
  /\ pc = "joining" => goal = "think"
  /\ pc = "telling" => goal \in {"hear", "supersede", "begin", "rest"}
  /\ pc \in InsidePc /\ goal \in {"silence", "leave", "rest"} => w = {}
  /\ pc \in InsidePc /\ goal = "hear" => c = "run"
  /\ pc \in InsidePc /\ goal \in {"interrupt", "hear"} /\ c = "run" =>
       /\ k \in {"interim", "final", "finalEnd"}
       /\ k = "finalEnd" => w # {}
  /\ pc = "aborting" /\ goal = "leave" => c \in {"run", "close"}

\* The callers, whatever they do in between each other.
CallerInv ==
  /\ \A c \in Callers :
       /\ RecordOK(c, caller[c].pc, caller[c].goal, caller[c].words, caller[c].chunk)
       /\ caller[c].target \in {0} \cup DOMAIN turn
  /\ caller["close"].pc # "idle" => closed

\* A turn that is not being cancelled, and what the phone shows.
Matches(t) ==
  /\ turn[t].status # "closing"
  /\ turn[t].status \in {"typing", "waiting", "synth", "failing"} =>
       /\ turn[t].audible => sm = "speaking"
       /\ ~turn[t].audible => sm = "thinking"
  /\ turn[t].status = "ending" => turn[t].audible /\ sm = "speaking"
  /\ turn[t].status = "settling" => sm = "listening"

\* Nobody inside: the one live turn is _turn_task, and the phone shows it.
AtRest ==
  /\ \A t \in LiveTurns : t = turnTask /\ Matches(t) /\ ~closed
  /\ ~closed /\ caller["run"].pc # "gone" /\ sm \in {"thinking", "speaking"} => turnTask \in LiveTurns

\* One caller inside, with the record me: the one live turn is the one it waits for.
Fits(me) ==
  /\ me.pc = "aborting" =>
       /\ turnTask = 0
       /\ \A t \in LiveTurns : t = me.target /\ turn[t].status = "closing"
       /\ me.goal = "interrupt" => sm = "speaking"
       /\ me.goal = "think" => sm = "thinking"
  /\ me.pc = "joining" =>
       /\ sm = "listening"
       /\ turnTask = me.target
       /\ turn[turnTask].status \in {"settling", "done"}
       /\ \A t \in LiveTurns : t = turnTask
  /\ me.pc = "telling" =>
       /\ LiveTurns = {}
       /\ me.goal \in {"hear", "supersede"} => sm = "interrupted"
       /\ me.goal = "begin" => sm = "thinking"
       /\ me.goal = "rest" => sm = "listening"

\* Once closed, nobody inside is on the way to a new turn.
NoNewTurn(c) ==
  closed => /\ caller[c].goal \in {"leave", "silence", "rest", "interrupt", "hear"}
            /\ caller[c].goal = "interrupt" => c = "run"

QuietInv ==
  ~clash =>
    /\ \A c, d \in Inside : c = d
    /\ \A c \in Inside : Fits(caller[c]) /\ NoNewTurn(c)
    /\ Inside = {} => AtRest

\* The words that have left the spans and the callers: typed, or a turn's.
Taken == sent \cup UNION {turn[t].words : t \in DOMAIN turn}

\* No turn has a word that another has or has typed.
Apart ==
  \A t \in DOMAIN turn :
    /\ turn[t].words \cap sent = {}
    /\ \A u \in DOMAIN turn : u # t => turn[t].words \cap turn[u].words = {}

\* Every word said is in one place; with QuietInv, one caller at most has any.
WordsInv ==
  ~clash /\ ~closed =>
    /\ spans \cup Taken \subseteq 1..said
    /\ spans \cap Taken = {}
    /\ \A c \in Callers : /\ caller[c].words \subseteq 1..said
                          /\ caller[c].words \cap (spans \cup Taken) = {}
    /\ \A w \in 1..said : w \in spans \/ w \in Taken \/ \E c \in Callers : w \in caller[c].words
    /\ Apart

-----------------------------------------------------------------------------
(* What the tails of the methods leave behind.                             *)

\* The histories are kept: of a clash, and of who is caught.
Noted ==
  /\ clash' = (clash \/ Cardinality(Inside') > 1 \/ (closed /\ "text" \in Inside'))
  /\ caught' \subseteq Callers

LEMMA NoteNoted ==
  /\ \A before : Note(before) => Noted
  /\ NoteClash => Noted
  BY DEF Note, NoteClash, Noted, Inside

\* Caller c went on, and nobody else did.
WentOn(c) ==
  /\ sm' \in States
  /\ sent' \subseteq Words
  /\ turn' \in Seq(Turn)
  /\ DOMAIN turn \subseteq DOMAIN turn'
  /\ turnTask' \in {0} \cup DOMAIN turn'
  /\ caller' \in [Callers -> Caller]
  /\ \A d \in Callers \ {c} : caller'[d] = caller[d]
  /\ RecordOK(c, caller'[c].pc, caller'[c].goal, caller'[c].words, caller'[c].chunk)
  /\ caller'[c].target \in {0} \cup DOMAIN turn'

\* What the types say of the turns and the callers.
LEMMA PipelineTypes ==
  ASSUME TypeOK
  PROVE  /\ turn \in Seq(Turn) /\ Len(turn) \in Nat /\ DOMAIN turn = 1..Len(turn)
         /\ \A t \in DOMAIN turn : turn[t] \in Turn
         /\ turnTask \in {0} \cup DOMAIN turn /\ AbortTarget \in {0} \cup DOMAIN turn
         /\ sm \in States /\ sent \subseteq Words /\ spans \subseteq Words
         /\ caller \in [Callers -> Caller] /\ \A c \in Callers : caller[c] \in Caller
  <1>1. turn \in Seq(Turn) /\ Len(turn) \in Nat /\ DOMAIN turn = 1..Len(turn)
    BY LenProperties DEF TypeOK
  <1>2. \A t \in DOMAIN turn : turn[t] \in Turn
    BY <1>1, ElementOfSeq
  <1>3. QED
    BY <1>1, <1>2 DEF TypeOK, AbortTarget

\* A caller's record replaced by one it may have.
LEMMA GoOnTail ==
  ASSUME TypeOK, NEW c \in Callers, NEW r \in Caller, GoOn(c, r),
         RecordOK(c, r.pc, r.goal, r.words, r.chunk), r.target \in {0} \cup DOMAIN turn'
  PROVE  /\ caller' \in [Callers -> Caller] /\ caller'[c] = r
         /\ \A d \in Callers \ {c} : caller'[d] = caller[d]
         /\ RecordOK(c, caller'[c].pc, caller'[c].goal, caller'[c].words, caller'[c].chunk)
         /\ caller'[c].target \in {0} \cup DOMAIN turn'
  <1>1. caller' \in [Callers -> Caller] /\ caller'[c] = r /\ \A d \in Callers \ {c} : caller'[d] = caller[d]
    BY PipelineTypes DEF GoOn
  <1>2. QED
    BY <1>1

\* Nothing in hand, and nowhere to go on.
LEMMA IdleOK ==
  /\ Idle \in Caller /\ Gone \in Caller /\ [Idle EXCEPT !.pc = "ready"] \in Caller
  /\ \A c \in Callers : /\ RecordOK(c, "idle", "none", {}, "none")
                        /\ RecordOK(c, "gone", "none", {}, "none")
                        /\ RecordOK(c, "ready", "none", {}, "none")
  BY DEF Idle, Gone, Caller, Pc, Goal, RecordOK, InsidePc

\* A method returns.
LEMMA ReturnTail ==
  ASSUME TypeOK, NEW c \in Callers, Return(c)
  PROVE  /\ WentOn(c) /\ caller'[c] = Idle /\ UNCHANGED <<sm, turnTask, turn, sent>>
  <1>1. Idle.pc = "idle" /\ Idle.goal = "none" /\ Idle.words = {} /\ Idle.chunk = "none" /\ Idle.target = 0
    BY DEF Idle
  <1>2. GoOn(c, Idle) /\ UNCHANGED <<sm, turnTask, turn, sent>>
    BY DEF Return
  <1>3. /\ caller' \in [Callers -> Caller] /\ caller'[c] = Idle
        /\ \A d \in Callers \ {c} : caller'[d] = caller[d]
        /\ RecordOK(c, caller'[c].pc, caller'[c].goal, caller'[c].words, caller'[c].chunk)
        /\ caller'[c].target \in {0} \cup DOMAIN turn'
    BY <1>1, <1>2, IdleOK, GoOnTail
  <1>4. QED
    BY <1>2, <1>3, PipelineTypes DEF WentOn

\* _abort_turn: the current turn, if it is alive, is told to close.
LEMMA AbortTail ==
  ASSUME TypeOK, NEW c \in Callers, NEW goal \in Goal, NEW w \in SUBSET Words,
         NEW k \in Chunks \cup {"none"}, RecordOK(c, "aborting", goal, w, k), StartAbort(c, goal, w, k)
  PROVE  /\ WentOn(c) /\ UNCHANGED <<sm, sent>> /\ turnTask' = 0
         /\ caller'[c] = [pc |-> "aborting", goal |-> goal, target |-> AbortTarget, words |-> w, chunk |-> k]
         /\ DOMAIN turn' = DOMAIN turn
         /\ \A t \in DOMAIN turn : turn'[t] = IF t = AbortTarget THEN [turn[t] EXCEPT !.status = "closing"]
                                                                ELSE turn[t]
  <1> DEFINE r == [pc |-> "aborting", goal |-> goal, target |-> AbortTarget, words |-> w, chunk |-> k]
             now(t) == IF t = AbortTarget THEN [turn[t] EXCEPT !.status = "closing"] ELSE turn[t]
  <1>1. turn' = [t \in DOMAIN turn |-> now(t)] /\ turnTask' = 0 /\ GoOn(c, r) /\ UNCHANGED <<sm, sent>>
    BY DEF StartAbort
  <1>2. ASSUME NEW t \in DOMAIN turn PROVE now(t) \in Turn
    <2>1. turn[t] \in Turn
      BY PipelineTypes
    <2>2. QED
      BY <2>1 DEF Turn, TurnStatus
  <1> HIDE DEF now
  <1>3. turn' \in [1..Len(turn) -> Turn] /\ Len(turn) \in Nat /\ DOMAIN turn = 1..Len(turn)
    BY <1>1, <1>2, PipelineTypes
  <1>4. turn' \in Seq(Turn)
    BY <1>3, SeqDef
  <1>5. r \in Caller
    BY PipelineTypes DEF Caller, Pc
  <1>6. /\ caller' \in [Callers -> Caller] /\ caller'[c] = r
        /\ \A d \in Callers \ {c} : caller'[d] = caller[d]
        /\ RecordOK(c, caller'[c].pc, caller'[c].goal, caller'[c].words, caller'[c].chunk)
        /\ caller'[c].target \in {0} \cup DOMAIN turn'
    <2>1. r.pc = "aborting" /\ r.goal = goal /\ r.words = w /\ r.chunk = k /\ r.target = AbortTarget
      OBVIOUS
    <2>2. r.target \in {0} \cup DOMAIN turn'
      BY <1>3, <2>1, PipelineTypes
    <2> HIDE DEF r
    <2>3. QED
      BY <1>1, <1>5, <2>1, <2>2, GoOnTail
  <1>7. WentOn(c)
    BY <1>1, <1>3, <1>4, <1>6, PipelineTypes DEF WentOn
  <1>8. QED
    BY <1>1, <1>3, <1>6, <1>7 DEF now

\* A caller that tells the phone, or raises.
LEMMA EnterTail ==
  ASSUME TypeOK, NEW c \in Callers, NEW new \in States, NEW goal \in Goal, NEW w \in SUBSET Words,
         NEW k \in Chunks \cup {"none"}, RecordOK(c, "telling", goal, w, k), EnterState(c, new, goal, w, k)
  PROVE  /\ WentOn(c)
         /\ Legal(new) => /\ sm' = new /\ UNCHANGED <<turnTask, turn, sent>>
                          /\ caller'[c] = [pc |-> "telling", goal |-> goal, target |-> 0,
                                           words |-> w, chunk |-> k]
  <1> DEFINE r == [pc |-> "telling", goal |-> goal, target |-> 0, words |-> w, chunk |-> k]
  <1>1. CASE Legal(new)
    <2>1. sm' = new /\ GoOn(c, r) /\ UNCHANGED <<turnTask, turn, sent>>
      BY <1>1 DEF EnterState
    <2>2. r \in Caller
      BY DEF Caller, Pc
    <2>3. r.pc = "telling" /\ r.goal = goal /\ r.words = w /\ r.chunk = k /\ r.target \in {0} \cup DOMAIN turn'
      OBVIOUS
    <2> HIDE DEF r
    <2>4. /\ caller' \in [Callers -> Caller] /\ caller'[c] = r
          /\ \A d \in Callers \ {c} : caller'[d] = caller[d]
          /\ RecordOK(c, caller'[c].pc, caller'[c].goal, caller'[c].words, caller'[c].chunk)
          /\ caller'[c].target \in {0} \cup DOMAIN turn'
      BY <2>1, <2>2, <2>3, GoOnTail
    <2>5. WentOn(c)
      BY <2>1, <2>4, PipelineTypes DEF WentOn
    <2>6. QED
      BY <2>1, <2>4, <2>5 DEF r
  <1>2. CASE ~Legal(new)
    <2>1. Raise(c)
      BY <1>2 DEF EnterState
    <2>2. CASE c = "run" /\ StartAbort(c, "leave", {}, "none")
      <3>1. RecordOK(c, "aborting", "leave", {}, "none")
        BY <2>2 DEF RecordOK, InsidePc
      <3>2. "leave" \in Goal
        BY DEF Goal
      <3>3. QED
        BY <1>2, <2>2, <3>1, <3>2, AbortTail
    <2>3. CASE Return(c)
      BY <1>2, <2>3, ReturnTail
    <2>4. QED
      BY <2>1, <2>2, <2>3 DEF Raise
  <1>3. QED
    BY <1>1, <1>2

\* A new turn.
LEMMA BeginTail ==
  ASSUME TypeOK, NEW c \in Callers, NEW w \in SUBSET Words, Begin(c, w)
  PROVE  /\ WentOn(c) /\ caller'[c] = Idle /\ UNCHANGED <<sm, sent>>
         /\ turnTask' = Len(turn) + 1 /\ DOMAIN turn' = DOMAIN turn \cup {Len(turn) + 1}
         /\ \A t \in DOMAIN turn : turn'[t] = IF t = AbortTarget THEN [turn[t] EXCEPT !.stray = TRUE]
                                                                ELSE turn[t]
         /\ turn'[Len(turn) + 1] = NewTurn(c, w)
  <1> DEFINE new == NewTurn(c, w)
             now(t) == IF t = AbortTarget THEN [turn[t] EXCEPT !.stray = TRUE] ELSE turn[t]
             old == [t \in DOMAIN turn |-> now(t)]
  <1>1. /\ turn' = Append(old, new) /\ turnTask' = Len(turn) + 1 /\ GoOn(c, Idle) /\ UNCHANGED <<sm, sent>>
    BY DEF Begin, NewTurnTask
  <1>2. new \in Turn
    BY DEF NewTurn, Turn, TurnStatus, TypeOK
  <1>2a. ASSUME NEW t \in DOMAIN turn PROVE now(t) \in Turn
    <2>1. turn[t] \in Turn
      BY PipelineTypes
    <2>2. QED
      BY <2>1 DEF Turn
  <1>2b. old \in Seq(Turn) /\ Len(old) = Len(turn) /\ \A t \in 1..Len(turn) : old[t] = now(t)
    <2> HIDE DEF now
    <2>1. old \in [1..Len(turn) -> Turn] /\ Len(turn) \in Nat
      BY <1>2a, PipelineTypes
    <2>2. old \in Seq(Turn)
      BY <2>1, SeqDef
    <2>3. Len(old) = Len(turn)
      BY <2>1, <2>2, LenProperties
    <2>4. QED
      BY <2>2, <2>3, PipelineTypes
  <1> HIDE DEF new, old, now
  <1>3. /\ turn' \in Seq(Turn) /\ Len(turn') = Len(turn) + 1
        /\ \A t \in 1..Len(turn) : turn'[t] = now(t)
        /\ turn'[Len(turn) + 1] = new
    BY <1>1, <1>2, <1>2b, AppendProperties
  <1>4. DOMAIN turn' = 1..(Len(turn) + 1) /\ Len(turn) \in Nat /\ DOMAIN turn = 1..Len(turn)
    BY <1>3, LenProperties, PipelineTypes
  <1>5. DOMAIN turn' = DOMAIN turn \cup {Len(turn) + 1}
    BY <1>4
  <1>6. Idle.pc = "idle" /\ Idle.goal = "none" /\ Idle.words = {} /\ Idle.chunk = "none" /\ Idle.target = 0
    BY DEF Idle
  <1>7. /\ caller' \in [Callers -> Caller] /\ caller'[c] = Idle
        /\ \A d \in Callers \ {c} : caller'[d] = caller[d]
        /\ RecordOK(c, caller'[c].pc, caller'[c].goal, caller'[c].words, caller'[c].chunk)
        /\ caller'[c].target \in {0} \cup DOMAIN turn'
    BY <1>1, <1>6, IdleOK, GoOnTail
  <1>8. sm' \in States /\ sent' \subseteq Words
    BY <1>1, PipelineTypes
  <1>9. WentOn(c)
    BY <1>1, <1>3, <1>5, <1>7, <1>8 DEF WentOn
  <1>10. QED
    BY <1>1, <1>3, <1>4, <1>5, <1>7, <1>9 DEF new, now

\* _start_turn, from its last case to its first.
LEMMA ThinkTail ==
  ASSUME TypeOK, NEW c \in Callers, NEW w \in SUBSET Words, Think(c, w)
  PROVE  WentOn(c)
  <1>1. CASE Begin(c, w)
    BY <1>1, BeginTail
  <1>2. CASE EnterState(c, "thinking", "begin", w, "none")
    <2>1. "thinking" \in States /\ "begin" \in Goal /\ RecordOK(c, "telling", "begin", w, "none")
      BY DEF States, Goal, RecordOK, InsidePc
    <2>2. QED
      BY <1>2, <2>1, EnterTail
  <1>3. QED
    BY <1>1, <1>2 DEF Think

\* The second case waits for a turn that is about to return.
LEMMA SupersedeTail ==
  ASSUME TypeOK, NEW c \in Callers, NEW w \in SUBSET Words, Supersede(c, w)
  PROVE  WentOn(c)
  <1>1. CASE StartAbort(c, "think", w, "none")
    <2>1. "think" \in Goal /\ RecordOK(c, "aborting", "think", w, "none")
      BY DEF Goal, RecordOK, InsidePc
    <2>2. QED
      BY <1>1, <2>1, AbortTail
  <1>2. CASE /\ Finishing
             /\ GoOn(c, [pc |-> "joining", goal |-> "think", target |-> turnTask, words |-> w, chunk |-> "none"])
             /\ UNCHANGED <<sm, turnTask, turn, sent>>
    <2> DEFINE r == [pc |-> "joining", goal |-> "think", target |-> turnTask, words |-> w, chunk |-> "none"]
    <2>1. r \in Caller
      BY PipelineTypes DEF Caller, Pc, Goal
    <2>2. RecordOK(c, "joining", "think", w, "none")
      BY DEF RecordOK, InsidePc
    <2>3. /\ r.pc = "joining" /\ r.goal = "think" /\ r.words = w /\ r.chunk = "none"
          /\ r.target \in {0} \cup DOMAIN turn'
      BY <1>2, PipelineTypes
    <2>4. GoOn(c, r)
      BY <1>2
    <2> HIDE DEF r
    <2>5. /\ caller' \in [Callers -> Caller] /\ caller'[c] = r
          /\ \A d \in Callers \ {c} : caller'[d] = caller[d]
          /\ RecordOK(c, caller'[c].pc, caller'[c].goal, caller'[c].words, caller'[c].chunk)
          /\ caller'[c].target \in {0} \cup DOMAIN turn'
      BY <2>1, <2>2, <2>3, <2>4, GoOnTail
    <2>6. QED
      BY <1>2, <2>5, PipelineTypes DEF WentOn
  <1>3. CASE Think(c, w)
    BY <1>3, ThinkTail
  <1>4. QED
    BY <1>1, <1>2, <1>3 DEF Supersede

\* The first case is the barge-in; run() has one of its own.
LEMMA StartTurnTail ==
  ASSUME TypeOK, NEW c \in Callers \ {"run"}, NEW w \in SUBSET Words, StartTurn(c, w)
  PROVE  WentOn(c)
  <1>1. CASE StartAbort(c, "interrupt", w, "none")
    <2>1. "interrupt" \in Goal /\ RecordOK(c, "aborting", "interrupt", w, "none")
      BY DEF Goal, RecordOK, InsidePc
    <2>2. QED
      BY <1>1, <2>1, AbortTail
  <1>2. CASE Supersede(c, w)
    BY <1>2, SupersedeTail
  <1>3. QED
    BY <1>1, <1>2 DEF StartTurn

\* The words that are handed on are those of the spans.
LEMMA CommitTail ==
  ASSUME TypeOK, NEW c \in Callers \ {"run"}, Commit(c)
  PROVE  WentOn(c) /\ spans' \subseteq Words
  <1>1. spans \in SUBSET Words
    BY PipelineTypes
  <1>2. CASE spans' = SpansAfterCommit /\ StartTurn(c, spans)
    BY <1>1, <1>2, StartTurnTail DEF SpansAfterCommit
  <1>3. CASE spans' = spans /\ Return(c)
    BY <1>1, <1>3, ReturnTail
  <1>4. QED
    BY <1>2, <1>3 DEF Commit

\* A bare end of speech.
LEMMA NothingSaidTail ==
  ASSUME TypeOK, NEW c \in Callers, NothingSaid(c)
  PROVE  WentOn(c) /\ spans' = {} /\ grace' = FALSE
  <1>1. CASE EnterState(c, "listening", "rest", {}, "none")
    <2>1. "listening" \in States /\ "rest" \in Goal /\ RecordOK(c, "telling", "rest", {}, "none")
      BY DEF States, Goal, RecordOK, InsidePc
    <2>2. WentOn(c)
      BY <1>1, <2>1, EnterTail
    <2>3. QED
      BY <2>2 DEF NothingSaid, CancelGrace
  <1>2. CASE Return(c)
    BY <1>2, ReturnTail DEF NothingSaid, CancelGrace
  <1>3. QED
    BY <1>1, <1>2 DEF NothingSaid

\* A chunk is heard: an endpoint is held only if there are words to hold it for.
LEMMA HearTail ==
  ASSUME TypeOK, NEW k \in Chunks \cup {"none"}, NEW w \in SUBSET Words, Hear(k, w),
         k = "finalEnd" => w # {}
  PROVE  WentOn("run") /\ spans' \subseteq Words /\ grace' \in BOOLEAN /\ (grace' => spans' # {})
  <1>0. "run" \in Callers
    BY DEF Callers
  <1>1. CASE k = "end" /\ spans = {}
    <2>1. NothingSaid("run")
      BY <1>1 DEF Hear
    <2>2. QED
      BY <1>0, <2>1, NothingSaidTail
  <1>2. CASE ~(k = "end" /\ spans = {})
    <2>1. /\ spans' = spans \cup w /\ Return("run")
          /\ grace' = IF k \in {"end", "finalEnd"} THEN TRUE ELSE FALSE
      BY <1>2 DEF Hear, CancelGrace
    <2>2. WentOn("run")
      BY <1>0, <2>1, ReturnTail
    <2>3. spans \subseteq Words
      BY PipelineTypes
    <2>4. QED
      BY <1>2, <2>1, <2>2, <2>3
  <1>3. QED
    BY <1>1, <1>2

-----------------------------------------------------------------------------
(* Type correctness.                                                       *)

\* A tail and the rest of its action.
LEMMA TailTypes ==
  ASSUME TypeOK, NEW c \in Callers, WentOn(c), spans' \subseteq Words, grace' \in BOOLEAN,
         hushed' \in BOOLEAN, closed' \in BOOLEAN, detached' \in BOOLEAN, said' \in 0..MaxWords,
         Noted \/ UNCHANGED history
  PROVE  TypeOK'
  <1>1. clash' \in BOOLEAN /\ caught' \subseteq Callers
    BY DEF TypeOK, Noted, history
  <1>2. QED
    BY <1>1 DEF TypeOK, WentOn

\* What the actions of the callers do, for the types and for CallerInv.
CallerStep(c) ==
  /\ WentOn(c)
  /\ spans' \subseteq Words /\ grace' \in BOOLEAN
  /\ hushed' \in BOOLEAN /\ closed' \in BOOLEAN /\ detached' \in BOOLEAN /\ said' \in 0..MaxWords
  /\ Noted \/ UNCHANGED history
  /\ closed => closed'
  /\ c = "close" => closed'
  /\ HeldEndpointHasWords => HeldEndpointHasWords'

\* A step of a turn.
TurnAction(t) ==
  /\ sm' \in States
  /\ turn' \in Seq(Turn) /\ DOMAIN turn' = DOMAIN turn
  /\ sent' \subseteq Words
  /\ TurnOnly

\* How many words a chunk brings.
LEMMA OneWord ==
  /\ Cardinality({}) = 0
  /\ \A n : Cardinality({n}) = 1
  BY FS_EmptySet, FS_Singleton

\* run() gets a chunk.
LEMMA ChunkStep ==
  ASSUME TypeOK, NEW k \in Chunks, Chunk(k)
  PROVE  CallerStep("run")
  <1> DEFINE w == IF k \in {"final", "finalEnd"} THEN {said + 1} ELSE {}
  <1>1. /\ w \subseteq Words /\ said' = said + Cardinality(w) /\ NoteClash
        /\ UNCHANGED <<hushed, closed, detached>>
        /\ \/ k # "end" /\ StartAbort("run", "interrupt", w, k) /\ UNCHANGED <<spans, grace>>
           \/ Hear(k, w)
    BY DEF Chunk
  <1>2. said' \in 0..MaxWords
    <2>1. CASE k \in {"final", "finalEnd"}
      <3>1. said' = said + 1
        BY <1>1, <2>1, OneWord
      <3>2. said + 1 \in 1..MaxWords
        BY <1>1, <2>1 DEF Words
      <3>3. QED
        BY <3>1, <3>2, AudioPipelineAssumption
    <2>2. CASE k \notin {"final", "finalEnd"}
      BY <1>1, <2>2, OneWord DEF TypeOK
    <2>3. QED
      BY <2>1, <2>2
  <1>3. w \in SUBSET Words /\ k \in Chunks \cup {"none"} /\ (k = "finalEnd" => w # {})
    BY <1>1
  <1>4. /\ WentOn("run") /\ spans' \subseteq Words /\ grace' \in BOOLEAN
        /\ HeldEndpointHasWords => HeldEndpointHasWords'
    <2>1. CASE k # "end" /\ StartAbort("run", "interrupt", w, k) /\ UNCHANGED <<spans, grace>>
      <3>1. RecordOK("run", "aborting", "interrupt", w, k) /\ "interrupt" \in Goal /\ "run" \in Callers
        BY <1>3, <2>1 DEF RecordOK, InsidePc, Chunks, Goal, Callers
      <3> HIDE DEF w
      <3>2. WentOn("run")
        BY <1>3, <2>1, <3>1, AbortTail
      <3>3. QED
        BY <2>1, <3>2 DEF TypeOK, HeldEndpointHasWords
    <2>2. CASE Hear(k, w)
      <3> HIDE DEF w
      <3>1. QED
        BY <1>3, <2>2, HearTail DEF HeldEndpointHasWords
    <2>3. QED
      BY <1>1, <2>1, <2>2
  <1>5. QED
    BY <1>1, <1>2, <1>4, NoteNoted DEF CallerStep, TypeOK

\* The callers that come in from outside, other than with a chunk.
LEMMA EntryStep ==
  ASSUME TypeOK, CallerInv
  PROVE  /\ RunEnds \/ RunCancelled => CallerStep("run")
         /\ Text => CallerStep("text")
         /\ Silence \/ SetHushed => CallerStep("silence")
         /\ Flush \/ SetMuted => CallerStep("flush")
         /\ GraceOver => CallerStep("grace")
         /\ Close => CallerStep("close")
  <1>0. /\ {} \in SUBSET Words /\ "none" \in Chunks \cup {"none"} /\ "leave" \in Goal /\ "silence" \in Goal
        /\ \A c \in {"run", "close"} : c \in Callers /\ RecordOK(c, "aborting", "leave", {}, "none")
        /\ {"text", "silence", "flush", "grace"} \subseteq Callers \ {"run"}
        /\ RecordOK("silence", "aborting", "silence", {}, "none")
    BY DEF Callers, Goal, RecordOK, InsidePc
  <1>1. ASSUME NEW c \in {"run", "close"}, StartAbort(c, "leave", {}, "none") PROVE WentOn(c)
    BY <1>0, <1>1, AbortTail
  <1>2. ASSUME RunEnds \/ RunCancelled PROVE CallerStep("run")
    BY <1>1, <1>2, NoteNoted DEF RunEnds, RunCancelled, CallerStep, TypeOK, HeldEndpointHasWords
  <1>3. ASSUME Text PROVE CallerStep("text")
    <2>1. said + 1 \in 1..MaxWords
      BY <1>3, AudioPipelineAssumption DEF Text, TypeOK
    <2>2. {said + 1} \in SUBSET Words /\ StartTurn("text", {said + 1})
      BY <1>3, <2>1 DEF Text, Words
    <2>3. WentOn("text")
      BY <1>0, <2>2, StartTurnTail
    <2>4. QED
      BY <1>3, <2>1, <2>3, NoteNoted DEF Text, CallerStep, TypeOK, HeldEndpointHasWords
  <1>4. ASSUME Silence PROVE CallerStep("silence")
    <2>1. WentOn("silence")
      BY <1>0, <1>4, AbortTail DEF Silence
    <2>2. QED
      BY <1>4, <2>1, NoteNoted DEF Silence, CallerStep, TypeOK, HeldEndpointHasWords
  <1>5. ASSUME NEW c \in Callers, caller[c].pc = "idle",
               GoOn(c, [Idle EXCEPT !.pc = "ready"]), UNCHANGED <<sm, turnTask, turn, sent>>
        PROVE  WentOn(c)
    <2> DEFINE r == [Idle EXCEPT !.pc = "ready"]
    <2>1. r.pc = "ready" /\ r.goal = "none" /\ r.words = {} /\ r.chunk = "none" /\ r.target = 0
      BY DEF Idle
    <2>2. r \in Caller /\ RecordOK(c, r.pc, r.goal, r.words, r.chunk) /\ GoOn(c, r)
      BY <1>5, <2>1, IdleOK
    <2> HIDE DEF r
    <2>3. /\ caller' \in [Callers -> Caller]
          /\ \A d \in Callers \ {c} : caller'[d] = caller[d]
          /\ RecordOK(c, caller'[c].pc, caller'[c].goal, caller'[c].words, caller'[c].chunk)
          /\ caller'[c].target \in {0} \cup DOMAIN turn'
      BY <2>1, <2>2, GoOnTail
    <2>4. QED
      BY <1>5, <2>3, PipelineTypes DEF WentOn
  <1>6. ASSUME NEW c \in Callers, UNCHANGED <<sm, turnTask, turn, sent, caller>> PROVE WentOn(c)
    BY <1>6, PipelineTypes DEF WentOn, CallerInv
  <1>7. ASSUME SetHushed PROVE CallerStep("silence")
    <2>1. "silence" \in Callers
      BY <1>0
    <2>2. /\ UNCHANGED <<sm, turnTask, turn, sent, spans, grace, closed, detached, said, history>>
          /\ hushed' = ~hushed
          /\ \/ caller["silence"].pc = "idle" /\ GoOn("silence", [Idle EXCEPT !.pc = "ready"])
             \/ UNCHANGED caller
      BY <1>7 DEF SetHushed
    <2>3. WentOn("silence")
      BY <1>5, <1>6, <2>1, <2>2
    <2>4. QED
      BY <2>2, <2>3, NoteNoted DEF CallerStep, TypeOK, HeldEndpointHasWords
  <1>8. ASSUME SetMuted PROVE CallerStep("flush")
    <2>1. "flush" \in Callers
      BY <1>0
    <2>2. /\ UNCHANGED <<sm, turnTask, turn, sent, spans, grace, hushed, closed, detached, said, history>>
          /\ caller["flush"].pc = "idle" /\ GoOn("flush", [Idle EXCEPT !.pc = "ready"])
      BY <1>8 DEF SetMuted
    <2>3. WentOn("flush")
      BY <1>5, <2>1, <2>2
    <2>4. QED
      BY <2>2, <2>3, NoteNoted DEF CallerStep, TypeOK, HeldEndpointHasWords
  <1>9. ASSUME Flush PROVE CallerStep("flush")
    <2>1. "flush" \in Callers /\ "flush" \in Callers \ {"run"}
      BY <1>0
    <2>2. /\ UNCHANGED <<hushed, closed, detached, said>> /\ NoteClash
          /\ NothingSaid("flush") \/ (grace' = FALSE /\ Commit("flush"))
      BY <1>9 DEF Flush, CancelGrace
    <2>3. WentOn("flush") /\ spans' \subseteq Words /\ grace' = FALSE
      BY <2>1, <2>2, CommitTail, NothingSaidTail
    <2>4. QED
      BY <2>2, <2>3, NoteNoted DEF CallerStep, TypeOK, HeldEndpointHasWords
  <1>10. ASSUME GraceOver PROVE CallerStep("grace")
    <2>1. WentOn("grace") /\ spans' \subseteq Words
      BY <1>0, <1>10, CommitTail DEF GraceOver
    <2>2. QED
      BY <1>10, <2>1, NoteNoted DEF GraceOver, CallerStep, TypeOK, HeldEndpointHasWords
  <1>11. ASSUME Close PROVE CallerStep("close")
    <2>1. WentOn("close")
      BY <1>1, <1>11 DEF Close
    <2>2. detached' \in BOOLEAN /\ grace' = FALSE
      BY <1>11 DEF Close, CancelGrace
    <2>3. QED
      BY <1>11, <2>1, <2>2, NoteNoted DEF Close, CallerStep, TypeOK, HeldEndpointHasWords
  <1>12. QED
    BY <1>2, <1>3, <1>4, <1>7, <1>8, <1>9, <1>10, <1>11

\* The callers that wake up.
LEMMA WakeUpStep ==
  ASSUME TypeOK, CallerInv, NEW c \in Callers, WakeUp(c)
  PROVE  CallerStep(c)
  <1> DEFINE me == caller[c]
  <1>0. /\ me \in Caller /\ me.words \in SUBSET Words /\ me.chunk \in Chunks \cup {"none"}
        /\ {} \in SUBSET Words /\ "none" \in Chunks \cup {"none"}
        /\ RecordOK(c, me.pc, me.goal, me.words, me.chunk)
        /\ c = "close" /\ me.pc # "idle" => closed
    BY PipelineTypes DEF Caller, CallerInv
  <1>1. ASSUME Aborted(c) PROVE CallerStep(c)
    <2>1. /\ me.pc = "aborting" /\ NoteClash /\ UNCHANGED <<spans, grace, hushed, closed, detached, said>>
          /\ \/ /\ me.goal = "interrupt"
                /\ EnterState(c, "interrupted", IF c = "run" THEN "hear" ELSE "supersede", me.words, me.chunk)
             \/ Think(c, me.words)
             \/ EnterState(c, "listening", "rest", {}, "none")
             \/ Return(c)
             \/ me.goal = "leave" /\ GoOn(c, Gone) /\ UNCHANGED <<sm, turnTask, turn, sent>>
      BY <1>1 DEF Aborted
    <2>2. CASE /\ me.goal = "interrupt"
               /\ EnterState(c, "interrupted", IF c = "run" THEN "hear" ELSE "supersede", me.words, me.chunk)
      <3>1. ASSUME c = "run" PROVE WentOn(c)
        <4>1. "interrupted" \in States /\ "hear" \in Goal /\ RecordOK(c, "telling", "hear", me.words, me.chunk)
          BY <1>0, <2>1, <2>2, <3>1 DEF States, Goal, RecordOK, InsidePc
        <4>2. EnterState(c, "interrupted", "hear", me.words, me.chunk)
          BY <2>2, <3>1
        <4> HIDE DEF me
        <4>3. QED
          BY <1>0, <4>1, <4>2, EnterTail
      <3>2. ASSUME c # "run" PROVE WentOn(c)
        <4>1. /\ "interrupted" \in States /\ "supersede" \in Goal
              /\ RecordOK(c, "telling", "supersede", me.words, me.chunk)
          BY <1>0, <2>1, <2>2, <3>2 DEF States, Goal, RecordOK, InsidePc
        <4>2. EnterState(c, "interrupted", "supersede", me.words, me.chunk)
          BY <2>2, <3>2
        <4> HIDE DEF me
        <4>3. QED
          BY <1>0, <4>1, <4>2, EnterTail
      <3>3. WentOn(c)
        BY <3>1, <3>2
      <3>4. QED
        BY <1>0, <2>1, <3>3, NoteNoted DEF CallerStep, TypeOK, HeldEndpointHasWords
    <2>3. CASE Think(c, me.words)
      BY <1>0, <2>1, <2>3, ThinkTail, NoteNoted DEF CallerStep, TypeOK, HeldEndpointHasWords
    <2>4. CASE EnterState(c, "listening", "rest", {}, "none")
      <3>1. "listening" \in States /\ "rest" \in Goal /\ RecordOK(c, "telling", "rest", {}, "none")
        BY DEF States, Goal, RecordOK, InsidePc
      <3>2. WentOn(c)
        BY <1>0, <2>4, <3>1, EnterTail
      <3>3. QED
        BY <1>0, <2>1, <3>2, NoteNoted DEF CallerStep, TypeOK, HeldEndpointHasWords
    <2>5. CASE Return(c)
      BY <1>0, <2>1, <2>5, ReturnTail, NoteNoted DEF CallerStep, TypeOK, HeldEndpointHasWords
    <2>6. CASE me.goal = "leave" /\ GoOn(c, Gone) /\ UNCHANGED <<sm, turnTask, turn, sent>>
      <3>1. Gone.pc = "gone" /\ Gone.goal = "none" /\ Gone.words = {} /\ Gone.chunk = "none" /\ Gone.target = 0
        BY DEF Gone, Idle
      <3>2. /\ caller' \in [Callers -> Caller]
            /\ \A d \in Callers \ {c} : caller'[d] = caller[d]
            /\ RecordOK(c, caller'[c].pc, caller'[c].goal, caller'[c].words, caller'[c].chunk)
            /\ caller'[c].target \in {0} \cup DOMAIN turn'
        BY <2>6, <3>1, IdleOK, GoOnTail
      <3>3. WentOn(c)
        BY <2>6, <3>2, PipelineTypes DEF WentOn
      <3>4. QED
        BY <1>0, <2>1, <3>3, NoteNoted DEF CallerStep, TypeOK, HeldEndpointHasWords
    <2>7. QED
      BY <2>1, <2>2, <2>3, <2>4, <2>5, <2>6
  <1>2. ASSUME Joined(c) PROVE CallerStep(c)
    <2>1. /\ me.pc = "joining" /\ NoteClash /\ UNCHANGED <<spans, grace, hushed, closed, detached, said>>
          /\ \/ Think(c, me.words)
             \/ GoOn(c, IF c = "text" THEN Gone ELSE Idle) /\ UNCHANGED <<sm, turnTask, turn, sent>>
      BY <1>2 DEF Joined
    <2>2. CASE Think(c, me.words)
      BY <1>0, <2>1, <2>2, ThinkTail, NoteNoted DEF CallerStep, TypeOK, HeldEndpointHasWords
    <2>3. CASE GoOn(c, IF c = "text" THEN Gone ELSE Idle) /\ UNCHANGED <<sm, turnTask, turn, sent>>
      <3>1. PICK r \in {Gone, Idle} : GoOn(c, r)
        BY <2>3
      <3>2. /\ r \in Caller /\ RecordOK(c, r.pc, r.goal, r.words, r.chunk) /\ r.target = 0
        BY IdleOK DEF Gone, Idle
      <3>3. /\ caller' \in [Callers -> Caller]
            /\ \A d \in Callers \ {c} : caller'[d] = caller[d]
            /\ RecordOK(c, caller'[c].pc, caller'[c].goal, caller'[c].words, caller'[c].chunk)
            /\ caller'[c].target \in {0} \cup DOMAIN turn'
        BY <3>1, <3>2, GoOnTail
      <3>4. WentOn(c)
        BY <2>3, <3>3, PipelineTypes DEF WentOn
      <3>5. QED
        BY <1>0, <2>1, <3>4, NoteNoted DEF CallerStep, TypeOK, HeldEndpointHasWords
    <2>4. QED
      BY <2>1, <2>2, <2>3
  <1>3. ASSUME Told(c) PROVE CallerStep(c)
    <2>1. /\ me.pc = "telling" /\ NoteClash /\ UNCHANGED <<hushed, closed, detached, said>>
          /\ \/ me.goal = "hear" /\ Hear(me.chunk, me.words)
             \/ /\ Supersede(c, me.words) \/ Begin(c, me.words) \/ Return(c)
                /\ UNCHANGED <<spans, grace>>
      BY <1>3 DEF Told
    <2>2. CASE me.goal = "hear" /\ Hear(me.chunk, me.words)
      <3>1. c = "run" /\ (me.chunk = "finalEnd" => me.words # {})
        BY <1>0, <2>1, <2>2 DEF RecordOK, InsidePc
      <3> HIDE DEF me
      <3>2. WentOn("run") /\ spans' \subseteq Words /\ grace' \in BOOLEAN /\ (grace' => spans' # {})
        BY <1>0, <2>2, <3>1, HearTail
      <3>3. QED
        BY <2>1, <3>1, <3>2, NoteNoted DEF CallerStep, TypeOK, HeldEndpointHasWords
    <2>3. CASE (Supersede(c, me.words) \/ Begin(c, me.words) \/ Return(c)) /\ UNCHANGED <<spans, grace>>
      <3>1. WentOn(c)
        BY <1>0, <2>3, SupersedeTail, BeginTail, ReturnTail
      <3>2. QED
        BY <1>0, <2>1, <2>3, <3>1, NoteNoted DEF CallerStep, TypeOK, HeldEndpointHasWords
    <2>4. QED
      BY <2>1, <2>2, <2>3
  <1>4. QED
    BY <1>1, <1>2, <1>3 DEF WakeUp

\* The steps of a turn.
LEMMA TurnActionStep ==
  ASSUME TypeOK, NEW t \in DOMAIN turn, Sentence(t) \/ ReplyOver(t) \/ Fail(t) \/ TurnStep(t)
  PROVE  TurnAction(t)
  <1>1. t \in 1..Len(turn) /\ turn \in Seq(Turn) /\ turn[t] \in Turn
    BY PipelineTypes
  <1>2. ASSUME NEW status \in TurnStatus, Advance(t, status)
        PROVE  turn' \in Seq(Turn) /\ DOMAIN turn' = DOMAIN turn
    <2>1. [turn[t] EXCEPT !.status = status] \in Turn
      BY <1>1 DEF Turn
    <2>2. turn' = [turn EXCEPT ![t] = [turn[t] EXCEPT !.status = status]]
      BY <1>2 DEF Advance
    <2>3. turn' \in Seq(Turn)
      BY <1>1, <2>1, <2>2, ExceptSeq
    <2>4. QED
      BY <2>2, <2>3
  <1>3. ASSUME turn' = [turn EXCEPT ![t].audible = TRUE]
        PROVE  turn' \in Seq(Turn) /\ DOMAIN turn' = DOMAIN turn
    <2>1. [turn[t] EXCEPT !.audible = TRUE] \in Turn
      BY <1>1 DEF Turn
    <2>2. turn' = [turn EXCEPT ![t] = [turn[t] EXCEPT !.audible = TRUE]]
      BY <1>3
    <2>3. turn' \in Seq(Turn)
      BY <1>1, <2>1, <2>2, ExceptSeq
    <2>4. QED
      BY <2>2, <2>3
  <1>4. ASSUME Typed(t)
        PROVE  turn' \in Seq(Turn) /\ DOMAIN turn' = DOMAIN turn /\ sent' \subseteq Words /\ sm' = sm /\ TurnOnly
    <2>1. [turn[t] EXCEPT !.status = "waiting", !.words = {}] \in Turn
      BY <1>1 DEF Turn, TurnStatus
    <2>2. turn' = [turn EXCEPT ![t] = [turn[t] EXCEPT !.status = "waiting", !.words = {}]]
      BY <1>4 DEF Typed
    <2>3. turn' \in Seq(Turn)
      BY <1>1, <2>1, <2>2, ExceptSeq
    <2>4. turn[t].words \subseteq Words
      BY <1>1 DEF Turn
    <2>5. QED
      BY <1>4, <2>2, <2>3, <2>4, PipelineTypes DEF Typed
  <1>5. ASSUME ~Typed(t)
        PROVE  /\ TurnOnly /\ sent' = sent
               /\ sm' \in {sm, "speaking", "listening"}
               /\ \/ \E status \in TurnStatus : Advance(t, status)
                  \/ turn' = [turn EXCEPT ![t].audible = TRUE]
    BY <1>5 DEF Sentence, ReplyOver, Fail, TurnStep, FirstAudio, SentenceOver, SpeechEnded, Settled, Settle, Recover,
           Cancelled, TurnStatus, Advance
  <1>6. turn' \in Seq(Turn) /\ DOMAIN turn' = DOMAIN turn
    BY <1>2, <1>3, <1>4, <1>5
  <1>7. QED
    BY <1>4, <1>5, <1>6, PipelineTypes DEF TurnAction, States

\* Every step is a caller's, a turn's, or the socket's going away.
LEMMA StepCases ==
  ASSUME TypeOK, CallerInv, Next
  PROVE  \/ \E c \in Callers : CallerStep(c)
         \/ \E t \in DOMAIN turn : TurnAction(t)
         \/ Detach
  <1>1. {"run", "text", "grace", "flush", "silence", "close"} \subseteq Callers
    BY DEF Callers
  <1>2. CASE \E k \in Chunks : Chunk(k)
    BY <1>1, <1>2, ChunkStep
  <1>3. CASE RunEnds \/ RunCancelled \/ Text \/ SetHushed \/ Silence \/ SetMuted \/ Flush \/ GraceOver \/ Close
    BY <1>1, <1>3, EntryStep
  <1>4. CASE \E c \in Callers : WakeUp(c)
    BY <1>4, WakeUpStep
  <1>5. CASE \E t \in DOMAIN turn : Sentence(t) \/ ReplyOver(t) \/ Fail(t) \/ TurnStep(t)
    BY <1>5, TurnActionStep
  <1>6. QED
    BY <1>2, <1>3, <1>4, <1>5 DEF Next

\* Types, CallerInv and what an endpoint is held for, step by step.
LEMMA PipelineStep ==
  TypeOK /\ CallerInv /\ HeldEndpointHasWords /\ [Next]_vars =>
    TypeOK' /\ CallerInv' /\ HeldEndpointHasWords'
  <1> SUFFICES ASSUME TypeOK, CallerInv, HeldEndpointHasWords, [Next]_vars
               PROVE  TypeOK' /\ CallerInv' /\ HeldEndpointHasWords'
    OBVIOUS
  <1>1. ASSUME NEW c \in Callers, CallerStep(c) PROVE TypeOK' /\ CallerInv' /\ HeldEndpointHasWords'
    <2>1. TypeOK'
      BY <1>1, TailTypes DEF CallerStep
    <2>2. HeldEndpointHasWords'
      BY <1>1 DEF CallerStep
    <2>3. \A d \in Callers :
            /\ RecordOK(d, caller'[d].pc, caller'[d].goal, caller'[d].words, caller'[d].chunk)
            /\ caller'[d].target \in {0} \cup DOMAIN turn'
      BY <1>1 DEF CallerStep, WentOn, CallerInv
    <2>4. caller'["close"].pc # "idle" => closed'
      BY <1>1 DEF CallerStep, WentOn, CallerInv, Callers
    <2>5. CallerInv'
      BY <2>3, <2>4 DEF CallerInv
    <2>6. QED
      BY <2>1, <2>2, <2>5
  <1>2. ASSUME NEW t \in DOMAIN turn, TurnAction(t) PROVE TypeOK' /\ CallerInv' /\ HeldEndpointHasWords'
    BY <1>2 DEF TurnAction, TurnOnly, TypeOK, history, CallerInv, HeldEndpointHasWords
  <1>3. CASE Detach
    BY <1>3 DEF Detach, TypeOK, history, CallerInv, HeldEndpointHasWords
  <1>4. CASE UNCHANGED vars
    BY <1>4 DEF vars, history, TypeOK, CallerInv, HeldEndpointHasWords
  <1>5. QED
    BY <1>1, <1>2, <1>3, <1>4, StepCases

\* And from the start.
LEMMA PipelineAlways == Spec => [](TypeOK /\ CallerInv /\ HeldEndpointHasWords)
  <1>1. Init => TypeOK /\ CallerInv /\ HeldEndpointHasWords
    <2> SUFFICES ASSUME Init PROVE TypeOK /\ CallerInv /\ HeldEndpointHasWords
      OBVIOUS
    <2>1. \A c \in Callers : caller[c] = Idle
      BY DEF Init
    <2>2. caller \in [Callers -> Caller]
      BY IdleOK DEF Init
    <2>3. turn \in Seq(Turn)
      BY EmptySeq DEF Init
    <2>4. TypeOK
      <3>1. said \in 0..MaxWords /\ sm \in States
        BY AudioPipelineAssumption DEF Init, States
      <3>2. /\ spans \subseteq Words /\ sent \subseteq Words /\ grace \in BOOLEAN /\ hushed \in BOOLEAN
            /\ closed \in BOOLEAN /\ detached \in BOOLEAN /\ clash \in BOOLEAN /\ turnTask = 0
            /\ caught \subseteq Callers
        BY DEF Init
      <3>3. QED
        BY <2>2, <2>3, <3>1, <3>2 DEF TypeOK
    <2>5. CallerInv
      BY <2>1, IdleOK DEF CallerInv, Idle, Callers
    <2>6. QED
      BY <2>4, <2>5 DEF Init, HeldEndpointHasWords
  <1>2. QED
    BY <1>1, PipelineStep, PTL DEF Spec

\* AudioPipeline keeps its type invariant, for any number of words and turns.
THEOREM TypeCorrect == Spec => []TypeOK
  BY PipelineAlways, PTL

\* An endpoint is only held for words that are still to be committed: no way to end
\* or interrupt an utterance leaves one behind that would send an empty turn.
THEOREM HeldEndpointHasWordsAlways == Spec => []HeldEndpointHasWords
  BY PipelineAlways, PTL

-----------------------------------------------------------------------------
(* While no two callers are inside at once: the tails.                     *)

\* No turn gives or takes words; caller c gives w to a new one.
SameWords ==
  /\ sent' = sent /\ DOMAIN turn' = DOMAIN turn
  /\ \A t \in DOMAIN turn : turn'[t].words = turn[t].words

GivenTo(w) ==
  /\ sent' = sent /\ DOMAIN turn' = DOMAIN turn \cup {Len(turn) + 1}
  /\ \A t \in DOMAIN turn : turn'[t].words = turn[t].words
  /\ turn'[Len(turn) + 1].words = w

\* What caller c has in hand goes on with it, or to a turn.
HandsOn(c, w) ==
  \/ caller'[c].words = w /\ SameWords
  \/ caller'[c].words = {} /\ GivenTo(w)

\* If none are given, the same words are taken.
LEMMA TakenOn ==
  ASSUME Apart, SameWords
  PROVE  Taken' = Taken /\ Apart'
  BY DEF SameWords, Taken, Apart

\* Those given are taken then.
LEMMA GivenOn ==
  ASSUME TypeOK, Apart, NEW w, GivenTo(w), w \cap Taken = {}
  PROVE  Taken' = Taken \cup w /\ Apart'
  <1>1. DOMAIN turn = 1..Len(turn) /\ Len(turn) \in Nat
    BY PipelineTypes
  <1>2. Taken' = Taken \cup w
    <2>1. ASSUME NEW x \in Taken' PROVE x \in Taken \cup w
      BY <2>1 DEF GivenTo, Taken
    <2>2. ASSUME NEW x \in Taken \cup w PROVE x \in Taken'
      BY <2>2 DEF GivenTo, Taken
    <2>3. QED
      BY <2>1, <2>2
  <1>3. Apart'
    <2>1. w \cap sent = {} /\ \A t \in DOMAIN turn : w \cap turn[t].words = {}
      BY DEF Taken
    <2>2. /\ \A t \in DOMAIN turn' : turn'[t].words \cap sent' = {}
      BY <2>1 DEF GivenTo, Apart
    <2>3. ASSUME NEW t \in DOMAIN turn', NEW u \in DOMAIN turn', u # t
          PROVE  turn'[t].words \cap turn'[u].words = {}
      BY <2>1, <2>3 DEF GivenTo, Apart
    <2>4. QED
      BY <2>2, <2>3 DEF Apart
  <1>4. QED
    BY <1>2, <1>3

\* Caller c leaves the turns as they should be.
Calm(c) ==
  \/ c \in Inside' /\ Fits(caller[c])'
  \/ c \notin Inside' /\ AtRest'

\* _abort_turn, called when no turn but the current one is alive.
LEMMA AbortCalm ==
  ASSUME TypeOK, NEW c \in Callers, NEW goal \in Goal, NEW w \in SUBSET Words,
         NEW k \in Chunks \cup {"none"}, RecordOK(c, "aborting", goal, w, k), StartAbort(c, goal, w, k),
         \A t \in LiveTurns : t = turnTask,
         goal = "interrupt" => sm = "speaking", goal = "think" => sm = "thinking"
  PROVE  Calm(c) /\ HandsOn(c, w) /\ c \in Inside' /\ caller'[c].goal = goal
  <1> DEFINE r == [pc |-> "aborting", goal |-> goal, target |-> AbortTarget, words |-> w, chunk |-> k]
  <1>1. /\ UNCHANGED <<sm, sent>> /\ turnTask' = 0 /\ caller'[c] = r
        /\ DOMAIN turn' = DOMAIN turn
        /\ \A t \in DOMAIN turn : turn'[t] = IF t = AbortTarget THEN [turn[t] EXCEPT !.status = "closing"]
                                                               ELSE turn[t]
    BY AbortTail
  <1>2. r.pc = "aborting" /\ r.goal = goal /\ r.target = AbortTarget /\ r.words = w
    OBVIOUS
  <1> HIDE DEF r
  <1>3. ASSUME NEW t \in LiveTurns'
        PROVE  t = AbortTarget /\ turn'[t].status = "closing"
    <2>1. t \in DOMAIN turn /\ turn[t] \in Turn
      BY <1>1, <1>3, PipelineTypes DEF LiveTurns
    <2>2. CASE t = AbortTarget
      BY <1>1, <2>1, <2>2 DEF Turn
    <2>3. CASE t # AbortTarget
      <3>1. t \in LiveTurns
        BY <1>1, <1>3, <2>1, <2>3 DEF LiveTurns, Live
      <3>2. t = turnTask /\ turnTask # 0 /\ Live(turnTask)
        BY <2>1, <3>1, PipelineTypes DEF LiveTurns
      <3>3. QED
        BY <2>3, <3>2 DEF AbortTarget
    <2>4. QED
      BY <2>2, <2>3
  <1>4. c \in Inside'
    BY <1>1, <1>2 DEF Inside
  <1>5. Fits(caller[c])'
    BY <1>1, <1>2, <1>3 DEF Fits
  <1>6. SameWords
    <2>1. \A t \in DOMAIN turn : turn'[t].words = turn[t].words
      BY <1>1, PipelineTypes DEF Turn
    <2>2. QED
      BY <1>1, <2>1 DEF SameWords
  <1>7. QED
    BY <1>1, <1>2, <1>4, <1>5, <1>6 DEF Calm, HandsOn

\* _set_state, called when no turn is alive.
LEMMA EnterCalm ==
  ASSUME TypeOK, NEW c \in Callers, NEW new \in States, NEW goal \in Goal, NEW w \in SUBSET Words,
         NEW k \in Chunks \cup {"none"}, RecordOK(c, "telling", goal, w, k), EnterState(c, new, goal, w, k),
         Legal(new), LiveTurns = {},
         goal \in {"hear", "supersede"} => new = "interrupted",
         goal = "begin" => new = "thinking", goal = "rest" => new = "listening"
  PROVE  Calm(c) /\ HandsOn(c, w) /\ c \in Inside' /\ caller'[c].goal = goal
  <1> DEFINE r == [pc |-> "telling", goal |-> goal, target |-> 0, words |-> w, chunk |-> k]
  <1>1. sm' = new /\ UNCHANGED <<turnTask, turn, sent>> /\ caller'[c] = r
    BY EnterTail
  <1>2. r.pc = "telling" /\ r.goal = goal /\ r.words = w
    OBVIOUS
  <1> HIDE DEF r
  <1>3. LiveTurns' = {}
    BY <1>1 DEF LiveTurns, Live
  <1>4. c \in Inside'
    BY <1>1, <1>2 DEF Inside
  <1>5. Fits(caller[c])'
    BY <1>1, <1>2, <1>3 DEF Fits
  <1>6. QED
    BY <1>1, <1>2, <1>4, <1>5 DEF Calm, HandsOn, SameWords

\* A turn is begun when no other is alive, and the phone shows THINKING.
LEMMA BeginCalm ==
  ASSUME TypeOK, NEW c \in Callers, NEW w \in SUBSET Words, Begin(c, w),
         LiveTurns = {}, sm = "thinking", ~closed, ~closed'
  PROVE  Calm(c) /\ HandsOn(c, w) /\ c \notin Inside'
  <1>1. /\ caller'[c] = Idle /\ UNCHANGED <<sm, sent>>
        /\ turnTask' = Len(turn) + 1 /\ DOMAIN turn' = DOMAIN turn \cup {Len(turn) + 1}
        /\ turn'[Len(turn) + 1] = NewTurn(c, w)
    BY BeginTail
  <1>1a. \A t \in DOMAIN turn : turn'[t] = turn[t]
    <2>1. AbortTarget = 0
      BY PipelineTypes DEF AbortTarget, LiveTurns
    <2>2. \A t \in DOMAIN turn : t # 0
      BY PipelineTypes
    <2>3. QED
      BY <2>1, <2>2, BeginTail
  <1>2. turn'[turnTask'].status = "typing" /\ ~turn'[turnTask'].audible /\ turn'[turnTask'].words = w
    BY <1>1 DEF NewTurn
  <1>3. LiveTurns' = {turnTask'}
    BY <1>1, <1>1a, <1>2 DEF LiveTurns, Live
  <1>4. Matches(turnTask)'
    BY <1>1, <1>2 DEF Matches
  <1>5. AtRest'
    BY <1>3, <1>4 DEF AtRest
  <1>6. c \notin Inside' /\ caller'[c].words = {}
    BY <1>1 DEF Inside, Idle
  <1>7. GivenTo(w)
    BY <1>1, <1>1a, <1>2 DEF GivenTo
  <1>8. QED
    BY <1>1, <1>5, <1>6, <1>7 DEF Calm, HandsOn

\* _start_turn, from its last case to its first.
LEMMA ThinkCalm ==
  ASSUME TypeOK, NEW c \in Callers, NEW w \in SUBSET Words, Think(c, w),
         LiveTurns = {}, sm # "speaking", ~closed, ~closed'
  PROVE  Calm(c) /\ HandsOn(c, w) /\ (sm # "thinking" => c \in Inside')
  <1>1. CASE sm = "thinking" /\ Begin(c, w)
    BY <1>1, BeginCalm
  <1>2. CASE sm # "thinking" /\ EnterState(c, "thinking", "begin", w, "none")
    <2>1. "thinking" \in States /\ "begin" \in Goal /\ RecordOK(c, "telling", "begin", w, "none")
      BY DEF States, Goal, RecordOK, InsidePc
    <2>2. Legal("thinking")
      BY <1>2, PipelineTypes DEF States, Legal, Transitions
    <2>3. QED
      BY <1>2, <2>1, <2>2, EnterCalm
  <1>3. QED
    BY <1>1, <1>2 DEF Think

\* The second case: what is left of the current turn is only to return.
LEMMA SupersedeCalm ==
  ASSUME TypeOK, NEW c \in Callers, NEW w \in SUBSET Words, Supersede(c, w),
         \A t \in LiveTurns : t = turnTask /\ Matches(t), sm # "speaking", ~closed, ~closed'
  PROVE  Calm(c) /\ HandsOn(c, w) /\ c \in Inside'
  <1>1. CASE sm = "thinking" /\ StartAbort(c, "think", w, "none")
    <2>1. "think" \in Goal /\ RecordOK(c, "aborting", "think", w, "none")
      BY DEF Goal, RecordOK, InsidePc
    <2>2. QED
      BY <1>1, <2>1, AbortCalm
  <1>2. CASE /\ sm # "thinking" /\ Finishing
             /\ GoOn(c, [pc |-> "joining", goal |-> "think", target |-> turnTask, words |-> w, chunk |-> "none"])
             /\ UNCHANGED <<sm, turnTask, turn, sent>>
    <2>1. turnTask \in LiveTurns
      BY <1>2, PipelineTypes DEF Finishing, AbortTarget, LiveTurns
    <2>2. turn[turnTask] \in Turn /\ Live(turnTask) /\ Matches(turnTask)
      BY <2>1, PipelineTypes DEF LiveTurns
    <2>3. turn[turnTask].status = "settling" /\ sm = "listening"
      BY <1>2, <2>2 DEF Turn, TurnStatus, Live, Matches
    <2> DEFINE r == [pc |-> "joining", goal |-> "think", target |-> turnTask, words |-> w, chunk |-> "none"]
    <2>4. caller'[c] = r
      BY <1>2, PipelineTypes DEF GoOn
    <2>5. r.pc = "joining" /\ r.target = turnTask /\ r.words = w
      OBVIOUS
    <2> HIDE DEF r
    <2>6. LiveTurns' = LiveTurns
      BY <1>2 DEF LiveTurns, Live
    <2>7. Fits(caller[c])'
      BY <1>2, <2>3, <2>4, <2>5, <2>6 DEF Fits
    <2>8. c \in Inside'
      BY <2>4, <2>5 DEF Inside
    <2>9. QED
      BY <1>2, <2>4, <2>5, <2>7, <2>8 DEF Calm, HandsOn, SameWords
  <1>3. CASE sm # "thinking" /\ ~Finishing /\ Think(c, w)
    <2>1. LiveTurns = {}
      BY <1>3, PipelineTypes DEF Finishing, AbortTarget, LiveTurns
    <2>2. QED
      BY <1>3, <2>1, ThinkCalm
  <1>4. QED
    BY <1>1, <1>2, <1>3 DEF Supersede

\* The first case: what is spoken is broken off.
LEMMA StartTurnCalm ==
  ASSUME TypeOK, NEW c \in Callers \ {"run"}, NEW w \in SUBSET Words, StartTurn(c, w),
         AtRest, ~closed, ~closed'
  PROVE  Calm(c) /\ HandsOn(c, w) /\ c \in Inside'
  <1>1. \A t \in LiveTurns : t = turnTask /\ Matches(t)
    BY DEF AtRest
  <1>2. CASE sm = "speaking" /\ StartAbort(c, "interrupt", w, "none")
    <2>1. "interrupt" \in Goal /\ RecordOK(c, "aborting", "interrupt", w, "none")
      BY DEF Goal, RecordOK, InsidePc
    <2>2. QED
      BY <1>1, <1>2, <2>1, AbortCalm
  <1>3. CASE sm # "speaking" /\ Supersede(c, w)
    BY <1>1, <1>3, SupersedeCalm
  <1>4. QED
    BY <1>2, <1>3 DEF StartTurn

\* Whatever is going on, _start_turn called from outside awaits something.
LEMMA StartTurnInside ==
  ASSUME TypeOK, NEW c \in Callers, NEW w, StartTurn(c, w)
  PROVE  c \in Inside'
  <1>1. ASSUME NEW r, r.pc \in InsidePc, GoOn(c, r) PROVE c \in Inside'
    <2>1. caller'[c] = r
      BY <1>1, PipelineTypes DEF GoOn
    <2>2. QED
      BY <1>1, <2>1 DEF Inside, InsidePc
  <1>2. ASSUME NEW goal, StartAbort(c, goal, w, "none") PROVE c \in Inside'
    BY <1>1, <1>2 DEF StartAbort, InsidePc
  <1>3. CASE Think(c, w) /\ sm \notin {"thinking", "speaking"}
    <2>1. Legal("thinking")
      BY <1>3, PipelineTypes DEF States, Legal, Transitions
    <2>2. QED
      BY <1>1, <1>3, <2>1 DEF Think, EnterState, InsidePc
  <1>4. CASE sm # "speaking" /\ Supersede(c, w)
    BY <1>1, <1>2, <1>3, <1>4 DEF Supersede, InsidePc
  <1>5. QED
    BY <1>2, <1>4 DEF StartTurn

-----------------------------------------------------------------------------
(* While no two callers are inside at once: the steps of the callers.      *)

\* Where the words go that caller c takes up or lays down.
Moved(c) ==
  \E w \in SUBSET Words :
    /\ HandsOn(c, w)
    /\ \/ spans' = spans /\ w = caller[c].words /\ said' = said
       \/ spans' = spans \cup caller[c].words /\ w = {} /\ said' = said
       \/ spans' = {} /\ w = spans /\ caller[c].words = {} /\ said' = said
       \/ /\ caller[c].words = {} /\ said' = said + 1
          /\ \/ spans' = spans /\ w = {said + 1}
             \/ spans' = spans \cup {said + 1} /\ w = {}

\* Caller c is inside before or after the step, and so alone.
QuietStep(c) ==
  /\ WentOn(c) /\ Noted /\ (closed => closed')
  /\ c \in Inside \/ c \in Inside'
  /\ Calm(c)
  /\ c \in Inside' => NoNewTurn(c)'
  /\ ~closed' => Moved(c)

\* Caller c comes and goes without waiting; it may add a word to the spans.
AsideStep(c) ==
  /\ WentOn(c) /\ c \notin Inside /\ c \notin Inside'
  /\ UNCHANGED <<sm, turnTask, turn, sent, closed>>
  /\ caller["run"].pc = "gone" <=> caller'["run"].pc = "gone"
  /\ caller[c].words = {} /\ caller'[c].words = {}
  /\ \/ spans' = spans /\ said' = said
     \/ spans' = spans \cup {said + 1} /\ said' = said + 1

\* There are six callers, however they are counted.
LEMMA CallersFinite == IsFiniteSet(Callers)
  <1>1. IsFiniteSet({"run"})
    BY FS_Singleton
  <1>2. IsFiniteSet({"run"} \cup {"text"})
    BY <1>1, FS_AddElement
  <1>3. IsFiniteSet({"run"} \cup {"text"} \cup {"grace"})
    BY <1>2, FS_AddElement
  <1>4. IsFiniteSet({"run"} \cup {"text"} \cup {"grace"} \cup {"flush"})
    BY <1>3, FS_AddElement
  <1>5. IsFiniteSet({"run"} \cup {"text"} \cup {"grace"} \cup {"flush"} \cup {"silence"})
    BY <1>4, FS_AddElement
  <1>6. IsFiniteSet({"run"} \cup {"text"} \cup {"grace"} \cup {"flush"} \cup {"silence"} \cup {"close"})
    BY <1>5, FS_AddElement
  <1>7. Callers = {"run"} \cup {"text"} \cup {"grace"} \cup {"flush"} \cup {"silence"} \cup {"close"}
    BY DEF Callers
  <1>8. QED
    BY <1>6, <1>7

\* The history sees every two callers.
LEMMA Alone ==
  ASSUME TypeOK, QuietInv, NEW c \in Callers, WentOn(c), Noted, ~clash', c \in Inside \/ c \in Inside'
  PROVE  /\ ~clash
         /\ \A d \in Callers \ {c} : d \notin Inside /\ d \notin Inside'
         /\ c \notin Inside => AtRest /\ Inside = {}
         /\ c \in Inside => Fits(caller[c]) /\ NoNewTurn(c)
         /\ c = "text" /\ c \in Inside' => ~closed
  <1>1. ~clash /\ ~(Cardinality(Inside') > 1) /\ ~(closed /\ "text" \in Inside')
    BY DEF Noted, TypeOK
  <1>2. \A d \in Callers \ {c} : d \in Inside <=> d \in Inside'
    BY DEF WentOn, Inside
  <1>3. ASSUME NEW d \in Callers \ {c}, d \in Inside PROVE FALSE
    <2>1. CASE c \in Inside
      BY <1>1, <1>3, <2>1 DEF QuietInv
    <2>2. CASE c \in Inside'
      <3>1. {c, d} \subseteq Inside' /\ c # d
        BY <1>2, <1>3, <2>2
      <3>2. IsFiniteSet(Callers)
        BY CallersFinite
      <3>3. IsFiniteSet(Inside')
        BY <3>2, FS_Subset DEF Inside
      <3>4. Cardinality({c, d}) = 2 /\ Cardinality(Inside') \in Nat /\ Cardinality({c, d}) <= Cardinality(Inside')
        <4>1. IsFiniteSet({c}) /\ Cardinality({c}) = 1
          BY FS_Singleton
        <4>2. {c, d} = {c} \cup {d} /\ d \notin {c}
          BY <3>1
        <4>3. Cardinality({c} \cup {d}) = 2
          BY <4>1, <4>2, FS_AddElement
        <4>4. QED
          BY <3>1, <3>3, <4>2, <4>3, FS_Subset, FS_CardinalityType
      <3>5. QED
        BY <1>1, <3>4
    <2>3. QED
      BY <2>1, <2>2
  <1>4. \A d \in Callers \ {c} : d \notin Inside /\ d \notin Inside'
    BY <1>2, <1>3
  <1>5. Inside \subseteq Callers
    BY DEF Inside
  <1>6. QED
    BY <1>1, <1>4, <1>5 DEF QuietInv

\* With the phone showing INTERRUPTED, no turn is alive.
LEMMA InterruptedIsSilent ==
  ASSUME TypeOK, AtRest, sm = "interrupted"
  PROVE  LiveTurns = {}
  <1> SUFFICES ASSUME NEW t \in LiveTurns PROVE FALSE
    OBVIOUS
  <1>1. turn[t] \in Turn /\ Live(t) /\ Matches(t)
    BY PipelineTypes DEF LiveTurns, AtRest
  <1>2. QED
    BY <1>1 DEF Turn, TurnStatus, Live, Matches

\* A bare end of speech.
LEMMA NothingSaidQuiet ==
  ASSUME TypeOK, CallerInv, QuietInv, NEW c \in Callers, NothingSaid(c), spans = {}, Noted, ~clash',
         caller[c].pc \in {"idle", "ready"}, UNCHANGED <<closed, said>>
  PROVE  QuietStep(c) \/ AsideStep(c)
  <1>1. c \notin Inside /\ caller[c].words = {} /\ WentOn(c) /\ spans' = spans
    BY NothingSaidTail DEF Inside, CallerInv, RecordOK, InsidePc
  <1>2. CASE sm = "interrupted" /\ EnterState(c, "listening", "rest", {}, "none")
    <2>1. /\ "listening" \in States /\ "rest" \in Goal /\ RecordOK(c, "telling", "rest", {}, "none")
          /\ {} \in SUBSET Words /\ "none" \in Chunks \cup {"none"}
      BY DEF States, Goal, RecordOK, InsidePc
    <2>2. Legal("listening")
      BY <1>2 DEF Legal, Transitions
    <2>3. caller'[c] = [pc |-> "telling", goal |-> "rest", target |-> 0, words |-> {}, chunk |-> "none"]
      BY <1>2, <2>1, <2>2, EnterTail
    <2>4. c \in Inside'
      BY <2>3 DEF Inside
    <2>5. LiveTurns = {}
      BY <1>1, <1>2, <2>4, Alone, InterruptedIsSilent
    <2>6. Calm(c) /\ HandsOn(c, {}) /\ caller'[c].goal = "rest"
      BY <1>2, <2>1, <2>2, <2>5, EnterCalm
    <2>7. Moved(c)
      BY <1>1, <2>6 DEF Moved
    <2>8. QED
      BY <1>1, <2>4, <2>6, <2>7 DEF QuietStep, NoNewTurn
  <1>3. CASE Return(c)
    <2>1. caller'[c] = Idle /\ UNCHANGED <<sm, turnTask, turn, sent>>
      BY <1>3, ReturnTail
    <2>2. c \notin Inside' /\ caller'[c].words = {} /\ caller'[c].pc = "idle"
      BY <2>1 DEF Inside, Idle
    <2>3. caller["run"].pc = "gone" <=> caller'["run"].pc = "gone"
      BY <1>1, <2>2 DEF WentOn, Callers
    <2>4. QED
      BY <1>1, <2>1, <2>2, <2>3 DEF AsideStep
  <1>4. QED
    BY <1>2, <1>3 DEF NothingSaid

\* The grace period is over, or the mute flushes what was said.
LEMMA CommitQuiet ==
  ASSUME TypeOK, CallerInv, QuietInv, NEW c \in Callers \ {"run"}, Commit(c), Noted, ~clash',
         caller[c].pc \in {"idle", "ready"}, UNCHANGED <<closed, said>>
  PROVE  QuietStep(c) \/ AsideStep(c)
  <1>1. c \notin Inside /\ caller[c].words = {} /\ WentOn(c) /\ spans \in SUBSET Words
    BY CommitTail, PipelineTypes DEF Inside, CallerInv, RecordOK, InsidePc
  <1>2. CASE ~closed /\ spans' = {} /\ StartTurn(c, spans)
    <2>1. c \in Inside'
      BY <1>2, StartTurnInside
    <2>2. AtRest
      BY <1>1, <2>1, Alone
    <2>3. Calm(c) /\ HandsOn(c, spans)
      BY <1>1, <1>2, <2>2, StartTurnCalm
    <2>4. Moved(c)
      BY <1>1, <1>2, <2>3 DEF Moved
    <2>5. QED
      BY <1>1, <1>2, <2>1, <2>3, <2>4 DEF QuietStep, NoNewTurn
  <1>3. CASE spans' = spans /\ Return(c)
    <2>1. caller'[c] = Idle /\ UNCHANGED <<sm, turnTask, turn, sent>>
      BY <1>3, ReturnTail
    <2>2. c \notin Inside' /\ caller'[c].words = {}
      BY <2>1 DEF Inside, Idle
    <2>3. caller["run"].pc = "gone" <=> caller'["run"].pc = "gone"
      BY <1>1 DEF WentOn, Callers
    <2>4. QED
      BY <1>1, <1>3, <2>1, <2>2, <2>3 DEF AsideStep
  <1>4. QED
    BY <1>2, <1>3 DEF Commit, MayCommit, SpansAfterCommit

\* run() gets a chunk.
LEMMA ChunkQuiet ==
  ASSUME TypeOK, CallerInv, QuietInv, NEW k \in Chunks, Chunk(k), ~clash'
  PROVE  QuietStep("run") \/ AsideStep("run")
  <1> DEFINE w == IF k \in {"final", "finalEnd"} THEN {said + 1} ELSE {}
  <1>1. /\ w \subseteq Words /\ said' = said + Cardinality(w) /\ Noted
        /\ caller["run"].pc = "idle" /\ UNCHANGED <<hushed, closed, detached>>
        /\ \/ k # "end" /\ sm = "speaking" /\ StartAbort("run", "interrupt", w, k) /\ UNCHANGED <<spans, grace>>
           \/ Hear(k, w)
    BY NoteNoted DEF Chunk
  <1>2. /\ "run" \in Callers /\ "run" \notin Inside /\ caller["run"].words = {} /\ WentOn("run")
        /\ said \in Nat
    BY <1>1, ChunkStep DEF Callers, Inside, CallerInv, RecordOK, InsidePc, CallerStep, TypeOK
  <1>3. \/ w = {} /\ said' = said
        \/ w = {said + 1} /\ said' = said + 1
    <2>1. CASE k \in {"final", "finalEnd"}
      BY <1>1, <2>1, OneWord
    <2>2. CASE k \notin {"final", "finalEnd"}
      BY <1>1, <1>2, <2>2, OneWord
    <2>3. QED
      BY <2>1, <2>2
  <1>4. w \in SUBSET Words /\ k \in Chunks \cup {"none"} /\ (k = "finalEnd" => w # {})
    BY <1>1
  <1>5. k = "end" => w = {}
    OBVIOUS
  <1> HIDE DEF w
  <1>6. CASE k # "end" /\ sm = "speaking" /\ StartAbort("run", "interrupt", w, k) /\ UNCHANGED <<spans, grace>>
    <2>1. RecordOK("run", "aborting", "interrupt", w, k) /\ "interrupt" \in Goal
      BY <1>4, <1>6 DEF RecordOK, InsidePc, Chunks, Goal
    <2>2. caller'["run"] = [pc |-> "aborting", goal |-> "interrupt", target |-> AbortTarget, words |-> w, chunk |-> k]
      BY <1>2, <1>4, <1>6, <2>1, AbortTail
    <2>3. "run" \in Inside'
      BY <1>2, <2>2 DEF Inside
    <2>4. \A t \in LiveTurns : t = turnTask
      BY <1>1, <1>2, <2>3, Alone DEF AtRest
    <2>5. Calm("run") /\ HandsOn("run", w) /\ caller'["run"].goal = "interrupt"
      BY <1>2, <1>4, <1>6, <2>1, <2>4, AbortCalm
    <2>6. Moved("run")
      BY <1>2, <1>3, <1>4, <1>6, <2>5 DEF Moved
    <2>7. QED
      BY <1>1, <1>2, <2>3, <2>5, <2>6 DEF QuietStep, NoNewTurn
  <1>7. CASE Hear(k, w)
    <2>1. CASE k = "end" /\ spans = {}
      <3>1. NothingSaid("run") /\ said' = said
        BY <1>2, <1>3, <1>5, <1>7, <2>1 DEF Hear
      <3>2. QED
        BY <1>1, <1>2, <2>1, <3>1, NothingSaidQuiet
    <2>2. CASE ~(k = "end" /\ spans = {})
      <3>1. spans' = spans \cup w /\ Return("run")
        BY <1>7, <2>2 DEF Hear
      <3>2. caller'["run"] = Idle /\ UNCHANGED <<sm, turnTask, turn, sent>>
        BY <1>2, <3>1, ReturnTail
      <3>3. "run" \notin Inside' /\ caller'["run"].words = {} /\ caller'["run"].pc = "idle"
        BY <3>2 DEF Inside, Idle
      <3>4. QED
        BY <1>1, <1>2, <1>3, <3>1, <3>2, <3>3 DEF AsideStep
    <2>3. QED
      BY <2>1, <2>2
  <1>8. QED
    BY <1>1, <1>6, <1>7

\* run() and close() end, whatever they leave undone.
LEMMA LeaveQuiet ==
  ASSUME TypeOK, CallerInv, QuietInv, NEW c \in {"run", "close"}, StartAbort(c, "leave", {}, "none"),
         Noted, ~clash', closed => closed', c \notin Inside \/ caller[c].pc = "telling",
         ~closed' => caller[c].words = {} /\ UNCHANGED <<spans, said>>
  PROVE  QuietStep(c)
  <1>1. /\ c \in Callers /\ RecordOK(c, "aborting", "leave", {}, "none") /\ "leave" \in Goal
        /\ {} \in SUBSET Words /\ "none" \in Chunks \cup {"none"}
    BY DEF Callers, RecordOK, InsidePc, Goal
  <1>2. WentOn(c) /\ caller'[c] = [pc |-> "aborting", goal |-> "leave", target |-> AbortTarget,
                                   words |-> {}, chunk |-> "none"]
    BY <1>1, AbortTail
  <1>3. c \in Inside'
    BY <1>1, <1>2 DEF Inside
  <1>4. \A t \in LiveTurns : t = turnTask
    <2>1. CASE c \notin Inside
      BY <1>1, <1>2, <1>3, <2>1, Alone DEF AtRest
    <2>2. CASE c \in Inside /\ caller[c].pc = "telling"
      BY <1>1, <1>2, <2>2, Alone DEF Fits
    <2>3. QED
      BY <2>1, <2>2 DEF Inside
  <1>5. Calm(c) /\ HandsOn(c, {}) /\ caller'[c].goal = "leave"
    BY <1>1, <1>4, AbortCalm
  <1>6. ~closed' => Moved(c)
    BY <1>1, <1>5 DEF Moved
  <1>7. QED
    BY <1>2, <1>3, <1>5, <1>6 DEF QuietStep, NoNewTurn

\* The callers that come in from outside.
LEMMA EntryQuiet ==
  ASSUME TypeOK, CallerInv, QuietInv, ~clash',
         RunEnds \/ RunCancelled \/ Text \/ Silence \/ Flush \/ GraceOver \/ Close
  PROVE  \E c \in Callers : QuietStep(c) \/ AsideStep(c)
  <1>0. {"run", "text", "grace", "flush", "silence", "close"} \subseteq Callers
    BY DEF Callers
  <1>1. \A c \in Callers : caller[c].pc \in {"idle", "ready"} => c \notin Inside /\ caller[c].words = {}
    BY DEF Inside, CallerInv, RecordOK, InsidePc
  <1>2. CASE RunEnds
    <2>1. /\ StartAbort("run", "leave", {}, "none") /\ Noted /\ UNCHANGED <<closed, spans, said>>
          /\ caller["run"].pc = "idle"
      BY <1>2, NoteNoted DEF RunEnds
    <2>2. QuietStep("run")
      BY <1>0, <1>1, <2>1, LeaveQuiet
    <2>3. QED
      BY <1>0, <2>2
  <1>3. CASE RunCancelled
    <2>1. /\ StartAbort("run", "leave", {}, "none") /\ Noted /\ UNCHANGED <<closed, spans, said>>
          /\ caller["run"].pc = "telling" /\ closed
      BY <1>3, NoteNoted DEF RunCancelled, CallerInv
    <2>2. QuietStep("run")
      BY <1>0, <2>1, LeaveQuiet
    <2>3. QED
      BY <1>0, <2>2
  <1>4. CASE Text
    <2>1. /\ Noted /\ UNCHANGED <<closed, spans>> /\ caller["text"].pc = "idle"
          /\ said < MaxWords /\ said' = said + 1 /\ StartTurn("text", {said + 1})
      BY <1>4, NoteNoted DEF Text, AtSocket
    <2>2. {said + 1} \in SUBSET Words
      BY <2>1, AudioPipelineAssumption DEF Words, TypeOK
    <2>3. /\ WentOn("text") /\ "text" \in Inside' /\ "text" \notin Inside /\ caller["text"].words = {}
          /\ "text" \in Callers /\ "text" \in Callers \ {"run"}
      BY <1>0, <1>1, <2>1, <2>2, StartTurnTail, StartTurnInside
    <2>4. AtRest /\ ~closed
      BY <2>1, <2>3, Alone
    <2>5. Calm("text") /\ HandsOn("text", {said + 1})
      BY <2>1, <2>2, <2>3, <2>4, StartTurnCalm
    <2>6. Moved("text")
      BY <2>1, <2>2, <2>3, <2>5 DEF Moved
    <2>7. QuietStep("text")
      BY <2>1, <2>3, <2>4, <2>5, <2>6 DEF QuietStep, NoNewTurn
    <2>8. QED
      BY <2>3, <2>7
  <1>5. CASE Silence
    <2>1. /\ Noted /\ UNCHANGED <<closed, spans, said>> /\ caller["silence"].pc = "ready"
          /\ StartAbort("silence", "silence", {}, "none")
      BY <1>5, NoteNoted DEF Silence
    <2>2. /\ "silence" \in Callers /\ RecordOK("silence", "aborting", "silence", {}, "none") /\ "silence" \in Goal
          /\ {} \in SUBSET Words /\ "none" \in Chunks \cup {"none"}
      BY DEF Callers, RecordOK, InsidePc, Goal
    <2>3. WentOn("silence") /\ caller'["silence"] = [pc |-> "aborting", goal |-> "silence", target |-> AbortTarget,
                                                  words |-> {}, chunk |-> "none"]
      BY <2>1, <2>2, AbortTail
    <2>4. "silence" \in Inside' /\ "silence" \notin Inside /\ caller["silence"].words = {}
      BY <1>1, <2>1, <2>2, <2>3 DEF Inside
    <2>5. \A t \in LiveTurns : t = turnTask
      BY <2>1, <2>2, <2>3, <2>4, Alone DEF AtRest
    <2>6. Calm("silence") /\ HandsOn("silence", {}) /\ caller'["silence"].goal = "silence"
      BY <2>1, <2>2, <2>5, AbortCalm
    <2>7. Moved("silence")
      BY <2>1, <2>2, <2>4, <2>6 DEF Moved
    <2>8. QuietStep("silence")
      BY <2>1, <2>3, <2>4, <2>6, <2>7 DEF QuietStep, NoNewTurn
    <2>9. QED
      BY <2>2, <2>8
  <1>6. CASE Flush
    <2>1. /\ Noted /\ UNCHANGED <<closed, said>> /\ caller["flush"].pc = "ready"
          /\ \/ spans = {} /\ NothingSaid("flush")
             \/ Commit("flush")
      BY <1>6, NoteNoted DEF Flush
    <2>2. "flush" \in Callers /\ "flush" \in Callers \ {"run"}
      BY <1>0
    <2>3. QuietStep("flush") \/ AsideStep("flush")
      BY <2>1, <2>2, NothingSaidQuiet, CommitQuiet
    <2>4. QED
      BY <2>2, <2>3
  <1>7. CASE GraceOver
    <2>1. Noted /\ UNCHANGED <<closed, said>> /\ caller["grace"].pc = "idle" /\ Commit("grace")
      BY <1>7, NoteNoted DEF GraceOver
    <2>2. "grace" \in Callers /\ "grace" \in Callers \ {"run"}
      BY <1>0
    <2>3. QuietStep("grace") \/ AsideStep("grace")
      BY <2>1, <2>2, CommitQuiet
    <2>4. QED
      BY <2>2, <2>3
  <1>8. CASE Close
    <2>1. ~closed /\ closed' /\ Noted /\ StartAbort("close", "leave", {}, "none")
      BY <1>8, NoteNoted DEF Close
    <2>2. "close" \in Callers /\ "close" \notin Inside
      BY <1>0, <2>1 DEF CallerInv, Inside
    <2>3. QuietStep("close")
      BY <2>1, <2>2, LeaveQuiet
    <2>4. QED
      BY <2>2, <2>3
  <1>9. QED
    BY <1>2, <1>3, <1>4, <1>5, <1>6, <1>7, <1>8

\* A caller that returns, or is gone for good.
LEMMA ReturnCalm ==
  ASSUME TypeOK, NEW c \in Callers, NEW r \in {Idle, Gone}, GoOn(c, r), UNCHANGED <<sm, turnTask, turn, sent>>,
         LiveTurns = {},
         \/ closed' \/ sm \in {"listening", "interrupted"}
         \/ c = "run" /\ r = Gone
  PROVE  Calm(c) /\ HandsOn(c, {}) /\ c \notin Inside' /\ caller'[c].words = {}
  <1>1. caller'[c] = r
    BY PipelineTypes DEF GoOn
  <1>2. r.words = {} /\ r.pc \in {"idle", "gone"} /\ Gone.pc = "gone"
    BY DEF Idle, Gone
  <1>3. c \notin Inside'
    BY <1>1, <1>2 DEF Inside
  <1>4. LiveTurns' = {}
    BY DEF LiveTurns, Live
  <1>5. AtRest'
    BY <1>1, <1>2, <1>4 DEF AtRest
  <1>6. QED
    BY <1>1, <1>2, <1>3, <1>5 DEF Calm, HandsOn, SameWords

\* The callers that wake up.
LEMMA WakeUpQuiet ==
  ASSUME TypeOK, CallerInv, QuietInv, NEW c \in Callers, WakeUp(c), ~clash'
  PROVE  QuietStep(c)
  <1> DEFINE me == caller[c]
  <1>0. /\ me \in Caller /\ me.words \in SUBSET Words /\ me.chunk \in Chunks \cup {"none"}
        /\ {} \in SUBSET Words /\ "none" \in Chunks \cup {"none"}
        /\ RecordOK(c, me.pc, me.goal, me.words, me.chunk)
        /\ c = "close" /\ me.pc # "idle" => closed
    BY PipelineTypes DEF Caller, CallerInv
  <1>1. /\ WentOn(c) /\ Noted /\ UNCHANGED <<closed, said>> /\ c \in Inside
        /\ me.pc \in {"aborting", "joining", "telling"}
    BY WakeUpStep, NoteNoted DEF CallerStep, WakeUp, Aborted, Joined, Told, Inside
  <1>2. Fits(me) /\ NoNewTurn(c)
    BY <1>1, Alone
  <1>3. ASSUME Aborted(c) PROVE QuietStep(c)
    <2>1. /\ me.pc = "aborting" /\ UNCHANGED spans /\ (me.target # 0 => ~Live(me.target))
          /\ \/ /\ me.goal = "interrupt"
                /\ EnterState(c, "interrupted", IF c = "run" THEN "hear" ELSE "supersede", me.words, me.chunk)
             \/ me.goal = "think" /\ Think(c, me.words)
             \/ me.goal = "silence" /\ sm # "listening" /\ EnterState(c, "listening", "rest", {}, "none")
             \/ me.goal = "silence" /\ sm = "listening" /\ Return(c)
             \/ me.goal = "leave" /\ GoOn(c, Gone) /\ UNCHANGED <<sm, turnTask, turn, sent>>
      BY <1>3 DEF Aborted, SilencedIfShowing
    <2>2. LiveTurns = {}
      BY <1>2, <2>1, PipelineTypes DEF Fits, LiveTurns
    <2>3. CASE /\ me.goal = "interrupt"
               /\ EnterState(c, "interrupted", IF c = "run" THEN "hear" ELSE "supersede", me.words, me.chunk)
      <3>1. PICK goal \in {"hear", "supersede"} : goal = IF c = "run" THEN "hear" ELSE "supersede"
        OBVIOUS
      <3>2. "interrupted" \in States /\ goal \in Goal /\ RecordOK(c, "telling", goal, me.words, me.chunk)
        BY <1>0, <2>1, <2>3, <3>1 DEF States, Goal, RecordOK, InsidePc
      <3>3. Legal("interrupted")
        BY <1>2, <2>1, <2>3 DEF Fits, Legal, Transitions
      <3>4. EnterState(c, "interrupted", goal, me.words, me.chunk)
        BY <2>3, <3>1
      <3>5. Calm(c) /\ HandsOn(c, me.words) /\ c \in Inside' /\ caller'[c].goal = goal
        <4> HIDE DEF me
        <4>1. QED
          BY <1>0, <2>2, <3>2, <3>3, <3>4, EnterCalm
      <3>6. NoNewTurn(c)'
        BY <1>1, <1>2, <2>3, <3>1, <3>5 DEF NoNewTurn
      <3>7. Moved(c)
        BY <1>0, <1>1, <2>1, <3>5 DEF Moved
      <3>8. QED
        BY <1>1, <3>5, <3>6, <3>7 DEF QuietStep
    <2>4. CASE me.goal = "think" /\ Think(c, me.words)
      <3>1. sm = "thinking" /\ ~closed /\ ~closed'
        BY <1>1, <1>2, <2>1, <2>4 DEF Fits, NoNewTurn
      <3>2. Calm(c) /\ HandsOn(c, me.words)
        <4> HIDE DEF me
        <4>1. QED
          BY <1>0, <2>2, <2>4, <3>1, ThinkCalm
      <3>3. Moved(c)
        BY <1>0, <1>1, <2>1, <3>2 DEF Moved
      <3>4. QED
        BY <1>1, <3>1, <3>2, <3>3 DEF QuietStep, NoNewTurn
    <2>5. CASE me.goal = "silence" /\ sm # "listening" /\ EnterState(c, "listening", "rest", {}, "none")
      <3>1. "listening" \in States /\ "rest" \in Goal /\ RecordOK(c, "telling", "rest", {}, "none")
        BY DEF States, Goal, RecordOK, InsidePc
      <3>2. Legal("listening")
        BY <2>5, PipelineTypes DEF Legal, Transitions, States
      <3>3. Calm(c) /\ HandsOn(c, {}) /\ c \in Inside' /\ caller'[c].goal = "rest"
        BY <1>0, <2>2, <2>5, <3>1, <3>2, EnterCalm
      <3>4. me.words = {}
        BY <1>0, <2>1, <2>5 DEF RecordOK, InsidePc
      <3>5. Moved(c)
        BY <1>0, <1>1, <2>1, <3>3, <3>4 DEF Moved
      <3>6. QED
        BY <1>1, <3>3, <3>5 DEF QuietStep, NoNewTurn
    <2>6. CASE \/ me.goal = "silence" /\ sm = "listening" /\ Return(c)
               \/ me.goal = "leave" /\ GoOn(c, Gone) /\ UNCHANGED <<sm, turnTask, turn, sent>>
      <3>1. me.words = {}
        BY <1>0, <2>1, <2>6 DEF RecordOK, InsidePc
      <3>2. Calm(c) /\ HandsOn(c, {}) /\ c \notin Inside'
        <4>1. CASE me.goal = "silence" /\ sm = "listening" /\ Return(c)
          BY <2>2, <4>1, ReturnCalm DEF Return
        <4>2. CASE me.goal = "leave" /\ GoOn(c, Gone) /\ UNCHANGED <<sm, turnTask, turn, sent>>
          <5>1. c = "run" \/ closed'
            BY <1>0, <1>1, <2>1, <4>2 DEF RecordOK
          <5>2. QED
            BY <2>2, <4>2, <5>1, ReturnCalm
        <4>3. QED
          BY <2>6, <4>1, <4>2
      <3>3. Moved(c)
        BY <1>0, <1>1, <2>1, <3>1, <3>2 DEF Moved
      <3>4. QED
        BY <1>1, <3>2, <3>3 DEF QuietStep
    <2>7. QED
      BY <2>1, <2>3, <2>4, <2>5, <2>6
  <1>4. ASSUME Joined(c) PROVE QuietStep(c)
    <2>1. /\ me.pc = "joining" /\ UNCHANGED spans /\ ~Live(me.target)
          /\ (turn[me.target].status = "done" /\ Think(c, me.words)) \/ turn[me.target].status = "cancelled"
      BY <1>4 DEF Joined
    <2>2. /\ LiveTurns = {} /\ sm = "listening" /\ turn[me.target].status # "cancelled"
      BY <1>2, <2>1 DEF Fits, LiveTurns
    <2>3. ~closed /\ ~closed'
      BY <1>0, <1>1, <1>2, <2>1 DEF RecordOK, NoNewTurn
    <2>4. Calm(c) /\ HandsOn(c, me.words)
      <3> HIDE DEF me
      <3>1. QED
        BY <1>0, <2>1, <2>2, <2>3, ThinkCalm
    <2>5. Moved(c)
      BY <1>0, <1>1, <2>1, <2>4 DEF Moved
    <2>6. QED
      BY <1>1, <2>3, <2>4, <2>5 DEF QuietStep, NoNewTurn
  <1>5. ASSUME Told(c) PROVE QuietStep(c)
    <2>1. /\ me.pc = "telling"
          /\ \/ me.goal = "hear" /\ Hear(me.chunk, me.words)
             \/ me.goal = "supersede" /\ Supersede(c, me.words) /\ UNCHANGED spans
             \/ me.goal = "begin" /\ Begin(c, me.words) /\ UNCHANGED spans
             \/ me.goal = "rest" /\ Return(c) /\ UNCHANGED spans
      BY <1>5 DEF Told
    <2>2. LiveTurns = {}
      BY <1>2, <2>1 DEF Fits
    <2>3. CASE me.goal = "hear" /\ Hear(me.chunk, me.words)
      <3>1. c = "run" /\ me.chunk # "end" /\ sm = "interrupted"
        BY <1>0, <1>2, <2>1, <2>3 DEF RecordOK, InsidePc, Fits
      <3>2. spans' = spans \cup me.words /\ Return(c)
        BY <2>3, <3>1 DEF Hear
      <3>3. Calm(c) /\ HandsOn(c, {}) /\ c \notin Inside'
        BY <2>2, <3>1, <3>2, ReturnCalm DEF Return
      <3>4. Moved(c)
        BY <1>0, <1>1, <3>2, <3>3 DEF Moved
      <3>5. QED
        BY <1>1, <3>3, <3>4 DEF QuietStep
    <2>4. CASE me.goal = "supersede" /\ Supersede(c, me.words) /\ UNCHANGED spans
      <3>1. ~closed /\ ~closed' /\ sm = "interrupted"
        BY <1>1, <1>2, <2>1, <2>4 DEF Fits, NoNewTurn
      <3>2. Calm(c) /\ HandsOn(c, me.words)
        <4> HIDE DEF me
        <4>1. QED
          BY <1>0, <2>2, <2>4, <3>1, SupersedeCalm
      <3>3. Moved(c)
        BY <1>0, <1>1, <2>4, <3>2 DEF Moved
      <3>4. QED
        BY <1>1, <3>1, <3>2, <3>3 DEF QuietStep, NoNewTurn
    <2>5. CASE me.goal = "begin" /\ Begin(c, me.words) /\ UNCHANGED spans
      <3>1. ~closed /\ ~closed' /\ sm = "thinking"
        BY <1>1, <1>2, <2>1, <2>5 DEF Fits, NoNewTurn
      <3>2. Calm(c) /\ HandsOn(c, me.words)
        <4> HIDE DEF me
        <4>1. QED
          BY <1>0, <2>2, <2>5, <3>1, BeginCalm
      <3>3. Moved(c)
        BY <1>0, <1>1, <2>5, <3>2 DEF Moved
      <3>4. QED
        BY <1>1, <3>1, <3>2, <3>3 DEF QuietStep, NoNewTurn
    <2>6. CASE me.goal = "rest" /\ Return(c) /\ UNCHANGED spans
      <3>1. me.words = {} /\ sm = "listening"
        BY <1>0, <1>2, <2>1, <2>6 DEF RecordOK, InsidePc, Fits
      <3>2. Calm(c) /\ HandsOn(c, {}) /\ c \notin Inside'
        BY <2>2, <2>6, <3>1, ReturnCalm DEF Return
      <3>3. Moved(c)
        BY <1>0, <1>1, <2>6, <3>1, <3>2 DEF Moved
      <3>4. QED
        BY <1>1, <3>2, <3>3 DEF QuietStep
    <2>7. QED
      BY <2>1, <2>3, <2>4, <2>5, <2>6
  <1>6. QED
    BY <1>3, <1>4, <1>5 DEF WakeUp

-----------------------------------------------------------------------------
(* While no two callers are inside at once: everything else.               *)

\* A turn's step: it is over, or it goes on and still matches what is shown.
LEMMA TurnMoves ==
  ASSUME TypeOK, NEW t \in DOMAIN turn, Sentence(t) \/ ReplyOver(t) \/ Fail(t) \/ TurnStep(t)
  PROVE  /\ TurnOnly /\ Live(t) /\ DOMAIN turn' = DOMAIN turn
         /\ \A d \in DOMAIN turn \ {t} : turn'[d] = turn[d]
         /\ \/ turn[t].status = "closing" /\ turn'[t].status = "cancelled" /\ sm' = sm
            \/ turn[t].status = "settling" /\ turn'[t].status = "done" /\ sm' = sm
            \/ /\ turn[t].status \notin {"closing", "settling"}
               /\ Matches(t) => Matches(t)' /\ Live(t)'
  <1> DEFINE Moves == \/ turn[t].status = "closing" /\ turn'[t].status = "cancelled" /\ sm' = sm
                      \/ turn[t].status = "settling" /\ turn'[t].status = "done" /\ sm' = sm
                      \/ /\ turn[t].status \notin {"closing", "settling"}
                         /\ Matches(t) => Matches(t)' /\ Live(t)'
  <1>1. turn[t] \in Turn /\ turn[t].audible \in BOOLEAN
    BY PipelineTypes DEF Turn
  <1>2. ASSUME NEW status \in TurnStatus, Advance(t, status)
        PROVE  /\ DOMAIN turn' = DOMAIN turn
               /\ \A d \in DOMAIN turn \ {t} : turn'[d] = turn[d]
               /\ turn'[t].status = status /\ turn'[t].audible = turn[t].audible
               /\ turn'[t].words = turn[t].words /\ turn'[t].stray = turn[t].stray /\ sent' = sent
    BY <1>1, <1>2 DEF Advance, Turn
  <1>3. ASSUME turn' = [turn EXCEPT ![t].audible = TRUE]
        PROVE  /\ DOMAIN turn' = DOMAIN turn
               /\ \A d \in DOMAIN turn \ {t} : turn'[d] = turn[d]
               /\ turn'[t].status = turn[t].status /\ turn'[t].audible
    BY <1>1, <1>3 DEF Turn
  <1>3a. ASSUME Typed(t)
         PROVE  /\ DOMAIN turn' = DOMAIN turn
                /\ \A d \in DOMAIN turn \ {t} : turn'[d] = turn[d]
                /\ turn[t].status = "typing" /\ turn'[t].status = "waiting"
                /\ turn'[t].audible = turn[t].audible /\ sm' = sm
    BY <1>1, <1>3a DEF Typed, Turn
  <1>4. /\ TurnOnly /\ Live(t)
        /\ \/ \E status \in TurnStatus : Advance(t, status)
           \/ turn' = [turn EXCEPT ![t].audible = TRUE]
           \/ Typed(t)
    BY DEF Sentence, Typed, Advance, ReplyOver, Fail, TurnStep, FirstAudio, SentenceOver, SpeechEnded, Settled, Settle, Recover,
           Cancelled, TurnStatus, Live
  <1>5. {"typing", "waiting", "synth", "ending", "settling", "failing", "closing", "cancelled", "done"} \subseteq TurnStatus
    BY DEF TurnStatus
  <1>6. ASSUME NEW status \in {"waiting", "synth", "failing"}, Advance(t, status), UNCHANGED sm,
               turn[t].status \in {"typing", "waiting", "synth"}
        PROVE  Moves
    BY <1>2, <1>5, <1>6 DEF Matches, Live
  <1>7. ASSUME Settle(t), turn[t].status = "ending" \/ (turn[t].status = "waiting" /\ ~turn[t].audible)
        PROVE  Moves
    <2>1. CASE sm' = "listening" /\ Advance(t, "settling")
      BY <1>2, <1>5, <1>7, <2>1 DEF Matches, Live
    <2>2. CASE ~Legal("listening")
      <3>1. sm \notin {"speaking", "thinking"}
        BY <2>2 DEF Legal, Transitions
      <3>2. ~Matches(t)
        BY <1>7, <3>1 DEF Matches
      <3>3. QED
        BY <1>7, <3>2
    <2>3. QED
      BY <1>7, <2>1, <2>2 DEF Settle
  <1> SUFFICES Moves
    BY <1>2, <1>3, <1>3a, <1>4
  <1>7a. CASE Typed(t)
    BY <1>3a, <1>7a DEF Matches, Live
  <1>8. CASE Sentence(t) \/ Fail(t) \/ SentenceOver(t)
    BY <1>6, <1>8 DEF Sentence, Fail, SentenceOver
  <1>9. CASE FirstAudio(t)
    <2>1. turn[t].status = "synth" /\ ~turn[t].audible
      BY <1>9 DEF FirstAudio
    <2>2. CASE sm' = "speaking" /\ turn' = [turn EXCEPT ![t].audible = TRUE]
      BY <1>3, <2>1, <2>2 DEF Matches, Live
    <2>3. CASE ~Legal("speaking")
      <3>1. ~Matches(t)
        BY <2>1, <2>3 DEF Matches, Legal, Transitions
      <3>2. QED
        BY <2>1, <3>1
    <2>4. QED
      BY <1>9, <2>2, <2>3 DEF FirstAudio
  <1>10. CASE ReplyOver(t)
    <2>1. turn[t].status = "waiting"
      BY <1>10 DEF ReplyOver
    <2>2. CASE turn[t].audible /\ Advance(t, "ending") /\ UNCHANGED sm
      BY <1>2, <1>5, <2>1, <2>2 DEF Matches, Live
    <2>3. CASE ~turn[t].audible /\ Settle(t)
      BY <1>7, <2>1, <2>3
    <2>4. QED
      BY <1>10, <2>2, <2>3 DEF ReplyOver
  <1>11. CASE SpeechEnded(t)
    <2>1. turn[t].status = "ending" /\ Settle(t)
      BY <1>11 DEF SpeechEnded
    <2> HIDE DEF Moves
    <2>2. QED
      BY <1>7, <2>1
  <1>12. CASE Settled(t)
    BY <1>2, <1>5, <1>12 DEF Settled
  <1>13. CASE Recover(t)
    <2>1. turn[t].status = "failing"
      BY <1>13 DEF Recover
    <2>2. CASE sm' = "listening" /\ Advance(t, "settling")
      BY <1>2, <1>5, <2>1, <2>2 DEF Matches, Live
    <2>3. CASE sm = "listening"
      <3>1. ~Matches(t)
        BY <1>1, <2>1, <2>3 DEF Matches
      <3>2. QED
        BY <2>1, <3>1
    <2>4. QED
      BY <1>13, <2>2, <2>3 DEF Recover, RecoverIfShowing
  <1>14. CASE Cancelled(t)
    BY <1>2, <1>5, <1>14 DEF Cancelled
  <1>15. QED
    BY <1>7a, <1>8, <1>9, <1>10, <1>11, <1>12, <1>13, <1>14 DEF TurnStep

\* It types its words or leaves them, and no word comes to be in two places.
LEMMA TurnWords ==
  ASSUME TypeOK, NEW t \in DOMAIN turn, Sentence(t) \/ ReplyOver(t) \/ Fail(t) \/ TurnStep(t)
  PROVE  /\ Taken' = Taken /\ (Apart => Apart')
         /\ \A d \in DOMAIN turn : turn'[d].stray = turn[d].stray
  <1>1. turn[t] \in Turn /\ DOMAIN turn' = DOMAIN turn /\ \A d \in DOMAIN turn \ {t} : turn'[d] = turn[d]
    BY PipelineTypes, TurnMoves
  <1>2. CASE Typed(t)
    <2>1. /\ turn'[t].words = {} /\ turn'[t].stray = turn[t].stray /\ sent' = sent \cup turn[t].words
      BY <1>1, <1>2 DEF Typed, Turn
    <2>2. Taken' = Taken
      <3>1. ASSUME NEW x \in Taken PROVE x \in Taken'
        <4>1. x \in sent \/ \E d \in DOMAIN turn : x \in turn[d].words
          BY <3>1 DEF Taken
        <4>2. x \in sent' \/ \E d \in DOMAIN turn \ {t} : x \in turn'[d].words
          BY <1>1, <2>1, <4>1
        <4>3. QED
          BY <1>1, <4>2 DEF Taken
      <3>2. ASSUME NEW x \in Taken' PROVE x \in Taken
        <4>1. x \in sent' \/ \E d \in DOMAIN turn : x \in turn'[d].words
          BY <1>1, <3>2 DEF Taken
        <4>2. x \in sent \/ \E d \in DOMAIN turn : x \in turn[d].words
          BY <1>1, <2>1, <4>1
        <4>3. QED
          BY <4>2 DEF Taken
      <3>3. QED
        BY <3>1, <3>2
    <2>3. ASSUME Apart PROVE Apart'
      <3>1. ASSUME NEW d \in DOMAIN turn
            PROVE  /\ turn'[d].words \cap sent' = {}
                   /\ \A u \in DOMAIN turn : u # d => turn'[d].words \cap turn'[u].words = {}
        <4>1. CASE d = t
          BY <2>1, <4>1
        <4>2. CASE d # t
          BY <1>1, <2>1, <2>3, <4>2 DEF Apart
        <4>3. QED
          BY <4>1, <4>2
      <3>2. QED
        BY <1>1, <3>1 DEF Apart
    <2>4. QED
      BY <1>1, <2>1, <2>2, <2>3
  <1>3. CASE ~Typed(t)
    <2>1. /\ sent' = sent
          /\ \/ \E status \in TurnStatus : Advance(t, status)
             \/ turn' = [turn EXCEPT ![t].audible = TRUE]
      BY <1>3 DEF Sentence, ReplyOver, Fail, TurnStep, FirstAudio, SentenceOver, SpeechEnded, Settled, Settle,
                  Recover, Cancelled, TurnStatus, Advance
    <2>2. turn'[t].words = turn[t].words /\ turn'[t].stray = turn[t].stray
      BY <1>1, <2>1 DEF Advance, Turn
    <2>3. \A d \in DOMAIN turn : turn'[d].words = turn[d].words
      BY <1>1, <2>2
    <2>4. SameWords
      BY <1>1, <2>1, <2>3 DEF SameWords
    <2>5. Taken' = Taken
      BY <1>1, <2>1, <2>3 DEF Taken
    <2>6. Apart => Apart'
      BY <2>4, TakenOn
    <2>7. QED
      BY <1>1, <2>2, <2>5, <2>6
  <1>4. QED
    BY <1>2, <1>3

\* Whoever waits for the turn is still right about it afterwards.
LEMMA TurnQuiet ==
  ASSUME TypeOK, QuietInv, NEW t \in DOMAIN turn, Sentence(t) \/ ReplyOver(t) \/ Fail(t) \/ TurnStep(t)
  PROVE  QuietInv'
  <1> SUFFICES ASSUME ~clash PROVE QuietInv'
    BY TurnMoves DEF QuietInv, TurnOnly, history
  <1> DEFINE Ends == \/ turn[t].status = "closing" /\ turn'[t].status = "cancelled" /\ sm' = sm
                     \/ turn[t].status = "settling" /\ turn'[t].status = "done" /\ sm' = sm
             GoesOn == /\ turn[t].status \notin {"closing", "settling"}
                       /\ Matches(t) => Matches(t)' /\ Live(t)'
  <1>1. /\ UNCHANGED <<closed, turnTask, caller>> /\ t \in LiveTurns /\ DOMAIN turn' = DOMAIN turn
        /\ \A d \in DOMAIN turn \ {t} : turn'[d] = turn[d]
        /\ Ends \/ GoesOn
    BY TurnMoves DEF TurnOnly, LiveTurns
  <1>2. Inside' = Inside
    BY <1>1 DEF Inside
  <1>3. ASSUME Ends
        PROVE  LiveTurns' = LiveTurns \ {t} /\ sm' = sm /\ turn[t].status \in {"closing", "settling"}
    BY <1>1, <1>3 DEF LiveTurns, Live
  <1>4. ASSUME NEW c \in Inside PROVE Fits(caller[c])' /\ NoNewTurn(c)'
    <2> DEFINE me == caller[c]
    <2>1. Fits(me) /\ NoNewTurn(c) /\ me.pc \in {"aborting", "joining", "telling"}
      BY DEF QuietInv, Inside
    <2>2. NoNewTurn(c)'
      BY <1>1, <2>1 DEF NoNewTurn
    <2>3. CASE me.pc = "aborting"
      <3>1. Ends /\ turn[t].status = "closing"
        BY <1>1, <2>1, <2>3 DEF Fits
      <3>2. \A d \in LiveTurns' : d = me.target /\ turn'[d].status = "closing"
        BY <1>1, <1>3, <2>1, <2>3, <3>1 DEF Fits, LiveTurns
      <3>3. QED
        BY <1>1, <1>3, <2>1, <2>2, <2>3, <3>1, <3>2 DEF Fits
    <2>4. CASE me.pc = "joining"
      <3>1. t = turnTask /\ turn[t].status \in {"settling", "done"} /\ turn[t].status # "done"
        BY <1>1, <2>1, <2>4 DEF Fits, LiveTurns, Live
      <3>2. Ends /\ turn'[turnTask'].status = "done"
        BY <1>1, <3>1
      <3>3. QED
        BY <1>1, <1>3, <2>1, <2>2, <2>4, <3>1, <3>2 DEF Fits
    <2>5. CASE me.pc = "telling"
      BY <1>1, <2>1, <2>5 DEF Fits
    <2>6. QED
      BY <2>1, <2>3, <2>4, <2>5
  <1>5. ASSUME Inside = {} PROVE AtRest'
    <2>1. AtRest /\ t = turnTask /\ Matches(t) /\ ~closed /\ LiveTurns = {t}
      BY <1>1, <1>5 DEF QuietInv, AtRest
    <2>2. CASE Ends
      <3>1. LiveTurns' = {} /\ sm' = "listening"
        BY <1>3, <2>1, <2>2 DEF Matches
      <3>2. QED
        BY <3>1 DEF AtRest
    <2>3. CASE GoesOn
      <3>1. Matches(t)' /\ Live(t)'
        BY <2>1, <2>3
      <3>2. LiveTurns' = {t}
        BY <1>1, <2>1, <3>1 DEF LiveTurns, Live
      <3>3. QED
        BY <1>1, <2>1, <3>1, <3>2 DEF AtRest
    <2>4. QED
      BY <1>1, <2>2, <2>3
  <1>6. \A c, d \in Inside' : c = d
    BY <1>2 DEF QuietInv
  <1>7. QED
    BY <1>2, <1>4, <1>5, <1>6 DEF QuietInv

\* What nobody inside the pipeline is touched by.
Inert ==
  /\ UNCHANGED <<sm, turnTask, turn, sent, spans, said, closed, history>>
  /\ \A c \in Callers :
       \/ caller'[c] = caller[c]
       \/ /\ c # "run" /\ caller[c].pc = "idle"
          /\ caller'[c] = [Idle EXCEPT !.pc = "ready"]

\* A hush or a mute creates a task; the socket goes away.
LEMMA InertSteps ==
  ASSUME TypeOK, SetHushed \/ SetMuted \/ Detach \/ UNCHANGED vars
  PROVE  Inert
  <1>1. ASSUME NEW c \in {"silence", "flush"}, caller[c].pc = "idle", GoOn(c, [Idle EXCEPT !.pc = "ready"]),
               UNCHANGED <<sm, turnTask, turn, sent, spans, said, closed, history>>
        PROVE  Inert
    <2>1. c \in Callers /\ c # "run"
      BY DEF Callers
    <2>2. caller'[c] = [Idle EXCEPT !.pc = "ready"] /\ \A d \in Callers \ {c} : caller'[d] = caller[d]
      BY <1>1, <2>1, PipelineTypes DEF GoOn
    <2>3. QED
      BY <1>1, <2>1, <2>2 DEF Inert
  <1>2. CASE SetHushed
    <2>1. UNCHANGED <<sm, turnTask, turn, sent, spans, said, closed, history>>
      BY <1>2 DEF SetHushed
    <2>2. CASE UNCHANGED caller
      BY <2>1, <2>2 DEF Inert
    <2>3. CASE caller["silence"].pc = "idle" /\ GoOn("silence", [Idle EXCEPT !.pc = "ready"])
      BY <1>1, <2>1, <2>3
    <2>4. QED
      BY <1>2, <2>2, <2>3 DEF SetHushed
  <1>3. CASE SetMuted
    BY <1>1, <1>3 DEF SetMuted
  <1>4. CASE Detach \/ UNCHANGED vars
    BY <1>4 DEF Detach, vars, history, Inert
  <1>5. QED
    BY <1>2, <1>3, <1>4

\* So both invariants hold on.
LEMMA InertQuiet ==
  ASSUME TypeOK, CallerInv, QuietInv, WordsInv, Inert
  PROVE  QuietInv' /\ WordsInv'
  <1>1. [Idle EXCEPT !.pc = "ready"].pc = "ready" /\ [Idle EXCEPT !.pc = "ready"].words = {}
    BY DEF Idle
  <1>2. ASSUME NEW c \in Callers
        PROVE  caller'[c].words = caller[c].words
    BY <1>1 DEF Inert, CallerInv, RecordOK, InsidePc
  <1>3. Inside' = Inside /\ \A c \in Inside : caller'[c] = caller[c]
    BY <1>1 DEF Inert, Inside
  <1>4. /\ UNCHANGED <<sm, turnTask, turn, sent, spans, said, closed, history>>
        /\ caller'["run"] = caller["run"] /\ clash' = clash
    BY DEF Inert, Callers, history
  <1>5. LiveTurns' = LiveTurns
    BY <1>4 DEF LiveTurns, Live
  <1>6. QuietInv'
    <2> SUFFICES ASSUME ~clash
                 PROVE  QuietInv'
      BY <1>4 DEF QuietInv
    <2>1. \A c, d \in Inside' : c = d
      BY <1>3 DEF QuietInv
    <2>2. \A c \in Inside' : Fits(caller[c])' /\ NoNewTurn(c)'
      BY <1>3, <1>4, <1>5 DEF QuietInv, Fits, NoNewTurn
    <2>3. Inside' = {} => AtRest'
      BY <1>3, <1>4, <1>5 DEF QuietInv, AtRest, Matches
    <2>4. QED
      BY <2>1, <2>2, <2>3 DEF QuietInv
  <1>7. WordsInv'
    BY <1>2, <1>4 DEF WordsInv, Taken, Apart
  <1>8. QED
    BY <1>6, <1>7

\* A step of the one caller inside leaves at most that one inside.
LEMMA QuietStepQuiet ==
  ASSUME TypeOK, CallerInv, QuietInv, WordsInv, NEW c \in Callers, QuietStep(c), ~clash'
  PROVE  QuietInv' /\ WordsInv'
  <1>1. /\ WentOn(c) /\ Calm(c) /\ (c \in Inside' => NoNewTurn(c)') /\ (closed => closed')
        /\ ~closed' => Moved(c)
    BY DEF QuietStep
  <1>2. /\ ~clash /\ \A d \in Callers \ {c} : d \notin Inside /\ d \notin Inside'
    BY Alone DEF QuietStep
  <1>3. Inside' \subseteq Callers
    BY DEF Inside
  <1>4. QuietInv'
    <2>1. \A d, e \in Inside' : d = e
      BY <1>2, <1>3
    <2>2. \A d \in Inside' : Fits(caller[d])' /\ NoNewTurn(d)'
      <3>1. SUFFICES ASSUME c \in Inside' PROVE Fits(caller[c])' /\ NoNewTurn(c)'
        BY <1>2, <1>3
      <3>2. QED
        BY <1>1, <3>1 DEF Calm
    <2>3. Inside' = {} => AtRest'
      BY <1>1 DEF Calm
    <2>4. QED
      BY <2>1, <2>2, <2>3 DEF QuietInv
  <1>5. WordsInv'
    <2> SUFFICES ASSUME ~closed' PROVE WordsInv'
      BY DEF WordsInv
    <2>1. /\ spans \cup Taken \subseteq 1..said /\ spans \cap Taken = {}
          /\ caller[c].words \subseteq 1..said
          /\ caller[c].words \cap (spans \cup Taken) = {}
          /\ \A w \in 1..said : w \in spans \/ w \in Taken \/ \E d \in Callers : w \in caller[d].words
          /\ Apart
      BY <1>1, <1>2 DEF WordsInv
    <2>2. \A d \in Callers \ {c} : caller[d].words = {} /\ caller'[d].words = {}
      BY <1>1, <1>2 DEF WentOn, CallerInv, RecordOK, Inside, InsidePc
    <2>3. \A w \in 1..said : w \in spans \/ w \in Taken \/ w \in caller[c].words
      BY <2>1, <2>2
    <2>4. said \in Nat /\ 1..(said + 1) = 1..said \cup {said + 1} /\ said + 1 \notin 1..said
      BY DEF TypeOK
    <2>5. /\ spans' \cup Taken' \cup caller'[c].words \subseteq 1..said'
          /\ spans' \cap Taken' = {} /\ caller'[c].words \cap (spans' \cup Taken') = {}
          /\ \A w \in 1..said' : w \in spans' \/ w \in Taken' \/ w \in caller'[c].words
          /\ Apart'
      <3>1. PICK w \in SUBSET Words :
              /\ HandsOn(c, w)
              /\ \/ spans' = spans /\ w = caller[c].words /\ said' = said
                 \/ spans' = spans \cup caller[c].words /\ w = {} /\ said' = said
                 \/ spans' = {} /\ w = spans /\ caller[c].words = {} /\ said' = said
                 \/ /\ caller[c].words = {} /\ said' = said + 1
                    /\ \/ spans' = spans /\ w = {said + 1}
                       \/ spans' = spans \cup {said + 1} /\ w = {}
        BY <1>1 DEF Moved
      <3>2. /\ spans' \cup w \cup Taken = 1..said'
            /\ spans' \cap Taken = {} /\ w \cap (spans' \cup Taken) = {}
        BY <2>1, <2>3, <2>4, <3>1
      <3>3. CASE caller'[c].words = w /\ SameWords
        <4>1. Taken' = Taken /\ Apart'
          BY <2>1, <3>3, TakenOn
        <4>2. QED
          BY <3>2, <3>3, <4>1
      <3>4. CASE caller'[c].words = {} /\ GivenTo(w)
        <4>1. w \cap Taken = {}
          BY <3>2
        <4>1a. Taken' = Taken \cup w /\ Apart'
          <5>1. Apart /\ GivenTo(w)
            BY <2>1, <3>4
          <5>2. QED
            BY <4>1, <5>1, GivenOn
        <4>2. QED
          BY <3>2, <3>4, <4>1a
      <3>5. QED
        BY <3>1, <3>3, <3>4 DEF HandsOn
    <2>6. QED
      BY <2>2, <2>5 DEF WordsInv
  <1>6. QED
    BY <1>4, <1>5

\* A step of a caller that is not inside leaves who is inside alone.
LEMMA AsideStepQuiet ==
  ASSUME TypeOK, CallerInv, QuietInv, WordsInv, NEW c \in Callers, AsideStep(c), ~clash, ~clash'
  PROVE  QuietInv' /\ WordsInv'
  <1>1. /\ UNCHANGED <<sm, turnTask, turn, sent, closed>> /\ \A d \in Callers \ {c} : caller'[d] = caller[d]
        /\ c \notin Inside /\ c \notin Inside' /\ caller[c].words = {} /\ caller'[c].words = {}
        /\ caller["run"].pc = "gone" <=> caller'["run"].pc = "gone"
        /\ \/ spans' = spans /\ said' = said
           \/ spans' = spans \cup {said + 1} /\ said' = said + 1
    BY DEF AsideStep, WentOn
  <1>2. Inside' = Inside /\ \A d \in Inside : caller'[d] = caller[d]
    BY <1>1 DEF Inside
  <1>3. LiveTurns' = LiveTurns
    BY <1>1 DEF LiveTurns, Live
  <1>4. QuietInv'
    <2>1. \A d, e \in Inside' : d = e
      BY <1>2 DEF QuietInv
    <2>2. \A d \in Inside' : Fits(caller[d])' /\ NoNewTurn(d)'
      BY <1>1, <1>2, <1>3 DEF QuietInv, Fits, NoNewTurn
    <2>3. Inside' = {} => AtRest'
      BY <1>1, <1>2, <1>3 DEF QuietInv, AtRest, Matches
    <2>4. QED
      BY <2>1, <2>2, <2>3 DEF QuietInv
  <1>5. WordsInv'
    <2> SUFFICES ASSUME ~closed' PROVE WordsInv'
      BY DEF WordsInv
    <2>1. /\ spans \cup Taken \subseteq 1..said /\ spans \cap Taken = {}
          /\ \A d \in Callers : /\ caller[d].words \subseteq 1..said
                                /\ caller[d].words \cap (spans \cup Taken) = {}
          /\ \A w \in 1..said : w \in spans \/ w \in Taken \/ \E d \in Callers : w \in caller[d].words
          /\ Taken' = Taken /\ Apart'
      BY <1>1 DEF WordsInv, Taken, Apart
    <2>2. \A d \in Callers : caller'[d].words = caller[d].words
      BY <1>1
    <2>3. said \in Nat /\ 1..(said + 1) = 1..said \cup {said + 1} /\ said + 1 \notin 1..said
      BY DEF TypeOK
    <2>4. QED
      BY <1>1, <2>1, <2>2, <2>3 DEF WordsInv
  <1>6. QED
    BY <1>4, <1>5

\* What is said of the pipeline while no two callers are inside at once, step by step.
LEMMA QuietStepAll ==
  TypeOK /\ CallerInv /\ QuietInv /\ WordsInv /\ [Next]_vars => QuietInv' /\ WordsInv'
  <1> SUFFICES ASSUME TypeOK, CallerInv, QuietInv, WordsInv, [Next]_vars
               PROVE  QuietInv' /\ WordsInv'
    OBVIOUS
  <1>1. clash => clash'
    <2>1. ASSUME NEW c \in Callers, CallerStep(c), clash PROVE clash'
      BY <2>1 DEF CallerStep, Noted, history
    <2>2. ASSUME NEW t \in DOMAIN turn, TurnAction(t), clash PROVE clash'
      BY <2>2 DEF TurnAction, TurnOnly, history
    <2>3. QED
      BY <2>1, <2>2, StepCases DEF Detach, vars, history
  <1>2. CASE clash'
    BY <1>2 DEF QuietInv, WordsInv
  <1>3. CASE ~clash'
    <2>1. ~clash
      BY <1>1, <1>3
    <2>2. ASSUME NEW c \in Callers, QuietStep(c) \/ AsideStep(c) PROVE QuietInv' /\ WordsInv'
      BY <1>3, <2>1, <2>2, QuietStepQuiet, AsideStepQuiet
    <2>3. CASE \E k \in Chunks : Chunk(k)
      <3>1. "run" \in Callers
        BY DEF Callers
      <3>2. QED
        BY <1>3, <2>2, <2>3, <3>1, ChunkQuiet
    <2>4. CASE RunEnds \/ RunCancelled \/ Text \/ Silence \/ Flush \/ GraceOver \/ Close
      BY <1>3, <2>2, <2>4, EntryQuiet
    <2>5. CASE SetHushed \/ SetMuted \/ Detach \/ UNCHANGED vars
      BY <2>5, InertSteps, InertQuiet
    <2>6. CASE \E c \in Callers : WakeUp(c)
      BY <1>3, <2>2, <2>6, WakeUpQuiet
    <2>7. CASE \E t \in DOMAIN turn : Sentence(t) \/ ReplyOver(t) \/ Fail(t) \/ TurnStep(t)
      <3>1. PICK t \in DOMAIN turn : Sentence(t) \/ ReplyOver(t) \/ Fail(t) \/ TurnStep(t)
        BY <2>7
      <3>2. QuietInv'
        BY <3>1, TurnQuiet
      <3>3. UNCHANGED <<spans, caller, said, clash, closed>> /\ Taken' = Taken /\ (Apart => Apart')
        BY <3>1, TurnMoves, TurnWords DEF TurnOnly, history
      <3>4. WordsInv'
        BY <3>3 DEF WordsInv
      <3>5. QED
        BY <3>2, <3>4
    <2>8. QED
      BY <2>3, <2>4, <2>5, <2>6, <2>7 DEF Next
  <1>4. QED
    BY <1>2, <1>3

\* And from the start.
LEMMA QuietAlways == Spec => [](TypeOK /\ CallerInv /\ QuietInv /\ WordsInv)
  <1>1. Init => QuietInv /\ WordsInv
    <2> SUFFICES ASSUME Init PROVE QuietInv /\ WordsInv
      OBVIOUS
    <2>1. \A c \in Callers : caller[c].pc = "idle" /\ caller[c].words = {}
      BY DEF Init, Idle
    <2>2. Inside = {} /\ LiveTurns = {} /\ sm = "listening"
      BY <2>1 DEF Init, Inside, LiveTurns
    <2>3. QuietInv
      BY <2>2 DEF QuietInv, AtRest
    <2>4. 1..said = {} /\ spans = {} /\ sent = {} /\ DOMAIN turn = {}
      BY DEF Init
    <2>5. Taken = {} /\ Apart
      BY <2>4 DEF Taken, Apart
    <2>5a. WordsInv
      BY <2>1, <2>4, <2>5 DEF WordsInv
    <2>6. QED
      BY <2>3, <2>5a
  <1>2. QED
    BY <1>1, PipelineAlways, QuietStepAll, PTL DEF Spec

\* User input supersedes the turn in flight: while no two callers are suspended in
\* the pipeline at once, at most one turn is alive, _turn_task or the one waited for.
THEOREM OneLiveTurnAlways == Spec => []OneLiveTurn
  <1>1. QuietInv => OneLiveTurn
    <2> SUFFICES ASSUME QuietInv, ~clash, NEW t \in LiveTurns
                 PROVE  t = turnTask \/ \E c \in Inside : caller[c].target = t
      BY DEF OneLiveTurn
    <2>1. CASE Inside = {}
      BY <2>1 DEF QuietInv, AtRest
    <2>2. ASSUME NEW c \in Inside PROVE t = turnTask \/ caller[c].target = t
      <3>1. Fits(caller[c]) /\ caller[c].pc \in {"aborting", "joining", "telling"}
        BY DEF QuietInv, Inside
      <3>2. QED
        BY <3>1 DEF Fits
    <2>3. QED
      BY <2>1, <2>2
  <1>2. QED
    BY <1>1, QuietAlways, PTL

\* With nobody inside, THINKING and SPEAKING have the current turn behind them, and
\* LISTENING and INTERRUPTED none but one that is about to return.
THEOREM StateMatchesTurnAlways == Spec => []StateMatchesTurn
  <1>1. TypeOK /\ QuietInv => StateMatchesTurn
    <2> SUFFICES ASSUME TypeOK, QuietInv, ~clash, ~closed, Inside = {}, caller["run"].pc # "gone"
                 PROVE  /\ sm \in {"thinking", "speaking"} =>
                             turnTask \in LiveTurns /\ (turn[turnTask].audible <=> sm = "speaking")
                        /\ sm \notin {"thinking", "speaking"} =>
                             \A t \in LiveTurns : turn[t].status = "settling"
      BY DEF StateMatchesTurn
    <2>1. AtRest
      BY DEF QuietInv
    <2>2. ASSUME NEW t \in LiveTurns
          PROVE  /\ turn[t] \in Turn /\ Live(t) /\ Matches(t)
                 /\ turn[t].status \in {"typing", "waiting", "synth", "ending", "settling", "failing"}
                 /\ turn[t].audible \in BOOLEAN
      <3>1. turn[t] \in Turn /\ Live(t) /\ Matches(t)
        BY <2>1, PipelineTypes DEF LiveTurns, AtRest
      <3>2. QED
        BY <3>1 DEF Turn, TurnStatus, Live, Matches
    <2>3. ASSUME sm \in {"thinking", "speaking"}
          PROVE  turnTask \in LiveTurns /\ (turn[turnTask].audible <=> sm = "speaking")
      <3>1. turnTask \in LiveTurns
        BY <2>1, <2>3 DEF AtRest
      <3>2. QED
        BY <2>2, <2>3, <3>1 DEF Matches
    <2>4. ASSUME sm \notin {"thinking", "speaking"}, NEW t \in LiveTurns
          PROVE  turn[t].status = "settling"
      BY <2>2, <2>4 DEF Matches
    <2>5. QED
      BY <2>3, <2>4
  <1>2. QED
    BY <1>1, QuietAlways, PTL

\* Everything the user said is in one place: in the spans, in the hands of one
\* caller, of one turn that has yet to type it, or typed by one turn.  No path
\* through barge-in, supersede or join repeats a word, and none drops one but with
\* a turn that was cut off before its text was typed.
THEOREM EveryWordInOnePlaceAlways == Spec => []EveryWordInOnePlace
  <1>1. TypeOK /\ CallerInv /\ QuietInv /\ WordsInv => EveryWordInOnePlace
    <2> SUFFICES ASSUME TypeOK, CallerInv, QuietInv, WordsInv, ~clash, ~closed, NEW w \in 1..said
                 PROVE  Cardinality({c \in Callers : w \in caller[c].words}) + Cardinality(Holders(w))
                          + (IF w \in spans THEN 1 ELSE 0) + (IF w \in sent THEN 1 ELSE 0) = 1
      BY DEF EveryWordInOnePlace
    <2> DEFINE InHand == {c \in Callers : w \in caller[c].words}
    <2>1. /\ w \in Taken <=> w \in sent \/ Holders(w) # {}
          /\ ~(w \in spans /\ w \in Taken)
          /\ w \in spans \cup Taken => InHand = {}
          /\ w \notin spans \cup Taken => \E c \in Callers : c \in InHand
      BY DEF WordsInv, Taken, Holders
    <2>2. \A c, d \in InHand : c = d
      <3>1. \A c \in InHand : c \in Inside
        BY DEF CallerInv, RecordOK, Inside, InsidePc
      <3>2. QED
        BY <3>1 DEF QuietInv
    <2>3. /\ \A t, u \in Holders(w) : t = u
          /\ w \in sent => Holders(w) = {}
      BY DEF WordsInv, Apart, Holders
    <2> HIDE DEF InHand
    <2> DEFINE OfTurns == Holders(w)
    <2> HIDE DEF OfTurns
    <2>4. /\ OfTurns = {} => Cardinality(OfTurns) = 0
          /\ InHand = {} => Cardinality(InHand) = 0
          /\ OfTurns # {} => Cardinality(OfTurns) = 1
          /\ InHand # {} => Cardinality(InHand) = 1
      <3>1. ASSUME NEW S, S # {}, \A x, y \in S : x = y PROVE Cardinality(S) = 1
        <4>1. PICK x : S = {x}
          BY <3>1
        <4>2. QED
          BY <4>1, FS_Singleton
      <3>2. QED
        BY <2>2, <2>3, <3>1, FS_EmptySet DEF OfTurns
    <2>5. Cardinality(InHand) + Cardinality(OfTurns)
            + (IF w \in spans THEN 1 ELSE 0) + (IF w \in sent THEN 1 ELSE 0) = 1
      <3>1. CASE w \in spans
        BY <2>1, <2>4, <3>1 DEF OfTurns
      <3>2. CASE w \in sent
        BY <2>1, <2>3, <2>4, <3>2 DEF OfTurns
      <3>3. CASE OfTurns # {}
        BY <2>1, <2>3, <2>4, <3>3 DEF OfTurns
      <3>4. CASE w \notin spans /\ w \notin sent /\ OfTurns = {}
        BY <2>1, <2>4, <3>4 DEF OfTurns
      <3>5. QED
        BY <3>1, <3>2, <3>3, <3>4
    <2>6. QED
      BY <2>5 DEF InHand, OfTurns
  <1>2. QED
    BY <1>1, QuietAlways, PTL

-----------------------------------------------------------------------------
(* After close(), whoever is suspended where: the turns still alive.       *)

\* A caller with the record r waits for turn t.
Holding(r, t) == r.pc \in {"aborting", "joining"} /\ r.target = t

\* A caller with the record r is on the way to a turn of its own.
Heading(r, c) ==
  /\ r.pc \in InsidePc
  /\ \/ r.goal \in {"supersede", "think", "begin"}
     \/ r.goal = "interrupt" /\ c # "run"

\* Nobody loses sight of a live turn that is not a stray.
Kept(t) == turn[t].stray \/ t = turnTask \/ \E c \in Callers : Holding(caller[c], t)

\* Once closed, only those that were caught, and text(), are on the way to a turn.
May(c) == closed => c \in caught \cup {"text"}

StrayInv ==
  /\ \A t \in LiveTurns : Kept(t)
  /\ closed => (turnTask \in LiveTurns => turn[turnTask].stray)
  /\ \A c \in Callers : Heading(caller[c], c) => May(c)

\* Caller c waits for no live turn, so it may go on.
Free(c) == \A t \in LiveTurns : ~Holding(caller[c], t)

\* What caller c leaves behind when it has gone on.
Tidy(c) ==
  /\ \A d \in Callers \ {c} : caller'[d] = caller[d]
  /\ \A t \in LiveTurns' : Kept(t)'
  /\ closed => (turnTask' \in LiveTurns' => turn'[turnTask'].stray)
  /\ Heading(caller'[c], c) => May(c)

\* Caller c goes on and leaves the turns alone.
LEMMA TidyOn ==
  ASSUME TypeOK, StrayInv, NEW c \in Callers, Free(c), NEW r, GoOn(c, r), UNCHANGED <<turnTask, turn>>,
         Heading(r, c) => May(c)
  PROVE  Tidy(c)
  <1>1. caller'[c] = r /\ \A d \in Callers \ {c} : caller'[d] = caller[d]
    BY PipelineTypes DEF GoOn
  <1>2. LiveTurns' = LiveTurns
    BY DEF LiveTurns, Live
  <1>3. ASSUME NEW t \in LiveTurns PROVE Kept(t)'
    <2>1. Kept(t) /\ ~Holding(caller[c], t)
      BY DEF StrayInv, Free
    <2>2. CASE \E d \in Callers : Holding(caller[d], t)
      <3>1. PICK d \in Callers \ {c} : Holding(caller[d], t)
        BY <2>1, <2>2
      <3>2. QED
        BY <1>1, <3>1 DEF Kept
    <2>3. QED
      BY <2>1, <2>2 DEF Kept
  <1>4. QED
    BY <1>1, <1>2, <1>3 DEF Tidy, StrayInv

\* It returns, or is gone.
LEMMA TidyReturn ==
  ASSUME TypeOK, StrayInv, NEW c \in Callers, Free(c), NEW r \in {Idle, Gone}, GoOn(c, r),
         UNCHANGED <<turnTask, turn>>
  PROVE  Tidy(c)
  <1>1. r.pc \notin InsidePc
    BY DEF Idle, Gone, InsidePc
  <1>2. ~Heading(r, c)
    BY <1>1 DEF Heading
  <1>3. QED
    BY <1>2, TidyOn

\* _abort_turn: the turn it takes from _turn_task is the one the caller waits for.
LEMMA TidyAbort ==
  ASSUME TypeOK, StrayInv, NEW c \in Callers, Free(c), NEW goal, NEW w, NEW k,
         StartAbort(c, goal, w, k), goal = "think" \/ (goal = "interrupt" /\ c # "run") => May(c),
         goal \in {"think", "interrupt", "silence", "leave"}
  PROVE  Tidy(c)
  <1> DEFINE r == [pc |-> "aborting", goal |-> goal, target |-> AbortTarget, words |-> w, chunk |-> k]
  <1>1. caller'[c] = r /\ \A d \in Callers \ {c} : caller'[d] = caller[d]
    BY PipelineTypes DEF GoOn, StartAbort
  <1>2. /\ turnTask' = 0 /\ DOMAIN turn' = DOMAIN turn
        /\ \A t \in DOMAIN turn : turn'[t] = IF t = AbortTarget THEN [turn[t] EXCEPT !.status = "closing"]
                                                               ELSE turn[t]
    BY DEF StartAbort
  <1>3. \A t \in DOMAIN turn : turn'[t].stray = turn[t].stray
    BY <1>2, PipelineTypes DEF Turn
  <1>4. ASSUME NEW t \in LiveTurns' PROVE Kept(t)'
    <2>1. t \in DOMAIN turn /\ t # 0
      BY <1>2, PipelineTypes DEF LiveTurns
    <2>2. CASE t = AbortTarget
      <3>1. Holding(caller'[c], t)
        BY <1>1, <2>2 DEF Holding
      <3>2. QED
        BY <3>1 DEF Kept
    <2>3. CASE t # AbortTarget
      <3>1. t \in LiveTurns
        BY <1>2, <2>1, <2>3 DEF LiveTurns, Live
      <3>2. t # turnTask
        BY <2>1, <2>3, <3>1 DEF AbortTarget, LiveTurns
      <3>3. Kept(t) /\ ~Holding(caller[c], t)
        BY <3>1 DEF StrayInv, Free
      <3>4. CASE \E d \in Callers : Holding(caller[d], t)
        <4>1. PICK d \in Callers \ {c} : Holding(caller[d], t)
          BY <3>3, <3>4
        <4>2. QED
          BY <1>1, <4>1 DEF Kept
      <3>5. CASE turn[t].stray
        BY <1>3, <2>1, <3>5 DEF Kept
      <3>6. QED
        BY <3>2, <3>3, <3>4, <3>5 DEF Kept
    <2>4. QED
      BY <2>2, <2>3
  <1>5. turnTask' \notin LiveTurns'
    BY <1>2, PipelineTypes DEF LiveTurns
  <1>6. Heading(caller'[c], c) => May(c)
    BY <1>1 DEF Heading
  <1>7. QED
    BY <1>1, <1>4, <1>5, <1>6 DEF Tidy

\* A new turn is _turn_task's; the one it takes the place of is a stray if it lives.
LEMMA TidyBegin ==
  ASSUME TypeOK, StrayInv, NEW c \in Callers, Free(c), NEW w \in SUBSET Words, Begin(c, w), May(c)
  PROVE  Tidy(c)
  <1>1. /\ caller'[c] = Idle /\ \A d \in Callers \ {c} : caller'[d] = caller[d]
        /\ turnTask' = Len(turn) + 1 /\ DOMAIN turn' = DOMAIN turn \cup {Len(turn) + 1}
        /\ \A t \in DOMAIN turn : turn'[t] = IF t = AbortTarget THEN [turn[t] EXCEPT !.stray = TRUE]
                                                               ELSE turn[t]
        /\ turn'[Len(turn) + 1] = NewTurn(c, w)
    BY BeginTail DEF WentOn
  <1>2. ASSUME NEW t \in LiveTurns' PROVE Kept(t)'
    <2>1. CASE t = turnTask'
      BY <2>1 DEF Kept
    <2>2. CASE t # turnTask'
      <3>1. t \in DOMAIN turn /\ turn[t] \in Turn /\ t # 0
        BY <1>1, <2>2, PipelineTypes DEF LiveTurns
      <3>2. t \in LiveTurns
        BY <1>1, <3>1 DEF LiveTurns, Live, Turn
      <3>3. CASE t = AbortTarget
        <4>1. turn'[t].stray
          BY <1>1, <3>1, <3>3 DEF Turn
        <4>2. QED
          BY <4>1 DEF Kept
      <3>4. CASE t # AbortTarget
        <4>1. t # turnTask /\ turn'[t] = turn[t]
          BY <1>1, <3>1, <3>2, <3>4 DEF AbortTarget, LiveTurns
        <4>2. Kept(t) /\ ~Holding(caller[c], t)
          BY <3>2 DEF StrayInv, Free
        <4>3. CASE \E d \in Callers : Holding(caller[d], t)
          <5>1. PICK d \in Callers \ {c} : Holding(caller[d], t)
            BY <4>2, <4>3
          <5>2. QED
            BY <1>1, <5>1 DEF Kept
        <4>4. CASE turn[t].stray
          BY <4>1, <4>4 DEF Kept
        <4>5. QED
          BY <4>1, <4>2, <4>3, <4>4 DEF Kept
      <3>5. QED
        BY <3>3, <3>4
    <2>3. QED
      BY <2>1, <2>2
  <1>3. closed => turn'[turnTask'].stray
    <2>1. turn'[turnTask'] = NewTurn(c, w)
      BY <1>1
    <2>2. NewTurn(c, w).stray = (closed /\ (c \in caught \/ c = "text"))
      BY DEF NewTurn
    <2>3. closed => c \in caught \/ c = "text"
      BY DEF May
    <2>4. QED
      BY <2>1, <2>2, <2>3
  <1>4. ~Heading(caller'[c], c)
    BY <1>1 DEF Heading, Idle, InsidePc
  <1>5. QED
    BY <1>1, <1>2, <1>3, <1>4 DEF Tidy

\* The tails that lead to these.
LEMMA TidyEnter ==
  ASSUME TypeOK, StrayInv, NEW c \in Callers, Free(c), NEW new, NEW goal, NEW w, NEW k,
         EnterState(c, new, goal, w, k), goal # "interrupt",
         goal \in {"supersede", "think", "begin"} => May(c)
  PROVE  Tidy(c)
  <1> DEFINE r == [pc |-> "telling", goal |-> goal, target |-> 0, words |-> w, chunk |-> k]
  <1>1. CASE GoOn(c, r) /\ UNCHANGED <<turnTask, turn, sent>>
    <2>1. Heading(r, c) => May(c)
      BY DEF Heading
    <2> HIDE DEF r
    <2>2. QED
      BY <1>1, <2>1, TidyOn
  <1>2. CASE StartAbort(c, "leave", {}, "none")
    BY <1>2, TidyAbort
  <1>3. CASE Return(c)
    BY <1>3, TidyReturn DEF Return
  <1>4. QED
    BY <1>1, <1>2, <1>3 DEF EnterState, Raise

LEMMA TidyThink ==
  ASSUME TypeOK, StrayInv, NEW c \in Callers, Free(c), NEW w \in SUBSET Words, Think(c, w), May(c)
  PROVE  Tidy(c)
  BY TidyBegin, TidyEnter DEF Think

LEMMA TidySupersede ==
  ASSUME TypeOK, StrayInv, NEW c \in Callers, Free(c), NEW w \in SUBSET Words, Supersede(c, w), May(c)
  PROVE  Tidy(c)
  <1> DEFINE r == [pc |-> "joining", goal |-> "think", target |-> turnTask, words |-> w, chunk |-> "none"]
  <1>1. CASE StartAbort(c, "think", w, "none")
    BY <1>1, TidyAbort
  <1>2. CASE GoOn(c, r) /\ UNCHANGED <<sm, turnTask, turn, sent>>
    BY <1>2, TidyOn
  <1>3. CASE Think(c, w)
    BY <1>3, TidyThink
  <1>4. QED
    BY <1>1, <1>2, <1>3 DEF Supersede

LEMMA TidyStartTurn ==
  ASSUME TypeOK, StrayInv, NEW c \in Callers, Free(c), NEW w \in SUBSET Words, StartTurn(c, w), May(c)
  PROVE  Tidy(c)
  BY TidyAbort, TidySupersede DEF StartTurn

\* _commit asks whether the pipeline is closed; a bare end of speech begins nothing.
LEMMA TidyCommit ==
  ASSUME TypeOK, StrayInv, NEW c \in Callers, Free(c), Commit(c)
  PROVE  Tidy(c)
  <1>1. CASE MayCommit /\ StartTurn(c, spans)
    BY <1>1, TidyStartTurn, PipelineTypes DEF MayCommit, May
  <1>2. CASE Return(c)
    BY <1>2, TidyReturn DEF Return
  <1>3. QED
    BY <1>1, <1>2 DEF Commit

LEMMA TidyNothingSaid ==
  ASSUME TypeOK, StrayInv, NEW c \in Callers, Free(c), NothingSaid(c)
  PROVE  Tidy(c)
  <1>1. CASE EnterState(c, "listening", "rest", {}, "none")
    BY <1>1, TidyEnter
  <1>2. CASE Return(c)
    BY <1>2, TidyReturn DEF Return
  <1>3. QED
    BY <1>1, <1>2 DEF NothingSaid

LEMMA TidyHear ==
  ASSUME TypeOK, StrayInv, NEW k, NEW w, Free("run"), Hear(k, w)
  PROVE  Tidy("run")
  <1>1. "run" \in Callers
    BY DEF Callers
  <1>2. CASE NothingSaid("run")
    BY <1>1, <1>2, TidyNothingSaid
  <1>3. CASE Return("run")
    BY <1>1, <1>3, TidyReturn DEF Return
  <1>4. QED
    BY <1>2, <1>3 DEF Hear

\* Every caller but close() leaves things tidy.
LEMMA TidyStep ==
  ASSUME TypeOK, CallerInv, StrayInv,
         \/ \E k \in Chunks : Chunk(k)
         \/ RunEnds \/ RunCancelled \/ Text \/ Silence \/ Flush \/ GraceOver
         \/ \E c \in Callers : WakeUp(c)
  PROVE  \E c \in Callers : Tidy(c) /\ closed' = closed /\ NoteClash
  <1>0. {"run", "text", "grace", "flush", "silence"} \subseteq Callers
    BY DEF Callers
  <1>1. ASSUME NEW c \in Callers, caller[c].pc \in {"idle", "ready", "telling"} PROVE Free(c)
    BY <1>1 DEF Free, Holding
  <1>2. CASE \E k \in Chunks : Chunk(k)
    <2>1. PICK k \in Chunks : Chunk(k)
      BY <1>2
    <2> DEFINE w == IF k \in {"final", "finalEnd"} THEN {said + 1} ELSE {}
    <2>2. /\ Free("run") /\ closed' = closed /\ NoteClash
          /\ StartAbort("run", "interrupt", w, k) \/ Hear(k, w)
      BY <1>0, <1>1, <2>1 DEF Chunk
    <2> HIDE DEF w
    <2>3. QED
      BY <1>0, <2>2, TidyAbort, TidyHear
  <1>3. CASE RunEnds \/ RunCancelled
    <2>1. Free("run") /\ StartAbort("run", "leave", {}, "none") /\ closed' = closed /\ NoteClash
      BY <1>0, <1>1, <1>3 DEF RunEnds, RunCancelled
    <2>2. QED
      BY <1>0, <2>1, TidyAbort
  <1>4. CASE Text
    <2>1. said + 1 \in 1..MaxWords
      BY <1>4, AudioPipelineAssumption DEF Text, TypeOK
    <2>2. /\ Free("text") /\ StartTurn("text", {said + 1}) /\ closed' = closed /\ NoteClash
          /\ {said + 1} \in SUBSET Words /\ May("text")
      BY <1>0, <1>1, <1>4, <2>1 DEF Text, AtSocket, Words, May
    <2>3. QED
      BY <1>0, <2>2, TidyStartTurn
  <1>5. CASE Silence
    <2>1. Free("silence") /\ StartAbort("silence", "silence", {}, "none") /\ closed' = closed /\ NoteClash
      BY <1>0, <1>1, <1>5 DEF Silence
    <2>2. QED
      BY <1>0, <2>1, TidyAbort
  <1>6. CASE Flush
    <2>1. /\ Free("flush") /\ closed' = closed /\ NoteClash
          /\ NothingSaid("flush") \/ Commit("flush")
      BY <1>0, <1>1, <1>6 DEF Flush
    <2>2. QED
      BY <1>0, <2>1, TidyNothingSaid, TidyCommit
  <1>7. CASE GraceOver
    <2>1. Free("grace") /\ closed' = closed /\ NoteClash /\ Commit("grace")
      BY <1>0, <1>1, <1>7 DEF GraceOver
    <2>2. QED
      BY <1>0, <2>1, TidyCommit
  <1>8. ASSUME NEW c \in Callers, WakeUp(c) PROVE Tidy(c) /\ closed' = closed /\ NoteClash
    <2> DEFINE me == caller[c]
    <2>0. /\ me.words \in SUBSET Words /\ me \in Caller
          /\ RecordOK(c, me.pc, me.goal, me.words, me.chunk)
          /\ Heading(me, c) => May(c)
      BY PipelineTypes DEF Caller, CallerInv, StrayInv
    <2>1. CASE Aborted(c)
      <3>1. Free(c)
        <4>1. ASSUME NEW t \in LiveTurns PROVE ~Holding(caller[c], t)
          <5>1. Live(t) /\ t # 0
            BY PipelineTypes DEF LiveTurns
          <5>2. QED
            BY <2>1, <5>1 DEF Aborted, Holding
        <4>2. QED
          BY <4>1 DEF Free
      <3>2. me.pc = "aborting" /\ me.pc \in InsidePc /\ closed' = closed /\ NoteClash
        BY <2>1 DEF Aborted, InsidePc
      <3>3. CASE /\ me.goal = "interrupt"
                 /\ EnterState(c, "interrupted", IF c = "run" THEN "hear" ELSE "supersede", me.words, me.chunk)
        <4>1. c # "run" => May(c)
          BY <2>0, <3>2, <3>3 DEF Heading
        <4> DEFINE goal == IF c = "run" THEN "hear" ELSE "supersede"
        <4>2. goal # "interrupt" /\ (goal \in {"supersede", "think", "begin"} => May(c))
          BY <4>1
        <4>3. EnterState(c, "interrupted", goal, me.words, me.chunk)
          BY <3>3
        <4> HIDE DEF goal
        <4>4. QED
          BY <3>1, <3>2, <4>2, <4>3, TidyEnter
      <3>4. CASE me.goal = "think" /\ Think(c, me.words)
        <4>1. May(c)
          BY <2>0, <3>2, <3>4 DEF Heading
        <4>2. QED
          BY <2>0, <3>1, <3>2, <3>4, <4>1, TidyThink
      <3>5. CASE EnterState(c, "listening", "rest", {}, "none") \/ Return(c)
        BY <3>1, <3>2, <3>5, TidyEnter, TidyReturn DEF Return
      <3>6. CASE GoOn(c, Gone) /\ UNCHANGED <<sm, turnTask, turn, sent>>
        BY <3>1, <3>2, <3>6, TidyReturn
      <3>7. QED
        BY <2>1, <3>3, <3>4, <3>5, <3>6 DEF Aborted
    <2>2. CASE Joined(c)
      <3>1. Free(c)
        <4>1. ASSUME NEW t \in LiveTurns PROVE ~Holding(caller[c], t)
          BY <2>2 DEF Joined, Holding, LiveTurns
        <4>2. QED
          BY <4>1 DEF Free
      <3>2. me.pc = "joining" /\ me.pc \in InsidePc /\ closed' = closed /\ NoteClash /\ me.goal = "think"
        BY <2>0, <2>2 DEF Joined, InsidePc, RecordOK
      <3>3. CASE Think(c, me.words)
        <4>1. May(c)
          BY <2>0, <3>2 DEF Heading
        <4>2. QED
          BY <2>0, <3>1, <3>2, <3>3, <4>1, TidyThink
      <3>4. CASE GoOn(c, IF c = "text" THEN Gone ELSE Idle) /\ UNCHANGED <<sm, turnTask, turn, sent>>
        BY <3>1, <3>2, <3>4, TidyReturn
      <3>5. QED
        BY <2>2, <3>3, <3>4 DEF Joined
    <2>3. CASE Told(c)
      <3>1. me.pc = "telling" /\ me.pc \in InsidePc /\ Free(c) /\ closed' = closed /\ NoteClash
        BY <1>1, <2>3 DEF Told, InsidePc
      <3>2. CASE me.goal = "hear" /\ Hear(me.chunk, me.words)
        <4>1. c = "run"
          BY <2>0, <3>1, <3>2 DEF RecordOK
        <4>2. QED
          BY <3>1, <3>2, <4>1, TidyHear
      <3>3. CASE me.goal = "supersede" /\ Supersede(c, me.words)
        BY <2>0, <3>1, <3>3, TidySupersede DEF Heading
      <3>4. CASE me.goal = "begin" /\ Begin(c, me.words)
        BY <2>0, <3>1, <3>4, TidyBegin DEF Heading
      <3>5. CASE Return(c)
        BY <3>1, <3>5, TidyReturn DEF Return
      <3>6. QED
        BY <2>3, <3>2, <3>3, <3>4, <3>5 DEF Told
    <2>4. QED
      BY <1>8, <2>1, <2>2, <2>3 DEF WakeUp
  <1>9. QED
    BY <1>2, <1>3, <1>4, <1>5, <1>6, <1>7, <1>8

\* No step makes a live turn that nobody would find, but for the strays.
LEMMA StrayStep ==
  TypeOK /\ CallerInv /\ StrayInv /\ [Next]_vars => StrayInv'
  <1> SUFFICES ASSUME TypeOK, CallerInv, StrayInv, [Next]_vars PROVE StrayInv'
    OBVIOUS
  <1>1. ASSUME NEW c \in Callers, Tidy(c), closed' = closed, NoteClash PROVE StrayInv'
    <2>1. ASSUME NEW d \in Callers, Heading(caller'[d], d) PROVE May(d)'
      <3>1. May(d)
        BY <1>1, <2>1 DEF Tidy, StrayInv
      <3>2. d \in Inside'
        BY <2>1 DEF Heading, Inside, InsidePc
      <3>3. QED
        BY <1>1, <3>1, <3>2 DEF May, NoteClash, Note
    <2>2. QED
      BY <1>1, <2>1 DEF Tidy, StrayInv
  <1>2. CASE \/ \E k \in Chunks : Chunk(k)
             \/ RunEnds \/ RunCancelled \/ Text \/ Silence \/ Flush \/ GraceOver
             \/ \E c \in Callers : WakeUp(c)
    BY <1>1, <1>2, TidyStep
  <1>3. CASE Close
    <2>1. StartAbort("close", "leave", {}, "none") /\ Note(Inside) /\ "close" \in Callers
      BY <1>3 DEF Close, Callers
    <2>2. Free("close")
      BY <1>3 DEF Close, CallerInv, Free, Holding, Callers
    <2>3. Tidy("close")
      BY <2>1, <2>2, TidyAbort
    <2>4. turnTask' \notin LiveTurns'
      BY <2>1, PipelineTypes DEF StartAbort, LiveTurns
    <2>5. ASSUME NEW d \in Callers, Heading(caller'[d], d) PROVE May(d)'
      <3>1. d # "close"
        BY <2>1, <2>5, PipelineTypes DEF StartAbort, GoOn, Heading
      <3>2. d \in Inside /\ d \in Inside'
        BY <2>3, <2>5, <3>1 DEF Tidy, Heading, Inside, InsidePc
      <3>3. QED
        BY <2>1, <3>2 DEF May, Note
    <2>6. QED
      BY <2>3, <2>4, <2>5 DEF Tidy, StrayInv
  <1>4. CASE SetHushed \/ SetMuted \/ Detach \/ UNCHANGED vars
    <2>1. Inert
      BY <1>4, InertSteps
    <2>2. UNCHANGED <<turnTask, turn, closed, caught>> /\ LiveTurns' = LiveTurns
      BY <2>1 DEF Inert, history, LiveTurns, Live
    <2>3. ASSUME NEW c \in Callers
          PROVE  caller'[c] = caller[c] \/ (caller[c].pc = "idle" /\ caller'[c].pc = "ready")
      BY <2>1 DEF Inert, Idle
    <2>4. \A t \in LiveTurns : Kept(t)'
      BY <2>2, <2>3 DEF StrayInv, Kept, Holding
    <2>5. \A c \in Callers : Heading(caller'[c], c) => May(c)'
      BY <2>2, <2>3 DEF StrayInv, Heading, InsidePc, May
    <2>6. QED
      BY <2>2, <2>4, <2>5 DEF StrayInv
  <1>5. CASE \E t \in DOMAIN turn : Sentence(t) \/ ReplyOver(t) \/ Fail(t) \/ TurnStep(t)
    <2>1. PICK t \in DOMAIN turn : Sentence(t) \/ ReplyOver(t) \/ Fail(t) \/ TurnStep(t)
      BY <1>5
    <2>2. /\ UNCHANGED <<turnTask, caller, closed, caught>> /\ Live(t)
          /\ DOMAIN turn' = DOMAIN turn /\ \A d \in DOMAIN turn \ {t} : turn'[d] = turn[d]
          /\ \A d \in DOMAIN turn : turn'[d].stray = turn[d].stray
      BY <2>1, TurnMoves, TurnWords DEF TurnOnly, history
    <2>3. LiveTurns' \subseteq LiveTurns
      BY <2>2 DEF LiveTurns, Live
    <2>4. \A d \in LiveTurns' : Kept(d)'
      BY <2>2, <2>3 DEF StrayInv, Kept, LiveTurns
    <2>5. closed' => (turnTask' \in LiveTurns' => turn'[turnTask'].stray)
      BY <2>2, <2>3 DEF StrayInv, LiveTurns
    <2>6. QED
      BY <2>2, <2>4, <2>5 DEF StrayInv, May
  <1>6. QED
    BY <1>2, <1>3, <1>4, <1>5 DEF Next

\* Once close() has come and nobody is suspended in the pipeline any more, the only
\* turns alive are strays: those of a commit, an abort or a join that was suspended
\* while close() ran, of a text that came later, or left behind by another turn.
THEOREM ClosedIsQuietAlways == Spec => []ClosedIsQuiet
  <1>1. Init => StrayInv
    <2> SUFFICES ASSUME Init PROVE StrayInv
      OBVIOUS
    <2>1. LiveTurns = {} /\ ~closed /\ \A c \in Callers : caller[c].pc = "idle"
      BY DEF Init, Idle, LiveTurns
    <2>2. QED
      BY <2>1 DEF StrayInv, Heading, InsidePc
  <1>2. StrayInv => ClosedIsQuiet
    <2> SUFFICES ASSUME StrayInv, closed, Inside = {}, NEW t \in LiveTurns PROVE turn[t].stray
      BY DEF ClosedIsQuiet
    <2>1. \A c \in Callers : ~Holding(caller[c], t)
      BY DEF Inside, Holding
    <2>2. QED
      BY <2>1 DEF StrayInv, Kept
  <1>3. QED
    BY <1>1, <1>2, StrayStep, PipelineAlways, PTL DEF Spec

=============================================================================
