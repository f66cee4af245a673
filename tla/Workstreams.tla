------------------------------ MODULE Workstreams ------------------------------
(***************************************************************************)
(* WorkstreamManager (src/remote_workstreams/server/workstreams.py): the   *)
(* workstreams, the planners and injectors that feed them from the         *)
(* conversation, and the cards, over the windows of Substrate and next to  *)
(* the conversation of Bootstrap.  Every operation is a task that is       *)
(* suspended at each tmux command and at each poll; a crash of the server  *)
(* can come between any two steps, and rows and windows survive it.        *)
(*                                                                         *)
(* Titles, prompts and file contents are left out: the name a plan's title *)
(* gives is any of Names.  The lines of the conversation a planner or an   *)
(* injector is told of are those between the marker and the end.           *)
(***************************************************************************)
EXTENDS Bootstrap

CONSTANTS
  Greets,    \* a role skill is set: its greeting is what shows a workstream is ready
  PlanOn,    \* whether a planner runs on Codex, as the settings may say,
  InjectOn,  \* and an injector
  Before     \* the workstreams that are known when the first server starts

ASSUME WorkstreamsAssumption ==
  /\ Greets \in BOOLEAN /\ PlanOn \subseteq BOOLEAN /\ InjectOn \subseteq BOOLEAN
  /\ Before \subseteq Names
  /\ IsFiniteSet(Names) /\ Cardinality(Names) < MaxSessions  \* room for Init

Become(t, r) == task' = [task EXCEPT ![t] = r]

Aside == UNCHANGED <<db, mem, up, lines, done, events>>

Taken(ws) == {n \in Names : ws[n] # None}

(* A server starts over a store at rest: nothing recorded yet, or a        *)
(* conversation and workstreams, with their windows or, after the machine  *)
(* was restarted, without.                                                 *)
FirstId == CHOOSE f \in [Names -> 2..(Cardinality(Names) + 1)] :
             \A m, n \in Names : f[m] = f[n] => m = n

Running(name, sess, codex) ==
  [name |-> name, sess |-> sess, codex |-> codex, at |-> "on", draft |-> {}]

Init ==
  \E convo \in {None, 1}, engine \in Engines, marker \in 0..1, k \in 0..1, restarted \in BOOLEAN :
    /\ marker <= k /\ k <= MaxLines
    /\ LET S == IF convo = None THEN {} ELSE Before
       IN /\ convo = None => k = 0 /\ restarted
          /\ db = [convo |-> convo, engine |-> engine, marker |-> marker, pick |-> engine,
                   ws |-> [n \in Names |-> IF n \in S THEN [sess |-> FirstId[n], status |-> "running"]
                                           ELSE None]]
          /\ lines = [s \in Sessions |-> IF s = 1 THEN k ELSE 0]
          /\ windows = IF restarted THEN {}
                       ELSE {Running("convo", 1, engine = "codex")}
                            \cup {Running(n, FirstId[n], n \in CodexNames) : n \in S}
    /\ done = [told |-> 1..marker, lost |-> {}]
    /\ buffer = <<>> /\ past = {} /\ mem = Forgotten /\ up = "down" /\ events = 0
    /\ task = [t \in Procs |-> Idle]

-----------------------------------------------------------------------------
(* push_cards, and run() that calls it again and again.  The iterator over *)
(* the dictionary raises when the dictionary's length is not what it was.  *)

(* One task after push_cards: run() sleeps, a button's task is over.       *)
Pushed(t) == IF t = Status THEN [Idle EXCEPT !.op = "status", !.pc = "sleep"] ELSE Idle

CardFor(t, ws, n, seen, size) ==
  [Idle EXCEPT !.op = IF t = Status THEN "status" ELSE "cards", !.pc = "card", !.name = n,
               !.old = ws[n], !.seen = seen \cup {n}, !.size = size]

(* The process's next await: the first card, or none.                      *)
PushCards(t, ws) ==
  IF Taken(ws) = {} THEN {Pushed(t)}
  ELSE {CardFor(t, ws, n, {}, Cardinality(Taken(ws))) : n \in Taken(ws)}

Died(t) == IF t = Status THEN [Idle EXCEPT !.op = "status", !.pc = "dead"] ELSE Idle

NextCard(t, ws) ==
  LET rest == Taken(ws) \ task[t].seen
  IN CASE Cardinality(Taken(ws)) # task[t].size -> {Died(t)}
       [] rest = {} -> {Pushed(t)}
       [] OTHER -> {CardFor(t, ws, n, task[t].seen, task[t].size) : n \in rest}

Wake ==
  /\ task[Status].pc = "sleep"
  /\ Taken(mem.ws) # {}
  /\ \E r \in PushCards(Status, mem.ws) : Become(Status, r)
  /\ UNCHANGED <<windows, buffer, past, db, mem, up, lines, done, events>>

WithStatus(ws, n, status) ==
  IF ws[n] = None THEN ws ELSE [ws EXCEPT ![n].status = status]

(* Is what the task read before its await still what the name stands for?  *)
SameObject(t) == mem.ws[task[t].name] # None /\ mem.ws[task[t].name].sess = task[t].old.sess

(* alive() has answered for the workstream the task holds: it writes the   *)
(* status to that object, and to the row of that name.                     *)
Card(t) ==
  /\ task[t].pc = "card"
  /\ LET n      == task[t].name
         status == IF Alive(n) THEN "running" ELSE "gone"
         was    == IF SameObject(t) THEN mem.ws[n].status ELSE task[t].old.status
         ws     == IF SameObject(t) THEN WithStatus(mem.ws, n, status) ELSE mem.ws
     IN /\ mem' = [mem EXCEPT !.ws = ws]
        /\ db' = IF status = was THEN db ELSE [db EXCEPT !.ws = WithStatus(db.ws, n, status)]
        /\ \E r \in NextCard(t, ws) : Become(t, r)
  /\ UNCHANGED <<windows, buffer, past, up, lines, done, events>>

-----------------------------------------------------------------------------
(* The buttons, up to their first await.                                   *)

Begin(t, r) ==
  /\ Tap(t)
  /\ task' = [task EXCEPT ![t] = r]
  /\ UNCHANGED <<windows, buffer, past, mem, up, lines, done>>

(* A planner or an injector, of the engine the settings say, is spawned    *)
(* over the lines from the marker on.                                      *)
Passthrough(op, stage, codex) ==
  [Idle EXCEPT !.op = op, !.stage = stage, !.pc = "open", !.codex = codex, !.convo = mem.convo,
               !.since = db.marker, !.cur = lines[mem.convo]]

NewWorkstream(t, codex) ==
  /\ Begin(t, Passthrough("new", "plan", codex))
  /\ db' = [db EXCEPT !.marker = lines[mem.convo]]

SendTo(t, n, codex) ==
  /\ n \in Taken(mem.ws)
  /\ Begin(t, [Passthrough("send", "inject", codex) EXCEPT !.name = n])
  /\ UNCHANGED db

End(t, n) ==
  /\ n \in Taken(mem.ws)
  /\ Begin(t, [Idle EXCEPT !.op = "end", !.pc = "kill", !.name = n, !.old = mem.ws[n]])
  /\ UNCHANGED db

(* Text, or /compact, into a workstream.                                   *)
Input(t, n, slash) ==
  /\ n \in Taken(mem.ws)
  /\ Begin(t, [Idle EXCEPT !.op = "input", !.name = n, !.pc = SendVia(n \in CodexNames, slash)])
  /\ UNCHANGED db

(* A voice turn's text, or /compact, into the conversation.                *)
Say(t, slash) ==
  /\ Begin(t, [Idle EXCEPT !.op = "input", !.stage = "convo",
                           !.pc = SendVia(db.engine = "codex", slash)])
  /\ UNCHANGED db

-----------------------------------------------------------------------------
(* The planner, the injector, and the new workstream's session.            *)

SessionUp(s) == \E w \in windows : w.sess = s /\ w.at = "on"

(* _await_file reads what the planner or injector wrote, or times out.     *)
Answered(t) ==
  /\ task[t].pc = "await" /\ SessionUp(task[t].sess)
  /\ Become(t, [task[t] EXCEPT !.got = TRUE, !.pc = "kill"])
  /\ UNCHANGED <<windows, buffer, past>> /\ Aside

TimedOut(t) ==
  /\ task[t].pc \in {"await", "ready"}
  /\ Become(t, [task[t] EXCEPT !.pc = "kill"])
  /\ UNCHANGED <<windows, buffer, past>> /\ Aside

(* _await_ready sees a greeting in the transcript.  What Codex rollout the *)
(* spawn claimed, it is that of an agent that came up.                     *)
Greeted(t) == task[t].codex \/ SessionUp(task[t].sess)

(* The plan is the first message.                                          *)
Ready(t) ==
  /\ task[t].pc = "ready" /\ Greets /\ Greeted(t)
  /\ Become(t, [task[t] EXCEPT !.pc = "load", !.text = "plan"])
  /\ UNCHANGED <<windows, buffer, past>> /\ Aside

(* The planner's window is killed, and its plan says the name.             *)
Planned(t, n) ==
  /\ task[t].op = "new" /\ task[t].stage = "plan" /\ task[t].got
  /\ KillWindow(t)
  /\ Become(t, [task[t] EXCEPT !.stage = "work", !.pc = "open", !.name = n,
                               !.codex = (n \in CodexNames), !.sess = None, !.got = FALSE])
  /\ past' = IF n \in Taken(mem.ws) \/ \E u \in Procs \ {t} : task[u].name = n
             THEN past \cup {"reused"} ELSE past
  /\ Aside

(* A planner's lines are lost with it.                                     *)
Dropped(t) == IF Planning(t) THEN [done EXCEPT !.lost = @ \cup Due(t)] ELSE done

(* The planner or the injector timed out, or the session never greeted.    *)
GiveUp(t) ==
  /\ task[t].op \in {"new", "send"} /\ ~task[t].got
  /\ KillWindow(t)
  /\ Become(t, Idle)
  /\ done' = Dropped(t)
  /\ past' = past \cup Missed(t)
  /\ UNCHANGED <<db, mem, up, lines, events>>

Directed(t) ==
  /\ task[t].op = "send" /\ task[t].got
  /\ KillWindow(t)
  /\ Become(t, [task[t] EXCEPT !.stage = "work", !.pc = "load", !.sess = None, !.got = FALSE])
  /\ UNCHANGED past /\ Aside

(* The Enter that is due submits the plan or the directive to the running  *)
(* agent of the workstream.                                                *)
Reaches(t) == \E w \in Named(Target(t)) : w.name = Target(t) /\ w.at = "on" /\ t \in w.draft

Handed(t) ==
  CASE task[t].convo # db.convo -> done
    [] Reaches(t)               -> [done EXCEPT !.told = @ \cup Due(t)]
    [] OTHER                    -> [done EXCEPT !.lost = @ \cup Due(t)]

(* A Codex session is renamed after the plan, before it becomes known: its *)
(* lines are not due any more.                                             *)
Rename(t) ==
  /\ task[t].op = "new" /\ task[t].codex /\ task[t].text = "plan"
  /\ Enter(t)
  /\ Become(t, [task[t] EXCEPT !.pc = SendVia(TRUE, TRUE), !.text = "rename", !.since = task[t].cur])
  /\ done' = Handed(t)
  /\ UNCHANGED <<db, mem, up, lines, events>>

Launched(t) ==
  /\ task[t].op = "new" /\ (task[t].codex => task[t].text = "rename")
  /\ Enter(t)
  /\ LET n   == task[t].name
         row == [sess |-> task[t].sess, status |-> "running"]
     IN /\ db' = [db EXCEPT !.ws[n] = row]
        /\ mem' = [mem EXCEPT !.ws[n] = row]
        /\ \E r \in PushCards(t, [mem.ws EXCEPT ![n] = row]) : Become(t, r)
  /\ done' = Handed(t)
  /\ UNCHANGED <<up, lines, events>>

(* The directive is in: the marker moves to where the conversation was     *)
(* when the injector was told to read it.  WRONG: to where it is now; one  *)
(* line too far.                                                           *)
MarkerNow(t) == lines[mem.convo]
MarkerPast(t) == task[t].cur + 1
MarkerAfterSend(t) == task[t].cur

Injected(t) ==
  /\ task[t].op = "send"
  /\ Enter(t)
  /\ db' = [db EXCEPT !.marker = MarkerAfterSend(t)]
  /\ done' = Handed(t)
  /\ Become(t, Idle)
  /\ UNCHANGED <<mem, up, lines, events>>

InputSent(t) ==
  /\ task[t].op = "input"
  /\ Enter(t)
  /\ Become(t, Idle)
  /\ Aside

-----------------------------------------------------------------------------
(* Ending a workstream.                                                    *)

(* Its window is killed, and its chat archived if it is a Codex session's. *)
Archives(t) ==
  /\ task[t].op = "end" /\ task[t].name \in CodexNames
  /\ KillWindow(t)
  /\ Goto(t, "archive")
  /\ past' = past \cup Missed(t)
  /\ Aside

Over(t) ==
  \/ task[t].pc = "archive" /\ UNCHANGED <<windows, buffer, past>>
  \/ task[t].name \notin CodexNames /\ KillWindow(t) /\ past' = past \cup Missed(t)

(* It is forgotten, whatever its name stands for by now; pop() raises when *)
(* somebody else was faster.                                               *)
Ended(t) ==
  /\ task[t].op = "end"
  /\ Over(t)
  /\ LET n == task[t].name
     IN IF mem.ws[n] = None
        THEN Become(t, Idle) /\ UNCHANGED <<db, mem>>
        ELSE /\ db' = [db EXCEPT !.ws[n] = None]
             /\ mem' = [mem EXCEPT !.ws[n] = None]
             /\ \E r \in PushCards(t, [mem.ws EXCEPT ![n] = None]) : Become(t, r)
  /\ UNCHANGED <<up, lines, done, events>>

(* The row of a workstream whose chat could not be archived.  WRONG: it    *)
(* keeps its status.                                                       *)
RowKept(n) == db.ws
RowGone(n) == WithStatus(db.ws, n, "gone")

ArchiveFails(t) ==
  /\ task[t].pc = "archive"
  /\ LET n  == task[t].name
         ws == IF SameObject(t) THEN WithStatus(mem.ws, n, "gone") ELSE mem.ws
     IN /\ db' = [db EXCEPT !.ws = RowGone(n)]
        /\ mem' = [mem EXCEPT !.ws = ws]
        /\ \E r \in PushCards(t, ws) : Become(t, r)
  /\ UNCHANGED <<windows, buffer, past, up, lines, done, events>>

-----------------------------------------------------------------------------
(* The conversation's tasks end here, where cards are pushed.              *)

ConvoRecord(t) ==
  /\ Clears(t) /\ task[t].pc = "record"
  /\ Follow(t)
  /\ \E r \in IF task[t].op = "model" THEN PushCards(t, mem.ws) ELSE {Idle} : Become(t, r)
  /\ past' = IF \E u \in Tasks : task[u].op = "send" /\ task[u].convo # task[t].sess
             THEN past \cup {"stale"} ELSE past
  /\ UNCHANGED <<windows, buffer, up, lines, events>>

(* After /model slash() presses Enter once more.                           *)
Retyped(t) ==
  /\ task[t].op = "retype" /\ task[t].text # "blank"
  /\ Enter(t)
  /\ Become(t, [task[t] EXCEPT !.text = "blank"])
  /\ Aside

BlankEntered(t) ==
  /\ task[t].op = "retype" /\ task[t].text = "blank"
  /\ Enter(t)
  /\ \E r \in PushCards(t, mem.ws) : Become(t, r)
  /\ Aside

(* No rollout file within a minute: TimeoutError ends the task; a server   *)
(* that is booting comes down with it.                                     *)
NoRollout(t) ==
  /\ task[t].pc = "claim" /\ task[t].new = {}
  /\ task' = [task EXCEPT ![t] = Idle]
  /\ up' = IF task[t].op = "boot" THEN "failed" ELSE up
  /\ done' = Dropped(t)
  /\ past' = past \cup {"norollout"}
  /\ UNCHANGED <<windows, buffer, db, mem, lines, events>>

-----------------------------------------------------------------------------
Button(t) ==
  \/ \E codex \in PlanOn : NewWorkstream(t, codex)
  \/ \E n \in Names, codex \in InjectOn : SendTo(t, n, codex)
  \/ \E n \in Names : End(t, n)
  \/ \E n \in Names, slash \in BOOLEAN : Input(t, n, slash)
  \/ \E slash \in BOOLEAN : Say(t, slash)
  \/ Clear(t)
  \/ \E engine \in Engines : SetModel(t, engine)

Tmux(t) ==
  \/ OpenWindow(t)
  \/ TypeCommand(t) /\ Aside
  \/ RunCommand(t) /\ Aside
  \/ Claim(t) /\ Aside
  \/ LoadBuffer(t) /\ Aside
  \/ PasteBuffer(t) /\ Aside
  \/ TypeLine(t) /\ Aside
  \/ NoRollout(t)

Resume(t) ==
  \/ Look(t) \/ Respawned(t) \/ ConvoRecord(t) \/ Retyped(t) \/ BlankEntered(t)
  \/ Answered(t) \/ TimedOut(t) \/ Ready(t) \/ GiveUp(t) \/ Directed(t) \/ Rename(t)
  \/ \E n \in Names : Planned(t, n)
  \/ Launched(t) \/ Injected(t) \/ InputSent(t) \/ Archives(t) \/ Ended(t) \/ ArchiveFails(t)

Environment ==
  \/ \E w \in windows : AgentUp(w) /\ Aside
  \/ \E w \in windows : ChildUp(w) \/ WindowCloses(w)
  \/ \E s \in Sessions : Talk(s)
  \/ \E machine \in BOOLEAN : Crash(machine) \/ \E t \in Tasks : CutShort(t, machine)

Next ==
  \/ Boot \/ Reuse \/ Respawn \/ CannotResume \/ BootRecord
  \/ \E t \in Tasks : Button(t) \/ Resume(t)
  \/ \E t \in Procs : Tmux(t) \/ Card(t)
  \/ Wake
  \/ Environment

Spec == Init /\ [][Next]_vars
-----------------------------------------------------------------------------
(* Properties.                                                             *)

Ops == {"none", "boot", "status", "cards", "new", "send", "end", "input", "clear", "model", "retype"}

Labels == {"idle", "open", "type", "run", "claim", "await", "ready", "record", "load", "paste",
           "line", "enter", "kill", "archive", "look", "sleep", "card", "dead"}

(* Every variable keeps its shape, whatever crash or interleaving it meets.*)
TypeOK ==
  /\ windows \subseteq Window
  /\ buffer \in Seq(Tasks \cup {None})
  /\ \A t \in Procs :
       /\ task[t].op \in Ops /\ task[t].pc \in Labels
       /\ task[t].stage \in {"work", "plan", "inject", "convo"}
       /\ task[t].sess \in Sessions \cup {None} /\ task[t].new \subseteq Sessions
       /\ task[t].cur \in 0..MaxLines /\ task[t].since \in 0..MaxLines
  /\ db \in Store /\ mem \in Memory
  /\ up \in {"down", "booting", "up", "failed"}
  /\ \A s \in Sessions : lines[s] \in 0..MaxLines
  /\ done \in Fate

(* Statuses, registrations and resets are written to the database and to   *)
(* memory between the same two awaits: a serving manager and the rows a    *)
(* restart would read agree, unless one name stood for two workstreams.    *)
StoreMatchesMemory ==
  up = "up" => /\ mem.convo = db.convo
               /\ "reused" \in past \/ mem.ws = db.ws

Owner(w, t) ==
  /\ task[t].pc \notin {"idle", "sleep", "dead", "card"}
  /\ Target(t) = w.name
  /\ task[t].sess \in {w.sess, None}

IsKnown(w) ==
  \/ w.name = "convo" /\ db.convo = w.sess
  \/ w.name \in Names /\ db.ws[w.name] # None /\ db.ws[w.name].sess = w.sess

(* Every window is the conversation's, a known workstream's, or that of an *)
(* operation still under way.  Known ways to lose one: a crash, two        *)
(* windows of one name (which tmux cannot tell apart), a name two plans    *)
(* gave at once, two resets of the conversation at once, a Codex session   *)
(* that wrote no rollout, two that were spawned at once and may have       *)
(* claimed each other's, or a child that started while one was spawned.    *)
NoStrays ==
  past \cap {"crash", "twins", "reused", "resets", "norollout", "rivals", "child"} = {}
    => \A w \in windows : IsKnown(w) \/ \E t \in Procs : Owner(w, t)

(* A line of the conversation the marker is past was submitted to a        *)
(* running workstream in a plan or a directive, or is in the hands of a    *)
(* planner, or was lost for a reason that is known: the planner failed or  *)
(* died with the server, or the plan or the directive was sent where no    *)
(* agent of the workstream ran.  So no line said while a planner or an     *)
(* injector works is skipped.  The one exception: a marker that counts     *)
(* the lines of an earlier conversation.                                   *)
NothingSkipped ==
  "stale" \notin past =>
    1..db.marker \subseteq done.told \cup done.lost
                          \cup UNION {Due(t) : t \in {u \in Tasks : Planning(u)}}

(* The conversation that is recorded runs on the engine that is chosen, or *)
(* a change of model is under way; so the server comes up over whatever    *)
(* rows and windows a crash leaves.  Known ways to lose this: the crash    *)
(* falls between a choice of model and the record of its session, Codex    *)
(* gives no rollout, or two resets at once leave the choice of the one and *)
(* the session of the other.                                               *)
BootsAgain ==
  past \cap {"cut", "norollout", "resets"} = {} =>
    /\ up # "failed"
    /\ db.pick = db.engine \/ \E t \in Tasks : task[t].op = "model"

(* A session is submitted the text it was sent and no other, unless a send *)
(* or a command line overlapped with another, a crash cut one short, two   *)
(* windows of one name had tmux refuse an Enter, or a window that was gone *)
(* had tmux find another whose name begins with its own.                   *)
OwnText == "muddle" \in past => past \cap {"overlap", "twins", "prefix"} # {}

(* A spawn claims the rollout of the session it started, unless two Codex  *)
(* sessions were being spawned at once, an agent started a child meanwhile,*)
(* or an earlier one, given up by a crash or by the timeout, writes its    *)
(* rollout after all.                                                      *)
OwnRollout == "misclaim" \in past => past \cap {"rivals", "child", "crash", "norollout"} # {}
=============================================================================
