------------------------------- MODULE Bootstrap -------------------------------
(***************************************************************************)
(* How the one conversation session comes to exist                         *)
(* (src/remote_workstreams/bootstrap.py), when the server boots            *)
(* (server/__main__.py) and when the phone asks for a fresh one or for a   *)
(* model of the other engine (server/runtime.py), over the rows the store  *)
(* keeps (server/store.py) when the server or the machine dies.            *)
(*                                                                         *)
(* A model is represented by its engine.  A change of model within Claude  *)
(* is a typed /model.                                                      *)
(***************************************************************************)
EXTENDS Substrate

CONSTANTS
  MaxLines,   \* bound: lines of a conversation's transcript
  MaxEvents   \* bound: operations asked for, crashes, and windows that close, together

ASSUME BootstrapAssumption ==
  /\ MaxLines \in Nat
  /\ MaxEvents \in Nat

VARIABLES
  db,      \* the store: the convo row, marker, convo_model setting, workstreams
  mem,     \* the server's memory: convo_transcript and the workstreams
  up,      \* the server
  lines,   \* lines[s]: length of the transcript of s, when s is a conversation
  done,    \* history: what became of the lines of the recorded conversation
  events   \* operations asked for, crashes, and windows that closed

vars == <<windows, buffer, task, past, db, mem, up, lines, done, events>>

Engines == {"claude", "codex"}

EngineOf(codex) == IF codex THEN "codex" ELSE "claude"

Row == [sess : Sessions, status : {"running", "gone"}]

ASSUME NoneAssumption == None \notin Sessions \cup Row

Store == [ convo  : Sessions \cup {None},
           engine : Engines,
           marker : 0..MaxLines,
           pick   : Engines,
           ws     : [Names -> Row \cup {None}] ]

(* Lines that were told to a workstream: its running agent was submitted   *)
(* the plan or the directive about them; and lines that were lost: their   *)
(* planner failed or died with the server, or what was made of them        *)
(* reached no agent.                                                       *)
Fate == [told : SUBSET (1..MaxLines), lost : SUBSET (1..MaxLines)]

Nothing == [told |-> {}, lost |-> {}]

Memory == [convo : Sessions \cup {None}, ws : [Names -> Row \cup {None}]]

Forgotten == [convo |-> None, ws |-> [n \in Names |-> None]]

(* The lines a planner under way has yet to hand on: the marker is past    *)
(* them already.                                                           *)
Due(t) == {l \in 1..MaxLines : task[t].since < l /\ l <= task[t].cur}

Planning(t) == task[t].op = "new" /\ task[t].convo = db.convo

(* A session id that nobody knows.  uuid4 and Codex never repeat one; the  *)
(* model takes up again those that are forgotten everywhere.               *)
Known ==
  {w.sess : w \in windows} \cup {db.convo, mem.convo}
  \cup {db.ws[n].sess : n \in {m \in Names : db.ws[m] # None}}
  \cup {mem.ws[n].sess : n \in {m \in Names : mem.ws[m] # None}}
  \cup {task[t].sess : t \in Procs} \cup {task[t].convo : t \in Procs}
  \cup UNION {task[t].new : t \in Procs}

FreshSession == {s \in Sessions \ Known : \A r \in Sessions \ Known : s <= r}

OpenWindow(t) ==
  /\ \E s \in IF task[t].sess = None THEN FreshSession ELSE {task[t].sess} :
       /\ NewWindow(t, s)
       /\ lines' = IF task[t].sess = None THEN [lines EXCEPT ![s] = 0] ELSE lines
  /\ UNCHANGED <<db, mem, up, done, events>>

-----------------------------------------------------------------------------
(* Booting: ensure_convo, then the manager is built from the rows.         *)

Rehydrated(convo) == [convo |-> convo, ws |-> db.ws]

(* _spawn_fresh reads the chosen model, and spawns.                        *)
SpawnFresh(r) == [r EXCEPT !.stage = "convo", !.pc = "open", !.codex = (db.pick = "codex")]

Booting == [Idle EXCEPT !.op = "boot", !.stage = "convo", !.pc = "look"]

Boot ==
  /\ up = "down"
  /\ up' = "booting"
  /\ task' = [task EXCEPT ![Status] = IF db.convo = None THEN SpawnFresh(Booting) ELSE Booting]
  /\ UNCHANGED <<windows, buffer, past, db, mem, lines, done, events>>

Serve(convo) ==
  /\ up' = "up"
  /\ mem' = Rehydrated(convo)
  /\ task' = [task EXCEPT ![Status] = [Idle EXCEPT !.op = "status", !.pc = "sleep"]]

Reuse ==
  /\ task[Status].op = "boot" /\ task[Status].pc = "look"
  /\ Alive("convo")
  /\ Serve(db.convo)
  /\ UNCHANGED <<windows, buffer, past, db, lines, done, events>>

(* A dead Codex session cannot be resumed.  WRONG for every engine.        *)
ResumeAny == TRUE
Resumable == db.engine = "claude"

Respawn ==
  /\ task[Status].op = "boot" /\ task[Status].pc = "look"
  /\ ~Alive("convo")
  /\ task' = [task EXCEPT ![Status] = IF Resumable
                THEN [SpawnFresh(@) EXCEPT !.sess = db.convo] ELSE SpawnFresh(@)]
  /\ ~(Resumable /\ db.pick = "codex")
  /\ UNCHANGED <<windows, buffer, past, db, mem, up, lines, done, events>>

(* --resume with a model that runs on Codex: ValueError, and no server.    *)
CannotResume ==
  /\ task[Status].op = "boot" /\ task[Status].pc = "look"
  /\ ~Alive("convo")
  /\ Resumable /\ db.pick = "codex"
  /\ up' = "failed"
  /\ task' = [task EXCEPT ![Status] = Idle]
  /\ UNCHANGED <<windows, buffer, past, db, mem, lines, done, events>>

Resumed(t) == task[t].sess = db.convo

(* set_convo_session, of what _spawn_fresh spawned.                        *)
Recorded(t, marker) ==
  [db EXCEPT !.convo = task[t].sess, !.engine = EngineOf(task[t].codex), !.marker = marker]

(* The marker counts lines of another transcript than the one recorded.    *)
Outdated == IF db.marker > 0 THEN {"stale"} ELSE {}

BootRecord ==
  /\ task[Status].op = "boot" /\ task[Status].pc = "record"
  /\ IF Resumed(Status)
     THEN UNCHANGED <<db, done, past>>
     ELSE /\ db' = Recorded(Status, db.marker)
          /\ done' = Nothing
          /\ past' = past \cup Outdated
  /\ Serve(task[Status].sess)
  /\ UNCHANGED <<windows, buffer, lines, events>>

-----------------------------------------------------------------------------
(* A fresh conversation: Clear, or a model of the other engine.            *)

Event == events < MaxEvents /\ events' = events + 1

Tap(t) == up = "up" /\ task[t].pc = "idle" /\ Event

Clearing(r) == [r EXCEPT !.stage = "convo", !.pc = "look"]

(* fresh_convo() up to its first await; with no record it spawns at once.  *)
FreshConvo(r) == IF db.convo = None THEN SpawnFresh(r) ELSE Clearing(r)

Clears(t) == task[t].op \in {"clear", "model"}

Resets == IF \E u \in Tasks : Clears(u) THEN past \cup {"resets"} ELSE past

Clear(t) ==
  /\ Tap(t)
  /\ past' = Resets
  /\ task' = [task EXCEPT ![t] = FreshConvo([@ EXCEPT !.op = "clear"])]
  /\ UNCHANGED <<windows, buffer, db, mem, up, lines, done>>

(* A socket handles one message at a time, but a phone that comes back has *)
(* another socket.                                                         *)
SetModel(t, engine) ==
  /\ Tap(t)
  /\ past' = Resets
  /\ db' = [db EXCEPT !.pick = engine]
  /\ task' = [task EXCEPT ![t] =
       IF engine = "claude" /\ db.pick = "claude"
       THEN [@ EXCEPT !.op = "retype", !.stage = "convo", !.pc = "line"]
       ELSE FreshConvo([@ EXCEPT !.op = "model"])]
  /\ UNCHANGED <<windows, buffer, mem, up, lines, done>>

Look(t) ==
  /\ Clears(t) /\ task[t].pc = "look"
  /\ task' = [task EXCEPT ![t] = IF Alive("convo") THEN [@ EXCEPT !.pc = "kill"]
                                 ELSE SpawnFresh(@)]
  /\ UNCHANGED <<windows, buffer, past, db, mem, up, lines, done, events>>

Respawned(t) ==
  /\ Clears(t)
  /\ KillWindow(t)
  /\ task' = [task EXCEPT ![t] = SpawnFresh(@)]
  /\ UNCHANGED <<past, db, mem, up, lines, done, events>>

(* The marker counted lines of a transcript that is history.               *)
MarkerAfterClear == 0

(* _spawn_fresh records the session, fresh_convo resets the marker,        *)
(* convo_reset re-points the bridge, and _clear_convo the manager.         *)
Follow(t) ==
  /\ db' = Recorded(t, MarkerAfterClear)
  /\ mem' = [mem EXCEPT !.convo = task[t].sess]
  /\ done' = IF Resumed(t) THEN done ELSE Nothing

-----------------------------------------------------------------------------
(* The environment.                                                        *)

(* The conversation's agent, or a child that was taken for it, writes a    *)
(* line.                                                                   *)
Talk(s) ==
  /\ \/ \E w \in windows : w.name = "convo" /\ w.at = "on" /\ w.sess = s
     \/ "child" \in past /\ mem.convo = s
  /\ lines[s] < MaxLines
  /\ lines' = [lines EXCEPT ![s] = @ + 1]
  /\ UNCHANGED <<windows, buffer, task, past, db, mem, up, done, events>>

(* A Codex agent starts a child, whose rollout lands where those of all    *)
(* sessions do.                                                            *)
ChildUp(w) ==
  /\ w.codex /\ w.at = "on"
  /\ \E t \in Procs : Spawning(t)
  /\ Event
  /\ \E s \in FreshSession :
       /\ task' = [t \in Procs |-> IF Spawning(t) THEN [task[t] EXCEPT !.new = @ \cup {s}]
                                   ELSE task[t]]
       /\ lines' = [lines EXCEPT ![s] = 0]
  /\ past' = past \cup {"child"}
  /\ UNCHANGED <<windows, buffer, db, mem, up, done>>

(* A window closes by itself: its agent is quit at the laptop, or dies.    *)
WindowCloses(w) ==
  /\ Event
  /\ windows' = windows \ {w}
  /\ UNCHANGED <<buffer, task, past, db, mem, up, lines, done>>

Orphan(S) == IF S = {} THEN {} ELSE {None}

(* The server dies.  The windows, their composers and tmux's buffers are   *)
(* still there; with the machine they are gone too.                        *)
Dies(machine) ==
  /\ up # "down"
  /\ Event
  /\ up' = "down"
  /\ mem' = Forgotten
  /\ task' = [t \in Procs |-> Idle]
  /\ windows' = IF machine THEN {} ELSE {[w EXCEPT !.draft = Orphan(@)] : w \in windows}
  /\ buffer' = IF machine THEN <<>> ELSE [i \in DOMAIN buffer |-> None]
  /\ UNCHANGED lines

(* What is cut short: a send, and a change of the model whose session is   *)
(* not recorded yet.                                                       *)
Wreck(T) ==
  {"crash"} \cup (IF \E t \in Procs : Sending(t) THEN {"overlap"} ELSE {})
            \cup (IF \E t \in T : task[t].op = "model" THEN {"cut"} ELSE {})

Forsaken == [done EXCEPT !.lost = @ \cup UNION {Due(t) : t \in {u \in Tasks : Planning(u)}}]

(* Between two steps ...                                                   *)
Crash(machine) ==
  /\ Dies(machine)
  /\ done' = Forsaken
  /\ past' = past \cup Wreck(Tasks)
  /\ UNCHANGED db

(* ... or in the midst of one: _spawn_fresh's set_convo_session is         *)
(* committed, fresh_convo's set_marker is not.                             *)
CutShort(t, machine) ==
  /\ Clears(t) /\ task[t].pc = "record"
  /\ Dies(machine)
  /\ db' = Recorded(t, db.marker)
  /\ done' = IF Resumed(t) THEN Forsaken ELSE Nothing
  /\ past' = past \cup Wreck(Tasks \ {t}) \cup (IF Resumed(t) THEN {} ELSE Outdated)
=============================================================================
