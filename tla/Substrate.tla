------------------------------- MODULE Substrate -------------------------------
(***************************************************************************)
(* The tmux substrate (src/remote_workstreams/substrate.py): sessions of   *)
(* Claude Code and Codex in tmux windows, spawned, typed into and killed   *)
(* by coroutines that are suspended at every tmux command.                 *)
(*                                                                         *)
(* A window is addressed by its NAME, of which tmux takes a beginning too, *)
(* when no window has it (Named).  A target that is not found, or that two *)
(* windows fit, tmux refuses; the wrapper ignores its exit code.  All      *)
(* pastes go through tmux's one stack of buffers.  Codex picks its own     *)
(* session id: its spawn takes the newest rollout file that was not there  *)
(* before.                                                                 *)
(*                                                                         *)
(* task[p] is what process p of the server is doing: pc says which await   *)
(* it is suspended in.  Bootstrap and Workstreams say what comes next.     *)
(***************************************************************************)
EXTENDS Naturals, Sequences, FiniteSets

CONSTANTS
  Tasks,       \* button tasks, and the socket's handler
  Status,      \* WorkstreamManager.run(); before it starts, the booting server
  Names,       \* names of workstreams, which are their windows' names too
  CodexNames,  \* those whose workstream runs on Codex; the others run on Claude
  PrefixOf,    \* the pairs of names of which the first is the beginning of the second
  MaxSessions, \* bound: sessions known anywhere at one time
  None

ASSUME SubstrateAssumption ==
  /\ MaxSessions \in Nat
  /\ CodexNames \subseteq Names
  /\ PrefixOf \subseteq Names \X Names
  /\ \A n \in Names : <<n, n>> \notin PrefixOf
  /\ Status \notin Tasks
  /\ None \notin Tasks \cup Names
  /\ {"convo", "plan", "inject"} \cap Names = {}

VARIABLES
  windows, \* the tmux windows
  buffer,  \* tmux's paste buffers, newest first, as the task whose text each holds
  task,    \* the server's processes
  past     \* history: the kinds of accident that have happened

Procs == Tasks \cup {Status}

Sessions == 1..MaxSessions

(* A window: the session that runs in it, whether it is still a bare shell,*)
(* has been typed its command, or runs; and the texts that were pasted and *)
(* not submitted (None: a text of a server that has died since).           *)
Window == [ name  : Names \cup {"convo", "plan", "inject"},
            sess  : Sessions,
            codex : BOOLEAN,
            at    : {"shell", "typed", "on"},
            draft : SUBSET (Procs \cup {None}) ]

Idle == [ op    |-> "none",  \* the operation
          stage |-> "work",  \* whose window it is about: see Target
          pc    |-> "idle",
          name  |-> None,    \* the workstream
          sess  |-> None,    \* the session spawned (Codex's is known by the claim only)
          codex |-> FALSE,
          new   |-> {},      \* rollouts that have appeared since the spawn looked
          got   |-> FALSE,   \* the plan or directive came
          convo |-> None,    \* the conversation whose transcript is read
          since |-> 0,       \* the lines of it the planner or injector is told of:
          cur   |-> 0,       \*   since < line <= cur
          text  |-> "none",  \* what is being sent
          seen  |-> {},      \* push_cards: the workstreams it has come to,
          old   |-> None,    \*   the one it waits for as it was then,
          size  |-> 0 ]      \*   and the length of the dictionary at the start

Target(t) == IF task[t].stage = "work" THEN task[t].name ELSE task[t].stage

Goto(t, label) == task' = [task EXCEPT ![t].pc = label]

Hit(name) == {w \in windows : w.name = name}

Near(name) == {w \in windows : <<name, w.name>> \in PrefixOf}

(* The window tmux finds by a name: the one that has it, or else the only  *)
(* one whose name begins with it.                                          *)
Named(name) ==
  CASE Cardinality(Hit(name)) = 1 -> Hit(name)
    [] Hit(name) = {} /\ Cardinality(Near(name)) = 1 -> Near(name)
    [] OTHER -> {}

(* A command to the task's target reached a window of another name.        *)
Missed(t) == IF Named(Target(t)) \subseteq Hit(Target(t)) THEN {} ELSE {"prefix"}

Alive(name) == Named(name) # {}

Replace(old, new) == (windows \ old) \cup new

-----------------------------------------------------------------------------
(* Spawning.                                                               *)

(* What the caller of spawn() waits for next.                              *)
AfterSpawn == [plan |-> "await", inject |-> "await", work |-> "ready", convo |-> "record"]

(* A Codex session of the task is on its way, and its rollout not claimed. *)
Spawning(t) == task[t].codex /\ task[t].pc \in {"type", "run", "claim"}

(* new_window.  Session s is the one that will run in the window: its id is*)
(* given (resume), or is known now (Claude), or is found out by the claim. *)
NewWindow(t, s) ==
  /\ task[t].pc = "open"
  /\ windows' = windows \cup
       {[name |-> Target(t), sess |-> s, codex |-> task[t].codex, at |-> "shell", draft |-> {}]}
  /\ task' = [task EXCEPT ![t].pc = "type", ![t].sess = s, ![t].new = {}]
  /\ past' = past \cup (IF Hit(Target(t)) = {} THEN {} ELSE {"twins"})
                  \cup (IF task[t].codex /\ \E u \in Procs : Spawning(u) THEN {"rivals"} ELSE {})
  /\ UNCHANGED buffer

(* The agent comes up; a Codex agent writes its rollout file.              *)
AgentUp(w) ==
  /\ w.at = "typed"
  /\ windows' = Replace({w}, {[w EXCEPT !.at = "on"]})
  /\ task' = [t \in Procs |-> IF w.codex /\ Spawning(t)
                              THEN [task[t] EXCEPT !.new = @ \cup {w.sess}] ELSE task[t]]
  /\ UNCHANGED <<buffer, past>>

(* The rollouts a spawn may claim.  WRONG: those it saw before it started. *)
AnyRollout(t) == task[t].new \cup {w.sess : w \in {x \in windows : x.codex /\ x.at = "on"}}
Candidates(t) == task[t].new

(* _await_rollout finds the new file that was written to last.  Nobody     *)
(* asks for the id of a planner or an injector again.                      *)
Claim(t) ==
  /\ task[t].pc = "claim"
  /\ \E s \in Candidates(t) :
       /\ task' = [task EXCEPT ![t].pc = AfterSpawn[task[t].stage], ![t].new = {},
                               ![t].sess = IF task[t].stage \in {"plan", "inject"} THEN @ ELSE s]
       /\ past' = IF s = task[t].sess THEN past ELSE past \cup {"misclaim"}
  /\ UNCHANGED <<windows, buffer>>

-----------------------------------------------------------------------------
(* Writing into a session.                                                 *)

Sending(t) == task[t].pc \in {"paste", "enter", "run"}

Overlap(t) == IF \E u \in Procs \ {t} : Sending(u) THEN {"overlap"} ELSE {}

(* send-keys -l: the text is typed without a buffer.                       *)
Typed(t) ==
  /\ LET hit == Named(Target(t))
     IN windows' = Replace(hit, {[w EXCEPT !.draft = @ \cup {t}] : w \in hit})
  /\ past' = past \cup Overlap(t) \cup Missed(t)
  /\ UNCHANGED buffer

(* Enter submits what is in the composer.  A shell runs a command line, if *)
(* there is nothing else on its line (whosever command that is, the window *)
(* is taken to run the session it was opened for).                         *)
Submitted(w) ==
  [w EXCEPT !.at = IF @ = "shell" /\ \E d \in Procs : w.draft = {d} /\ task[d].pc = "run"
                   THEN "typed" ELSE @,
            !.draft = {}]

Press(t) ==
  /\ LET hit == Named(Target(t))
     IN /\ windows' = Replace(hit, {Submitted(w) : w \in hit})
        /\ past' = past \cup Missed(t)
                        \cup (IF \A w \in hit : w.draft \subseteq {t} THEN {} ELSE {"muddle"})
  /\ UNCHANGED buffer

(* send_line(): the command that starts the agent, ...                     *)
TypeCommand(t) ==
  /\ task[t].pc = "type"
  /\ Typed(t)
  /\ Goto(t, "run")

(* ... and its Enter.  An agent that runs already is sent it as a message. *)
RunCommand(t) ==
  /\ task[t].pc = "run"
  /\ Press(t)
  /\ Goto(t, IF task[t].codex THEN "claim" ELSE AfterSpawn[task[t].stage])

(* paste(): load-buffer, which puts the text on top of the stack ...       *)
LoadBuffer(t) ==
  /\ task[t].pc = "load"
  /\ buffer' = <<t>> \o buffer
  /\ Goto(t, "paste")
  /\ past' = past \cup Overlap(t)
  /\ UNCHANGED windows

(* ... paste-buffer -d, which takes the top one, if the target is found ...*)
PasteBuffer(t) ==
  /\ task[t].pc = "paste"
  /\ LET hit == Named(Target(t))
     IN IF hit = {} \/ buffer = <<>>
        THEN UNCHANGED <<windows, buffer>>
        ELSE /\ windows' = Replace(hit, {[w EXCEPT !.draft = @ \cup {Head(buffer)}] : w \in hit})
             /\ buffer' = Tail(buffer)
  /\ Goto(t, "enter")
  /\ past' = past \cup Missed(t)

(* type_line().                                                            *)
TypeLine(t) ==
  /\ task[t].pc = "line"
  /\ Typed(t)
  /\ Goto(t, "enter")

(* WRONG: the text stays in the composer.                                  *)
NoEnter(t) ==
  /\ task[t].pc = "enter"
  /\ past' = IF \A w \in Hit(Target(t)) : w.draft \subseteq {t}
             THEN past ELSE past \cup {"muddle"}
  /\ UNCHANGED <<windows, buffer>>

(* ... and Enter, half a second after a paste.  What the task does then is *)
(* its operation's.                                                        *)
Enter(t) == task[t].pc = "enter" /\ Press(t)

(* send() and slash(), where the text has to go: a Codex session takes a   *)
(* slash command by the paste path too.                                    *)
SendVia(codex, slash) == IF slash /\ ~codex THEN "line" ELSE "load"

(* WRONG: the window is left.                                              *)
LeaveWindow(t) == task[t].pc = "kill" /\ UNCHANGED <<windows, buffer>>

KillWindow(t) ==
  /\ task[t].pc = "kill"
  /\ windows' = windows \ Named(Target(t))
  /\ UNCHANGED buffer

=============================================================================
