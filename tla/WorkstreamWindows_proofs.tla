----------------------- MODULE WorkstreamWindows_proofs -----------------------
(***************************************************************************)
(* Proofs about the tmux windows of Workstreams: that a text goes to its   *)
(* own session and a rollout to the spawn that started it, and that no     *)
(* window is lost.                                                         *)
(***************************************************************************)
EXTENDS Workstreams_proofs

-----------------------------------------------------------------------------
(* The inductive invariants.                                               *)

\* One window to a name.
Single == "twins" \notin past => \A w, x \in windows : w.name = x.name => w = x

\* The accidents after which a text may go to another session than its own; without them
\* one process sends at a time, and a composer holds the text it is to press Enter on.
Mixups == {"overlap", "twins", "prefix"}

Pressing(t) == task[t].pc \in {"enter", "run"}

TextInv ==
  /\ OwnText
  /\ past \cap Mixups = {} =>
       /\ \A t, u \in Procs : Sending(t) /\ Sending(u) => t = u
       /\ \A t \in Procs : task[t].pc = "paste" => buffer # <<>> /\ Head(buffer) = t
       /\ \A w \in windows : \A d \in w.draft : d \in Procs /\ Pressing(d) /\ Target(d) = w.name

\* The accidents after which a spawn may see another session's rollout; without them one
\* Codex session is on its way at a time, in the window of the one task that waits for
\* it, and no other rollout appears meanwhile.
Strangers == {"rivals", "child", "crash", "norollout"}

Fresh(w) == w.codex /\ w.at # "on"

RolloutInv ==
  /\ OwnRollout
  /\ past \cap Strangers = {} =>
       /\ \A t, u \in Procs : Spawning(t) /\ Spawning(u) => t = u
       /\ \A t \in Procs : Spawning(t) => task[t].new \subseteq {task[t].sess}
       /\ \A w, x \in windows : Fresh(w) /\ Fresh(x) => w = x
       /\ \A w \in windows : Fresh(w) =>
            \E t \in Procs : Spawning(t) /\ task[t].sess = w.sess /\ task[t].new = {}

\* What a task spawns, or has spawned and not made known yet.
Spawner(t) ==
  /\ task[t].op \in {"boot", "new", "send", "clear", "model"}
  /\ task[t].pc \notin {"look", "open"}
  /\ ~(task[t].op \in {"clear", "model"} /\ task[t].pc = "kill")
  /\ ~(task[t].op = "send" /\ task[t].stage = "work")

Mine(w, t) == w.sess = task[t].sess

\* The accidents after which a window may be nobody's.
Losses == {"crash", "twins", "reused", "resets", "norollout", "rivals", "child"}

\* Of the conversation's windows one is made at a time; a window whose name a spawn is
\* for is that spawn's; that of a workstream that is being archived is gone; and every
\* window is known or a spawn's.
OneClear == \A t, u \in Procs : Clears(t) /\ Clears(u) => t = u

SpawnsHere ==
  \A t \in Procs, w \in windows :
    Spawner(t) /\ task[t].stage \in {"work", "convo"} /\ w.name = Target(t) =>
      Mine(w, t)

Archived == \A t \in Procs, w \in windows : task[t].pc = "archive" => w.name # task[t].name

Accounted ==
  \A w \in windows : IsKnown(w) \/ \E t \in Procs : Spawner(t) /\ Target(t) = w.name /\ Mine(w, t)

StrayInv == past \cap Losses = {} => OneClear /\ SpawnsHere /\ Archived /\ Accounted

-----------------------------------------------------------------------------
(* What the steps do to the windows.                                       *)

\* Every window there is was there, under its name and with its session; no agent
\* that was up goes down in its window, and no two come of one.
Moved ==
  \E g \in [windows -> Window] :
    /\ \A w \in windows : SameWindow(w, g[w]) /\ (w.at = "on" => g[w].at = "on")
    /\ \A y \in windows' : \E w \in windows : y = g[w]

\* Windows close, and nothing else happens to them.
LEMMA SubsetMoves ==
  ASSUME windows \subseteq Window, windows' \subseteq windows
  PROVE  Moved
  <1> DEFINE g == [w \in windows |-> w]
  <1>1. g \in [windows -> Window] /\ \A w \in windows : g[w] = w
    OBVIOUS
  <1> HIDE DEF g
  <1>2. \A w \in windows : SameWindow(w, g[w]) /\ (w.at = "on" => g[w].at = "on")
    BY <1>1 DEF SameWindow
  <1>3. \A y \in windows' : \E w \in windows : y = g[w]
    BY <1>1
  <1>4. QED
    BY <1>1, <1>2, <1>3 DEF Moved

\* Some windows are changed, each in its own way.
LEMMA ReplaceMoves ==
  ASSUME windows \subseteq Window, NEW hit \in SUBSET windows, NEW f \in [hit -> Window],
         \A w \in hit : SameWindow(w, f[w]) /\ (w.at = "on" => f[w].at = "on"),
         \A y \in windows' : y \in windows \ hit \/ \E w \in hit : y = f[w]
  PROVE  Moved
  <1> DEFINE g == [w \in windows |-> IF w \in hit THEN f[w] ELSE w]
  <1>1. /\ g \in [windows -> Window]
        /\ \A w \in hit : g[w] = f[w]
        /\ \A w \in windows \ hit : g[w] = w
    OBVIOUS
  <1> HIDE DEF g
  <1>2. ASSUME NEW w \in windows
        PROVE  SameWindow(w, g[w]) /\ (w.at = "on" => g[w].at = "on")
    <2>1. CASE w \in hit
      BY <1>1, <2>1
    <2>2. CASE w \notin hit
      BY <1>1, <2>2 DEF SameWindow
    <2>3. QED
      BY <2>1, <2>2
  <1>3. \A y \in windows' : \E w \in windows : y = g[w]
    BY <1>1
  <1>4. QED
    BY <1>1, <1>2, <1>3 DEF Moved

\* What a command makes of a window's agent: it is not brought down.
LEMMA StillOn ==
  ASSUME NEW w \in Window, w.at = "on"
  PROVE  /\ Submitted(w).at = "on" /\ [w EXCEPT !.draft = {}].at = "on"
         /\ \A d : [w EXCEPT !.draft = @ \cup {d}].at = "on"
         /\ [w EXCEPT !.draft = Orphan(@)].at = "on"
         /\ [w EXCEPT !.at = "on"].at = "on"
  BY DEF Window, Submitted

\* Enter, and kill-window.
LEMMA PressMoves ==
  ASSUME windows \subseteq Window, NEW t, Press(t) \/ KillWindow(t)
  PROVE  Moved
  <1>1. CASE KillWindow(t)
    BY <1>1, SubsetMoves DEF KillWindow
  <1>2. CASE Press(t)
    <2> DEFINE hit == Named(Target(t))
               f == [w \in hit |-> Submitted(w)]
    <2>1. hit \in SUBSET windows
      BY NamedIn
    <2>2. windows' = (windows \ hit) \cup {Submitted(w) : w \in hit}
      BY <1>2 DEF Press, Replace
    <2> HIDE DEF hit
    <2>3. f \in [hit -> Window] /\ \A w \in hit : f[w] = Submitted(w)
      BY <2>1, WindowsTyped
    <2>4. \A w \in hit : SameWindow(w, f[w]) /\ (w.at = "on" => f[w].at = "on")
      BY <2>1, <2>3, WindowsSame, StillOn
    <2>5. \A y \in windows' : y \in windows \ hit \/ \E w \in hit : y = f[w]
      BY <2>2, <2>3
    <2> HIDE DEF f
    <2>6. QED
      BY <2>1, <2>3, <2>4, <2>5, ReplaceMoves
  <1>3. QED
    BY <1>1, <1>2

\* A text in a composer.
LEMMA DraftMoves ==
  ASSUME windows \subseteq Window, NEW n, NEW d \in Procs \cup {None},
         windows' = Replace(Named(n), {[w EXCEPT !.draft = @ \cup {d}] : w \in Named(n)})
  PROVE  Moved
  <1> DEFINE hit == Named(n)
             f == [w \in hit |-> [w EXCEPT !.draft = @ \cup {d}]]
  <1>1. hit \in SUBSET windows
    BY NamedIn
  <1>2. windows' = (windows \ hit) \cup {[w EXCEPT !.draft = @ \cup {d}] : w \in hit}
    BY DEF Replace
  <1> HIDE DEF hit
  <1>3. f \in [hit -> Window] /\ \A w \in hit : f[w] = [w EXCEPT !.draft = @ \cup {d}]
    BY <1>1, WindowsTyped
  <1>4. \A w \in hit : SameWindow(w, f[w]) /\ (w.at = "on" => f[w].at = "on")
    BY <1>1, <1>3, WindowsSame, StillOn
  <1>5. \A y \in windows' : y \in windows \ hit \/ \E w \in hit : y = f[w]
    BY <1>2, <1>3
  <1> HIDE DEF f
  <1>6. QED
    BY <1>1, <1>3, <1>4, <1>5, ReplaceMoves

\* Spawning in a window, and typing into it.
LEMMA TmuxMoves ==
  ASSUME TypeInv, NEW t \in Procs, Tmux(t), ~OpenWindow(t)
  PROVE  Moved
  <1>1. windows \subseteq Window /\ buffer \in Seq(Tasks \cup {None})
    BY TypeParts DEF DataOK
  <1>2. CASE NoRollout(t) \/ Claim(t) \/ LoadBuffer(t)
    BY <1>1, <1>2, SubsetMoves DEF NoRollout, Claim, LoadBuffer
  <1>3. CASE TypeCommand(t) \/ TypeLine(t)
    <2>1. Typed(t)
      BY <1>3 DEF TypeCommand, TypeLine
    <2>2. windows' = Replace(Named(Target(t)), {[w EXCEPT !.draft = @ \cup {t}] : w \in Named(Target(t))})
      BY <2>1 DEF Typed
    <2>3. QED
      BY <1>1, <2>2, DraftMoves
  <1>4. CASE RunCommand(t)
    BY <1>1, <1>4, PressMoves DEF RunCommand
  <1>5. CASE PasteBuffer(t)
    <2>1. CASE windows' = windows
      BY <1>1, <2>1, SubsetMoves
    <2>2. CASE windows' # windows
      <3>1. /\ buffer # <<>>
            /\ windows' = Replace(Named(Target(t)),
                 {[w EXCEPT !.draft = @ \cup {Head(buffer)}] : w \in Named(Target(t))})
        BY <1>5, <2>2 DEF PasteBuffer
      <3>2. Head(buffer) \in Procs \cup {None}
        BY <1>1, <3>1, HeadTailProperties DEF Procs
      <3>3. QED
        BY <1>1, <3>1, <3>2, DraftMoves
    <2>3. QED
      BY <2>1, <2>2
  <1>6. QED
    BY <1>2, <1>3, <1>4, <1>5 DEF Tmux

\* The steps that end an operation or go on with it.
LEMMA ResumeMoves ==
  ASSUME TypeInv, NEW t \in Tasks, Resume(t)
  PROVE  Moved
  <1>1. windows \subseteq Window
    BY TypeParts DEF DataOK
  <1>2. CASE Enter(t) \/ KillWindow(t)
    BY <1>1, <1>2, PressMoves DEF Enter
  <1>3. CASE windows' = windows
    BY <1>1, <1>3, SubsetMoves
  <1>4. QED
    BY <1>2, <1>3 DEF Resume, Look, Respawned, ConvoRecord, Retyped, BlankEntered, Answered, TimedOut,
       Ready, GiveUp, Directed, Rename, Planned, Launched, Injected, InputSent, Archives, Ended, Over,
       ArchiveFails

\* An agent comes up, windows close, and the server or the machine dies.
LEMMA EnvironmentMoves ==
  ASSUME TypeInv, Environment
  PROVE  Moved
  <1>1. windows \subseteq Window
    BY TypeParts DEF DataOK
  <1>2. CASE \E w \in windows : AgentUp(w)
    <2>1. PICK x \in windows : AgentUp(x)
      BY <1>2
    <2> DEFINE hit == {x}
               f == [w \in hit |-> [w EXCEPT !.at = "on"]]
    <2>2. windows' = (windows \ hit) \cup {[x EXCEPT !.at = "on"]}
      BY <2>1 DEF AgentUp, Replace
    <2>3. f \in [hit -> Window] /\ \A w \in hit : f[w] = [w EXCEPT !.at = "on"]
      BY <1>1, WindowsTyped
    <2>4. \A w \in hit : SameWindow(w, f[w]) /\ (w.at = "on" => f[w].at = "on")
      BY <1>1, <2>3, WindowsSame, StillOn
    <2>5. \A y \in windows' : y \in windows \ hit \/ \E w \in hit : y = f[w]
      BY <2>2, <2>3
    <2> HIDE DEF f
    <2>6. QED
      BY <1>1, <2>3, <2>4, <2>5, ReplaceMoves
  <1>3. CASE \E machine \in BOOLEAN : Dies(machine)
    <2>1. CASE windows' = {}
      BY <1>1, <2>1, SubsetMoves
    <2>2. CASE windows' # {}
      <3> DEFINE f == [w \in windows |-> [w EXCEPT !.draft = Orphan(@)]]
      <3>1. windows' = {[w EXCEPT !.draft = Orphan(@)] : w \in windows}
        BY <1>3, <2>2 DEF Dies
      <3>2. f \in [windows -> Window] /\ \A w \in windows : f[w] = [w EXCEPT !.draft = Orphan(@)]
        BY <1>1, WindowsTyped
      <3>3. \A w \in windows : SameWindow(w, f[w]) /\ (w.at = "on" => f[w].at = "on")
        BY <1>1, <3>2, WindowsSame, StillOn
      <3>4. \A y \in windows' : \E w \in windows : y = f[w]
        BY <3>1, <3>2
      <3> HIDE DEF f
      <3>5. QED
        BY <3>2, <3>3, <3>4 DEF Moved
    <2>3. QED
      BY <2>1, <2>2
  <1>4. CASE \E w \in windows : ChildUp(w) \/ WindowCloses(w)
    BY <1>1, <1>4, SubsetMoves DEF ChildUp, WindowCloses
  <1>5. CASE \E s \in Sessions : Talk(s)
    BY <1>1, <1>5, SubsetMoves DEF Talk
  <1>6. QED
    BY <1>2, <1>3, <1>4, <1>5 DEF Environment, Crash, CutShort

\* Every step but that of new-window.
LEMMA WindowsMove ==
  ASSUME TypeInv, Next, \A t \in Procs : ~OpenWindow(t)
  PROVE  Moved
  <1>1. windows \subseteq Window
    BY TypeParts DEF DataOK
  <1>2. CASE windows' = windows
    BY <1>1, <1>2, SubsetMoves
  <1>3. CASE \E t \in Tasks : Button(t)
    BY <1>2, <1>3, ButtonStep
  <1>4. CASE Boot \/ Reuse \/ Respawn \/ CannotResume \/ BootRecord \/ Wake
    BY <1>2, <1>4 DEF Boot, Reuse, Respawn, CannotResume, BootRecord, Wake
  <1>5. CASE \E t \in Procs : Card(t)
    BY <1>2, <1>5 DEF Card
  <1>6. QED
    BY <1>3, <1>4, <1>5, ResumeMoves, TmuxMoves, EnvironmentMoves DEF Next

-----------------------------------------------------------------------------
(* One window to a name.                                                   *)

\* Windows that come of the ones there were have names of their own, too.
LEMMA SingleMoves ==
  ASSUME Single, Moved, past \subseteq past'
  PROVE  Single'
  <1>1. PICK g \in [windows -> Window] :
          /\ \A w \in windows : SameWindow(w, g[w])
          /\ \A y \in windows' : \E w \in windows : y = g[w]
    BY DEF Moved
  <1>2. ASSUME "twins" \notin past', NEW y \in windows', NEW z \in windows', y.name = z.name
        PROVE  y = z
    <2>1. PICK w \in windows, x \in windows : y = g[w] /\ z = g[x]
      BY <1>1
    <2>2. w.name = x.name
      BY <1>1, <1>2, <2>1 DEF SameWindow
    <2>3. w = x
      BY <1>2, <2>2 DEF Single
    <2>4. QED
      BY <2>1, <2>3
  <1>3. QED
    BY <1>2 DEF Single

\* Every step keeps it: new-window says so when it makes a second one.
LEMMA SingleStep ==
  ASSUME TypeInv, Single, [Next]_vars
  PROVE  Single'
  <1>1. CASE UNCHANGED vars
    BY <1>1 DEF vars, Single
  <1>2. CASE Next
    <2>1. past \subseteq past'
      BY <1>2, PastGrows
    <2>2. CASE \E t \in Procs : OpenWindow(t)
      <3>1. PICK t \in Procs : OpenWindow(t)
        BY <2>2
      <3>2. PICK s : NewWindow(t, s)
        BY <3>1 DEF OpenWindow
      <3>3. ASSUME "twins" \notin past', NEW y \in windows', NEW z \in windows', y.name = z.name
            PROVE  y = z
        <4>1. Hit(Target(t)) = {}
          BY <3>2, <3>3 DEF NewWindow
        <4>2. \A w \in windows : w.name # Target(t)
          BY <4>1 DEF Hit
        <4>3. \A w \in windows' : w.name = Target(t) \/ w \in windows
          BY <3>2 DEF NewWindow
        <4>4. \A w \in windows' \ windows :
                w = [name |-> Target(t), sess |-> s, codex |-> task[t].codex, at |-> "shell", draft |-> {}]
          BY <3>2 DEF NewWindow
        <4>5. \A w, x \in windows : w.name = x.name => w = x
          BY <2>1, <3>3 DEF Single
        <4>6. QED
          BY <3>3, <4>2, <4>3, <4>4, <4>5
      <3>4. QED
        BY <3>3 DEF Single
    <2>3. CASE \A t \in Procs : ~OpenWindow(t)
      BY <1>2, <2>1, <2>3, WindowsMove, SingleMoves
    <2>4. QED
      BY <2>2, <2>3
  <1>3. QED
    BY <1>1, <1>2

\* Without twins a command finds the window it is for, if that is there; if not it
\* finds none, or one that it misses.
LEMMA NamedIsHit ==
  ASSUME Single, "twins" \notin past, NEW n
  PROVE  /\ Hit(n) # {} => Named(n) = Hit(n)
         /\ Named(n) \subseteq Hit(n) => Named(n) = Hit(n)
  <1>1. CASE Hit(n) = {}
    BY <1>1
  <1>2. CASE Hit(n) # {}
    <2>1. PICK w \in Hit(n) : Hit(n) = {w}
      BY <1>2 DEF Single, Hit
    <2>2. Cardinality(Hit(n)) = 1
      BY <2>1, FS_Singleton
    <2>3. QED
      BY <2>2 DEF Named
  <1>3. QED
    BY <1>1, <1>2

\* A command whose window is missed is an accident.
LEMMA Found ==
  ASSUME Single, "twins" \notin past, NEW t, "prefix" \notin Missed(t)
  PROVE  Named(Target(t)) = Hit(Target(t))
  BY NamedIsHit DEF Missed

\* The server starts over windows with names of their own.
LEMMA SingleStart == Init => Single
  <1> SUFFICES ASSUME Init PROVE Single
    OBVIOUS
  <1>1. CASE windows = {}
    BY <1>1 DEF Single
  <1>2. CASE windows # {}
    <2>1. PICK S \in SUBSET Names, codex \in BOOLEAN :
            windows = {Running("convo", 1, codex)} \cup {Running(n, FirstId[n], n \in CodexNames) : n \in S}
      <3>1. PICK engine \in Engines :
              \E S \in {{}, Before} :
                 windows = {Running("convo", 1, engine = "codex")}
                           \cup {Running(n, FirstId[n], n \in CodexNames) : n \in S}
        BY <1>2 DEF Init
      <3>2. (engine = "codex") \in BOOLEAN /\ Before \in SUBSET Names /\ {} \in SUBSET Names
        BY Constants
      <3>3. QED
        BY <3>1, <3>2, Zenon
    <2>2. \A n, s, c : Running(n, s, c).name = n
      BY DEF Running
    <2>3. \A w \in windows : \/ w = Running("convo", 1, codex)
                             \/ \E n \in S : w = Running(n, FirstId[n], n \in CodexNames)
      BY <2>1
    <2>4. "convo" \notin Names
      BY SubstrateAssumption
    <2>5. QED
      BY <2>2, <2>3, <2>4 DEF Single
  <1>3. QED
    BY <1>1, <1>2

-----------------------------------------------------------------------------
(* A session is submitted its own text.                                    *)

\* Neither the server's boot nor its loop sends a text.
LEMMA StatusQuiet ==
  \A r \in TaskRecord : Shape(Status, r) => r.pc \notin {"load", "line", "paste", "enter"}
  BY Constants DEF Shape, TaskRecord, Ops

\* A text in a composer was there before.
DraftsKept == \A y \in windows' : \A d \in y.draft : \E w \in windows : w.name = y.name /\ d \in w.draft

\* A process that is sending after the step was at the same point of it, and one whose
\* text waits for its Enter still is at that.
SendKept(u) ==
  /\ Sending(u)' => task[u].pc = task'[u].pc
  /\ Pressing(u) => task'[u].pc = task[u].pc /\ Target(u)' = Target(u)

\* No accident, or one that the property excuses.
NoMuddle == "muddle" \in past' => "muddle" \in past \/ past' \cap Mixups # {}

\* A step that touches no text.
LEMMA TextFrame ==
  ASSUME TextInv, past \subseteq past', NoMuddle, buffer' = buffer, DraftsKept,
         \A u \in Procs : SendKept(u)
  PROVE  TextInv'
  <1>1. OwnText'
    BY DEF TextInv, OwnText, NoMuddle, Mixups
  <1>2. ASSUME past' \cap Mixups = {}
        PROVE  /\ \A t, u \in Procs : Sending(t)' /\ Sending(u)' => t = u
               /\ \A t \in Procs : task'[t].pc = "paste" => buffer' # <<>> /\ Head(buffer') = t
               /\ \A w \in windows' : \A d \in w.draft :
                    d \in Procs /\ Pressing(d)' /\ Target(d)' = w.name
    <2>1. past \cap Mixups = {}
      BY <1>2
    <2>2. /\ \A t, u \in Procs : Sending(t) /\ Sending(u) => t = u
          /\ \A t \in Procs : task[t].pc = "paste" => buffer # <<>> /\ Head(buffer) = t
          /\ \A w \in windows : \A d \in w.draft : d \in Procs /\ Pressing(d) /\ Target(d) = w.name
      BY <2>1 DEF TextInv
    <2>3. \A u \in Procs : Sending(u)' => Sending(u)
      BY DEF SendKept, Sending
    <2>4. \A t \in Procs : task'[t].pc = "paste" => task[t].pc = "paste"
      BY DEF SendKept, Sending
    <2>5. \A u \in Procs : Pressing(u) => Pressing(u)' /\ Target(u)' = Target(u)
      BY DEF SendKept, Pressing
    <2>6. QED
      BY <2>2, <2>3, <2>4, <2>5 DEF DraftsKept
  <1>3. QED
    BY <1>1, <1>2 DEF TextInv

\* Enter submits the text of the process that presses it and leaves no text in any composer.
LEMMA PressText ==
  ASSUME TypeInv, Single, TextInv, NEW t \in Procs, Pressing(t), Press(t)
  PROVE  /\ past \subseteq past' /\ NoMuddle
         /\ past' \cap Mixups = {} => \A y \in windows' : y.draft = {}
  <1> DEFINE hit == Named(Target(t))
  <1>1. /\ hit \subseteq windows /\ windows \subseteq Window
        /\ windows' = (windows \ hit) \cup {Submitted(w) : w \in hit}
        /\ past' = past \cup Missed(t)
                        \cup (IF \A w \in hit : w.draft \subseteq {t} THEN {} ELSE {"muddle"})
    BY TypeParts, NamedIn DEF DataOK, Press, Replace
  <1>2. ASSUME past' \cap Mixups = {}
        PROVE  /\ \A w \in windows : w.draft \subseteq {t}
               /\ \A w \in windows \ hit : w.draft = {}
    <2>1. past \cap Mixups = {} /\ "twins" \notin past /\ "prefix" \notin Missed(t)
      BY <1>1, <1>2 DEF Mixups
    <2>2. hit = Hit(Target(t))
      BY <2>1, Found
    <2>3. ASSUME NEW w \in windows, NEW d \in w.draft
          PROVE  d = t /\ w \in hit
      <3>1. d \in Procs /\ Pressing(d) /\ Target(d) = w.name
        BY <2>1 DEF TextInv
      <3>2. d = t
        BY <2>1, <3>1 DEF TextInv, Sending, Pressing
      <3>3. QED
        BY <2>2, <3>1, <3>2 DEF Hit
    <2>4. QED
      BY <2>3
  <1>3. \A w \in hit : Submitted(w).draft = {}
    BY <1>1 DEF Window, Submitted
  <1> HIDE DEF hit
  <1>4. past \subseteq past'
    BY <1>1
  <1>5. NoMuddle
    <2>1. SUFFICES ASSUME past' \cap Mixups = {} PROVE past' \subseteq past \cup Missed(t)
      BY DEF NoMuddle, Missed
    <2>2. \A w \in hit : w.draft \subseteq {t}
      BY <1>1, <1>2, <2>1
    <2>3. QED
      BY <1>1, <2>2
  <1>6. past' \cap Mixups = {} => \A y \in windows' : y.draft = {}
    BY <1>1, <1>2, <1>3
  <1>7. QED
    BY <1>4, <1>5, <1>6

\* The process that pressed Enter goes on to something else, or to its next Enter.
LEMMA TextPressed ==
  ASSUME TypeInv, Single, TextInv, NEW t \in Procs, Pressing(t), Press(t), task'[t].pc # "paste",
         \A u \in Procs \ {t} : task'[u] = task[u]
  PROVE  TextInv'
  <1>1. /\ past \subseteq past' /\ NoMuddle /\ buffer' = buffer
        /\ past' \cap Mixups = {} => \A y \in windows' : y.draft = {}
    BY PressText DEF Press
  <1>2. OwnText'
    BY <1>1 DEF TextInv, OwnText, NoMuddle, Mixups
  <1>3. \A u \in Procs : Sending(u)' => Sending(u)
    BY DEF Sending, Pressing
  <1>4. ASSUME past' \cap Mixups = {}
        PROVE  /\ \A v, u \in Procs : Sending(v)' /\ Sending(u)' => v = u
               /\ \A u \in Procs : task'[u].pc = "paste" => buffer' # <<>> /\ Head(buffer') = u
               /\ \A w \in windows' : w.draft = {}
    <2>1. past \cap Mixups = {}
      BY <1>1, <1>4
    <2>2. /\ \A v, u \in Procs : Sending(v) /\ Sending(u) => v = u
          /\ \A u \in Procs : task[u].pc = "paste" => buffer # <<>> /\ Head(buffer) = u
      BY <2>1 DEF TextInv
    <2>3. QED
      BY <1>1, <1>3, <1>4, <2>2
  <1>5. QED
    BY <1>2, <1>4 DEF TextInv

\* The text goes onto the stack of buffers, while nobody else is sending.
LEMMA TextLoaded ==
  ASSUME TypeInv, TextInv, NEW t \in Procs, LoadBuffer(t)
  PROVE  TextInv'
  <1>1. /\ task[t].pc = "load" /\ task'[t].pc = "paste"
        /\ \A u \in Procs \ {t} : task'[u] = task[u]
        /\ windows' = windows /\ buffer' = <<t>> \o buffer
        /\ past' = past \cup Overlap(t)
    BY TypeParts, LoadBufferStep DEF Step, LoadBuffer
  <1>2. OwnText'
    BY <1>1 DEF TextInv, OwnText, Overlap
  <1>3. buffer \in Seq(Tasks \cup {None}) /\ t \in Tasks
    <2>1. TasksOK
      BY TypeParts
    <2>2. t # Status
      BY <1>1, <2>1, StatusQuiet DEF TasksOK
    <2>3. QED
      BY <2>2, TypeParts DEF DataOK, Procs
  <1>4. buffer' # <<>> /\ Head(buffer') = t
    BY <1>1, <1>3
  <1>5. ASSUME past' \cap Mixups = {}
        PROVE  /\ \A v, u \in Procs : Sending(v)' /\ Sending(u)' => v = u
               /\ \A u \in Procs : task'[u].pc = "paste" => buffer' # <<>> /\ Head(buffer') = u
               /\ \A w \in windows' : w.draft = {}
    <2>1. past \cap Mixups = {} /\ "overlap" \notin Overlap(t)
      BY <1>1, <1>5 DEF Mixups
    <2>2. \A u \in Procs : ~Sending(u)
      BY <1>1, <2>1 DEF Overlap, Sending
    <2>3. \A u \in Procs : Sending(u)' => u = t
      BY <1>1, <2>2 DEF Sending
    <2>4. \A w \in windows : w.draft = {}
      BY <2>1, <2>2 DEF TextInv, Sending, Pressing
    <2>5. QED
      BY <1>1, <1>4, <2>3, <2>4 DEF Sending
  <1>6. QED
    BY <1>2, <1>5 DEF TextInv

\* The one process that is sending puts its text into the composer of its window.
LEMMA TextIn ==
  ASSUME TypeInv, Single, TextInv, NEW t \in Procs, past \subseteq past', NoMuddle,
         task[t].pc \in {"paste", "line", "type"}, Pressing(t)', Target(t)' = Target(t),
         \A u \in Procs \ {t} : task'[u] = task[u],
         Missed(t) \subseteq past',
         past' \cap Mixups = {} =>
           /\ \A u \in Procs \ {t} : ~Sending(u)
           /\ \/ windows' = windows
              \/ windows' = Replace(Named(Target(t)), {[w EXCEPT !.draft = @ \cup {t}] : w \in Named(Target(t))})
  PROVE  TextInv'
  <1> DEFINE hit == Named(Target(t))
  <1>1. OwnText'
    BY DEF TextInv, OwnText, NoMuddle, Mixups
  <1>2. windows \subseteq Window /\ hit \subseteq windows
    BY TypeParts, NamedIn DEF DataOK
  <1>3. ASSUME past' \cap Mixups = {}
        PROVE  /\ \A v, u \in Procs : Sending(v)' /\ Sending(u)' => v = u
               /\ \A u \in Procs : task'[u].pc # "paste"
               /\ \A w \in windows' : \A d \in w.draft :
                    d \in Procs /\ Pressing(d)' /\ Target(d)' = w.name
    <2>1. past \cap Mixups = {} /\ "twins" \notin past /\ "prefix" \notin Missed(t)
      BY <1>3 DEF Mixups
    <2>2. \A u \in Procs \ {t} : ~Sending(u)'
      BY <1>3 DEF Sending
    <2>3. \A w \in windows : w.draft = {}
      BY <1>3, <2>1 DEF TextInv, Sending, Pressing
    <2>4. \A w \in hit : w.name = Target(t)
      BY <2>1, Found DEF Hit
    <2>5. \A w \in hit : /\ [w EXCEPT !.draft = @ \cup {t}].name = w.name
                         /\ [w EXCEPT !.draft = @ \cup {t}].draft = w.draft \cup {t}
      BY <1>2 DEF Window
    <2>6. \/ windows' = windows
          \/ windows' = (windows \ hit) \cup {[w EXCEPT !.draft = @ \cup {t}] : w \in hit}
      BY <1>3 DEF Replace
    <2> HIDE DEF hit
    <2>7. \A y \in windows' : y.draft = {} \/ (y.draft = {t} /\ y.name = Target(t))
      <3>1. SUFFICES ASSUME NEW y \in windows', y \notin windows
                     PROVE  y.draft = {t} /\ y.name = Target(t)
        BY <2>3
      <3>2. PICK w \in hit : y = [w EXCEPT !.draft = @ \cup {t}]
        BY <2>6, <3>1
      <3>3. QED
        BY <1>2, <2>3, <2>4, <2>5, <3>2
    <2>8. task'[t].pc # "paste"
      BY DEF Pressing
    <2>9. QED
      BY <2>2, <2>7, <2>8 DEF Sending
  <1>4. QED
    BY <1>1, <1>3 DEF TextInv

\* The text is pasted.
LEMMA TextPasted ==
  ASSUME TypeInv, Single, TextInv, NEW t \in Procs, PasteBuffer(t)
  PROVE  TextInv'
  <1>1. /\ task[t].pc = "paste" /\ task'[t].pc = "enter" /\ past' = past \cup Missed(t)
        /\ \A u \in Procs \ {t} : task'[u] = task[u]
        /\ task'[t].stage = task[t].stage /\ task'[t].name = task[t].name
    BY TypeParts, PasteBufferStep DEF Step, Alike, PasteBuffer
  <1>2. Target(t)' = Target(t) /\ Pressing(t)'
    BY <1>1 DEF Target, Pressing
  <1>3. ASSUME past' \cap Mixups = {}
        PROVE  /\ \A u \in Procs \ {t} : ~Sending(u)
               /\ \/ windows' = windows
                  \/ windows' = Replace(Named(Target(t)),
                       {[w EXCEPT !.draft = @ \cup {t}] : w \in Named(Target(t))})
    <2>1. past \cap Mixups = {}
      BY <1>1, <1>3
    <2>2. \A u \in Procs \ {t} : ~Sending(u)
      BY <1>1, <2>1 DEF TextInv, Sending
    <2>3. Head(buffer) = t
      BY <1>1, <2>1 DEF TextInv
    <2>4. QED
      BY <2>2, <2>3 DEF PasteBuffer
  <1>4. NoMuddle /\ past \subseteq past'
    BY <1>1 DEF NoMuddle, Missed
  <1>5. QED
    BY <1>1, <1>2, <1>3, <1>4, TextIn

\* The text, or the command line, is typed.
LEMMA TextTyped ==
  ASSUME TypeInv, Single, TextInv, NEW t \in Procs, Typed(t),
         task[t].pc \in {"line", "type"}, Pressing(t)', Target(t)' = Target(t),
         \A u \in Procs \ {t} : task'[u] = task[u]
  PROVE  TextInv'
  <1>1. past' = past \cup Overlap(t) \cup Missed(t)
    BY DEF Typed
  <1>2. NoMuddle /\ past \subseteq past'
    BY <1>1 DEF NoMuddle, Overlap, Missed
  <1>3. ASSUME past' \cap Mixups = {}
        PROVE  \A u \in Procs \ {t} : ~Sending(u)
    BY <1>1, <1>3 DEF Overlap, Mixups
  <1>4. windows' = Replace(Named(Target(t)), {[w EXCEPT !.draft = @ \cup {t}] : w \in Named(Target(t))})
    BY DEF Typed
  <1>5. QED
    BY <1>1, <1>2, <1>3, <1>4, TextIn

\* Windows that stay or go have the texts they had.
LEMMA DraftsStay ==
  ASSUME windows' \subseteq windows
  PROVE  DraftsKept
  BY DEF DraftsKept

\* A process that stays, or goes on from one thing to another that are neither sending.
LEMMA SendStays ==
  ASSUME NEW u \in Procs,
         \/ task'[u] = task[u]
         \/ ~Pressing(u) /\ task'[u].pc \notin {"paste", "enter", "run"}
         \/ task'[u].pc = task[u].pc /\ task'[u].stage = task[u].stage /\ task'[u].name = task[u].name
  PROVE  SendKept(u)
  BY DEF SendKept, Sending, Pressing, Target

\* The steps of one process that sends nothing.
LEMMA TextQuiet ==
  ASSUME TextInv, NEW t \in Procs, past \subseteq past', NoMuddle,
         windows' \subseteq windows, buffer' = buffer,
         \A u \in Procs \ {t} : task'[u] = task[u],
         ~Pressing(t), task'[t].pc \notin {"paste", "enter", "run"}
  PROVE  TextInv'
  <1>1. \A u \in Procs : SendKept(u)
    BY SendStays
  <1>2. QED
    BY <1>1, DraftsStay, TextFrame

\* The server boots, and its loop wakes: neither opens a window, nor types.
LEMMA ServerQuiet ==
  ASSUME TypeInv, Boot \/ Reuse \/ Respawn \/ CannotResume \/ BootRecord \/ Wake
  PROVE  /\ task[Status].pc \in {"idle", "look", "record", "sleep"}
         /\ task'[Status].pc \in {"idle", "look", "open", "sleep", "card", "dead"}
  <1>1. UpInv
    BY TypeParts
  <1>2. CASE Boot
    BY <1>1, <1>2, ServerStep, IdleIs DEF UpInv
  <1>3. CASE Reuse \/ BootRecord
    <2>1. task[Status].pc \in {"look", "record"}
      BY <1>3 DEF Reuse, BootRecord
    <2>2. task'[Status] = [Idle EXCEPT !.op = "status", !.pc = "sleep"]
      BY <1>3, ServerStep
    <2>3. QED
      BY <2>1, <2>2 DEF Idle
  <1>4. CASE Respawn
    BY <1>4, ServerStep
  <1>5. CASE CannotResume
    BY <1>5, ServerStep, IdleIs DEF CannotResume
  <1>6. CASE Wake
    BY <1>6, ServerStep DEF Carding
  <1>7. QED
    BY <1>2, <1>3, <1>4, <1>5, <1>6

\* Spawning and sending.
LEMMA TextTmux ==
  ASSUME TypeInv, Single, TextInv, NEW t \in Procs, Tmux(t)
  PROVE  TextInv'
  <1>1. /\ TasksOK /\ db \in Store /\ windows \subseteq Window
        /\ task[t] \in TaskRecord
    BY TypeParts DEF DataOK, TasksOK
  <1>2. CASE LoadBuffer(t) \/ PasteBuffer(t)
    BY <1>2, TextLoaded, TextPasted
  <1>3. CASE TypeCommand(t) \/ TypeLine(t)
    <2>1. /\ Typed(t) /\ task[t].pc \in {"line", "type"} /\ task'[t].pc \in {"enter", "run"}
          /\ Step(t, {"pc"})
      BY <1>1, <1>3, TypeCommandStep, TypeLineStep DEF TypeCommand, TypeLine
    <2>2. Pressing(t)' /\ Target(t)' = Target(t) /\ \A u \in Procs \ {t} : task'[u] = task[u]
      BY <2>1 DEF Pressing, Target, Step, Alike
    <2>3. QED
      BY <2>1, <2>2, TextTyped
  <1>4. CASE RunCommand(t)
    <2>1. /\ Step(t, {"pc"}) /\ task[t].pc = "run" /\ Press(t)
          /\ task'[t].pc = IF task[t].codex THEN "claim" ELSE AfterSpawn[task[t].stage]
      BY <1>1, <1>4, RunCommandStep DEF RunCommand
    <2>2. task'[t].pc \in {"await", "ready", "record", "claim"}
      BY <1>1, <2>1, AfterSpawnIs DEF TaskRecord
    <2>3. QED
      BY <2>1, <2>2, TextPressed DEF Step, Pressing
  <1>5. CASE NoRollout(t)
    <2>1. task'[t] = Idle /\ \A u \in Procs \ {t} : task'[u] = task[u]
      BY <1>1, <1>5, OverStep DEF NoRollout
    <2>2. /\ task[t].pc = "claim" /\ past \subseteq past' /\ NoMuddle
          /\ windows' = windows /\ buffer' = buffer
      BY <1>5 DEF NoRollout, NoMuddle
    <2>3. QED
      BY <2>1, <2>2, TextQuiet, IdleIs DEF Pressing
  <1>6. CASE Claim(t)
    <2>1. /\ Step(t, {"pc", "sess", "new"}) /\ task[t].pc = "claim"
          /\ task'[t].pc = AfterSpawn[task[t].stage] /\ past \subseteq past' /\ NoMuddle
          /\ windows' = windows /\ buffer' = buffer
      BY <1>1, <1>6, ClaimStep DEF NoMuddle, Claim
    <2>2. task'[t].pc \in {"await", "ready", "record"}
      BY <1>1, <2>1, AfterSpawnIs DEF TaskRecord
    <2>3. QED
      BY <2>1, <2>2, TextQuiet DEF Step, Pressing
  <1>7. CASE OpenWindow(t)
    <2>1. /\ Step(t, {"pc", "sess", "new"}) /\ task[t].pc = "open" /\ task'[t].pc = "type"
      BY <1>1, <1>7, OpenWindowStep
    <2>2. PICK s : NewWindow(t, s)
      BY <1>7 DEF OpenWindow
    <2>3. past \subseteq past' /\ NoMuddle /\ buffer' = buffer
      BY <2>2 DEF NewWindow, NoMuddle
    <2>4. \A y \in windows' : y \in windows \/ y.draft = {}
      BY <2>2 DEF NewWindow
    <2>5. DraftsKept
      BY <2>4 DEF DraftsKept
    <2>6. \A u \in Procs : SendKept(u)
      BY <2>1, SendStays DEF Step, Pressing
    <2>7. QED
      BY <2>3, <2>5, <2>6, TextFrame
  <1>8. QED
    BY <1>2, <1>3, <1>4, <1>5, <1>6, <1>7 DEF Tmux

\* The steps that end an operation or go on with it.
LEMMA TextResume ==
  ASSUME TypeInv, Single, TextInv, NEW t \in Tasks, Resume(t)
  PROVE  TextInv'
  <1>1. /\ TasksOK /\ t \in Procs /\ past \subseteq past' /\ mem.ws \in [Names -> Row \cup {None}]
        /\ \A u \in Procs \ {t} : task'[u] = task[u]
    BY TypeParts, ResumeStep DEF Procs, DataOK, Memory
  <1>2. CASE Retyped(t) \/ BlankEntered(t) \/ Rename(t) \/ Launched(t) \/ Injected(t) \/ InputSent(t)
    <2>1. Enter(t)
      BY <1>2 DEF Retyped, BlankEntered, Rename, Launched, Injected, InputSent
    <2>2. task'[t].pc # "paste"
      <3>1. CASE Retyped(t)
        BY <1>1, <3>1, RetypedStep DEF Step, Alike
      <3>2. CASE BlankEntered(t)
        BY <1>1, <3>2, PushStep DEF BlankEntered, Carding
      <3>3. CASE Rename(t)
        BY <1>1, <3>3, RenameStep
      <3>4. CASE Launched(t)
        BY <3>4, LaunchedStep DEF Carding
      <3>5. CASE Injected(t) \/ InputSent(t)
        BY <1>1, <3>5, OverStep, IdleIs DEF Injected, InputSent, Become
      <3>6. QED
        BY <1>2, <3>1, <3>2, <3>3, <3>4, <3>5
    <2>3. QED
      BY <1>1, <2>1, <2>2, TextPressed DEF Enter, Pressing
  <1>3. ASSUME NoMuddle, windows' \subseteq windows, buffer' = buffer,
               task[t].pc \notin {"enter", "run"}, task'[t].pc \notin {"paste", "enter", "run"}
        PROVE  TextInv'
    BY <1>1, <1>3, TextQuiet DEF Pressing
  <1>4. CASE Look(t)
    BY <1>1, <1>3, <1>4, LookStep DEF Look, NoMuddle, Step
  <1>5. CASE Respawned(t)
    BY <1>1, <1>3, <1>5, RespawnedStep DEF Respawned, KillWindow, NoMuddle, Step
  <1>6. CASE ConvoRecord(t)
    <2>1. NoMuddle /\ windows' = windows /\ buffer' = buffer
      BY <1>6 DEF ConvoRecord, NoMuddle
    <2>2. QED
      BY <1>3, <1>6, <2>1, ConvoRecordStep DEF Carding
  <1>7. CASE Answered(t)
    BY <1>1, <1>3, <1>7, AnsweredStep DEF Answered, NoMuddle, Step
  <1>8. CASE TimedOut(t)
    BY <1>1, <1>3, <1>8, TimedOutStep DEF TimedOut, NoMuddle, Step
  <1>9. CASE Ready(t)
    BY <1>1, <1>3, <1>9, ReadyStep DEF Ready, NoMuddle, Step
  <1>10. CASE GiveUp(t)
    BY <1>1, <1>3, <1>10, OverStep, IdleIs DEF GiveUp, KillWindow, Missed, Become, NoMuddle
  <1>11. CASE Directed(t)
    BY <1>1, <1>3, <1>11, DirectedStep DEF Directed, KillWindow, NoMuddle, Step
  <1>12. CASE \E n \in Names : Planned(t, n)
    <2>1. PICK n \in Names : Planned(t, n)
      BY <1>12
    <2>2. Step(t, {"stage", "pc", "name", "codex", "sess", "got"}) /\ task[t].pc = "kill" /\ task'[t].pc = "open"
      BY <1>1, <2>1, PlannedStep
    <2>3. NoMuddle /\ windows' \subseteq windows /\ buffer' = buffer
      BY <2>1 DEF Planned, KillWindow, NoMuddle
    <2>4. QED
      BY <1>3, <2>2, <2>3 DEF Step
  <1>13. CASE Archives(t)
    BY <1>1, <1>3, <1>13, ArchivesStep DEF Archives, KillWindow, Missed, NoMuddle, Step
  <1>14. CASE Ended(t)
    <2>1. NoMuddle /\ windows' \subseteq windows /\ buffer' = buffer
      BY <1>14 DEF Ended, Over, KillWindow, Missed, NoMuddle
    <2>2. /\ task[t].pc \in {"kill", "archive"}
          /\ task'[t].pc \in {"idle", "sleep", "dead", "card"}
      BY <1>14, EndedStep, IdleIs DEF Carding
    <2>3. QED
      BY <1>3, <2>1, <2>2
  <1>15. CASE ArchiveFails(t)
    <2>1. NoMuddle /\ windows' \subseteq windows /\ buffer' = buffer
      BY <1>15 DEF ArchiveFails, NoMuddle
    <2>2. /\ task[t].pc = "archive"
          /\ task'[t].pc \in {"idle", "sleep", "dead", "card"}
      BY <1>15, ArchiveFailsStep DEF Carding
    <2>3. QED
      BY <1>3, <2>1, <2>2
  <1>16. QED
    BY <1>2, <1>4, <1>5, <1>6, <1>7, <1>8, <1>9, <1>10, <1>11, <1>12, <1>13, <1>14, <1>15 DEF Resume

\* The server dies: the texts in the composers are nobody's.
LEMMA TextCrash ==
  ASSUME TypeInv, TextInv, NEW machine \in BOOLEAN, NEW T, Dies(machine),
         past \subseteq past', Wreck(T) \subseteq past', "muddle" \in past' => "muddle" \in past
  PROVE  TextInv'
  <1>1. /\ (\E t \in Procs : Sending(t)) => "overlap" \in past'
        /\ \A u \in Procs : task'[u] = Idle
        /\ windows' = {} \/ windows' = {[w EXCEPT !.draft = Orphan(@)] : w \in windows}
        /\ windows \subseteq Window
    BY TypeParts DEF Dies, Wreck, DataOK
  <1>2. OwnText'
    BY DEF TextInv, OwnText
  <1>3. ASSUME past' \cap Mixups = {}
        PROVE  \A y \in windows' : y.draft = {}
    <2>1. \A u \in Procs : ~Sending(u)
      BY <1>1, <1>3 DEF Mixups
    <2>2. \A w \in windows : w.draft = {}
      BY <1>3, <2>1 DEF TextInv, Sending, Pressing
    <2>3. Orphan({}) = {}
      BY DEF Orphan
    <2>4. \A w \in windows : [w EXCEPT !.draft = Orphan(@)].draft = {}
      BY <1>1, <2>2, <2>3 DEF Window
    <2>5. ASSUME NEW y \in windows'
          PROVE  \E w \in windows : y = [w EXCEPT !.draft = Orphan(@)]
      <3>1. windows' = {[w EXCEPT !.draft = Orphan(@)] : w \in windows}
        BY <1>1, <2>5
      <3>2. QED
        BY <2>5, <3>1, Zenon
    <2>6. QED
      BY <2>4, <2>5, Zenon
  <1>4. \A u \in Procs : task'[u].pc = "idle"
    BY <1>1, IdleIs
  <1>5. QED
    BY <1>2, <1>3, <1>4 DEF TextInv, Sending

\* Every step keeps it.
LEMMA TextStep ==
  ASSUME TypeInv, Single, TextInv, TypeInv', [Next]_vars
  PROVE  TextInv'
  <1>1. TasksOK /\ TasksOK' /\ Status \in Procs /\ windows \subseteq Window
    BY TypeParts, TypePartsNext DEF Procs, DataOK
  <1>2. CASE UNCHANGED <<windows, buffer, task, past>>
    <2>1. DraftsKept /\ NoMuddle /\ past \subseteq past' /\ \A u \in Procs : SendKept(u)
      BY <1>2, DraftsStay, SendStays DEF NoMuddle
    <2>2. QED
      BY <1>2, <2>1, TextFrame
  <1>3. CASE Boot \/ Reuse \/ Respawn \/ CannotResume \/ BootRecord \/ Wake
    <2>1. windows' = windows /\ buffer' = buffer /\ past \subseteq past' /\ NoMuddle
      BY <1>3 DEF Boot, Reuse, Respawn, CannotResume, BootRecord, Outdated, Wake, NoMuddle
    <2>2. \A u \in Procs \ {Status} : task'[u] = task[u]
      BY <1>3, ServerStep DEF Procs
    <2>3. QED
      BY <1>1, <1>3, <2>1, <2>2, ServerQuiet, TextQuiet DEF Pressing
  <1>4. CASE \E t \in Tasks : Button(t)
    <2>1. PICK t \in Tasks : Button(t)
      BY <1>4
    <2>2. /\ windows' = windows /\ buffer' = buffer /\ task[t].pc = "idle" /\ past' \in {past, Resets}
          /\ \A u \in Procs \ {t} : task'[u] = task[u]
      BY <2>1, ButtonStep, IdleIs
    <2>3. past \subseteq past' /\ NoMuddle
      BY <2>2 DEF Resets, NoMuddle
    <2>4. task'[t].pc \notin {"paste", "enter", "run"}
      BY <2>1, ButtonStep DEF Begun
    <2>5. QED
      BY <2>2, <2>3, <2>4, TextQuiet DEF Procs, Pressing
  <1>5. CASE \E t \in Procs : Card(t)
    <2>1. PICK t \in Procs : Card(t)
      BY <1>5
    <2>2. /\ task[t].pc = "card" /\ task'[t].pc \notin {"paste", "enter", "run"}
          /\ \A u \in Procs \ {t} : task'[u] = task[u]
      BY <2>1, CardStep DEF Carding
    <2>3. windows' = windows /\ buffer' = buffer /\ past \subseteq past' /\ NoMuddle
      BY <2>1 DEF Card, NoMuddle
    <2>4. QED
      BY <2>2, <2>3, TextQuiet DEF Pressing
  <1>6. CASE \E w \in windows : AgentUp(w)
    <2>1. PICK w \in windows : AgentUp(w)
      BY <1>6
    <2>2. \A u \in Procs : Alike(task[u], task'[u], {"new"})
      BY <1>1, <2>1, AgentUpStep
    <2>3. \A u \in Procs : SendKept(u)
      BY <2>2, SendStays DEF Alike
    <2>4. /\ windows' = (windows \ {w}) \cup {[w EXCEPT !.at = "on"]}
          /\ buffer' = buffer /\ past' = past
      BY <2>1 DEF AgentUp, Replace
    <2>5. [w EXCEPT !.at = "on"].draft = w.draft /\ [w EXCEPT !.at = "on"].name = w.name
      BY <1>1 DEF Window
    <2>6. DraftsKept
      BY <2>4, <2>5 DEF DraftsKept
    <2>7. QED
      BY <2>3, <2>4, <2>6, TextFrame DEF NoMuddle
  <1>7. CASE \E w \in windows : ChildUp(w)
    <2>1. PICK w \in windows : ChildUp(w)
      BY <1>7
    <2>2. /\ windows' = windows /\ buffer' = buffer /\ past' = past \cup {"child"}
          /\ \A u \in Procs : Alike(task[u], task'[u], {"new"})
      BY <1>1, <2>1, ChildUpStep
    <2>3. DraftsKept /\ NoMuddle /\ \A u \in Procs : SendKept(u)
      BY <2>2, DraftsStay, SendStays DEF NoMuddle, Alike
    <2>4. QED
      BY <2>2, <2>3, TextFrame
  <1>8. CASE (\E w \in windows : WindowCloses(w)) \/ \E s \in Sessions : Talk(s)
    <2>1. windows' \subseteq windows /\ UNCHANGED <<buffer, task, past>>
      BY <1>8 DEF WindowCloses, Talk
    <2>2. DraftsKept /\ NoMuddle /\ \A u \in Procs : SendKept(u)
      BY <2>1, DraftsStay, SendStays DEF NoMuddle
    <2>3. QED
      BY <2>1, <2>2, TextFrame
  <1>9. CASE \E machine \in BOOLEAN : Crash(machine) \/ \E t \in Tasks : CutShort(t, machine)
    <2>1. PICK machine \in BOOLEAN, T \in SUBSET Tasks :
            /\ Dies(machine) /\ past \cup Wreck(T) \subseteq past'
            /\ past' \subseteq past \cup Wreck(T) \cup {"stale"}
      BY <1>9 DEF Crash, CutShort, Outdated
    <2>2. "muddle" \notin Wreck(T)
      BY DEF Wreck
    <2>3. QED
      BY <2>1, <2>2, TextCrash
  <1>10. QED
    BY <1>2, <1>3, <1>4, <1>5, <1>6, <1>7, <1>8, <1>9, TextTmux, TextResume DEF Next, Environment, vars

\* At the start nothing is being sent, and the composers are empty.
LEMMA TextStart == Init => TextInv
  <1> SUFFICES ASSUME Init PROVE TextInv
    OBVIOUS
  <1>1. past = {} /\ \A t \in Procs : task[t].pc = "idle"
    BY IdleIs DEF Init
  <1>2. \A w \in windows : w.draft = {}
    <2>1. \A w \in windows : \E n, s, c : w = Running(n, s, c)
      BY DEF Init
    <2>2. QED
      BY <2>1 DEF Running
  <1>3. QED
    BY <1>1, <1>2 DEF TextInv, OwnText, Sending, Pressing

\* Windows share no name, unless new-window was called for a name that one had.
LEMMA SingleAlways == Spec => []Single
  <1>1. Init => Single
    BY SingleStart
  <1>2. TypeInv /\ Single /\ [Next]_vars => Single'
    BY SingleStep
  <1>3. QED
    BY <1>1, <1>2, TypeAlways, PTL DEF Spec

\* A session is submitted the text it was sent and no other, however the coroutines that
\* send are interleaved, unless a send or a command line overlapped with another, a crash
\* cut one short, two windows of one name had tmux refuse an Enter, or a window that was
\* gone had tmux find another whose name begins with its own.
THEOREM OwnTextAlways == Spec => []OwnText
  <1>1. Init => TextInv
    BY TextStart
  <1>2. TypeInv /\ TypeInv' /\ Single /\ TextInv /\ [Next]_vars => TextInv'
    BY TextStep
  <1>3. TextInv => OwnText
    BY DEF TextInv
  <1>4. QED
    BY <1>1, <1>2, <1>3, TypeAlways, SingleAlways, PTL DEF Spec

-----------------------------------------------------------------------------
(* A spawn claims its own rollout.                                         *)

\* No claim went wrong in the step.
NoMisclaim == "misclaim" \in past' => "misclaim" \in past

\* A process that waits for a rollout goes on waiting for it, and none begins to.
SpawnKept(u) ==
  /\ Spawning(u)' <=> Spawning(u)
  /\ Spawning(u) => task'[u].sess = task[u].sess /\ task'[u].new = task[u].new

\* A step that opens no window and claims nothing.
LEMMA RolloutFrame ==
  ASSUME RolloutInv, Moved, past \subseteq past', NoMisclaim, \A u \in Procs : SpawnKept(u)
  PROVE  RolloutInv'
  <1>1. PICK g \in [windows -> Window] :
          /\ \A w \in windows : SameWindow(w, g[w]) /\ (w.at = "on" => g[w].at = "on")
          /\ \A y \in windows' : \E w \in windows : y = g[w]
    BY DEF Moved
  <1>2. OwnRollout'
    BY DEF RolloutInv, OwnRollout, NoMisclaim
  <1>3. ASSUME past' \cap Strangers = {}
        PROVE  /\ \A t, u \in Procs : Spawning(t)' /\ Spawning(u)' => t = u
               /\ \A t \in Procs : Spawning(t)' => task'[t].new \subseteq {task'[t].sess}
               /\ \A w, x \in windows' : Fresh(w) /\ Fresh(x) => w = x
               /\ \A w \in windows' : Fresh(w) =>
                    \E t \in Procs : Spawning(t)' /\ task'[t].sess = w.sess /\ task'[t].new = {}
    <2>1. past \cap Strangers = {}
      BY <1>3
    <2>2. /\ \A t, u \in Procs : Spawning(t) /\ Spawning(u) => t = u
          /\ \A t \in Procs : Spawning(t) => task[t].new \subseteq {task[t].sess}
          /\ \A w, x \in windows : Fresh(w) /\ Fresh(x) => w = x
          /\ \A w \in windows : Fresh(w) =>
               \E t \in Procs : Spawning(t) /\ task[t].sess = w.sess /\ task[t].new = {}
      BY <2>1 DEF RolloutInv
    <2>3. \A w \in windows : g[w].sess = w.sess /\ (Fresh(g[w]) => Fresh(w))
      BY <1>1 DEF SameWindow, Fresh
    <2>4. \A t, u \in Procs : Spawning(t)' /\ Spawning(u)' => t = u
      BY <2>2 DEF SpawnKept
    <2>5. \A t \in Procs : Spawning(t)' => task'[t].new \subseteq {task'[t].sess}
      BY <2>2 DEF SpawnKept
    <2>6. \A w, x \in windows' : Fresh(w) /\ Fresh(x) => w = x
      BY <1>1, <2>2, <2>3
    <2>7. ASSUME NEW y \in windows', Fresh(y)
          PROVE  \E t \in Procs : Spawning(t)' /\ task'[t].sess = y.sess /\ task'[t].new = {}
      <3>1. PICK w \in windows : y.sess = w.sess /\ Fresh(w)
        BY <1>1, <2>3, <2>7
      <3>2. PICK t \in Procs : Spawning(t) /\ task[t].sess = w.sess /\ task[t].new = {}
        BY <2>2, <3>1
      <3>3. QED
        BY <3>1, <3>2 DEF SpawnKept
    <2>8. QED
      BY <2>4, <2>5, <2>6, <2>7
  <1>4. QED
    BY <1>2, <1>3 DEF RolloutInv, Fresh

\* A process that is not spawning a Codex session, before or after.
LEMMA RolloutQuiet ==
  ASSUME RolloutInv, Moved, past \subseteq past', NoMisclaim,
         NEW t \in Procs, \A u \in Procs \ {t} : task'[u] = task[u],
         task[t].pc \notin {"type", "run", "claim"}, task'[t].pc \notin {"type", "run", "claim"}
  PROVE  RolloutInv'
  <1>1. \A u \in Procs : SpawnKept(u)
    BY DEF SpawnKept, Spawning
  <1>2. QED
    BY <1>1, RolloutFrame

\* After the accidents that the property excuses.
LEMMA RolloutExcused ==
  ASSUME past' \cap Strangers # {}
  PROVE  RolloutInv'
  BY DEF RolloutInv, OwnRollout, Strangers

\* new-window.
LEMMA RolloutOpen ==
  ASSUME TypeInv, RolloutInv, NEW t \in Procs, OpenWindow(t)
  PROVE  RolloutInv'
  <1>1. TasksOK /\ db \in Store
    BY TypeParts DEF DataOK
  <1>2. PICK s \in Sessions :
          /\ task[t].pc = "open" /\ NewWindow(t, s) /\ task'[t].sess = s
    BY <1>1, OpenWindowStep
  <1>3. /\ \A u \in Procs \ {t} : task'[u] = task[u]
        /\ task'[t].pc = "type" /\ task'[t].new = {} /\ task'[t].codex = task[t].codex
    BY <1>1, OpenWindowStep DEF Step, Alike
  <1> DEFINE new == [name |-> Target(t), sess |-> s, codex |-> task[t].codex, at |-> "shell", draft |-> {}]
  <1>4. /\ windows' = windows \cup {new} /\ past \subseteq past' /\ NoMisclaim
        /\ (task[t].codex /\ \E u \in Procs : Spawning(u)) => "rivals" \in past'
    BY <1>2 DEF NewWindow, NoMisclaim
  <1>5. new.sess = s /\ (Fresh(new) <=> task[t].codex)
    BY DEF Fresh
  <1> HIDE DEF new
  <1>6. OwnRollout'
    BY <1>4 DEF RolloutInv, OwnRollout, NoMisclaim
  <1>7. /\ Spawning(t)' <=> task[t].codex
        /\ \A u \in Procs \ {t} : Spawning(u)' <=> Spawning(u)
        /\ ~Spawning(t)
    BY <1>2, <1>3 DEF Spawning
  <1>8. ASSUME past' \cap Strangers = {}
        PROVE  /\ \A v, u \in Procs : Spawning(v)' /\ Spawning(u)' => v = u
               /\ \A u \in Procs : Spawning(u)' => task'[u].new \subseteq {task'[u].sess}
               /\ \A w, x \in windows' : Fresh(w) /\ Fresh(x) => w = x
               /\ \A w \in windows' : Fresh(w) =>
                    \E u \in Procs : Spawning(u)' /\ task'[u].sess = w.sess /\ task'[u].new = {}
    <2>1. past \cap Strangers = {}
      BY <1>4, <1>8
    <2>2. /\ \A v, u \in Procs : Spawning(v) /\ Spawning(u) => v = u
          /\ \A u \in Procs : Spawning(u) => task[u].new \subseteq {task[u].sess}
          /\ \A w, x \in windows : Fresh(w) /\ Fresh(x) => w = x
          /\ \A w \in windows : Fresh(w) =>
               \E u \in Procs : Spawning(u) /\ task[u].sess = w.sess /\ task[u].new = {}
      BY <2>1 DEF RolloutInv
    <2>3. task[t].codex => (\A u \in Procs : ~Spawning(u)) /\ \A w \in windows : ~Fresh(w)
      BY <1>4, <1>8, <2>2 DEF Strangers
    <2>4. \A v, u \in Procs : Spawning(v)' /\ Spawning(u)' => v = u
      BY <1>7, <2>2, <2>3
    <2>5. \A u \in Procs : Spawning(u)' => task'[u].new \subseteq {task'[u].sess}
      BY <1>3, <1>7, <2>2
    <2>6. \A w, x \in windows' : Fresh(w) /\ Fresh(x) => w = x
      BY <1>4, <1>5, <2>2, <2>3
    <2>7. ASSUME NEW w \in windows', Fresh(w)
          PROVE  \E u \in Procs : Spawning(u)' /\ task'[u].sess = w.sess /\ task'[u].new = {}
      <3>1. CASE w = new
        BY <1>2, <1>3, <1>5, <1>7, <2>7, <3>1
      <3>2. CASE w # new
        <4>1. PICK u \in Procs : Spawning(u) /\ task[u].sess = w.sess /\ task[u].new = {}
          BY <1>4, <2>2, <2>7, <3>2
        <4>2. QED
          BY <1>3, <1>7, <4>1
      <3>3. QED
        BY <3>1, <3>2
    <2>8. QED
      BY <2>4, <2>5, <2>6, <2>7
  <1>9. QED
    BY <1>6, <1>8 DEF RolloutInv, Fresh

\* The newest rollout is claimed.
LEMMA RolloutClaim ==
  ASSUME TypeInv, RolloutInv, NEW t \in Procs, Claim(t)
  PROVE  RolloutInv'
  <1>1. /\ \A u \in Procs \ {t} : task'[u] = task[u]
        /\ task[t].pc = "claim" /\ task[t].codex /\ task[t].stage \in {"work", "plan", "inject", "convo"}
        /\ task'[t].pc = AfterSpawn[task[t].stage] /\ windows' = windows
    BY TypeParts, ClaimStep DEF Claim, Step, TasksOK, TaskRecord
  <1>2. PICK s \in task[t].new : past' = IF s = task[t].sess THEN past ELSE past \cup {"misclaim"}
    BY TypeParts, ClaimStep
  <1>3. Spawning(t) /\ ~Spawning(t)' /\ \A u \in Procs \ {t} : Spawning(u)' <=> Spawning(u)
    <2>1. task'[t].pc \in {"await", "ready", "record"}
      BY <1>1, AfterSpawnIs
    <2>2. QED
      BY <1>1, <2>1 DEF Spawning
  <1>4. CASE past \cap Strangers # {}
    <2>1. past' \cap Strangers # {}
      BY <1>2, <1>4
    <2>2. QED
      BY <2>1, RolloutExcused
  <1>5. CASE past \cap Strangers = {}
    <2>1. /\ \A v, u \in Procs : Spawning(v) /\ Spawning(u) => v = u
          /\ \A u \in Procs : Spawning(u) => task[u].new \subseteq {task[u].sess}
          /\ \A w \in windows : Fresh(w) =>
               \E u \in Procs : Spawning(u) /\ task[u].sess = w.sess /\ task[u].new = {}
      BY <1>5 DEF RolloutInv
    <2>2. past' = past
      BY <1>2, <1>3, <2>1
    <2>3. OwnRollout'
      BY <2>2 DEF RolloutInv, OwnRollout
    <2>4. \A w \in windows : ~Fresh(w)
      BY <1>2, <1>3, <2>1
    <2>5. \A u \in Procs : ~Spawning(u)'
      BY <1>3, <2>1
    <2>6. QED
      BY <1>1, <2>3, <2>4, <2>5 DEF RolloutInv, Fresh
  <1>6. QED
    BY <1>4, <1>5

\* A Codex agent comes up, and the one task that waits for it sees its rollout.
LEMMA RolloutUp ==
  ASSUME TypeInv, RolloutInv, NEW x \in windows, AgentUp(x)
  PROVE  RolloutInv'
  <1>1. /\ \A u \in Procs :
              /\ Alike(task[u], task'[u], {"new"})
              /\ task'[u].new = IF x.codex /\ Spawning(u) THEN task[u].new \cup {x.sess} ELSE task[u].new
        /\ past' = past /\ x.at = "typed"
        /\ windows' = (windows \ {x}) \cup {[x EXCEPT !.at = "on"]}
        /\ windows \subseteq Window
    BY TypeParts, AgentUpStep DEF AgentUp, Replace, DataOK
  <1>2. \A u \in Procs : (Spawning(u)' <=> Spawning(u)) /\ task'[u].sess = task[u].sess
    BY <1>1 DEF Alike, Spawning
  <1> DEFINE on == [x EXCEPT !.at = "on"]
  <1>3. ~Fresh(on) /\ windows' = (windows \ {x}) \cup {on}
    BY <1>1 DEF Window, Fresh
  <1> HIDE DEF on
  <1>4. CASE past \cap Strangers # {}
    BY <1>1, <1>4, RolloutExcused
  <1>5. CASE past \cap Strangers = {}
    <2>1. /\ \A v, u \in Procs : Spawning(v) /\ Spawning(u) => v = u
          /\ \A u \in Procs : Spawning(u) => task[u].new \subseteq {task[u].sess}
          /\ \A w, y \in windows : Fresh(w) /\ Fresh(y) => w = y
          /\ \A w \in windows : Fresh(w) =>
               \E u \in Procs : Spawning(u) /\ task[u].sess = w.sess /\ task[u].new = {}
      BY <1>5 DEF RolloutInv
    <2>2. OwnRollout'
      BY <1>1 DEF RolloutInv, OwnRollout
    <2>3. x.codex => Fresh(x) /\ \A w \in windows \ {x} : ~Fresh(w)
      BY <1>1, <2>1 DEF Fresh
    <2>4. \A w, y \in windows' : Fresh(w) /\ Fresh(y) => w = y
      BY <1>3, <2>1
    <2>5. ASSUME NEW w \in windows', Fresh(w)
          PROVE  \E u \in Procs : Spawning(u)' /\ task'[u].sess = w.sess /\ task'[u].new = {}
      <3>1. w \in windows \ {x} /\ ~x.codex
        BY <1>3, <2>3, <2>5
      <3>2. QED
        BY <1>1, <1>2, <2>1, <2>5, <3>1
    <2>6. \A u \in Procs : x.codex /\ Spawning(u) => task[u].sess = x.sess
      BY <2>1, <2>3
    <2>7. \A u \in Procs : Spawning(u)' => task'[u].new \subseteq {task'[u].sess}
      <3>1. SUFFICES ASSUME NEW u \in Procs, Spawning(u)
                     PROVE  task'[u].new \subseteq {task[u].sess}
        BY <1>2
      <3>2. task[u].new \subseteq {task[u].sess}
        BY <2>1, <3>1
      <3>3. CASE x.codex
        BY <1>1, <2>6, <3>1, <3>2, <3>3
      <3>4. CASE ~x.codex
        BY <1>1, <3>2, <3>4
      <3>5. QED
        BY <3>3, <3>4
    <2>8. \A v, u \in Procs : Spawning(v)' /\ Spawning(u)' => v = u
      BY <1>2, <2>1
    <2>9. QED
      BY <2>2, <2>4, <2>5, <2>7, <2>8 DEF RolloutInv, Fresh
  <1>6. QED
    BY <1>4, <1>5

\* Spawning and sending.
LEMMA RolloutTmux ==
  ASSUME TypeInv, RolloutInv, NEW t \in Procs, Tmux(t)
  PROVE  RolloutInv'
  <1>1. TasksOK /\ db \in Store /\ Shape(t, task[t]) /\ task[t] \in TaskRecord
    BY TypeParts DEF DataOK, TasksOK
  <1>2. CASE OpenWindow(t)
    BY <1>2, RolloutOpen
  <1>3. CASE Claim(t)
    BY <1>3, RolloutClaim
  <1>4. CASE NoRollout(t)
    BY <1>4, RolloutExcused DEF NoRollout, Strangers
  <1>5. CASE TypeCommand(t) \/ RunCommand(t) \/ LoadBuffer(t) \/ PasteBuffer(t) \/ TypeLine(t)
    <2>1. /\ Step(t, {"pc"}) /\ NoMisclaim /\ task[t].pc # "open"
      BY <1>1, <1>5, TypeCommandStep, RunCommandStep, LoadBufferStep, PasteBufferStep, TypeLineStep
         DEF TypeCommand, RunCommand, LoadBuffer, PasteBuffer, TypeLine, Typed, Press, Overlap, Missed,
             NoMisclaim
    <2>2. ~OpenWindow(t) /\ Moved /\ past \subseteq past'
      <3>1. ~OpenWindow(t)
        BY <2>1 DEF OpenWindow, NewWindow
      <3>2. past \subseteq past'
        BY <1>5 DEF TypeCommand, RunCommand, LoadBuffer, PasteBuffer, TypeLine, Typed, Press
      <3>3. QED
        BY <3>1, <3>2, TmuxMoves
    <2>3. /\ task'[t].sess = task[t].sess /\ task'[t].new = task[t].new
          /\ task'[t].codex = task[t].codex
      BY <2>1 DEF Step, Alike
    <2>4. Spawning(t)' <=> Spawning(t)
      <3>1. CASE TypeCommand(t)
        BY <1>1, <2>3, <3>1, TypeCommandStep DEF Spawning
      <3>2. CASE RunCommand(t)
        <4>1. /\ task[t].pc = "run"
              /\ task'[t].pc = IF task[t].codex THEN "claim" ELSE AfterSpawn[task[t].stage]
          BY <1>1, <3>2, RunCommandStep
        <4>2. QED
          BY <2>3, <4>1 DEF Spawning
      <3>3. CASE LoadBuffer(t) \/ PasteBuffer(t) \/ TypeLine(t)
        <4>1. task[t].pc \in {"load", "paste", "line"} /\ task'[t].pc \in {"paste", "enter"}
          BY <1>1, <3>3, LoadBufferStep, PasteBufferStep, TypeLineStep
        <4>2. QED
          BY <4>1 DEF Spawning
      <3>4. QED
        BY <1>5, <3>1, <3>2, <3>3
    <2>5. \A u \in Procs : SpawnKept(u)
      BY <2>1, <2>3, <2>4 DEF Step, SpawnKept, Spawning
    <2>6. QED
      BY <2>1, <2>2, <2>5, RolloutFrame
  <1>6. QED
    BY <1>2, <1>3, <1>4, <1>5 DEF Tmux

\* The steps that end an operation or go on with it.
LEMMA RolloutResume ==
  ASSUME TypeInv, RolloutInv, NEW t \in Tasks, Resume(t)
  PROVE  RolloutInv'
  <1>1. /\ TasksOK /\ TasksOK' /\ t \in Procs /\ past \subseteq past' /\ Moved
        /\ \A u \in Procs \ {t} : task'[u] = task[u]
        /\ mem.ws \in [Names -> Row \cup {None}]
    BY TypeParts, ResumeStep, ResumeMoves, TypeStep, TypePartsNext DEF Procs, DataOK, Memory, Next
  <1>2. NoMisclaim
    <2>1. CASE Press(t)
      BY <2>1 DEF Press, Missed, NoMisclaim
    <2>2. CASE past' \subseteq past \cup {"reused", "stale", "prefix"}
      BY <2>2 DEF NoMisclaim
    <2>3. CASE Look(t) \/ Respawned(t) \/ ConvoRecord(t) \/ Answered(t) \/ TimedOut(t) \/ Ready(t)
      BY <2>2, <2>3 DEF Look, Respawned, ConvoRecord, Answered, TimedOut, Ready
    <2>4. CASE Retyped(t) \/ BlankEntered(t) \/ Rename(t) \/ Launched(t) \/ Injected(t) \/ InputSent(t)
      BY <2>1, <2>4 DEF Retyped, BlankEntered, Rename, Launched, Injected, InputSent, Enter
    <2>5. CASE GiveUp(t) \/ Directed(t) \/ (\E n \in Names : Planned(t, n)) \/ Archives(t)
      BY <2>2, <2>5 DEF GiveUp, Directed, Planned, Archives, Missed
    <2>6. CASE Ended(t) \/ ArchiveFails(t)
      BY <2>2, <2>6 DEF Ended, Over, ArchiveFails, Missed
    <2>7. QED
      BY <2>3, <2>4, <2>5, <2>6 DEF Resume
  <1>3. task[t].pc \notin {"type", "run", "claim"}
    BY DEF Resume, Look, Respawned, ConvoRecord, Retyped, BlankEntered, Answered, TimedOut, Ready,
       GiveUp, Directed, Rename, Planned, Launched, Injected, InputSent, Archives, Ended, Over,
       ArchiveFails, KillWindow, Enter
  <1>4. task'[t].pc \notin {"type", "run", "claim"}
    <2>1. CASE Look(t) \/ Respawned(t)
      BY <1>1, <2>1, LookStep, RespawnedStep
    <2>2. CASE ConvoRecord(t)
      BY <2>2, ConvoRecordStep DEF Carding
    <2>3. CASE Retyped(t)
      BY <1>1, <2>3, RetypedStep DEF Step, Alike, Retyped, Enter
    <2>4. CASE BlankEntered(t)
      BY <1>1, <2>4, PushStep DEF BlankEntered, Carding
    <2>5. CASE Answered(t) \/ TimedOut(t) \/ Ready(t)
      BY <1>1, <2>5, AnsweredStep, TimedOutStep, ReadyStep
    <2>6. CASE GiveUp(t) \/ Injected(t) \/ InputSent(t)
      BY <1>1, <2>6, OverStep, IdleIs DEF GiveUp, Injected, InputSent, Become
    <2>7. CASE Directed(t) \/ Rename(t) \/ Archives(t)
      BY <1>1, <2>7, DirectedStep, RenameStep, ArchivesStep
    <2>8. CASE \E n \in Names : Planned(t, n)
      BY <1>1, <2>8, PlannedStep
    <2>9. CASE Launched(t)
      BY <2>9, LaunchedStep DEF Carding
    <2>10. CASE Ended(t)
      BY <2>10, EndedStep, IdleIs DEF Carding
    <2>11. CASE ArchiveFails(t)
      BY <2>11, ArchiveFailsStep DEF Carding
    <2>12. QED
      BY <2>1, <2>2, <2>3, <2>4, <2>5, <2>6, <2>7, <2>8, <2>9, <2>10, <2>11 DEF Resume
  <1>5. QED
    BY <1>1, <1>2, <1>3, <1>4, RolloutQuiet

\* Every step keeps it.
LEMMA OwnRolloutStep ==
  ASSUME TypeInv, RolloutInv, [Next]_vars
  PROVE  RolloutInv'
  <1>1. TasksOK /\ Status \in Procs /\ windows \subseteq Window
    BY TypeParts DEF Procs, DataOK
  <1>2. ASSUME windows' \subseteq windows, UNCHANGED <<task, past>>
        PROVE  RolloutInv'
    <2>1. Moved
      BY <1>1, <1>2, SubsetMoves
    <2>2. \A u \in Procs : SpawnKept(u)
      BY <1>2 DEF SpawnKept, Spawning
    <2>3. QED
      BY <1>2, <2>1, <2>2, RolloutFrame DEF NoMisclaim
  <1>3. CASE UNCHANGED vars
    BY <1>2, <1>3 DEF vars
  <1>4. CASE Boot \/ Reuse \/ Respawn \/ CannotResume \/ BootRecord \/ Wake
    <2>1. windows' = windows /\ past \subseteq past' /\ NoMisclaim
      BY <1>4 DEF Boot, Reuse, Respawn, CannotResume, BootRecord, Outdated, Wake, NoMisclaim
    <2>2. \A u \in Procs \ {Status} : task'[u] = task[u]
      BY <1>4, ServerStep DEF Procs
    <2>3. Moved
      BY <1>1, <2>1, SubsetMoves
    <2>4. QED
      BY <1>1, <1>4, <2>1, <2>2, <2>3, ServerQuiet, RolloutQuiet
  <1>5. CASE \E t \in Tasks : Button(t)
    <2>1. PICK t \in Tasks : Button(t)
      BY <1>5
    <2>2. /\ windows' = windows /\ task[t].pc = "idle" /\ past' \in {past, Resets} /\ t \in Procs
          /\ \A u \in Procs \ {t} : task'[u] = task[u]
      BY <2>1, ButtonStep, IdleIs DEF Procs
    <2>3. past \subseteq past' /\ NoMisclaim
      BY <2>2 DEF Resets, NoMisclaim
    <2>4. task'[t].pc \notin {"type", "run", "claim"}
      BY <2>1, ButtonStep DEF Begun
    <2>5. Moved
      BY <1>1, <2>2, SubsetMoves
    <2>6. QED
      BY <2>2, <2>3, <2>4, <2>5, RolloutQuiet
  <1>6. CASE \E t \in Procs : Card(t)
    <2>1. PICK t \in Procs : Card(t)
      BY <1>6
    <2>2. /\ task[t].pc = "card" /\ task'[t].pc \notin {"type", "run", "claim"}
          /\ \A u \in Procs \ {t} : task'[u] = task[u]
      BY <2>1, CardStep DEF Carding
    <2>3. windows' = windows /\ past \subseteq past' /\ NoMisclaim
      BY <2>1 DEF Card, NoMisclaim
    <2>4. Moved
      BY <1>1, <2>3, SubsetMoves
    <2>5. QED
      BY <2>2, <2>3, <2>4, RolloutQuiet
  <1>7. CASE \E w \in windows : AgentUp(w)
    BY <1>7, RolloutUp
  <1>8. CASE \E w \in windows : ChildUp(w)
    BY <1>8, RolloutExcused DEF ChildUp, Strangers
  <1>9. CASE (\E w \in windows : WindowCloses(w)) \/ \E s \in Sessions : Talk(s)
    BY <1>2, <1>9 DEF WindowCloses, Talk
  <1>10. CASE \E machine \in BOOLEAN : Crash(machine) \/ \E t \in Tasks : CutShort(t, machine)
    BY <1>10, RolloutExcused DEF Crash, CutShort, Wreck, Strangers
  <1>11. QED
    BY <1>3, <1>4, <1>5, <1>6, <1>7, <1>8, <1>9, <1>10, RolloutTmux, RolloutResume DEF Next, Environment

\* At the start no session is on its way.
LEMMA RolloutStart == Init => RolloutInv
  <1> SUFFICES ASSUME Init PROVE RolloutInv
    OBVIOUS
  <1>1. past = {} /\ \A t \in Procs : task[t] = Idle
    BY DEF Init
  <1>2. OwnRollout /\ \A t \in Procs : ~Spawning(t)
    BY <1>1, IdleIs DEF OwnRollout, Spawning
  <1>3. \A w \in windows : w.at = "on"
    <2>1. \A w \in windows : \E n, s, c : w = Running(n, s, c)
      BY DEF Init
    <2>2. QED
      BY <2>1 DEF Running
  <1>4. QED
    BY <1>2, <1>3 DEF RolloutInv, Fresh

\* The rollouts that the spawns see, always.
LEMMA RolloutAlways == Spec => []RolloutInv
  <1>1. Init => RolloutInv
    BY RolloutStart
  <1>2. TypeInv /\ RolloutInv /\ [Next]_vars => RolloutInv'
    BY OwnRolloutStep
  <1>3. QED
    BY <1>1, <1>2, TypeAlways, PTL DEF Spec

\* A spawn claims the rollout of the session it started, unless two Codex sessions were
\* being spawned at once, an agent started a child meanwhile, or an earlier session, given
\* up by a crash or by the timeout, writes its rollout after all.
THEOREM OwnRolloutAlways == Spec => []OwnRollout
  <1>1. RolloutInv => OwnRollout
    BY DEF RolloutInv
  <1>2. QED
    BY <1>1, RolloutAlways, PTL

-----------------------------------------------------------------------------
(* No window is lost.                                                      *)

\* A spawn that is under way after the step was under way before, with the same
\* session and window; when one is over, its window is known.  What is archived has no
\* window any more.
StrayKept(u) ==
  /\ Spawner(u)' => /\ Spawner(u) /\ Target(u)' = Target(u)
                    /\ task'[u].stage = task[u].stage /\ task'[u].sess = task[u].sess
  /\ Spawner(u) /\ ~Spawner(u)' => \A w \in windows' : w.name = Target(u) /\ Mine(w, u) => IsKnown(w)'
  /\ task'[u].pc = "archive" => \/ task[u].pc = "archive" /\ task'[u].name = task[u].name
                                \/ \A w \in windows' : w.name # task'[u].name

\* A window that was known is known still.
KnownKept == \A w \in windows' : IsKnown(w) => IsKnown(w)'

\* A window's name and session are all that the invariant asks of it.
LEMMA MovedKnown ==
  ASSUME NEW w, NEW y, SameWindow(w, y)
  PROVE  /\ IsKnown(y) <=> IsKnown(w)
         /\ \A t \in Procs : Mine(y, t) <=> Mine(w, t)
  BY DEF SameWindow, IsKnown, Mine

\* A step that opens no window and claims nothing.
LEMMA StrayFrame ==
  ASSUME StrayInv, Moved, past \subseteq past',
         past' \cap Losses = {} /\ OneClear /\ SpawnsHere /\ Archived =>
           OneClear' /\ KnownKept /\ \A u \in Procs : StrayKept(u)
  PROVE  StrayInv'
  <1>1. PICK g \in [windows -> Window] :
          /\ \A w \in windows : SameWindow(w, g[w])
          /\ \A y \in windows' : \E w \in windows : y = g[w]
    BY DEF Moved
  <1>2. SUFFICES ASSUME past' \cap Losses = {}
                 PROVE  OneClear' /\ SpawnsHere' /\ Archived' /\ Accounted'
    BY DEF StrayInv
  <1>3. OneClear /\ SpawnsHere /\ Archived /\ Accounted
    BY <1>2 DEF StrayInv
  <1>4. OneClear' /\ KnownKept /\ \A u \in Procs : StrayKept(u)
    BY <1>2, <1>3
  <1>5. \A y \in windows' : \E w \in windows : SameWindow(w, y)
    BY <1>1
  <1>6. ASSUME NEW t \in Procs, NEW y \in windows',
               Spawner(t)', task'[t].stage \in {"work", "convo"}, y.name = Target(t)'
        PROVE  Mine(y, t)'
    <2>1. PICK w \in windows : SameWindow(w, y)
      BY <1>5
    <2>2. Mine(w, t)
      BY <1>3, <1>4, <1>6, <2>1 DEF StrayKept, SpawnsHere, SameWindow
    <2>3. QED
      BY <1>4, <1>6, <2>1, <2>2 DEF StrayKept, Mine, SameWindow
  <1>7. ASSUME NEW t \in Procs, NEW y \in windows', task'[t].pc = "archive"
        PROVE  y.name # task'[t].name
    <2>1. PICK w \in windows : SameWindow(w, y)
      BY <1>5
    <2>2. QED
      BY <1>3, <1>4, <1>7, <2>1 DEF StrayKept, Archived, SameWindow
  <1>8. ASSUME NEW y \in windows', ~IsKnown(y)'
        PROVE  \E t \in Procs : Spawner(t)' /\ Target(t)' = y.name /\ Mine(y, t)'
    <2>1. PICK w \in windows : SameWindow(w, y)
      BY <1>5
    <2>2. ~IsKnown(w)
      BY <1>4, <1>8, <2>1, MovedKnown DEF KnownKept
    <2>3. PICK t \in Procs : Spawner(t) /\ Target(t) = w.name /\ Mine(w, t)
      BY <1>3, <2>2 DEF Accounted
    <2>4. Target(t) = y.name /\ Mine(y, t)
      BY <2>1, <2>3, MovedKnown DEF SameWindow
    <2>5. Spawner(t)'
      BY <1>4, <1>8, <2>3, <2>4 DEF StrayKept
    <2>6. QED
      BY <1>4, <2>4, <2>5 DEF StrayKept, Mine
  <1>9. QED
    BY <1>4, <1>6, <1>7, <1>8 DEF SpawnsHere, Archived, Accounted

\* A process that does not move.
LEMMA StrayStays ==
  ASSUME NEW u \in Procs, task'[u] = task[u]
  PROVE  StrayKept(u) /\ (Clears(u)' => Clears(u))
  BY DEF StrayKept, Spawner, Target, Clears

\* One process moves, and no window opens.
LEMMA StrayOne ==
  ASSUME StrayInv, Moved, past \subseteq past', NEW t \in Procs,
         \A u \in Procs \ {t} : task'[u] = task[u],
         past' \cap Losses = {} /\ OneClear /\ SpawnsHere /\ Archived =>
           StrayKept(t) /\ KnownKept /\ (OneClear' \/ (Clears(t)' => Clears(t)))
  PROVE  StrayInv'
  <1>1. \A u \in Procs \ {t} : StrayKept(u) /\ (Clears(u)' => Clears(u))
    BY StrayStays
  <1>2. ASSUME past' \cap Losses = {}, OneClear, SpawnsHere, Archived
        PROVE  OneClear' /\ KnownKept /\ \A u \in Procs : StrayKept(u)
    <2>1. StrayKept(t) /\ KnownKept /\ (OneClear' \/ (Clears(t)' => Clears(t)))
      BY <1>2
    <2>2. OneClear'
      BY <1>1, <1>2, <2>1 DEF OneClear
    <2>3. QED
      BY <1>1, <2>1, <2>2
  <1>3. QED
    BY <1>2, StrayFrame

\* Rows and conversation as they were.
LEMMA RowsKnown ==
  ASSUME db'.convo = db.convo, db'.ws = db.ws
  PROVE  KnownKept
  BY DEF KnownKept, IsKnown

\* A process that spawns nothing, before or after, and archives nothing after.
LEMMA StrayQuiet ==
  ASSUME NEW u \in Procs, ~Spawner(u), ~Spawner(u)', task'[u].pc # "archive"
  PROVE  StrayKept(u)
  BY DEF StrayKept

\* A process that goes on with the session and the window it has.
LEMMA StrayOn ==
  ASSUME NEW u \in Procs, Spawner(u)' <=> Spawner(u),
         task'[u].stage = task[u].stage, task'[u].name = task[u].name,
         task'[u].sess = task[u].sess, task'[u].pc # "archive"
  PROVE  StrayKept(u)
  BY DEF StrayKept, Target

\* kill-window leaves no window of the name, whatever other it may kill.
LEMMA KillsAll ==
  ASSUME Single, "twins" \notin past, NEW t, KillWindow(t)
  PROVE  \A w \in windows' : w.name # Target(t)
  <1>1. Hit(Target(t)) \subseteq Named(Target(t))
    BY NamedIsHit
  <1>2. QED
    BY <1>1 DEF KillWindow, Hit

\* A killed window is nobody's any more.
LEMMA StrayKilled ==
  ASSUME Single, "twins" \notin past, NEW t \in Procs, KillWindow(t), ~Spawner(t)',
         task'[t].pc # "archive" \/ task'[t].name = Target(t)
  PROVE  StrayKept(t)
  BY KillsAll DEF StrayKept

\* What is recorded for the conversation is the session in its window.
LEMMA StrayRecorded ==
  ASSUME NEW t \in Procs, windows' = windows, SpawnsHere,
         Spawner(t), task[t].stage = "convo", task[t].pc = "record",
         ~Spawner(t)', task'[t].pc # "archive",
         db'.convo = task[t].sess, db'.ws = db.ws
  PROVE  StrayKept(t) /\ KnownKept
  <1>1. Target(t) = "convo"
    BY DEF Target
  <1>2. ASSUME NEW w \in windows, w.name = "convo"
        PROVE  IsKnown(w)'
    <2>1. w.sess = task[t].sess
      BY <1>1, <1>2 DEF SpawnsHere, Mine
    <2>2. QED
      BY <1>2, <2>1 DEF IsKnown
  <1>3. KnownKept
    BY <1>2 DEF KnownKept, IsKnown
  <1>4. StrayKept(t)
    BY <1>1, <1>2 DEF StrayKept
  <1>5. QED
    BY <1>3, <1>4

\* A spawn's window is for no other name that a spawn under way is for.
LEMMA OpensAlone ==
  ASSUME TypeInv, StoreInv, "reused" \notin past, OneClear,
         NEW t \in Procs, task[t].pc = "open"
  PROVE  /\ ~Spawner(t) /\ Target(t) \in Names \cup {"plan", "inject", "convo"}
         /\ \A u \in Procs \ {t} :
              Spawner(u) /\ task[u].stage \in {"work", "convo"} => Target(u) # Target(t)
         /\ \A u \in Procs \ {t} : task[u].pc = "archive" => task[u].name # Target(t)
  <1>1. /\ TasksOK /\ UpInv /\ \A u \in Procs : Shape(u, task[u]) /\ task[u] \in TaskRecord
        /\ {"convo", "plan", "inject"} \cap Names = {}
    BY TypeParts, SubstrateAssumption DEF TasksOK
  <1>2. \A u \in Procs : Making(u) => task[u].name \in Names /\ Target(u) = task[u].name
    BY <1>1 DEF Making, Shape, TaskRecord, Target
  <1>3. \/ Making(t)
        \/ task[t].op \in {"new", "send"} /\ Target(t) \in {"plan", "inject"}
        \/ task[t].op \in {"boot", "clear", "model"} /\ Target(t) = "convo"
    <2>1. Shape(t, task[t]) /\ task[t].op \in Ops
      BY <1>1 DEF TaskRecord
    <2>2. QED
      BY <2>1 DEF Shape, Ops, Making, Target
  <1>4. ~Spawner(t)
    BY DEF Spawner
  <1>5. ASSUME NEW u \in Procs \ {t}, Spawner(u), task[u].stage \in {"work", "convo"}
        PROVE  Target(u) # Target(t)
    <2>1. \/ Making(u)
          \/ task[u].op \in {"boot", "clear", "model"} /\ Target(u) = "convo"
      BY <1>1, <1>5 DEF Spawner, Shape, Making, Target
    <2>2. CASE Making(u)
      <3>1. task[t].name # task[u].name
        BY <2>2 DEF StoreInv, NameInv
      <3>2. QED
        BY <1>1, <1>2, <1>3, <2>2, <3>1
    <2>3. CASE task[u].op \in {"boot", "clear", "model"} /\ Target(u) = "convo"
      <3>1. CASE task[t].op \in {"boot", "clear", "model"} /\ Target(t) = "convo"
        <4>1. \A v \in Procs : task[v].op = "boot" => v = Status /\ up = "booting"
          BY <1>1, UpWhen, TypeParts DEF DataOK
        <4>2. \A v \in Procs : task[v].op \in {"clear", "model"} => up = "up"
          BY <1>1, UpWhen, TypeParts DEF DataOK
        <4>3. ~(Clears(u) /\ Clears(t))
          BY <1>5 DEF OneClear
        <4>4. QED
          BY <1>5, <2>3, <3>1, <4>1, <4>2, <4>3 DEF Clears
      <3>2. QED
        BY <1>1, <1>2, <1>3, <2>3, <3>1
    <2>4. QED
      BY <2>1, <2>2, <2>3
  <1>6. ASSUME NEW u \in Procs \ {t}, task[u].pc = "archive"
        PROVE  task[u].name # Target(t)
    <2>1. task[u].op = "end" /\ task[u].name \in Names
      <3>1. Shape(u, task[u]) /\ task[u].op \in Ops /\ task[u].name \in Names \cup {None}
        BY <1>1 DEF TaskRecord
      <3>2. QED
        BY <1>6, <3>1 DEF Shape, Ops
    <2>2. Making(t) => task[u].name # task[t].name
      BY DEF StoreInv, NameInv
    <2>3. QED
      BY <1>1, <1>2, <1>3, <2>1, <2>2
  <1>7. QED
    BY <1>1, <1>2, <1>3, <1>4, <1>5, <1>6

\* A window is opened: it is its spawn's, and no other's.
LEMMA StrayOpen ==
  ASSUME TypeInv, StoreInv, StrayInv, NEW t \in Procs, OpenWindow(t)
  PROVE  StrayInv'
  <1>1. /\ \A u \in Procs \ {t} : task'[u] = task[u]
        /\ Alike(task[t], task'[t], {"pc", "sess", "new"})
        /\ task[t].pc = "open" /\ task'[t].pc = "type" /\ task'[t].new = {}
        /\ past \subseteq past' /\ db' = db /\ Shape(t, task[t]) /\ task[t].op \in Ops
    BY TypeParts, OpenWindowStep DEF Step, OpenWindow, NewWindow, DataOK, TasksOK, TaskRecord
  <1>2. PICK s \in Sessions : /\ NewWindow(t, s)
                              /\ task'[t].sess = s
    BY TypeParts, OpenWindowStep DEF DataOK
  <1>3. PICK new : new.name = Target(t) /\ new.sess = s /\ windows' = windows \cup {new}
    BY <1>2 DEF NewWindow
  <1>4. SUFFICES ASSUME past' \cap Losses = {}
                 PROVE  OneClear' /\ SpawnsHere' /\ Archived' /\ Accounted'
    BY DEF StrayInv
  <1>5. OneClear /\ SpawnsHere /\ Archived /\ Accounted /\ "reused" \notin past
    BY <1>1, <1>4 DEF StrayInv, Losses
  <1>6. \A w \in windows : w.name # Target(t)
    BY <1>2, <1>4 DEF NewWindow, Hit, Losses
  <1>7. /\ ~Spawner(t)
        /\ \A u \in Procs \ {t} :
             Spawner(u) /\ task[u].stage \in {"work", "convo"} => Target(u) # Target(t)
        /\ \A u \in Procs \ {t} : task[u].pc = "archive" => task[u].name # Target(t)
    BY <1>1, <1>5, OpensAlone
  <1>8. /\ Target(t)' = Target(t) /\ (Clears(t)' <=> Clears(t))
        /\ Spawner(t)'
    <2>1. /\ task'[t].stage = task[t].stage /\ task'[t].name = task[t].name
          /\ task'[t].op = task[t].op
      BY <1>1 DEF Alike
    <2>2. task[t].op \in {"boot", "new", "send", "clear", "model"}
      BY <1>1 DEF Shape, Ops
    <2>3. ~(task[t].op = "send" /\ task[t].stage = "work")
      BY <1>1 DEF Shape
    <2>4. QED
      BY <1>1, <2>1, <2>2, <2>3 DEF Target, Clears, Spawner
  <1>9. Mine(new, t)'
    BY <1>2, <1>3 DEF Mine
  <1>10. \A u \in Procs \ {t} : /\ Target(u)' = Target(u) /\ (Clears(u)' <=> Clears(u))
                                /\ (Spawner(u)' <=> Spawner(u))
    BY <1>1 DEF Target, Clears, Spawner
  <1>11. \A w : \A u \in Procs \ {t} : Mine(w, u)' <=> Mine(w, u)
    BY <1>1 DEF Mine
  <1>12. OneClear'
    BY <1>5, <1>8, <1>10 DEF OneClear
  <1>13. ASSUME NEW u \in Procs, NEW w \in windows', Spawner(u)',
                task'[u].stage \in {"work", "convo"}, w.name = Target(u)'
         PROVE  Mine(w, u)'
    <2>1. CASE u = t
      <3>1. w = new
        BY <1>3, <1>6, <1>8, <1>13, <2>1
      <3>2. QED
        BY <1>1, <1>9, <2>1, <3>1
    <2>2. CASE u # t
      <3>1. w \in windows /\ Spawner(u) /\ task[u].stage \in {"work", "convo"} /\ w.name = Target(u)
        BY <1>1, <1>3, <1>7, <1>10, <1>13, <2>2
      <3>2. QED
        BY <1>1, <1>5, <1>11, <2>2, <3>1 DEF SpawnsHere
    <2>3. QED
      BY <2>1, <2>2
  <1>14. ASSUME NEW u \in Procs, NEW w \in windows', task'[u].pc = "archive"
         PROVE  w.name # task'[u].name
    <2>1. u # t /\ task[u].pc = "archive" /\ task'[u].name = task[u].name
      BY <1>1, <1>14
    <2>2. QED
      BY <1>3, <1>5, <1>7, <2>1 DEF Archived
  <1>15. ASSUME NEW w \in windows'
         PROVE  IsKnown(w)' \/ \E u \in Procs : Spawner(u)' /\ Target(u)' = w.name /\ Mine(w, u)'
    <2>1. CASE w = new
      BY <1>3, <1>8, <1>9, <2>1
    <2>2. CASE w \in windows
      <3>1. IsKnown(w) => IsKnown(w)'
        BY <1>1 DEF IsKnown
      <3>2. ASSUME NEW u \in Procs, Spawner(u), Target(u) = w.name, Mine(w, u)
            PROVE  Spawner(u)' /\ Target(u)' = w.name /\ Mine(w, u)'
        BY <1>7, <1>10, <1>11, <3>2
      <3>3. QED
        BY <1>5, <2>2, <3>1, <3>2 DEF Accounted
    <2>3. QED
      BY <1>3, <2>1, <2>2
  <1>16. QED
    BY <1>12, <1>13, <1>14, <1>15 DEF SpawnsHere, Archived, Accounted

\* A rollout is claimed: it is that of the session in the spawn's window.
LEMMA StrayClaim ==
  ASSUME TypeInv, RolloutInv, StrayInv, NEW t \in Procs, Claim(t), db' = db
  PROVE  StrayInv'
  <1>1. /\ \A u \in Procs \ {t} : task'[u] = task[u]
        /\ Alike(task[t], task'[t], {"pc", "sess", "new"})
        /\ task[t].pc = "claim" /\ task[t].codex /\ task[t] \in TaskRecord
        /\ task'[t].pc = AfterSpawn[task[t].stage]
        /\ past \subseteq past' /\ windows' = windows /\ windows \subseteq Window
    BY TypeParts, ClaimStep DEF Step, Claim, TasksOK, DataOK
  <1>2. PICK s \in task[t].new : task'[t].sess = IF task[t].stage \in {"plan", "inject"} THEN task[t].sess ELSE s
    BY TypeParts, ClaimStep
  <1>3. /\ task'[t].stage = task[t].stage /\ task'[t].name = task[t].name
        /\ task'[t].op = task[t].op
    BY <1>1 DEF Alike
  <1>4. task'[t].pc \in {"await", "ready", "record"}
    BY <1>1, AfterSpawnIs DEF TaskRecord
  <1>5. (Spawner(t)' <=> Spawner(t)) /\ (Clears(t)' => Clears(t))
    BY <1>1, <1>3, <1>4 DEF Spawner, Clears
  <1>6. ASSUME past' \cap Losses = {}
        PROVE  task'[t].sess = task[t].sess
    <2>1. past \cap Strangers = {}
      BY <1>1, <1>6 DEF Losses, Strangers
    <2>2. Spawning(t)
      BY <1>1 DEF Spawning
    <2>3. s = task[t].sess
      BY <1>2, <2>1, <2>2 DEF RolloutInv
    <2>4. QED
      BY <1>2, <2>3
  <1>7. past' \cap Losses = {} => StrayKept(t) /\ KnownKept
    BY <1>3, <1>4, <1>5, <1>6, StrayOn, RowsKnown
  <1>8. Moved
    BY <1>1, SubsetMoves
  <1>9. QED
    BY <1>1, <1>5, <1>7, <1>8, StrayOne

\* An agent or a child comes up: what the spawns see is nothing to the windows.
LEMMA StrayUp ==
  ASSUME StrayInv, Moved, past \subseteq past', db' = db,
         \A u \in Procs : Alike(task[u], task'[u], {"new"})
  PROVE  StrayInv'
  <1>1. \A u \in Procs : /\ task'[u].stage = task[u].stage /\ task'[u].name = task[u].name
                         /\ task'[u].op = task[u].op /\ task'[u].sess = task[u].sess
                         /\ task'[u].pc = task[u].pc
    BY DEF Alike
  <1>2. \A u \in Procs : StrayKept(u) /\ (Clears(u)' <=> Clears(u))
    BY <1>1 DEF StrayKept, Spawner, Target, Clears
  <1>3. OneClear => OneClear'
    BY <1>2 DEF OneClear
  <1>4. QED
    BY <1>2, <1>3, RowsKnown, StrayFrame

\* A row whose status alone changes stands for the session it stood for.
LEMMA StatusKnown ==
  ASSUME db \in Store, NEW n \in Names, NEW status \in {"running", "gone"},
         db' = db \/ db' = [db EXCEPT !.ws = WithStatus(db.ws, n, status)]
  PROVE  KnownKept
  <1>1. CASE db' = db
    BY <1>1, RowsKnown
  <1>2. CASE db' = [db EXCEPT !.ws = WithStatus(db.ws, n, status)]
    <2>1. PICK v \in [Names -> Row \cup {None}] : v = db.ws
      BY DEF Store
    <2>2. PICK ws : ws = WithStatus(v, n, status)
      OBVIOUS
    <2>3. db'.ws = ws /\ db'.convo = db.convo
      BY <1>2, <2>1, <2>2 DEF Store
    <2>4. \A m \in Names : v[m] # None => ws[m] # None /\ ws[m].sess = v[m].sess
      <3>1. ws = v \/ (v[n] # None /\ ws = WithStatus(v, n, status))
        BY <2>2 DEF WithStatus
      <3>2. /\ \A m \in Names \ {n} : ws[m] = v[m]
            /\ v[n] # None => ws[n] # None /\ ws[n].sess = v[n].sess
        BY <3>1, WrittenBack
      <3>3. QED
        BY <3>2
    <2>5. QED
      BY <2>1, <2>3, <2>4 DEF KnownKept, IsKnown
  <1>3. QED
    BY <1>1, <1>2

\* The new workstream's window is known, under a name that nothing had.
LEMMA StrayLaunched ==
  ASSUME TypeInv, StoreInv, "reused" \notin past, NEW t \in Tasks, Launched(t)
  PROVE  StrayKept(t) /\ KnownKept
  <1> DEFINE row == [sess |-> task[t].sess, status |-> "running"]
             n == task[t].name
  <1>1. /\ task[t].op = "new" /\ task[t].stage = "work" /\ task[t].pc = "enter" /\ n \in Names
        /\ row \in Row /\ db' = [db EXCEPT !.ws = [db.ws EXCEPT ![n] = row]]
        /\ task'[t].pc \in {"idle", "sleep", "dead", "card"} /\ task'[t].op \in {"none", "status", "cards"}
        /\ t \in Procs
    BY LaunchedStep DEF Carding, Procs
  <1>2. db \in Store /\ up = "up" /\ None \notin Row
    BY TypeParts, ResumeStep, Constants DEF DataOK, Resume
  <1>3. row.sess = task[t].sess /\ row # None
    BY <1>1, <1>2
  <1> HIDE DEF row
  <1>4. /\ db'.convo = db.convo /\ db'.ws[n] = row
        /\ \A m \in Names \ {n} : db'.ws[m] = db.ws[m]
    BY <1>1, <1>2 DEF Store
  <1>5. db.ws[n] = None
    <2>1. n \notin Taken(mem.ws)
      BY <1>1 DEF StoreInv, NameInv, Making
    <2>2. mem.ws = db.ws
      BY <1>2 DEF StoreInv, StoreMatchesMemory
    <2>3. QED
      BY <1>1, <2>1, <2>2 DEF Taken
  <1>6. KnownKept
    BY <1>4, <1>5 DEF KnownKept, IsKnown
  <1>7. ASSUME NEW w, w.name = Target(t), Mine(w, t)
        PROVE  IsKnown(w)'
    <2>1. w.name = n /\ w.sess = task[t].sess
      BY <1>1, <1>7 DEF Target, Mine
    <2>2. QED
      BY <1>1, <1>3, <1>4, <2>1 DEF IsKnown
  <1>8. ~Spawner(t)' /\ task'[t].pc # "archive"
    BY <1>1 DEF Spawner
  <1>9. QED
    BY <1>6, <1>7, <1>8 DEF StrayKept

\* A workstream is forgotten when it has no window any more.
LEMMA StrayEnded ==
  ASSUME TypeInv, Single, "twins" \notin past, Archived, NEW t \in Tasks, Ended(t)
  PROVE  StrayKept(t) /\ KnownKept
  <1> DEFINE n == task[t].name
  <1>1. /\ task[t].op = "end" /\ n \in Names /\ task[t].stage = "work" /\ t \in Procs
        /\ task'[t].pc \in {"idle", "sleep", "dead", "card"} /\ task'[t].op \in {"none", "status", "cards"}
        /\ db' = db \/ db' = [db EXCEPT !.ws = [db.ws EXCEPT ![n] = None]]
    BY EndedStep, IdleIs DEF Carding, Procs
  <1>2. \A w \in windows' : w.name # n
    <2>1. CASE task[t].pc = "archive" /\ UNCHANGED <<windows, buffer>>
      BY <1>1, <2>1 DEF Archived
    <2>2. CASE KillWindow(t)
      BY <1>1, <2>2, KillsAll DEF Target
    <2>3. QED
      BY <2>1, <2>2 DEF Ended, Over
  <1>3. db'.convo = db.convo /\ \A m \in Names \ {n} : db'.ws[m] = db.ws[m]
    <2>1. db \in Store
      BY TypeParts DEF DataOK
    <2>2. QED
      BY <1>1, <2>1 DEF Store
  <1>4. KnownKept
    BY <1>2, <1>3 DEF KnownKept, IsKnown
  <1>5. ~Spawner(t) /\ ~Spawner(t)' /\ task'[t].pc # "archive"
    BY <1>1 DEF Spawner
  <1>6. QED
    BY <1>1, <1>4, <1>5, StrayQuiet

\* The steps that end an operation or go on with it.
LEMMA StrayResume ==
  ASSUME TypeInv, StoreInv, Single, StrayInv, NEW t \in Tasks, Resume(t)
  PROVE  StrayInv'
  <1>1. /\ TasksOK /\ t \in Procs /\ past \subseteq past' /\ mem.ws \in [Names -> Row \cup {None}]
        /\ \A u \in Procs \ {t} : task'[u] = task[u]
        /\ Moved /\ db \in Store /\ Shape(t, task[t]) /\ task[t] \in TaskRecord
    BY TypeParts, ResumeStep, ResumeMoves DEF Procs, DataOK, Memory, TasksOK
  <1>2. ASSUME Clears(t)' => Clears(t),
               ASSUME past \cap Losses = {}, SpawnsHere, Archived
               PROVE  StrayKept(t) /\ KnownKept
        PROVE  StrayInv'
    <2>1. past' \cap Losses = {} => past \cap Losses = {}
      BY <1>1
    <2>2. past' \cap Losses = {} /\ OneClear /\ SpawnsHere /\ Archived =>
            StrayKept(t) /\ KnownKept /\ (OneClear' \/ (Clears(t)' => Clears(t)))
      BY <1>2, <2>1
    <2>3. QED
      BY <1>1, <2>2, StrayOne
  <1>3. ASSUME past \cap Losses = {} PROVE "twins" \notin past /\ "reused" \notin past
    BY <1>3 DEF Losses
  <1>4. CASE Look(t) \/ Respawned(t)
    <2>1. /\ Step(t, {"stage", "pc", "codex"}) /\ Clears(t) /\ task[t].pc \in {"look", "kill"}
          /\ task'[t].pc \in {"kill", "open"} /\ db' = db
      BY <1>1, <1>4, LookStep, RespawnedStep DEF Look, Respawned
    <2>2. task'[t].op = task[t].op
      BY <2>1 DEF Step, Alike
    <2>3. ~Spawner(t) /\ ~Spawner(t)'
      BY <2>1, <2>2 DEF Spawner, Clears
    <2>4. StrayKept(t) /\ KnownKept
      BY <1>1, <2>1, <2>3, StrayQuiet, RowsKnown
    <2>5. QED
      BY <1>2, <2>1, <2>4
  <1>5. CASE Answered(t) \/ TimedOut(t) \/ Ready(t) \/ Rename(t)
    <2>1. /\ Step(t, {"pc", "text", "got", "since"}) /\ task[t].pc \in {"await", "ready", "enter"}
          /\ task'[t].pc \in {"kill", "load"} /\ db' = db
          /\ task[t].pc = "enter" => task[t].op = "new"
      <3>1. CASE Answered(t)
        BY <1>1, <3>1, AnsweredStep DEF Step, Alike, Answered, Aside
      <3>2. CASE TimedOut(t)
        BY <1>1, <3>2, TimedOutStep DEF Step, Alike, TimedOut, Aside
      <3>3. CASE Ready(t)
        BY <1>1, <3>3, ReadyStep DEF Step, Alike, Ready, Aside
      <3>4. CASE Rename(t)
        BY <1>1, <3>4, RenameStep DEF Step, Alike, Rename
      <3>5. QED
        BY <1>5, <3>1, <3>2, <3>3, <3>4
    <2>2. /\ task'[t].stage = task[t].stage /\ task'[t].name = task[t].name
          /\ task'[t].op = task[t].op /\ task'[t].sess = task[t].sess
      BY <2>1 DEF Step, Alike
    <2>3. task[t].op \in {"new", "send"}
      BY <1>1, <2>1 DEF Shape, TaskRecord, Ops
    <2>4. Spawner(t)' <=> Spawner(t)
      BY <2>1, <2>2, <2>3 DEF Spawner
    <2>5. StrayKept(t)
      BY <1>1, <2>1, <2>2, <2>4, StrayOn
    <2>6. KnownKept /\ (Clears(t)' => Clears(t))
      BY <2>1, <2>2, RowsKnown DEF Clears
    <2>7. QED
      BY <1>2, <2>5, <2>6
  <1>6. CASE Retyped(t) \/ InputSent(t) \/ Injected(t) \/ BlankEntered(t)
    <2>1. /\ task[t].pc = "enter" /\ task[t].op \in {"retype", "input", "send"}
          /\ db'.convo = db.convo /\ db'.ws = db.ws
      BY <1>1, <1>6 DEF Retyped, InputSent, Injected, BlankEntered, Enter, Aside, Store
    <2>2. ~Spawner(t)
      BY <1>1, <2>1 DEF Spawner, Shape
    <2>3. task'[t].op \in {"retype", "none", "cards", "status"} /\ task'[t].pc # "archive"
      <3>1. CASE Retyped(t)
        BY <1>1, <2>1, <3>1, RetypedStep DEF Step, Alike
      <3>2. CASE InputSent(t) \/ Injected(t)
        <4>1. task'[t] = Idle
          BY <1>1, <3>2, OverStep DEF InputSent, Injected, Become
        <4>2. QED
          BY <4>1, IdleIs
      <3>3. CASE BlankEntered(t)
        BY <1>1, <3>3, PushStep DEF BlankEntered, Carding
      <3>4. QED
        BY <1>6, <3>1, <3>2, <3>3
    <2>4. ~Spawner(t)' /\ ~Clears(t)'
      BY <2>3 DEF Spawner, Clears
    <2>5. StrayKept(t) /\ KnownKept
      BY <1>1, <2>1, <2>2, <2>3, <2>4, StrayQuiet, RowsKnown
    <2>6. QED
      BY <1>2, <2>4, <2>5
  <1>7. CASE Directed(t) \/ GiveUp(t) \/ Archives(t) \/ \E n \in Names : Planned(t, n)
    <2>1. KillWindow(t) /\ db' = db
      BY <1>7 DEF Directed, GiveUp, Archives, Planned, Aside
    <2>2. /\ ~Spawner(t)' /\ (Clears(t)' => Clears(t))
          /\ task'[t].pc # "archive" \/ task'[t].name = Target(t)
      <3>1. CASE Directed(t)
        BY <1>1, <3>1, DirectedStep DEF Step, Alike, Spawner, Clears
      <3>2. CASE GiveUp(t)
        <4>1. task'[t] = Idle
          BY <1>1, <3>2, OverStep DEF GiveUp, Become
        <4>2. QED
          BY <4>1, IdleIs DEF Spawner, Clears
      <3>3. CASE Archives(t)
        <4>1. task[t].op = "end" /\ task'[t].op = "end" /\ task'[t].name = task[t].name
          BY <1>1, <3>3, ArchivesStep DEF Step, Alike
        <4>2. QED
          BY <1>1, <4>1 DEF Shape, Target, Spawner, Clears
      <3>4. CASE \E n \in Names : Planned(t, n)
        BY <1>1, <3>4, PlannedStep DEF Step, Alike, Spawner, Clears
      <3>5. QED
        BY <1>7, <3>1, <3>2, <3>3, <3>4
    <2>3. ASSUME past \cap Losses = {}
          PROVE  StrayKept(t) /\ KnownKept
      BY <1>1, <1>3, <2>1, <2>2, <2>3, StrayKilled, RowsKnown
    <2>4. QED
      BY <1>2, <2>2, <2>3
  <1>8. CASE Launched(t)
    <2>1. ~Clears(t)'
      BY <1>8, LaunchedStep DEF Carding, Clears
    <2>2. QED
      BY <1>2, <1>3, <1>8, <2>1, StrayLaunched
  <1>9. CASE Ended(t)
    <2>1. ~Clears(t)'
      BY <1>9, EndedStep, IdleIs DEF Carding, Clears
    <2>2. QED
      BY <1>2, <1>3, <1>9, <2>1, StrayEnded
  <1>10. CASE ArchiveFails(t)
    <2>1. /\ task[t].op = "end" /\ task[t].name \in Names
          /\ task'[t].pc \in {"idle", "sleep", "dead", "card"}
          /\ task'[t].op \in {"none", "status", "cards"}
          /\ db' = [db EXCEPT !.ws = WithStatus(db.ws, task[t].name, "gone")]
      BY <1>10, ArchiveFailsStep DEF Carding
    <2>2. ~Spawner(t) /\ ~Spawner(t)' /\ ~Clears(t)' /\ task'[t].pc # "archive"
      BY <2>1 DEF Spawner, Clears
    <2>3. KnownKept
      BY <1>1, <2>1, StatusKnown
    <2>4. QED
      BY <1>1, <1>2, <2>2, <2>3, StrayQuiet
  <1>11. CASE ConvoRecord(t)
    <2>1. /\ Clears(t) /\ task[t].pc = "record" /\ db' = Recorded(t, 0) /\ task[t].stage = "convo"
          /\ task'[t].pc \in {"idle", "sleep", "dead", "card"}
          /\ task'[t].op \in {"none", "status", "cards"}
      BY <1>1, <1>11, ConvoRecordStep DEF Carding, Clears, Shape
    <2>2. db'.convo = task[t].sess /\ db'.ws = db.ws
      BY <1>1, <2>1, RecordedTyped, Constants
    <2>3. Spawner(t) /\ ~Spawner(t)' /\ ~Clears(t)' /\ windows' = windows
      BY <1>11, <2>1 DEF Spawner, Clears, ConvoRecord
    <2>4. QED
      BY <1>1, <1>2, <2>1, <2>2, <2>3, StrayRecorded
  <1>12. QED
    BY <1>4, <1>5, <1>6, <1>7, <1>8, <1>9, <1>10, <1>11 DEF Resume

\* After the accidents that the property excuses.
LEMMA StrayExcused ==
  ASSUME past' \cap Losses # {}
  PROVE  StrayInv'
  BY DEF StrayInv

\* Spawning and sending.
LEMMA StrayTmux ==
  ASSUME TypeInv, StoreInv, RolloutInv, StrayInv, NEW t \in Procs, Tmux(t)
  PROVE  StrayInv'
  <1>1. TasksOK /\ Shape(t, task[t]) /\ task[t] \in TaskRecord
    BY TypeParts DEF TasksOK
  <1>2. CASE OpenWindow(t)
    BY <1>2, StrayOpen
  <1>3. CASE Claim(t) /\ Aside
    BY <1>3, StrayClaim DEF Aside
  <1>4. CASE NoRollout(t)
    BY <1>4, StrayExcused DEF NoRollout, Losses
  <1>5. CASE TypeCommand(t) \/ RunCommand(t) \/ LoadBuffer(t) \/ PasteBuffer(t) \/ TypeLine(t)
    <2>1. /\ Step(t, {"pc"})
          /\ task[t].pc \in {"type", "run", "load", "paste", "line"}
          /\ task'[t].pc \in {"run", "claim", "await", "ready", "record", "paste", "enter"}
      <3>1. AfterSpawn[task[t].stage] \in {"await", "ready", "record"}
        BY <1>1, AfterSpawnIs DEF TaskRecord
      <3>2. QED
        BY <1>1, <1>5, <3>1, TypeCommandStep, RunCommandStep, LoadBufferStep, PasteBufferStep, TypeLineStep
    <2>2. /\ task'[t].stage = task[t].stage /\ task'[t].name = task[t].name
          /\ task'[t].op = task[t].op /\ task'[t].sess = task[t].sess
      BY <2>1 DEF Step, Alike
    <2>3. (Spawner(t)' <=> Spawner(t)) /\ (Clears(t)' => Clears(t))
      BY <2>1, <2>2 DEF Spawner, Clears
    <2>4. StrayKept(t)
      BY <2>1, <2>2, <2>3, StrayOn
    <2>5. ~OpenWindow(t) /\ ~NoRollout(t)
      BY <2>1 DEF OpenWindow, NewWindow, NoRollout
    <2>6. db' = db /\ past \subseteq past' /\ Moved
      BY <2>5, TmuxStep, TmuxMoves
    <2>7. QED
      BY <2>1, <2>3, <2>4, <2>6, RowsKnown, StrayOne DEF Step
  <1>6. QED
    BY <1>2, <1>3, <1>4, <1>5 DEF Tmux

\* A button is pressed: no spawn begins before its first await, and a second reset of
\* the conversation is an accident.
LEMMA StrayButton ==
  ASSUME TypeInv, StrayInv, NEW t \in Tasks, Button(t)
  PROVE  StrayInv'
  <1>1. /\ windows' = windows /\ task[t] = Idle /\ past' \in {past, Resets} /\ t \in Procs
        /\ \A u \in Procs \ {t} : task'[u] = task[u]
        /\ TasksOK /\ windows \subseteq Window /\ db \in Store
    BY TypeParts, ButtonStep DEF Procs, DataOK
  <1>2. \/ task'[t].op \in {"new", "send"} /\ task'[t].pc = "open"
        \/ task'[t].op \in {"end", "input", "retype"} /\ task'[t].pc # "archive"
        \/ task'[t].op \in {"clear", "model"} /\ task'[t].pc = "look" /\ past' = Resets
    BY ButtonStep DEF Begun
  <1>3. ~Spawner(t) /\ ~Spawner(t)' /\ task'[t].pc # "archive"
    BY <1>1, <1>2, IdleIs DEF Spawner
  <1>4. \/ db' = db \/ \E k : db' = [db EXCEPT !.marker = k]
        \/ \E e \in Engines : db' = [db EXCEPT !.pick = e]
    BY ButtonStep
  <1>5. db'.convo = db.convo /\ db'.ws = db.ws
    BY <1>1, <1>4 DEF Store
  <1>6. ASSUME past' \cap Losses = {}, Clears(t)'
        PROVE  OneClear'
    <2>1. past' = Resets
      BY <1>2, <1>6 DEF Clears
    <2>2. \A u \in Tasks : ~Clears(u)
      BY <1>6, <2>1 DEF Resets, Losses
    <2>3. ~Clears(Status)
      <3>1. Shape(Status, task[Status]) /\ Status \notin Tasks
        BY <1>1, Constants DEF TasksOK, Procs
      <3>2. QED
        BY <3>1 DEF Shape, Clears
    <2>4. \A u \in Procs \ {t} : ~Clears(u)'
      BY <1>1, <2>2, <2>3 DEF Procs, Clears
    <2>5. QED
      BY <2>4 DEF OneClear
  <1>7. Moved /\ past \subseteq past'
    BY <1>1, SubsetMoves DEF Resets
  <1>8. StrayKept(t) /\ KnownKept
    BY <1>1, <1>3, <1>5, StrayQuiet, RowsKnown
  <1>9. past' \cap Losses = {} => OneClear' \/ (Clears(t)' => Clears(t))
    BY <1>6
  <1>10. QED
    BY <1>1, <1>7, <1>8, <1>9, StrayOne

\* The server boots, and its loop wakes.
LEMMA StrayServer ==
  ASSUME TypeInv, StrayInv, Boot \/ Reuse \/ Respawn \/ CannotResume \/ BootRecord \/ Wake
  PROVE  StrayInv'
  <1>1. /\ TasksOK /\ UpInv /\ Status \in Procs /\ windows \subseteq Window
        /\ \A u \in Procs \ {Status} : task'[u] = task[u]
        /\ Shape(Status, task[Status]) /\ db \in Store
    BY TypeParts, ServerStep DEF Procs, DataOK, TasksOK
  <1>2. windows' = windows /\ past \subseteq past'
    BY DEF Boot, Reuse, Respawn, CannotResume, BootRecord, Wake
  <1>3. Moved
    BY <1>1, <1>2, SubsetMoves
  <1>4. \/ task'[Status].op = "boot" /\ task'[Status].pc \in {"look", "open"}
        \/ task'[Status].op \in {"none", "status", "cards"} /\ task'[Status].pc # "archive"
    <2>1. CASE Boot \/ Respawn \/ CannotResume
      BY <2>1, ServerStep, IdleIs
    <2>2. CASE Reuse \/ BootRecord
      <3>1. task'[Status] = [Idle EXCEPT !.op = "status", !.pc = "sleep"]
        BY <2>2, ServerStep
      <3>2. QED
        BY <3>1 DEF Idle
    <2>3. CASE Wake
      BY <2>3, ServerStep DEF Carding
    <2>4. QED
      BY <2>1, <2>2, <2>3
  <1>5. ~Spawner(Status)' /\ ~Clears(Status)' /\ task'[Status].pc # "archive"
    BY <1>4 DEF Spawner, Clears
  <1>6. CASE Boot \/ Reuse \/ Respawn \/ CannotResume \/ Wake
    <2>1. db' = db
      BY <1>6 DEF Boot, Reuse, Respawn, CannotResume, Wake, Serve
    <2>2. ~Spawner(Status)
      <3>1. CASE Boot
        BY <1>1, <3>1, IdleIs DEF Boot, UpInv, Spawner
      <3>2. CASE Reuse \/ Respawn \/ CannotResume
        BY <3>2 DEF Reuse, Respawn, CannotResume, Spawner
      <3>3. CASE Wake
        BY <3>3, ServerStep DEF Spawner
      <3>4. QED
        BY <1>6, <3>1, <3>2, <3>3
    <2>3. StrayKept(Status) /\ KnownKept
      BY <1>1, <1>5, <2>1, <2>2, StrayQuiet, RowsKnown
    <2>4. QED
      BY <1>1, <1>2, <1>3, <1>5, <2>3, StrayOne
  <1>7. CASE BootRecord
    <2>1. task[Status].op = "boot" /\ task[Status].pc = "record" /\ task[Status].stage = "convo"
      BY <1>1, <1>7 DEF BootRecord, Shape
    <2>2. db'.convo = task[Status].sess /\ db'.ws = db.ws
      <3>1. CASE Resumed(Status)
        BY <1>7, <3>1 DEF BootRecord, Resumed
      <3>2. CASE ~Resumed(Status)
        <4>1. db' = Recorded(Status, db.marker) /\ db.marker \in 0..MaxLines
          BY <1>1, <1>7, <3>2 DEF BootRecord, Store
        <4>2. LET d == Recorded(Status, db.marker) IN d.convo = task[Status].sess /\ d.ws = db.ws
          BY <1>1, <4>1, RecordedTyped, Zenon
        <4>3. QED
          BY <4>1, <4>2
      <3>3. QED
        BY <3>1, <3>2
    <2>3. Spawner(Status)
      BY <2>1 DEF Spawner
    <2>4. SpawnsHere => StrayKept(Status) /\ KnownKept
      BY <1>1, <1>2, <1>5, <2>1, <2>2, <2>3, StrayRecorded
    <2>5. QED
      BY <1>1, <1>2, <1>3, <1>5, <2>4, StrayOne
  <1>8. QED
    BY <1>6, <1>7

\* Every step keeps it.
LEMMA StrayStep ==
  ASSUME TypeInv, StoreInv, Single, RolloutInv, StrayInv, [Next]_vars
  PROVE  StrayInv'
  <1>1. TasksOK /\ windows \subseteq Window /\ db \in Store
    BY TypeParts DEF DataOK
  <1>2. ASSUME windows' \subseteq windows, UNCHANGED <<task, past, db>>
        PROVE  StrayInv'
    <2>1. Moved
      BY <1>1, <1>2, SubsetMoves
    <2>2. KnownKept /\ \A u \in Procs : StrayKept(u)
      BY <1>2, RowsKnown, StrayStays
    <2>3. OneClear => OneClear'
      BY <1>2 DEF OneClear, Clears
    <2>4. QED
      BY <1>2, <2>1, <2>2, <2>3, StrayFrame
  <1>3. CASE UNCHANGED vars
    BY <1>2, <1>3 DEF vars
  <1>4. CASE \E t \in Procs : Card(t)
    <2>1. PICK t \in Procs : Card(t)
      BY <1>4
    <2>2. PICK status \in {"running", "gone"} :
            /\ task[t].op \in {"status", "cards"} /\ task[t].name \in Names
            /\ task'[t].pc \in {"idle", "sleep", "dead", "card"}
            /\ task'[t].op \in {"none", "status", "cards"}
            /\ \A u \in Procs \ {t} : task'[u] = task[u]
            /\ db' = db \/ db' = [db EXCEPT !.ws = WithStatus(db.ws, task[t].name, status)]
      BY <2>1, CardStep DEF Carding
    <2>3. ~Spawner(t) /\ ~Spawner(t)' /\ ~Clears(t)' /\ task'[t].pc # "archive"
      BY <2>2 DEF Spawner, Clears
    <2>4. StrayKept(t) /\ KnownKept
      BY <1>1, <2>2, <2>3, StrayQuiet, StatusKnown
    <2>5. windows' = windows /\ past' = past
      BY <2>1 DEF Card
    <2>6. Moved
      BY <1>1, <2>5, SubsetMoves
    <2>7. QED
      BY <2>2, <2>3, <2>4, <2>5, <2>6, StrayOne
  <1>5. CASE \E w \in windows : AgentUp(w) /\ Aside
    <2>1. PICK w \in windows : AgentUp(w) /\ Aside
      BY <1>5
    <2>2. \A u \in Procs : Alike(task[u], task'[u], {"new"})
      BY <1>1, <2>1, AgentUpStep
    <2>3. Moved
      BY <1>5, EnvironmentMoves DEF Environment
    <2>4. QED
      BY <2>1, <2>2, <2>3, StrayUp DEF AgentUp, Aside
  <1>6. CASE (\E w \in windows : WindowCloses(w)) \/ \E s \in Sessions : Talk(s)
    BY <1>2, <1>6 DEF WindowCloses, Talk
  <1>7. CASE \E machine \in BOOLEAN : Crash(machine) \/ \E t \in Tasks : CutShort(t, machine)
    BY <1>7, StrayExcused DEF Crash, CutShort, Wreck, Losses
  <1>8. CASE \E w \in windows : ChildUp(w)
    BY <1>8, StrayExcused DEF ChildUp, Losses
  <1>9. QED
    BY <1>3, <1>4, <1>5, <1>6, <1>7, <1>8, StrayTmux, StrayResume, StrayButton, StrayServer
       DEF Next, Environment

\* At the start every window is recorded.
LEMMA StrayStart == Init => StrayInv
  <1> SUFFICES ASSUME Init PROVE StrayInv
    OBVIOUS
  <1>1. \A t \in Procs : ~Spawner(t) /\ ~Clears(t) /\ task[t].pc # "archive"
    BY IdleIs DEF Init, Spawner, Clears
  <1>2. ASSUME NEW w \in windows PROVE IsKnown(w)
    <2>1. PICK convo \in {None, 1}, engine \in Engines, marker \in 0..1 :
            LET S == IF convo = None THEN {} ELSE Before
            IN /\ db = [convo |-> convo, engine |-> engine, marker |-> marker, pick |-> engine,
                        ws |-> [n \in Names |-> IF n \in S THEN [sess |-> FirstId[n], status |-> "running"]
                                                ELSE None]]
               /\ convo # None
               /\ w = Running("convo", 1, engine = "codex")
                  \/ \E n \in S : w = Running(n, FirstId[n], n \in CodexNames)
      BY <1>2 DEF Init
    <2>2. db.convo = 1
      BY <2>1
    <2>3. CASE w = Running("convo", 1, engine = "codex")
      BY <2>2, <2>3 DEF Running, IsKnown
    <2>4. CASE \E n \in Before : w = Running(n, FirstId[n], n \in CodexNames)
      <3>1. PICK n \in Before : w = Running(n, FirstId[n], n \in CodexNames)
        BY <2>4
      <3>2. n \in Names /\ w.name = n /\ w.sess = FirstId[n] /\ FirstId[n] \in Sessions
        BY <3>1, FirstIds, Constants DEF Running
      <3>3. db.ws[n] = [sess |-> FirstId[n], status |-> "running"]
        BY <2>1, <3>1, <3>2
      <3>4. db.ws[n] \in Row /\ db.ws[n].sess = FirstId[n]
        BY <3>2, <3>3 DEF Row
      <3>5. QED
        BY <3>2, <3>4, Constants DEF IsKnown
    <2>5. QED
      BY <2>1, <2>3, <2>4
  <1>3. QED
    BY <1>1, <1>2 DEF StrayInv, OneClear, SpawnsHere, Archived, Accounted

\* Every window is the conversation's, a known workstream's, or that of an operation
\* still under way, unless one of the named accidents has happened.
THEOREM NoStraysAlways == Spec => []NoStrays
  <1>1. Init => StrayInv
    BY StrayStart
  <1>2. TypeInv /\ StoreInv /\ Single /\ RolloutInv /\ StrayInv /\ [Next]_vars => StrayInv'
    BY StrayStep
  <1>3. TypeInv /\ StrayInv => NoStrays
    <2>1. SUFFICES ASSUME TypeInv, StrayInv, past \cap Losses = {}, NEW w \in windows, ~IsKnown(w)
                   PROVE  \E t \in Procs : Owner(w, t)
      BY DEF NoStrays, Losses
    <2>2. PICK t \in Procs : Spawner(t) /\ Target(t) = w.name /\ Mine(w, t)
      BY <2>1 DEF StrayInv, Accounted
    <2>3. Shape(t, task[t])
      BY <2>1, TypeParts DEF TasksOK
    <2>4. task[t].pc \notin {"idle", "sleep", "dead", "card"}
      BY <2>2, <2>3 DEF Shape, Spawner
    <2>5. task[t].sess \in {w.sess, None}
      BY <2>2 DEF Mine
    <2>6. QED
      BY <2>2, <2>4, <2>5 DEF Owner
  <1>4. QED
    BY <1>1, <1>2, <1>3, TypeAlways, StoreAlways, SingleAlways, RolloutAlways, PTL DEF Spec
=============================================================================
