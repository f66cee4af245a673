--------------------------- MODULE Workstreams_proofs ---------------------------
(***************************************************************************)
(* Proofs about Workstreams, for any number of tasks, names, sessions,     *)
(* lines and events: type correctness; that the server boots again; that   *)
(* the rows and the memory agree; and that no line of the conversation is  *)
(* skipped.  What is in the windows is WorkstreamWindows_proofs'.          *)
(***************************************************************************)
EXTENDS Workstreams, FiniteSetTheorems, SequenceTheorems, TLAPS

-----------------------------------------------------------------------------
(* The inductive invariants.                                               *)

TaskRecord == [ op    : Ops,
                stage : {"work", "plan", "inject", "convo"},
                pc    : Labels,
                name  : Names \cup {None},
                sess  : Sessions \cup {None},
                codex : BOOLEAN,
                new   : SUBSET Sessions,
                got   : BOOLEAN,
                convo : Sessions \cup {None},
                since : 0..MaxLines,
                cur   : 0..MaxLines,
                text  : {"none", "plan", "rename", "blank"},
                seen  : SUBSET Names,
                old   : Row \cup {None},
                size  : Nat ]

\* The steps of a spawn from the window on, and of what is sent to a new session.
SpawnPc == {"type", "run", "claim", "await", "ready", "record"}
SendPc == {"load", "paste", "line", "enter"}

\* Where each operation can be, and about which window.
Shape(t, r) ==
  /\ (r.op = "none" <=> r.pc = "idle") /\ (r.pc = "idle" => r = Idle)
  /\ r.op = "boot" => /\ t = Status /\ r.stage = "convo" /\ r.name = None
                      /\ r.pc \in {"look", "open", "type", "run", "claim", "record"}
  /\ r.op = "status" => t = Status /\ r.stage = "work" /\ r.pc \in {"sleep", "card", "dead"}
  /\ r.op \in {"cards", "new", "send", "end", "input", "clear", "model", "retype"} => t \in Tasks
  /\ r.op = "cards" => r.stage = "work" /\ r.pc = "card"
  /\ r.op = "new" => r.convo # None
  /\ r.op = "new" => \/ r.stage = "plan" /\ r.name = None
                        /\ r.pc \in {"open", "type", "run", "claim", "await", "kill"}
                     \/ /\ r.stage = "work" /\ r.name # None
                        /\ r.pc \in {"open", "type", "run", "claim", "ready", "load", "paste", "enter", "kill"}
  /\ r.op = "send" => \/ /\ r.stage = "inject" /\ r.name # None
                         /\ r.pc \in {"open", "type", "run", "claim", "await", "kill"}
                      \/ r.stage = "work" /\ r.name # None /\ r.pc \in {"load", "paste", "enter"}
  /\ r.op = "end" => r.stage = "work" /\ r.pc \in {"kill", "archive"}
  /\ r.op = "input" => /\ r.stage = "convo" \/ (r.stage = "work" /\ r.name # None)
                       /\ r.pc \in {"load", "line", "paste", "enter"}
  /\ r.op \in {"clear", "model"} => /\ r.stage = "convo" /\ r.name = None
                                    /\ r.pc \in {"look", "kill", "open", "type", "run", "claim", "record"}
  /\ r.op = "retype" => r.stage = "convo" /\ r.name = None /\ r.pc \in {"line", "enter"}
  /\ r.pc \in {"card", "kill", "archive"} /\ r.op \in {"status", "cards", "end"} => r.name # None /\ r.old # None
  /\ r.pc = "claim" => r.codex
  /\ r.pc \in SpawnPc => r.sess # None
  /\ r.op = "new" /\ r.stage = "work" /\ r.pc \in {"load", "paste", "enter"} => r.sess # None
  /\ r.pc = "open" /\ r.op # "boot" => r.sess = None
  /\ r.op = "boot" /\ r.sess # None /\ r.pc = "open" => ~r.codex
  /\ r.op \in {"input", "retype", "end", "cards", "status"} => r.sess = None
  /\ r.op = "send" /\ r.stage = "work" => r.sess = None
  /\ r.op \in {"clear", "model", "boot"} /\ r.pc \in {"look", "kill"} => r.sess = None
  /\ r.new # {} => r.pc \in {"type", "run", "claim"} /\ r.codex

\* The server and its processes.
UpInv ==
  /\ up # "up" => \A t \in Tasks : task[t] = Idle
  /\ up \in {"down", "failed"} => task[Status] = Idle
  /\ up = "booting" => task[Status].op = "boot"
  /\ up = "up" => task[Status].op = "status" /\ db.convo # None /\ mem.convo = db.convo
  /\ task[Status].op = "boot" /\ task[Status].pc = "look" => db.convo # None
  /\ task[Status].op = "boot" /\ task[Status].sess # None /\ db.engine = "claude" /\ task[Status].pc = "open"
       => task[Status].sess = db.convo

TypeInv ==
  /\ TypeOK
  /\ task \in [Procs -> TaskRecord]
  /\ lines \in [Sessions -> 0..MaxLines]
  /\ \A t \in Procs : Shape(t, task[t])
  /\ UpInv

\* A reset, and the server that boots, spawn what is chosen, and one reset is under
\* way at a time.
SpawnsChosen(t) ==
  task[t].stage = "convo" /\ task[t].pc \in {"open", "type", "run", "claim", "record"}
    => (task[t].codex <=> db.pick = "codex")

BootInv ==
  past \cap {"cut", "norollout", "resets"} = {} =>
    /\ up # "failed"
    /\ db.pick = db.engine \/ \E t \in Tasks : task[t].op = "model"
    /\ \A t \in Procs : SpawnsChosen(t)
    /\ \A t, u \in Tasks : Clears(t) /\ Clears(u) => t = u

\* A workstream being made has its name to itself, and what a task read of a name
\* is what the name stands for still.
Making(t) == task[t].op = "new" /\ task[t].stage = "work"

NameInv ==
  "reused" \notin past =>
    /\ \A t \in Procs : Making(t) => /\ task[t].name \notin Taken(mem.ws)
                                     /\ \A u \in Procs \ {t} : task[u].name # task[t].name
    /\ \A t \in Procs : task[t].op \in {"status", "cards", "end"} /\ task[t].name # None
                          => mem.ws[task[t].name] = None \/ SameObject(t)

StoreInv == NameInv /\ StoreMatchesMemory

\* The lines that were told or lost, and those that a planner has yet to hand on.
Spent == done.told \cup done.lost
Covered == Spent \cup UNION {Due(t) : t \in {u \in Tasks : Planning(u)}}

SkipInv ==
  "stale" \notin past =>
    /\ 1..db.marker \subseteq Covered
    /\ \A t \in Tasks : task[t].op = "send" => task[t].convo = db.convo /\ 1..task[t].since \subseteq Covered

-----------------------------------------------------------------------------
(* Type correctness.                                                       *)

\* What the assumptions say of the bounds.
LEMMA Constants ==
  /\ MaxSessions \in Nat /\ MaxLines \in Nat /\ MaxEvents \in Nat
  /\ 1 \in Sessions /\ 0 \in 0..MaxLines
  /\ IsFiniteSet(Names) /\ Cardinality(Names) \in Nat /\ Cardinality(Names) < MaxSessions
  /\ None \notin Sessions /\ None \notin Row /\ None \notin Names /\ None \notin Tasks
  /\ Status \notin Tasks /\ Before \subseteq Names /\ Greets \in BOOLEAN
  <1>1. Cardinality(Names) \in Nat
    BY WorkstreamsAssumption, FS_CardinalityType
  <1>2. QED
    BY <1>1, SubstrateAssumption, BootstrapAssumption, NoneAssumption, WorkstreamsAssumption
       DEF Sessions

\* Before the first server starts the workstreams have sessions of their own.
LEMMA FirstIds ==
  /\ FirstId \in [Names -> 2..(Cardinality(Names) + 1)]
  /\ \A m, n \in Names : FirstId[m] = FirstId[n] => m = n
  /\ \A n \in Names : FirstId[n] \in Sessions /\ FirstId[n] # 1
  <1> DEFINE k == Cardinality(Names)
  <1>1. k \in Nat /\ k < MaxSessions /\ MaxSessions \in Nat
    BY Constants
  <1>2. ExistsBijection(1..k, Names)
    BY Constants, FS_CardinalityType
  <1>3. PICK f \in [1..k -> Names] : \A n \in Names : \E i \in 1..k : f[i] = n
    BY <1>2 DEF ExistsBijection, Bijection, Injection, Surjection
  <1> HIDE DEF k
  <1> DEFINE at(n) == CHOOSE i \in 1..k : f[i] = n
             g == [n \in Names |-> at(n) + 1]
  <1>4. \A n \in Names : at(n) \in 1..k /\ f[at(n)] = n
    BY <1>3
  <1> HIDE DEF at
  <1>5. \A n \in Names : at(n) + 1 \in 2..(k + 1)
    BY <1>1, <1>4
  <1>6. g \in [Names -> 2..(k + 1)]
    BY <1>5
  <1>7. \A m, n \in Names : g[m] = g[n] => m = n
    <2> SUFFICES ASSUME NEW m \in Names, NEW n \in Names, at(m) + 1 = at(n) + 1 PROVE m = n
      OBVIOUS
    <2>1. at(m) = at(n)
      BY <1>1, <1>4
    <2>2. QED
      BY <1>4, <2>1
  <1> HIDE DEF g
  <1>8. /\ FirstId \in [Names -> 2..(k + 1)]
        /\ \A m, n \in Names : FirstId[m] = FirstId[n] => m = n
    BY <1>6, <1>7 DEF FirstId, k
  <1>9. \A n \in Names : FirstId[n] \in Sessions /\ FirstId[n] # 1
    <2> SUFFICES ASSUME NEW n \in Names PROVE FirstId[n] \in Sessions /\ FirstId[n] # 1
      OBVIOUS
    <2>1. FirstId[n] \in 2..(k + 1)
      BY <1>8
    <2>2. QED
      BY <1>1, <2>1 DEF Sessions
  <1>10. QED
    BY <1>8, <1>9 DEF k

\* A process that does nothing is well formed, and so is the cards' task asleep or dead.
LEMMA IdleTyped ==
  /\ Idle \in TaskRecord
  /\ \A t \in Procs : Shape(t, Idle)
  /\ \A pc \in {"sleep", "dead"} :
       LET r == [Idle EXCEPT !.op = "status", !.pc = pc]
       IN r \in TaskRecord /\ Shape(Status, r)
  <1>1. Idle \in TaskRecord
    BY Constants DEF Idle, TaskRecord, Ops, Labels
  <1>2. \A t \in Procs : Shape(t, Idle)
    BY DEF SpawnPc, Idle, Shape
  <1>3. ASSUME NEW pc \in {"sleep", "dead"}
        PROVE  LET r == [Idle EXCEPT !.op = "status", !.pc = pc]
               IN r \in TaskRecord /\ Shape(Status, r)
    <2> DEFINE r == [Idle EXCEPT !.op = "status", !.pc = pc]
    <2>1. r \in TaskRecord
      BY Constants DEF Idle, TaskRecord, Ops, Labels
    <2>2. Shape(Status, r)
      BY DEF SpawnPc, Idle, Shape
    <2>3. QED
      BY <2>1, <2>2
  <1>4. QED
    BY <1>1, <1>2, <1>3

\* One process goes on; the others are where they were.
LEMMA TaskStep ==
  ASSUME task \in [Procs -> TaskRecord], \A t \in Procs : Shape(t, task[t]),
         NEW t \in Procs, NEW r, r \in TaskRecord, Shape(t, r),
         task' = [task EXCEPT ![t] = r]
  PROVE  /\ task' \in [Procs -> TaskRecord]
         /\ \A u \in Procs : Shape(u, task'[u])
         /\ task'[t] = r
         /\ \A u \in Procs \ {t} : task'[u] = task[u]
  <1>1. /\ task' \in [Procs -> TaskRecord]
        /\ task'[t] = r
        /\ \A u \in Procs \ {t} : task'[u] = task[u]
    OBVIOUS
  <1>2. QED
    BY <1>1

\* What push_cards leaves a task at: the card of a workstream, over, asleep or dead.
Carding(t, ws, r) ==
  /\ r \in TaskRecord /\ Shape(t, r)
  /\ r.op \in {"none", "status", "cards"} /\ (r.op = "status" <=> t = Status)
  /\ r.pc \in {"idle", "sleep", "dead", "card"}
  /\ r.sess = None /\ r.new = {} /\ ~r.codex /\ r.convo = None
  /\ r.stage = "work" /\ r.text = "none"
  /\ r.name # None => r.name \in Taken(ws) /\ r.old = ws[r.name] /\ r.op # "none"

\* The card of a workstream there is.
LEMMA CardForTyped ==
  ASSUME NEW t \in Procs, NEW ws \in [Names -> Row \cup {None}], NEW n \in Taken(ws),
         NEW seen \in SUBSET Names, NEW size \in Nat
  PROVE  Carding(t, ws, CardFor(t, ws, n, seen, size))
  <1> DEFINE r == CardFor(t, ws, n, seen, size)
  <1>1. n \in Names /\ ws[n] \in Row /\ ws[n] # None /\ n # None
    BY Constants DEF Taken
  <1>2. /\ r.op = IF t = Status THEN "status" ELSE "cards"
        /\ r.stage = "work" /\ r.pc = "card" /\ r.name = n /\ r.sess = None
        /\ r.codex = FALSE /\ r.new = {} /\ r.got = FALSE /\ r.convo = None /\ r.since = 0
        /\ r.cur = 0 /\ r.text = "none" /\ r.seen = seen \cup {n} /\ r.old = ws[n]
        /\ r.size = size
    BY DEF CardFor, Idle
  <1>3. r \in TaskRecord
    BY <1>1, Constants, ZenonT(30) DEF CardFor, Idle, TaskRecord, Ops, Labels
  <1> HIDE DEF r
  <1>4. Shape(t, r)
    BY <1>1, <1>2 DEF SpawnPc, Shape, Procs
  <1>5. QED
    BY <1>1, <1>2, <1>3, <1>4, Constants DEF Carding, r

\* No card: over, asleep or dead.
LEMMA RestTyped ==
  ASSUME NEW t \in Procs, NEW ws
  PROVE  Carding(t, ws, Pushed(t)) /\ Carding(t, ws, Died(t))
  <1>1. CASE t = Status
    <2>1. ASSUME NEW pc \in {"sleep", "dead"}
          PROVE  Carding(t, ws, [Idle EXCEPT !.op = "status", !.pc = pc])
      <3> DEFINE r == [Idle EXCEPT !.op = "status", !.pc = pc]
      <3>1. /\ r.op = "status" /\ r.pc = pc /\ r.sess = None /\ r.new = {} /\ r.codex = FALSE
            /\ r.convo = None /\ r.stage = "work" /\ r.text = "none" /\ r.name = None
        BY DEF Idle
      <3>2. r \in TaskRecord /\ Shape(t, r)
        BY <1>1, IdleTyped
      <3> HIDE DEF r
      <3>3. Carding(t, ws, r)
        BY <1>1, <3>1, <3>2 DEF Carding
      <3>4. QED
        BY <3>3 DEF r
    <2>2. QED
      BY <1>1, <2>1 DEF Pushed, Died
  <1>2. CASE t # Status
    <2>1. Idle \in TaskRecord /\ Shape(t, Idle)
      BY IdleTyped
    <2>2. Carding(t, ws, Idle)
      BY <1>2, <2>1 DEF Carding, Idle
    <2>3. QED
      BY <1>2, <2>2 DEF Pushed, Died
  <1>3. QED
    BY <1>1, <1>2

\* The first card, or none.
LEMMA PushCardsTyped ==
  ASSUME NEW t \in Procs, NEW ws \in [Names -> Row \cup {None}], NEW r \in PushCards(t, ws)
  PROVE  Carding(t, ws, r)
  <1>1. CASE Taken(ws) = {}
    <2>1. r = Pushed(t)
      BY <1>1 DEF PushCards
    <2>2. QED
      BY <2>1, RestTyped
  <1>2. CASE Taken(ws) # {}
    <2>1. PICK n \in Taken(ws) : r = CardFor(t, ws, n, {}, Cardinality(Taken(ws)))
      BY <1>2 DEF PushCards
    <2>2. Taken(ws) \in SUBSET Names
      BY DEF Taken
    <2>3. Cardinality(Taken(ws)) \in Nat
      BY <2>2, Constants, FS_Subset, FS_CardinalityType
    <2> DEFINE k == Cardinality(Taken(ws))
    <2> HIDE DEF k
    <2>4. {} \in SUBSET Names /\ k \in Nat
      BY <2>3 DEF k
    <2>5. Carding(t, ws, CardFor(t, ws, n, {}, k))
      BY <2>1, <2>4, CardForTyped
    <2>6. QED
      BY <2>1, <2>5 DEF k
  <1>3. QED
    BY <1>1, <1>2

\* The next card, or none.
LEMMA NextCardTyped ==
  ASSUME NEW t \in Procs, task[t] \in TaskRecord,
         NEW ws \in [Names -> Row \cup {None}], NEW r \in NextCard(t, ws)
  PROVE  Carding(t, ws, r)
  <1>1. task[t].seen \in SUBSET Names /\ task[t].size \in Nat
    BY DEF TaskRecord
  <1>2. CASE r \in {Pushed(t), Died(t)}
    BY <1>2, RestTyped
  <1>3. CASE r \notin {Pushed(t), Died(t)}
    <2>1. PICK n \in Taken(ws) : r = CardFor(t, ws, n, task[t].seen, task[t].size)
      BY <1>3 DEF NextCard
    <2> DEFINE seen == task[t].seen  size == task[t].size
    <2>2. seen \in SUBSET Names /\ size \in Nat
      BY <1>1
    <2> HIDE DEF seen, size
    <2>3. Carding(t, ws, CardFor(t, ws, n, seen, size))
      BY <2>1, <2>2, CardForTyped
    <2>4. QED
      BY <2>1, <2>3 DEF seen, size
  <1>4. QED
    BY <1>2, <1>3

-----------------------------------------------------------------------------
(* What each step does to the processes, field by field.                   *)

\* The records q and r agree in all fields but those of S.
Alike(q, r, S) ==
  /\ "op" \notin S => q.op = r.op
  /\ "stage" \notin S => q.stage = r.stage
  /\ "pc" \notin S => q.pc = r.pc
  /\ "name" \notin S => q.name = r.name
  /\ "sess" \notin S => q.sess = r.sess
  /\ "codex" \notin S => q.codex = r.codex
  /\ "new" \notin S => q.new = r.new
  /\ "got" \notin S => q.got = r.got
  /\ "convo" \notin S => q.convo = r.convo
  /\ "since" \notin S => q.since = r.since
  /\ "cur" \notin S => q.cur = r.cur
  /\ "text" \notin S => q.text = r.text
  /\ "old" \notin S => q.old = r.old

TasksOK ==
  /\ task \in [Procs -> TaskRecord]
  /\ \A t \in Procs : Shape(t, task[t])

\* Process t alone moves, in the fields of S.
Step(t, S) ==
  /\ TasksOK'
  /\ \A u \in Procs \ {t} : task'[u] = task[u]
  /\ Alike(task[t], task'[t], S)

\* Process t goes on to the record r.
LEMMA StepTo ==
  ASSUME TasksOK, NEW t \in Procs, NEW r, r \in TaskRecord, Shape(t, r),
         task' = [task EXCEPT ![t] = r]
  PROVE  /\ TasksOK'
         /\ \A u \in Procs \ {t} : task'[u] = task[u]
         /\ task'[t] = r
  BY TaskStep DEF TasksOK

\* new_window.
LEMMA OpenWindowStep ==
  ASSUME TasksOK, NEW t \in Procs, OpenWindow(t), db \in Store
  PROVE  /\ Step(t, {"pc", "sess", "new"})
         /\ task[t].pc = "open" /\ task'[t].pc = "type" /\ task'[t].new = {}
         /\ \E s \in Sessions :
              /\ task[t].sess \in {None, s}
              /\ task[t].sess = None => s \in FreshSession
              /\ NewWindow(t, s)
              /\ lines' = IF task[t].sess = None THEN [lines EXCEPT ![s] = 0] ELSE lines
              /\ task'[t].sess = s
  <1>1. task[t] \in TaskRecord /\ Shape(t, task[t])
    BY DEF TasksOK
  <1>2. PICK s \in IF task[t].sess = None THEN FreshSession ELSE {task[t].sess} :
          /\ NewWindow(t, s)
          /\ lines' = IF task[t].sess = None THEN [lines EXCEPT ![s] = 0] ELSE lines
    BY DEF OpenWindow
  <1>3. s \in Sessions /\ task[t].sess \in {None, s} /\ (task[t].sess = None => s \in FreshSession)
    BY <1>1, <1>2, Constants DEF TaskRecord, FreshSession
  <1> DEFINE r == [task[t] EXCEPT !.pc = "type", !.sess = s, !.new = {}]
  <1>4. task[t].pc = "open" /\ task' = [task EXCEPT ![t] = r]
    BY <1>2 DEF NewWindow, TasksOK, TaskRecord
  <1>5. /\ Alike(task[t], r, {"pc", "sess", "new"})
        /\ r.pc = "type" /\ r.new = {} /\ r.sess = s
    BY <1>1 DEF Alike, TaskRecord
  <1>6. r \in TaskRecord
    BY <1>1, <1>3, ZenonT(30) DEF TaskRecord, Labels
  <1> HIDE DEF r
  <1>7. Shape(t, r)
    BY <1>1, <1>3, <1>4, <1>5, Constants DEF SpawnPc, Shape, Alike
  <1>8. QED
    BY <1>2, <1>3, <1>4, <1>5, <1>6, <1>7, StepTo DEF Step

\* What the caller of spawn() waits for, window by window.
LEMMA AfterSpawnIs ==
  \A stage \in {"work", "plan", "inject", "convo"} :
    /\ stage = "work" => AfterSpawn[stage] = "ready"
    /\ stage \in {"plan", "inject"} => AfterSpawn[stage] = "await"
    /\ stage = "convo" => AfterSpawn[stage] = "record"
  BY DEF AfterSpawn

\* _spawn_fresh's process.
LEMMA SpawnFreshTyped ==
  ASSUME NEW q \in TaskRecord
  PROVE  /\ SpawnFresh(q) \in TaskRecord
         /\ Alike(q, SpawnFresh(q), {"stage", "pc", "codex"})
         /\ SpawnFresh(q).stage = "convo" /\ SpawnFresh(q).pc = "open"
         /\ SpawnFresh(q).codex <=> db.pick = "codex"
  <1>1. PICK b \in BOOLEAN : b <=> (db.pick = "codex")
    OBVIOUS
  <1>2. SpawnFresh(q) = [q EXCEPT !.stage = "convo", !.pc = "open", !.codex = b]
    BY <1>1 DEF SpawnFresh
  <1>3. QED
    BY <1>1, <1>2, ZenonT(30) DEF TaskRecord, Labels, Alike

\* The command line.
LEMMA TypeCommandStep ==
  ASSUME TasksOK, NEW t \in Procs, TypeCommand(t)
  PROVE  /\ Step(t, {"pc"})
         /\ task[t].pc = "type"
         /\ task'[t].pc = "run"
  <1>1. task[t] \in TaskRecord /\ Shape(t, task[t])
    BY DEF TasksOK, Procs
  <1> DEFINE r == [task[t] EXCEPT !.pc = "run"]
  <1>2. /\ task[t].pc = "type"
        /\ task' = [task EXCEPT ![t] = r]
    BY <1>1 DEF TypeCommand, Goto, TasksOK, TaskRecord, Procs
  <1>3. /\ Alike(task[t], r, {"pc"})
        /\ r.pc = "run"
    BY <1>1 DEF Alike, TaskRecord
  <1>4. r \in TaskRecord
    BY <1>1, <1>2, Constants DEF TaskRecord, Labels, SendVia
  <1> HIDE DEF r
  <1>5. Shape(t, r)
    BY <1>1, <1>2, <1>3, Constants DEF SpawnPc, Shape, Alike, SendVia, Procs
  <1>6. QED
    BY <1>2, <1>3, <1>4, <1>5, StepTo DEF Step, Procs

\* Its Enter.
LEMMA RunCommandStep ==
  ASSUME TasksOK, NEW t \in Procs, RunCommand(t)
  PROVE  /\ Step(t, {"pc"})
         /\ task[t].pc = "run"
         /\ task'[t].pc = IF task[t].codex THEN "claim" ELSE AfterSpawn[task[t].stage]
  <1>1. task[t] \in TaskRecord /\ Shape(t, task[t])
    BY DEF TasksOK, Procs
  <1> DEFINE r == [task[t] EXCEPT !.pc = IF task[t].codex THEN "claim" ELSE AfterSpawn[task[t].stage]]
  <1>2. /\ task[t].pc = "run"
        /\ task' = [task EXCEPT ![t] = r]
    BY <1>1 DEF RunCommand, Goto, TasksOK, TaskRecord, Procs
  <1>3. /\ Alike(task[t], r, {"pc"})
        /\ r.pc = IF task[t].codex THEN "claim" ELSE AfterSpawn[task[t].stage]
    BY <1>1 DEF Alike, TaskRecord
  <1>4. r \in TaskRecord
    BY <1>1, <1>2, Constants, AfterSpawnIs DEF TaskRecord, Labels, SendVia
  <1> HIDE DEF r
  <1>5. task[t].stage \in {"work", "plan", "inject", "convo"}
    BY <1>1 DEF TaskRecord
  <1>6. Shape(t, r)
    BY <1>1, <1>2, <1>3, Constants, <1>5, AfterSpawnIs DEF SpawnPc, Shape, Alike, SendVia, Procs
  <1>7. QED
    BY <1>2, <1>3, <1>4, <1>6, StepTo, ZenonT(30) DEF Step, Procs

\* The text goes onto the stack of buffers.
LEMMA LoadBufferStep ==
  ASSUME TasksOK, NEW t \in Procs, LoadBuffer(t)
  PROVE  /\ Step(t, {"pc"})
         /\ task[t].pc = "load"
         /\ task'[t].pc = "paste"
  <1>1. task[t] \in TaskRecord /\ Shape(t, task[t])
    BY DEF TasksOK, Procs
  <1> DEFINE r == [task[t] EXCEPT !.pc = "paste"]
  <1>2. /\ task[t].pc = "load"
        /\ task' = [task EXCEPT ![t] = r]
    BY <1>1 DEF LoadBuffer, Goto, TasksOK, TaskRecord, Procs
  <1>3. /\ Alike(task[t], r, {"pc"})
        /\ r.pc = "paste"
    BY <1>1 DEF Alike, TaskRecord
  <1>4. r \in TaskRecord
    BY <1>1, <1>2, Constants DEF TaskRecord, Labels, SendVia
  <1> HIDE DEF r
  <1>5. Shape(t, r)
    BY <1>1, <1>2, <1>3, Constants DEF SpawnPc, Shape, Alike, SendVia, Procs
  <1>6. QED
    BY <1>2, <1>3, <1>4, <1>5, StepTo DEF Step, Procs

\* The text goes into the composer.
LEMMA PasteBufferStep ==
  ASSUME TasksOK, NEW t \in Procs, PasteBuffer(t)
  PROVE  /\ Step(t, {"pc"})
         /\ task[t].pc = "paste"
         /\ task'[t].pc = "enter"
  <1>1. task[t] \in TaskRecord /\ Shape(t, task[t])
    BY DEF TasksOK, Procs
  <1> DEFINE r == [task[t] EXCEPT !.pc = "enter"]
  <1>2. /\ task[t].pc = "paste"
        /\ task' = [task EXCEPT ![t] = r]
    BY <1>1 DEF PasteBuffer, Goto, TasksOK, TaskRecord, Procs
  <1>3. /\ Alike(task[t], r, {"pc"})
        /\ r.pc = "enter"
    BY <1>1 DEF Alike, TaskRecord
  <1>4. r \in TaskRecord
    BY <1>1, <1>2, Constants DEF TaskRecord, Labels, SendVia
  <1> HIDE DEF r
  <1>5. Shape(t, r)
    BY <1>1, <1>2, <1>3, Constants DEF SpawnPc, Shape, Alike, SendVia, Procs
  <1>6. QED
    BY <1>2, <1>3, <1>4, <1>5, StepTo DEF Step, Procs

\* The text is typed.
LEMMA TypeLineStep ==
  ASSUME TasksOK, NEW t \in Procs, TypeLine(t)
  PROVE  /\ Step(t, {"pc"})
         /\ task[t].pc = "line"
         /\ task'[t].pc = "enter"
  <1>1. task[t] \in TaskRecord /\ Shape(t, task[t])
    BY DEF TasksOK, Procs
  <1> DEFINE r == [task[t] EXCEPT !.pc = "enter"]
  <1>2. /\ task[t].pc = "line"
        /\ task' = [task EXCEPT ![t] = r]
    BY <1>1 DEF TypeLine, Goto, TasksOK, TaskRecord, Procs
  <1>3. /\ Alike(task[t], r, {"pc"})
        /\ r.pc = "enter"
    BY <1>1 DEF Alike, TaskRecord
  <1>4. r \in TaskRecord
    BY <1>1, <1>2, Constants DEF TaskRecord, Labels, SendVia
  <1> HIDE DEF r
  <1>5. Shape(t, r)
    BY <1>1, <1>2, <1>3, Constants DEF SpawnPc, Shape, Alike, SendVia, Procs
  <1>6. QED
    BY <1>2, <1>3, <1>4, <1>5, StepTo DEF Step, Procs

\* fresh_convo knows whether there is a window.
LEMMA LookStep ==
  ASSUME TasksOK, NEW t \in Tasks, Look(t)
  PROVE  /\ Step(t, {"stage", "pc", "codex"})
         /\ Clears(t) /\ task[t].pc = "look"
         /\ task'[t].pc \in {"kill", "open"} /\ (task'[t].pc = "kill" => task'[t].codex = task[t].codex)
         /\ task'[t].pc = "open" => (task'[t].codex <=> db.pick = "codex")
         /\ task'[t].stage = "convo"
  <1>1. task[t] \in TaskRecord /\ Shape(t, task[t])
    BY DEF TasksOK, Procs
  <1> DEFINE r == IF Alive("convo") THEN [task[t] EXCEPT !.pc = "kill"] ELSE SpawnFresh(task[t])
  <1>2. /\ Clears(t) /\ task[t].pc = "look"
        /\ task' = [task EXCEPT ![t] = r]
    BY <1>1 DEF Look, TasksOK, TaskRecord, Procs
  <1>3. /\ Alike(task[t], r, {"stage", "pc", "codex"})
        /\ r.pc \in {"kill", "open"} /\ (r.pc = "kill" => r.codex = task[t].codex)
        /\ r.pc = "open" => (r.codex <=> db.pick = "codex")
        /\ r.stage = "convo"
    BY <1>1, <1>2 DEF SpawnPc, Alike, TaskRecord, SpawnFresh, Clears, Shape
  <1>4. r \in TaskRecord
    <2>1. CASE Alive("convo")
      BY <1>1, <2>1 DEF TaskRecord, Labels
    <2>2. CASE ~Alive("convo")
      BY <1>1, <2>2, SpawnFreshTyped
    <2>3. QED
      BY <2>1, <2>2
  <1> HIDE DEF r
  <1>5. Shape(t, r)
    BY <1>1, <1>2, <1>3, Constants DEF SpawnPc, Shape, Alike, Clears, SendVia, Procs
  <1>6. QED
    BY <1>2, <1>3, <1>4, <1>5, StepTo DEF Step, Procs

\* fresh_convo has killed the window.
LEMMA RespawnedStep ==
  ASSUME TasksOK, NEW t \in Tasks, Respawned(t)
  PROVE  /\ Step(t, {"stage", "pc", "codex"})
         /\ Clears(t) /\ task[t].pc = "kill"
         /\ task'[t].pc = "open" /\ task'[t].stage = "convo"
         /\ task'[t].codex <=> db.pick = "codex"
  <1>1. task[t] \in TaskRecord /\ Shape(t, task[t])
    BY DEF TasksOK, Procs
  <1> DEFINE r == SpawnFresh(task[t])
  <1>2. /\ Clears(t) /\ task[t].pc = "kill"
        /\ task' = [task EXCEPT ![t] = r]
    BY <1>1 DEF Respawned, KillWindow, TasksOK, TaskRecord, Procs
  <1>3. /\ Alike(task[t], r, {"stage", "pc", "codex"})
        /\ r.pc = "open" /\ r.stage = "convo" /\ (r.codex <=> db.pick = "codex")
    BY <1>1, SpawnFreshTyped
  <1>4. r \in TaskRecord
    BY <1>1, <1>2, Constants, ZenonT(30) DEF TaskRecord, Labels, SpawnFresh
  <1> HIDE DEF r
  <1>5. Shape(t, r)
    BY <1>1, <1>2, <1>3, Constants DEF SpawnPc, Shape, Alike, Clears, SendVia, Procs
  <1>6. QED
    BY <1>2, <1>3, <1>4, <1>5, StepTo DEF Step, Procs

\* /model is typed, and Enter pressed.
LEMMA RetypedStep ==
  ASSUME TasksOK, NEW t \in Tasks, Retyped(t)
  PROVE  /\ Step(t, {"text"})
         /\ task[t].op = "retype" /\ task[t].pc = "enter"
         /\ task'[t].text = "blank"
  <1>1. task[t] \in TaskRecord /\ Shape(t, task[t])
    BY DEF TasksOK, Procs
  <1> DEFINE r == [task[t] EXCEPT !.text = "blank"]
  <1>2. /\ task[t].op = "retype" /\ task[t].pc = "enter"
        /\ task' = [task EXCEPT ![t] = r]
    BY <1>1 DEF Retyped, Enter, Become, TasksOK, TaskRecord, Procs
  <1>3. /\ Alike(task[t], r, {"text"})
        /\ r.text = "blank"
    BY <1>1 DEF Alike, TaskRecord
  <1>4. r \in TaskRecord
    BY <1>1, <1>2, Constants DEF TaskRecord, Labels, SendVia
  <1> HIDE DEF r
  <1>5. Shape(t, r)
    BY <1>1, <1>2, <1>3, Constants DEF SpawnPc, Shape, Alike, SendVia, Procs
  <1>6. QED
    BY <1>2, <1>3, <1>4, <1>5, StepTo DEF Step, Procs

\* The planner or the injector has written its file.
LEMMA AnsweredStep ==
  ASSUME TasksOK, NEW t \in Tasks, Answered(t)
  PROVE  /\ Step(t, {"got", "pc"})
         /\ task[t].pc = "await"
         /\ task'[t].got = TRUE /\ task'[t].pc = "kill"
  <1>1. task[t] \in TaskRecord /\ Shape(t, task[t])
    BY DEF TasksOK, Procs
  <1> DEFINE r == [task[t] EXCEPT !.got = TRUE, !.pc = "kill"]
  <1>2. /\ task[t].pc = "await"
        /\ task' = [task EXCEPT ![t] = r]
    BY <1>1 DEF Answered, Become, TasksOK, TaskRecord, Procs
  <1>3. /\ Alike(task[t], r, {"got", "pc"})
        /\ r.got = TRUE /\ r.pc = "kill"
    BY <1>1 DEF Alike, TaskRecord
  <1>4. r \in TaskRecord
    BY <1>1, <1>2, Constants DEF TaskRecord, Labels, SendVia
  <1> HIDE DEF r
  <1>5. Shape(t, r)
    BY <1>1, <1>2, <1>3, Constants DEF SpawnPc, Shape, Alike, SendVia, Procs
  <1>6. QED
    BY <1>2, <1>3, <1>4, <1>5, StepTo DEF Step, Procs

\* It has not, or the session has not greeted.
LEMMA TimedOutStep ==
  ASSUME TasksOK, NEW t \in Tasks, TimedOut(t)
  PROVE  /\ Step(t, {"pc"})
         /\ task[t].pc \in {"await", "ready"}
         /\ task'[t].pc = "kill"
  <1>1. task[t] \in TaskRecord /\ Shape(t, task[t])
    BY DEF TasksOK, Procs
  <1> DEFINE r == [task[t] EXCEPT !.pc = "kill"]
  <1>2. /\ task[t].pc \in {"await", "ready"}
        /\ task' = [task EXCEPT ![t] = r]
    BY <1>1 DEF TimedOut, Become, TasksOK, TaskRecord, Procs
  <1>3. /\ Alike(task[t], r, {"pc"})
        /\ r.pc = "kill"
    BY <1>1 DEF Alike, TaskRecord
  <1>4. r \in TaskRecord
    BY <1>1, <1>2, Constants DEF TaskRecord, Labels, SendVia
  <1> HIDE DEF r
  <1>5. Shape(t, r)
    BY <1>1, <1>2, <1>3, Constants DEF SpawnPc, Shape, Alike, SendVia, Procs
  <1>6. QED
    BY <1>2, <1>3, <1>4, <1>5, StepTo DEF Step, Procs

\* The new session has greeted.
LEMMA ReadyStep ==
  ASSUME TasksOK, NEW t \in Tasks, Ready(t)
  PROVE  /\ Step(t, {"pc", "text"})
         /\ task[t].pc = "ready"
         /\ task'[t].pc = "load" /\ task'[t].text = "plan"
  <1>1. task[t] \in TaskRecord /\ Shape(t, task[t])
    BY DEF TasksOK, Procs
  <1> DEFINE r == [task[t] EXCEPT !.pc = "load", !.text = "plan"]
  <1>2. /\ task[t].pc = "ready"
        /\ task' = [task EXCEPT ![t] = r]
    BY <1>1 DEF Ready, Become, TasksOK, TaskRecord, Procs
  <1>3. /\ Alike(task[t], r, {"pc", "text"})
        /\ r.pc = "load" /\ r.text = "plan"
    BY <1>1 DEF Alike, TaskRecord
  <1>4. r \in TaskRecord
    BY <1>1, <1>2, Constants DEF TaskRecord, Labels, SendVia
  <1> HIDE DEF r
  <1>5. Shape(t, r)
    BY <1>1, <1>2, <1>3, Constants DEF SpawnPc, Shape, Alike, SendVia, Procs
  <1>6. QED
    BY <1>2, <1>3, <1>4, <1>5, StepTo DEF Step, Procs

\* The directive is on its way to its workstream.
LEMMA DirectedStep ==
  ASSUME TasksOK, NEW t \in Tasks, Directed(t)
  PROVE  /\ Step(t, {"stage", "pc", "sess", "got"})
         /\ task[t].op = "send" /\ task[t].got /\ task[t].pc = "kill"
         /\ task'[t].stage = "work" /\ task'[t].pc = "load" /\ task'[t].sess = None /\ task'[t].got = FALSE
  <1>1. task[t] \in TaskRecord /\ Shape(t, task[t])
    BY DEF TasksOK, Procs
  <1> DEFINE r == [task[t] EXCEPT !.stage = "work", !.pc = "load", !.sess = None, !.got = FALSE]
  <1>2. /\ task[t].op = "send" /\ task[t].got /\ task[t].pc = "kill"
        /\ task' = [task EXCEPT ![t] = r]
    BY <1>1 DEF Directed, KillWindow, Become, TasksOK, TaskRecord, Procs
  <1>3. /\ Alike(task[t], r, {"stage", "pc", "sess", "got"})
        /\ r.stage = "work" /\ r.pc = "load" /\ r.sess = None /\ r.got = FALSE
    BY <1>1 DEF Alike, TaskRecord
  <1>4. r \in TaskRecord
    BY <1>1, <1>2, Constants DEF TaskRecord, Labels, SendVia
  <1> HIDE DEF r
  <1>5. Shape(t, r)
    BY <1>1, <1>2, <1>3, Constants DEF SpawnPc, Shape, Alike, SendVia, Procs
  <1>6. QED
    BY <1>2, <1>3, <1>4, <1>5, StepTo DEF Step, Procs

\* The plan is in; a Codex session is renamed.
LEMMA RenameStep ==
  ASSUME TasksOK, NEW t \in Tasks, Rename(t)
  PROVE  /\ Step(t, {"pc", "text", "since"})
         /\ task[t].op = "new" /\ task[t].codex /\ task[t].text = "plan" /\ task[t].pc = "enter"
         /\ task'[t].pc = "load" /\ task'[t].text = "rename" /\ task'[t].since = task[t].cur
  <1>1. task[t] \in TaskRecord /\ Shape(t, task[t])
    BY DEF TasksOK, Procs
  <1> DEFINE r == [task[t] EXCEPT !.pc = SendVia(TRUE, TRUE), !.text = "rename",
                                  !.since = task[t].cur]
  <1>2. /\ task[t].op = "new" /\ task[t].codex /\ task[t].text = "plan" /\ task[t].pc = "enter"
        /\ task' = [task EXCEPT ![t] = r]
    BY <1>1 DEF Rename, Enter, Become, TasksOK, TaskRecord, Procs
  <1>3. /\ Alike(task[t], r, {"pc", "text", "since"})
        /\ r.pc = "load" /\ r.text = "rename" /\ r.since = task[t].cur
    BY <1>1 DEF Alike, TaskRecord, SendVia
  <1>4. r \in TaskRecord
    BY <1>1, <1>2, Constants, ZenonT(30) DEF TaskRecord, Labels, SendVia
  <1> HIDE DEF r
  <1>5. Shape(t, r)
    BY <1>1, <1>2, <1>3, Constants DEF SpawnPc, Shape, Alike, SendVia, Procs
  <1>6. QED
    BY <1>2, <1>3, <1>4, <1>5, StepTo DEF Step, Procs

\* The chat of a Codex session is to be archived.
LEMMA ArchivesStep ==
  ASSUME TasksOK, NEW t \in Tasks, Archives(t)
  PROVE  /\ Step(t, {"pc"})
         /\ task[t].op = "end" /\ task[t].name \in CodexNames /\ task[t].pc = "kill"
         /\ task'[t].pc = "archive"
  <1>1. task[t] \in TaskRecord /\ Shape(t, task[t])
    BY DEF TasksOK, Procs
  <1> DEFINE r == [task[t] EXCEPT !.pc = "archive"]
  <1>2. /\ task[t].op = "end" /\ task[t].name \in CodexNames /\ task[t].pc = "kill"
        /\ task' = [task EXCEPT ![t] = r]
    BY <1>1 DEF Archives, KillWindow, Goto, TasksOK, TaskRecord, Procs
  <1>3. /\ Alike(task[t], r, {"pc"})
        /\ r.pc = "archive"
    BY <1>1 DEF Alike, TaskRecord
  <1>4. r \in TaskRecord
    BY <1>1, <1>2, Constants DEF TaskRecord, Labels, SendVia
  <1> HIDE DEF r
  <1>5. Shape(t, r)
    BY <1>1, <1>2, <1>3, Constants DEF SpawnPc, Shape, Alike, SendVia, Procs
  <1>6. QED
    BY <1>2, <1>3, <1>4, <1>5, StepTo DEF Step, Procs

\* The planner is over, and its plan names the workstream.
LEMMA PlannedStep ==
  ASSUME TasksOK, NEW t \in Tasks, NEW n \in Names, Planned(t, n)
  PROVE  /\ Step(t, {"stage", "pc", "name", "codex", "sess", "got"})
         /\ task[t].op = "new" /\ task[t].stage = "plan" /\ task[t].pc = "kill"
         /\ task'[t].stage = "work" /\ task'[t].pc = "open" /\ task'[t].name = n
         /\ task'[t].codex = (n \in CodexNames) /\ task'[t].sess = None
  <1>1. task[t] \in TaskRecord /\ Shape(t, task[t])
    BY DEF TasksOK, Procs
  <1> DEFINE r == [task[t] EXCEPT !.stage = "work", !.pc = "open", !.name = n,
                                  !.codex = (n \in CodexNames), !.sess = None, !.got = FALSE]
  <1>2. /\ task[t].op = "new" /\ task[t].stage = "plan" /\ task[t].pc = "kill"
        /\ task' = [task EXCEPT ![t] = r]
    BY DEF Planned, KillWindow, Become
  <1>3. PICK b \in BOOLEAN : b = (n \in CodexNames)
    <2>1. CASE n \in CodexNames
      <3>1. TRUE = (n \in CodexNames)
        BY <2>1
      <3>2. QED
        BY <3>1, Zenon
    <2>2. CASE n \notin CodexNames
      <3>1. FALSE = (n \in CodexNames)
        BY <2>2
      <3>2. QED
        BY <3>1, Zenon
    <2>3. QED
      BY <2>1, <2>2
  <1>4. /\ Alike(task[t], r, {"stage", "pc", "name", "codex", "sess", "got"})
        /\ r.stage = "work" /\ r.pc = "open" /\ r.name = n /\ r.sess = None
        /\ r.codex = b
    BY <1>1, <1>3 DEF Alike, TaskRecord
  <1>5. r \in TaskRecord
    <2>1. r = [task[t] EXCEPT !.stage = "work", !.pc = "open", !.name = n,
                              !.codex = b, !.sess = None, !.got = FALSE]
      BY <1>3
    <2>2. QED
      BY <1>1, <2>1, ZenonT(30) DEF TaskRecord, Labels
  <1> HIDE DEF r
  <1>6. Shape(t, r)
    BY <1>1, <1>2, <1>4, Constants DEF SpawnPc, Shape, Alike, Procs
  <1>7. QED
    BY <1>2, <1>3, <1>4, <1>5, <1>6, StepTo DEF Step, Procs

\* A rollout is claimed.
LEMMA ClaimStep ==
  ASSUME TasksOK, NEW t \in Procs, Claim(t)
  PROVE  /\ Step(t, {"pc", "sess", "new"})
         /\ task[t].pc = "claim" /\ task[t].codex
         /\ task'[t].pc = AfterSpawn[task[t].stage] /\ task'[t].new = {}
         /\ \E s \in task[t].new :
              /\ task'[t].sess = IF task[t].stage \in {"plan", "inject"} THEN task[t].sess ELSE s
              /\ past' = IF s = task[t].sess THEN past ELSE past \cup {"misclaim"}
  <1>1. task[t] \in TaskRecord /\ Shape(t, task[t])
    BY DEF TasksOK
  <1>2. PICK s \in task[t].new :
          /\ task' = [task EXCEPT ![t].pc = AfterSpawn[task[t].stage], ![t].new = {},
                                  ![t].sess = IF task[t].stage \in {"plan", "inject"} THEN @ ELSE s]
          /\ past' = IF s = task[t].sess THEN past ELSE past \cup {"misclaim"}
    BY DEF Claim, Candidates
  <1> DEFINE sess == IF task[t].stage \in {"plan", "inject"} THEN task[t].sess ELSE s
  <1> DEFINE r == [task[t] EXCEPT !.pc = AfterSpawn[task[t].stage], !.new = {}, !.sess = sess]
  <1>3. task[t].pc = "claim" /\ task[t].codex /\ task' = [task EXCEPT ![t] = r]
    BY <1>1, <1>2 DEF Claim, TasksOK, TaskRecord, Shape
  <1>4. s \in Sessions /\ s # None /\ sess \in Sessions /\ sess # None
    BY <1>1, <1>3, Constants DEF TaskRecord, Shape, SpawnPc
  <1>5. sess = IF task[t].stage \in {"plan", "inject"} THEN task[t].sess ELSE s
    OBVIOUS
  <1> HIDE DEF sess
  <1>6. /\ Alike(task[t], r, {"pc", "sess", "new"})
        /\ r.pc = AfterSpawn[task[t].stage] /\ r.sess = sess /\ r.new = {}
    BY <1>1 DEF Alike, TaskRecord
  <1>7. task[t].stage \in {"work", "plan", "inject", "convo"}
    BY <1>1 DEF TaskRecord
  <1>8. r \in TaskRecord
    <2>1. AfterSpawn[task[t].stage] \in Labels
      BY <1>7, AfterSpawnIs DEF Labels
    <2>2. QED
      BY <1>1, <1>4, <2>1 DEF TaskRecord
  <1> HIDE DEF r
  <1>9. Shape(t, r)
    BY <1>1, <1>3, <1>4, <1>6, <1>7, Constants, AfterSpawnIs DEF SpawnPc, Shape, Alike
  <1>10. QED
    BY <1>2, <1>3, <1>5, <1>6, <1>8, <1>9, StepTo DEF Step

\* The steps that end a process's operation.
LEMMA OverStep ==
  ASSUME TasksOK, NEW t \in Procs, task' = [task EXCEPT ![t] = Idle]
  PROVE  /\ TasksOK' /\ task'[t] = Idle
         /\ \A u \in Procs \ {t} : task'[u] = task[u]
  BY IdleTyped, StepTo

\* The steps after which the cards are pushed.
LEMMA CardingStep ==
  ASSUME TasksOK, NEW t \in Procs, NEW ws, NEW r, Carding(t, ws, r),
         task' = [task EXCEPT ![t] = r]
  PROVE  /\ TasksOK' /\ Carding(t, ws, task'[t])
         /\ \A u \in Procs \ {t} : task'[u] = task[u]
  BY StepTo DEF Carding

\* A process whose label is idle does nothing.
LEMMA AtRest ==
  ASSUME TasksOK, NEW t \in Procs, task[t].pc = "idle" \/ task[t].op = "none"
  PROVE  task[t] = Idle
  BY DEF SpawnPc, TasksOK, Shape

\* A button begins.
LEMMA BeginStep ==
  ASSUME TasksOK, NEW t \in Tasks, NEW r, r \in TaskRecord, Shape(t, r), Begin(t, r)
  PROVE  /\ TasksOK' /\ task[t] = Idle /\ task'[t] = r /\ up = "up"
         /\ \A u \in Procs \ {t} : task'[u] = task[u]
  <1>1. t \in Procs /\ task[t].pc = "idle" /\ up = "up" /\ task' = [task EXCEPT ![t] = r]
    BY DEF Begin, Tap, Procs
  <1>2. QED
    BY <1>1, AtRest, StepTo

-----------------------------------------------------------------------------
(* Typing of the data, and the server's life.                              *)

DataOK ==
  /\ windows \subseteq Window
  /\ buffer \in Seq(Tasks \cup {None})
  /\ db \in Store /\ mem \in Memory
  /\ up \in {"down", "booting", "up", "failed"}
  /\ lines \in [Sessions -> 0..MaxLines]
  /\ done \in Fate

\* The parts of the type invariant.
LEMMA TypeParts == TypeInv <=> TasksOK /\ DataOK /\ UpInv
  <1>1. TasksOK => \A t \in Procs : task[t] \in TaskRecord
    BY DEF TasksOK
  <1>2. \A r \in TaskRecord :
          /\ r.op \in Ops /\ r.pc \in Labels
          /\ r.stage \in {"work", "plan", "inject", "convo"}
          /\ r.sess \in Sessions \cup {None} /\ r.new \subseteq Sessions
          /\ r.cur \in 0..MaxLines /\ r.since \in 0..MaxLines
    BY DEF TaskRecord
  <1>3. TasksOK /\ DataOK => TypeOK
    BY <1>1, <1>2 DEF DataOK, TypeOK
  <1>4. QED
    BY <1>3 DEF TypeInv, TypeOK, DataOK, TasksOK

\* The same after a step.
LEMMA TypePartsNext == TypeInv' <=> (TasksOK' /\ DataOK' /\ UpInv')
  <1>1. TypeInv <=> TasksOK /\ DataOK /\ UpInv
    BY TypeParts
  <1>2. QED
    BY <1>1, PTL

\* tmux finds windows there are.
LEMMA NamedIn == \A name : Named(name) \subseteq windows
  BY DEF Named, Hit, Near

\* What the steps do to a window leaves it one, of the same name and session.
LEMMA WindowsTyped ==
  ASSUME NEW w \in Window
  PROVE  /\ [w EXCEPT !.at = "on"] \in Window
         /\ Submitted(w) \in Window
         /\ [w EXCEPT !.draft = {}] \in Window
         /\ \A d \in Procs \cup {None} : [w EXCEPT !.draft = @ \cup {d}] \in Window
         /\ [w EXCEPT !.draft = Orphan(@)] \in Window
  BY DEF Window, Submitted, Orphan

\* A window's name, session and kind never change, whatever else does.
SameWindow(w, x) == x.name = w.name /\ x.sess = w.sess /\ x.codex = w.codex

\* What the steps make of a window has its name, session and engine.
LEMMA WindowsSame ==
  ASSUME NEW w \in Window
  PROVE  /\ SameWindow(w, [w EXCEPT !.at = "on"])
         /\ SameWindow(w, Submitted(w))
         /\ SameWindow(w, [w EXCEPT !.draft = {}])
         /\ \A d : SameWindow(w, [w EXCEPT !.draft = @ \cup {d}])
         /\ SameWindow(w, [w EXCEPT !.draft = Orphan(@)])
  BY DEF Window, Submitted, SameWindow

\* What the steps do to the rows.
LEMMA StoreTyped ==
  ASSUME db \in Store
  PROVE  /\ \A k \in 0..MaxLines : LET d == [db EXCEPT !.marker = k] IN
              /\ d \in Store /\ d.marker = k
              /\ d.convo = db.convo /\ d.engine = db.engine /\ d.pick = db.pick /\ d.ws = db.ws
         /\ \A e \in Engines : LET d == [db EXCEPT !.pick = e] IN
              /\ d \in Store /\ d.pick = e
              /\ d.convo = db.convo /\ d.engine = db.engine /\ d.marker = db.marker /\ d.ws = db.ws
         /\ \A ws \in [Names -> Row \cup {None}] : LET d == [db EXCEPT !.ws = ws] IN
              /\ d \in Store /\ d.ws = ws
              /\ d.convo = db.convo /\ d.engine = db.engine /\ d.marker = db.marker /\ d.pick = db.pick
  BY DEF Store

\* What the steps do to the manager's workstreams.
LEMMA MemoryTyped ==
  ASSUME mem \in Memory
  PROVE  /\ \A ws \in [Names -> Row \cup {None}] : LET m == [mem EXCEPT !.ws = ws] IN
              m \in Memory /\ m.ws = ws /\ m.convo = mem.convo
         /\ \A s \in Sessions \cup {None} : LET m == [mem EXCEPT !.convo = s] IN
              m \in Memory /\ m.ws = mem.ws /\ m.convo = s
  BY DEF Memory

\* What set_convo_session writes.
LEMMA RecordedTyped ==
  ASSUME TasksOK, db \in Store, NEW t \in Procs, NEW k \in 0..MaxLines
  PROVE  LET d == Recorded(t, k) IN
           /\ d \in Store
           /\ d.convo = task[t].sess /\ d.engine = EngineOf(task[t].codex) /\ d.marker = k
           /\ d.pick = db.pick /\ d.ws = db.ws
  <1>1. task[t].sess \in Sessions \cup {None}
    BY DEF TasksOK, TaskRecord
  <1>2. EngineOf(task[t].codex) \in Engines
    BY DEF EngineOf, Engines
  <1> DEFINE e == EngineOf(task[t].codex)
             d == Recorded(t, k)
  <1>3. d = [db EXCEPT !.convo = task[t].sess, !.engine = e, !.marker = k] /\ e \in Engines
    BY <1>2 DEF Recorded
  <1> HIDE DEF e, d
  <1>4. d \in Store /\ d.convo = task[t].sess /\ d.engine = e /\ d.marker = k
        /\ d.pick = db.pick /\ d.ws = db.ws
    BY <1>1, <1>3 DEF Store
  <1>5. QED
    BY <1>4 DEF d, e

\* A workstream's status.
LEMMA StatusTyped ==
  ASSUME NEW ws \in [Names -> Row \cup {None}], NEW n \in Names,
         NEW status \in {"running", "gone"}
  PROVE  /\ WithStatus(ws, n, status) \in [Names -> Row \cup {None}]
         /\ ws[n] # None => WithStatus(ws, n, status)[n] = [sess |-> ws[n].sess, status |-> status]
         /\ ws[n] = None => WithStatus(ws, n, status) = ws
         /\ \A m \in Names \ {n} : WithStatus(ws, n, status)[m] = ws[m]
         /\ Taken(WithStatus(ws, n, status)) = Taken(ws)
  <1>1. CASE ws[n] = None
    BY <1>1 DEF WithStatus
  <1>2. CASE ws[n] # None
    <2>1. ws[n] \in Row
      BY <1>2
    <2> DEFINE row == [ws[n] EXCEPT !.status = status]
    <2>2. row = [sess |-> ws[n].sess, status |-> status] /\ row \in Row
      BY <2>1 DEF Row
    <2>3. WithStatus(ws, n, status) = [ws EXCEPT ![n] = row]
      BY <1>2 DEF WithStatus
    <2> HIDE DEF row
    <2>4. row # None
      BY <2>2, Constants
    <2>5. QED
      BY <1>2, <2>2, <2>3, <2>4 DEF Taken
  <1>3. QED
    BY <1>1, <1>2

\* Which server a process needs.
LEMMA UpWhen ==
  ASSUME TasksOK, UpInv, up \in {"down", "booting", "up", "failed"}, NEW t \in Procs
  PROVE  /\ task[t].op \notin {"none", "boot"} => up = "up"
         /\ task[t].op = "boot" => t = Status /\ up = "booting"
         /\ t \in Tasks /\ task[t] # Idle => up = "up"
         /\ up = "up" => task[t].op # "boot"
  <1>1. Shape(t, task[t])
    BY DEF TasksOK
  <1>2. CASE t \in Tasks
    <2>1. task[t] = Idle \/ up = "up"
      BY <1>2 DEF UpInv
    <2>2. task[t].op # "boot"
      BY <1>1, <1>2, Constants DEF SpawnPc, Shape
    <2>3. QED
      BY <1>2, <2>1, <2>2 DEF Idle
  <1>3. CASE t \notin Tasks
    <2>1. t = Status
      BY <1>3 DEF Procs
    <2>2. QED
      BY <1>3, <2>1 DEF UpInv, Idle
  <1>4. QED
    BY <1>2, <1>3

\* A serving server goes on serving.
LEMMA UpServes ==
  ASSUME up' = "up", task'[Status].op = "status", db'.convo # None, mem'.convo = db'.convo
  PROVE  UpInv'
  BY DEF UpInv

\* A task of the phone's leaves the server as it is.
LEMMA UpTask ==
  ASSUME UpInv, NEW t \in Tasks, up = "up", up' = up, task'[Status] = task[Status],
         mem'.convo = mem.convo, db'.convo = db.convo
  PROVE  UpInv'
  BY DEF UpInv

\* A spawn, or a send, of a task or of the booting server.
LEMMA UpTmux ==
  ASSUME TasksOK, UpInv, up \in {"down", "booting", "up", "failed"}, NEW t \in Procs,
         task[t].op # "none", task'[t].op = task[t].op, task'[t].pc \notin {"look", "open"},
         \A u \in Procs \ {t} : task'[u] = task[u],
         up' = up, db'.convo = db.convo, mem'.convo = mem.convo
  PROVE  UpInv'
  <1>1. CASE up = "up"
    <2>1. task[Status].op = "status" /\ db.convo # None /\ mem.convo = db.convo
      BY <1>1 DEF UpInv
    <2>2. Status \in Procs
      BY DEF Procs
    <2>3. task'[Status].op = "status"
      BY <2>1, <2>2
    <2>4. QED
      BY <1>1, <2>1, <2>3, UpServes
  <1>2. CASE up # "up"
    <2>1. t = Status /\ up = "booting" /\ task[t].op = "boot"
      BY <1>2, UpWhen
    <2>2. \A u \in Tasks : task'[u] = Idle
      BY <2>1, Constants DEF UpInv, Procs
    <2>3. QED
      BY <2>1, <2>2 DEF UpInv
  <1>3. QED
    BY <1>1, <1>2

\* What a process talks to.
LEMMA TargetTyped ==
  ASSUME TasksOK, NEW t \in Procs, task[t].pc \in {"open", "type", "run", "claim"}
  PROVE  Target(t) \in Names \cup {"convo", "plan", "inject"}
  <1>1. task[t] \in TaskRecord /\ Shape(t, task[t])
    BY DEF TasksOK
  <1>2. CASE task[t].stage = "work"
    <2>1. task[t].op \in Ops /\ task[t].name \in Names \cup {None}
      BY <1>1 DEF TaskRecord
    <2>2. task[t].name # None
      BY <1>1, <1>2, <2>1 DEF SpawnPc, Shape, Ops
    <2>3. QED
      BY <1>2, <2>1, <2>2 DEF Target
  <1>3. CASE task[t].stage # "work"
    BY <1>1, <1>3 DEF TaskRecord, Target
  <1>4. QED
    BY <1>2, <1>3

\* The fields of a process that does nothing.
LEMMA IdleIs ==
  /\ Idle.op = "none" /\ Idle.pc = "idle" /\ Idle.stage = "work" /\ Idle.name = None
  /\ Idle.sess = None /\ Idle.new = {} /\ Idle.codex = FALSE /\ Idle.convo = None
  /\ Idle.got = FALSE /\ Idle.text = "none" /\ Idle.old = None
  BY DEF Idle

\* A text is put into the composers of the windows a name hits.
LEMMA DraftTyped ==
  ASSUME windows \subseteq Window, NEW n, NEW d \in Procs \cup {None}
  PROVE  Replace(Named(n), {[w EXCEPT !.draft = @ \cup {d}] : w \in Named(n)}) \subseteq Window
  <1>1. Named(n) \subseteq windows
    BY NamedIn
  <1>2. \A w \in Named(n) : [w EXCEPT !.draft = @ \cup {d}] \in Window
    BY <1>1, WindowsTyped
  <1>3. QED
    BY <1>2 DEF Replace

\* Enter leaves windows, ...
LEMMA PressTyped ==
  ASSUME windows \subseteq Window, NEW t, Press(t)
  PROVE  windows' \subseteq Window /\ buffer' = buffer
  BY WindowsTyped, NamedIn DEF Press, Replace

\* ... and so does kill-window.
LEMMA EnterTyped ==
  ASSUME windows \subseteq Window, NEW t, Enter(t) \/ KillWindow(t)
  PROVE  windows' \subseteq Window /\ buffer' = buffer
  BY PressTyped DEF Enter, KillWindow

\* What is written of the lines' fate.
LEMMA HandedTyped ==
  ASSUME done \in Fate
  PROVE  Nothing \in Fate /\ Forsaken \in Fate /\ \A t : Handed(t) \in Fate /\ Dropped(t) \in Fate
  BY DEF Fate, Nothing, Forsaken, Handed, Dropped, Due

\* Types are kept: tmux and the spawns.
LEMMA TypeTmux ==
  ASSUME TypeInv, NEW t \in Procs, Tmux(t)
  PROVE  TypeInv'
  <1>1. TasksOK /\ DataOK /\ UpInv
    BY TypeParts
  <1>2. task[t] \in TaskRecord /\ Shape(t, task[t])
    BY <1>1 DEF TasksOK
  <1> SUFFICES TasksOK' /\ DataOK' /\ UpInv'
    BY TypePartsNext
  <1>3. CASE OpenWindow(t)
    <2>1. db \in Store
      BY <1>1 DEF DataOK
    <2>2. PICK s \in Sessions : NewWindow(t, s)
                                /\ lines' = IF task[t].sess = None THEN [lines EXCEPT ![s] = 0] ELSE lines
      BY <1>1, <1>3, <2>1, OpenWindowStep
    <2>3. /\ TasksOK' /\ Step(t, {"pc", "sess", "new"}) /\ task[t].pc = "open" /\ task'[t].pc = "type"
          /\ \A u \in Procs \ {t} : task'[u] = task[u] /\ task'[t].op = task[t].op
      BY <1>1, <1>3, <2>1, OpenWindowStep DEF Step, Alike
    <2>4. windows' \subseteq Window
      <3>1. Target(t) \in Names \cup {"convo", "plan", "inject"}
        BY <1>1, <2>3, TargetTyped
      <3>2. task[t].codex \in BOOLEAN
        BY <1>2 DEF TaskRecord
      <3>3. [name |-> Target(t), sess |-> s, codex |-> task[t].codex, at |-> "shell", draft |-> {}] \in Window
        BY <3>1, <3>2 DEF Window
      <3>4. QED
        BY <1>1, <2>2, <3>3 DEF DataOK, NewWindow
    <2>5. lines' \in [Sessions -> 0..MaxLines]
      BY <1>1, <2>2, Constants DEF DataOK
    <2>6. DataOK'
      BY <1>1, <1>3, <2>2, <2>4, <2>5 DEF DataOK, OpenWindow, NewWindow
    <2>7. task[t].op # "none" /\ task'[t].op = task[t].op
      BY <1>2, <2>3 DEF SpawnPc, Shape, Step, Alike
    <2>8. UpInv'
      BY <1>1, <1>3, <2>3, <2>7, UpTmux DEF DataOK, OpenWindow
    <2>9. QED
      BY <2>3, <2>6, <2>8
  <1>4. CASE TypeCommand(t) /\ Aside
    <2>1. /\ TasksOK' /\ task[t].pc = "type" /\ task'[t].op = task[t].op
          /\ task'[t].pc \notin {"look", "open"} /\ \A u \in Procs \ {t} : task'[u] = task[u]
      BY <1>1, <1>4, TypeCommandStep DEF Step, Alike
    <2>2. windows' \subseteq Window /\ buffer' = buffer
      <3>1. PICK d \in Procs \cup {None} : d = t
        OBVIOUS
      <3>2. /\ windows' = Replace(Named(Target(t)), {[w EXCEPT !.draft = @ \cup {d}] : w \in Named(Target(t))})
            /\ buffer' = buffer
        BY <1>4, <3>1 DEF TypeCommand, Typed
      <3>3. QED
        BY <1>1, <3>1, <3>2, DraftTyped DEF DataOK
    <2>3. DataOK'
      BY <1>1, <1>4, <2>2 DEF DataOK, TypeCommand, Aside
    <2>4. UpInv'
      BY <1>1, <1>2, <1>4, <2>1, UpTmux DEF DataOK, Aside, SpawnPc, Shape
    <2>5. QED
      BY <2>1, <2>3, <2>4
  <1>4a. CASE RunCommand(t) /\ Aside
    <2>1. /\ TasksOK' /\ task[t].pc = "run" /\ task'[t].op = task[t].op
          /\ task'[t].pc \notin {"look", "open"} /\ \A u \in Procs \ {t} : task'[u] = task[u]
      <3>1. task[t].stage \in {"work", "plan", "inject", "convo"}
        BY <1>2 DEF TaskRecord
      <3>2. QED
        BY <1>1, <1>4a, <3>1, RunCommandStep, AfterSpawnIs DEF Step, Alike
    <2>2. windows' \subseteq Window /\ buffer' = buffer
      BY <1>1, <1>4a, PressTyped DEF RunCommand, DataOK
    <2>3. DataOK'
      BY <1>1, <1>4a, <2>2 DEF DataOK, Aside
    <2>4. UpInv'
      BY <1>1, <1>2, <1>4a, <2>1, UpTmux DEF DataOK, Aside, SpawnPc, Shape
    <2>5. QED
      BY <2>1, <2>3, <2>4
  <1>5. CASE Claim(t) /\ Aside
    <2>1. /\ TasksOK' /\ task[t].pc = "claim" /\ task'[t].op = task[t].op
          /\ task'[t].pc \notin {"look", "open"} /\ \A u \in Procs \ {t} : task'[u] = task[u]
      <3>1. task[t].stage \in {"work", "plan", "inject", "convo"}
        BY <1>2 DEF TaskRecord
      <3>2. QED
        BY <1>1, <1>5, <3>1, ClaimStep, AfterSpawnIs DEF Step, Alike
    <2>2. DataOK'
      BY <1>1, <1>5 DEF DataOK, Claim, Aside
    <2>3. UpInv'
      BY <1>1, <1>2, <1>5, <2>1, UpTmux DEF SpawnPc, DataOK, Aside, Shape
    <2>4. QED
      BY <2>1, <2>2, <2>3
  <1>6. CASE LoadBuffer(t) /\ Aside
    <2>1. /\ TasksOK' /\ task[t].pc = "load" /\ task'[t].op = task[t].op
          /\ task'[t].pc = "paste" /\ \A u \in Procs \ {t} : task'[u] = task[u]
      BY <1>1, <1>6, LoadBufferStep DEF Step, Alike
    <2>2. t \in Tasks
      BY <1>2, <2>1 DEF SpawnPc, Shape, TaskRecord, Ops
    <2>3. buffer' \in Seq(Tasks \cup {None})
      BY <1>1, <1>6, <2>2 DEF DataOK, LoadBuffer
    <2>4. DataOK'
      BY <1>1, <1>6, <2>3 DEF DataOK, LoadBuffer, Aside
    <2>5. UpInv'
      BY <1>1, <1>2, <1>6, <2>1, UpTmux DEF SpawnPc, DataOK, Aside, Shape
    <2>6. QED
      BY <2>1, <2>4, <2>5
  <1>7. CASE PasteBuffer(t) /\ Aside
    <2>1. /\ TasksOK' /\ task[t].pc = "paste" /\ task'[t].op = task[t].op
          /\ task'[t].pc = "enter" /\ \A u \in Procs \ {t} : task'[u] = task[u]
      BY <1>1, <1>7, PasteBufferStep DEF Step, Alike
    <2>2. windows' \subseteq Window /\ buffer' \in Seq(Tasks \cup {None})
      <3>1. CASE UNCHANGED <<windows, buffer>>
        BY <1>1, <3>1 DEF DataOK
      <3>2. CASE ~UNCHANGED <<windows, buffer>>
        <4>1. /\ buffer # <<>> /\ buffer' = Tail(buffer)
              /\ windows' = Replace(Named(Target(t)),
                                    {[w EXCEPT !.draft = @ \cup {Head(buffer)}] : w \in Named(Target(t))})
          BY <1>7, <3>2 DEF PasteBuffer
        <4>2. Head(buffer) \in Tasks \cup {None} /\ Tail(buffer) \in Seq(Tasks \cup {None})
          BY <1>1, <4>1, HeadTailProperties DEF DataOK
        <4>3. PICK d \in Tasks \cup {None} : d = Head(buffer)
          BY <4>2
        <4>4. windows' \subseteq Window
          <5>1. d \in Procs \cup {None} /\ windows \subseteq Window
            BY <1>1, <4>3 DEF DataOK, Procs
          <5>2. windows' = Replace(Named(Target(t)), {[w EXCEPT !.draft = @ \cup {d}] : w \in Named(Target(t))})
            BY <4>1, <4>3
          <5>3. QED
            BY <5>1, <5>2, DraftTyped
        <4>5. QED
          BY <4>1, <4>2, <4>4
      <3>3. QED
        BY <3>1, <3>2
    <2>3. DataOK'
      BY <1>1, <1>7, <2>2 DEF DataOK, Aside
    <2>4. UpInv'
      BY <1>1, <1>2, <1>7, <2>1, UpTmux DEF SpawnPc, DataOK, Aside, Shape
    <2>5. QED
      BY <2>1, <2>3, <2>4
  <1>8. CASE TypeLine(t) /\ Aside
    <2>1. /\ TasksOK' /\ task[t].pc = "line" /\ task'[t].op = task[t].op
          /\ task'[t].pc = "enter" /\ \A u \in Procs \ {t} : task'[u] = task[u]
      BY <1>1, <1>8, TypeLineStep DEF Step, Alike
    <2>2. windows' \subseteq Window /\ buffer' = buffer
      <3>1. PICK d \in Procs \cup {None} : d = t
        OBVIOUS
      <3>2. /\ windows' = Replace(Named(Target(t)), {[w EXCEPT !.draft = @ \cup {d}] : w \in Named(Target(t))})
            /\ buffer' = buffer
        BY <1>8, <3>1 DEF TypeLine, Typed
      <3>3. QED
        BY <1>1, <3>1, <3>2, DraftTyped DEF DataOK
    <2>3. DataOK'
      BY <1>1, <1>8, <2>2 DEF DataOK, TypeLine, Aside
    <2>4. UpInv'
      BY <1>1, <1>2, <1>8, <2>1, UpTmux DEF DataOK, Aside, SpawnPc, Shape
    <2>5. QED
      BY <2>1, <2>3, <2>4
  <1>9. CASE NoRollout(t)
    <2>1. TasksOK' /\ task'[t] = Idle /\ \A u \in Procs \ {t} : task'[u] = task[u]
      BY <1>1, <1>9, OverStep DEF NoRollout
    <2>2. task[t].op # "none" /\ task[t].op # "status"
      BY <1>2, <1>9 DEF SpawnPc, Shape, NoRollout
    <2>3. DataOK'
      <3>1. done' \in Fate
        BY <1>1, <1>9, HandedTyped DEF NoRollout, DataOK
      <3>2. QED
        BY <1>1, <1>9, <3>1 DEF DataOK, NoRollout
    <2>4. UpInv'
      <3>1. CASE task[t].op = "boot"
        <4>1. t = Status /\ up = "booting" /\ up' = "failed"
          BY <1>1, <1>9, <3>1, UpWhen DEF DataOK, NoRollout
        <4>2. \A u \in Tasks : task'[u] = Idle
          BY <1>1, <2>1, <4>1, Constants DEF UpInv, Procs
        <4>3. task'[Status] = Idle
          BY <2>1, <4>1
        <4>4. QED
          BY <4>1, <4>2, <4>3, IdleIs DEF UpInv
      <3>2. CASE task[t].op # "boot"
        <4>1. up = "up" /\ up' = up /\ t \in Tasks
          BY <1>1, <1>2, <1>9, <2>2, <3>2, UpWhen DEF SpawnPc, DataOK, NoRollout, Shape, TaskRecord, Ops
        <4>2. task'[Status] = task[Status]
          BY <2>1, <4>1, Constants DEF Procs
        <4>3. QED
          BY <1>1, <1>9, <4>1, <4>2, UpTask DEF NoRollout
      <3>3. QED
        BY <3>1, <3>2
    <2>5. QED
      BY <2>1, <2>3, <2>4
  <1>10. QED
    BY <1>3, <1>4, <1>4a, <1>5, <1>6, <1>7, <1>8, <1>9 DEF Tmux

\* A task's step that leaves the rows, the memory and the server alone.
LEMMA TypeAside ==
  ASSUME TypeInv, NEW t \in Tasks, task[t].pc # "idle", TasksOK',
         \A u \in Procs \ {t} : task'[u] = task[u],
         UNCHANGED <<db, mem, up, lines>>, done' \in Fate,
         windows' \subseteq Window, buffer' = buffer
  PROVE  TypeInv'
  <1>1. TasksOK /\ DataOK /\ UpInv
    BY TypeParts
  <1>2. DataOK'
    BY <1>1 DEF DataOK
  <1>3. t \in Procs /\ Status \in Procs \ {t}
    BY Constants DEF Procs
  <1>4. up = "up"
    BY <1>1, <1>3, UpWhen, IdleIs DEF DataOK
  <1>5. UpInv'
    BY <1>1, <1>3, <1>4, UpTask
  <1>6. QED
    BY <1>2, <1>5, TypePartsNext

\* The cards are pushed: any of the records PushCards allows is well formed.
LEMMA PushStep ==
  ASSUME TasksOK, NEW t \in Procs, NEW ws \in [Names -> Row \cup {None}],
         \E r \in PushCards(t, ws) : Become(t, r)
  PROVE  /\ TasksOK' /\ Carding(t, ws, task'[t])
         /\ \A u \in Procs \ {t} : task'[u] = task[u]
  BY PushCardsTyped, CardingStep DEF Become

\* The new workstream is registered.
LEMMA LaunchedStep ==
  ASSUME TypeInv, NEW t \in Tasks, Launched(t)
  PROVE  LET row == [sess |-> task[t].sess, status |-> "running"]
             ws  == [mem.ws EXCEPT ![task[t].name] = row]
         IN /\ task[t].op = "new" /\ task[t].stage = "work" /\ task[t].pc = "enter"
            /\ task[t].name \in Names /\ task[t].sess \in Sessions /\ row \in Row
            /\ task[t].codex => task[t].text = "rename"
            /\ mem' = [mem EXCEPT !.ws = ws]
            /\ db' = [db EXCEPT !.ws = [db.ws EXCEPT ![task[t].name] = row]]
            /\ TasksOK' /\ Carding(t, ws, task'[t])
            /\ \A u \in Procs \ {t} : task'[u] = task[u]
  <1>1. TasksOK /\ DataOK /\ UpInv /\ t \in Procs
    BY TypeParts DEF Procs
  <1>2. task[t] \in TaskRecord /\ Shape(t, task[t])
    BY <1>1 DEF TasksOK
  <1>3. /\ task[t].op = "new" /\ task[t].pc = "enter"
        /\ task[t].codex => task[t].text = "rename"
    BY DEF Launched, Enter
  <1>4. task[t].stage = "work" /\ task[t].name \in Names /\ task[t].sess \in Sessions
    <2>1. task[t].stage = "work" /\ task[t].name # None /\ task[t].sess # None
      BY <1>2, <1>3 DEF SpawnPc, Shape
    <2>2. QED
      BY <1>2, <2>1 DEF TaskRecord
  <1> DEFINE n == task[t].name
             row == [sess |-> task[t].sess, status |-> "running"]
             ws == [mem.ws EXCEPT ![n] = row]
  <1>5. row \in Row
    BY <1>4 DEF Row
  <1>6. /\ mem' = [mem EXCEPT !.ws = ws]
        /\ db' = [db EXCEPT !.ws = [db.ws EXCEPT ![n] = row]]
        /\ \E r \in PushCards(t, ws) : Become(t, r)
    BY <1>1 DEF Launched, DataOK, Memory, Store
  <1> HIDE DEF row
  <1>7. ws \in [Names -> Row \cup {None}]
    BY <1>1, <1>5 DEF DataOK, Memory
  <1> HIDE DEF ws
  <1>8. TasksOK' /\ Carding(t, ws, task'[t]) /\ \A u \in Procs \ {t} : task'[u] = task[u]
    BY <1>1, <1>6, <1>7, PushStep
  <1>9. QED
    BY <1>3, <1>4, <1>5, <1>6, <1>8 DEF ws, row

\* A workstream is forgotten, if its name is still known.
LEMMA EndedStep ==
  ASSUME TypeInv, NEW t \in Tasks, Ended(t)
  PROVE  LET n == task[t].name IN
         /\ task[t].op = "end" /\ n \in Names /\ task[t].stage = "work"
         /\ task[t].pc \in {"kill", "archive"}
         /\ TasksOK'
         /\ \A u \in Procs \ {t} : task'[u] = task[u]
         /\ \/ mem.ws[n] = None /\ task'[t] = Idle /\ UNCHANGED <<db, mem>>
            \/ /\ mem.ws[n] # None
               /\ mem' = [mem EXCEPT !.ws = [mem.ws EXCEPT ![n] = None]]
               /\ db' = [db EXCEPT !.ws = [db.ws EXCEPT ![n] = None]]
               /\ Carding(t, [mem.ws EXCEPT ![n] = None], task'[t])
  <1>1. TasksOK /\ DataOK /\ UpInv /\ t \in Procs
    BY TypeParts DEF Procs
  <1>2. task[t] \in TaskRecord /\ Shape(t, task[t])
    BY <1>1 DEF TasksOK
  <1>3. task[t].op = "end" /\ task[t].pc \in {"kill", "archive"}
    BY DEF Ended, Over, KillWindow
  <1>4. task[t].stage = "work" /\ task[t].name \in Names
    <2>1. task[t].stage = "work" /\ task[t].name # None
      BY <1>2, <1>3 DEF SpawnPc, Shape
    <2>2. QED
      BY <1>2, <2>1 DEF TaskRecord
  <1> DEFINE n == task[t].name
             ws == [mem.ws EXCEPT ![n] = None]
  <1>5. CASE mem.ws[n] = None
    <2>1. task' = [task EXCEPT ![t] = Idle] /\ UNCHANGED <<db, mem>>
      BY <1>5 DEF Ended, Become
    <2>2. QED
      BY <1>1, <1>3, <1>4, <1>5, <2>1, OverStep
  <1>6. CASE mem.ws[n] # None
    <2>1. /\ mem' = [mem EXCEPT !.ws = ws]
          /\ db' = [db EXCEPT !.ws = [db.ws EXCEPT ![n] = None]]
          /\ \E r \in PushCards(t, ws) : Become(t, r)
      BY <1>1, <1>6 DEF Ended, DataOK, Memory, Store
    <2>2. ws \in [Names -> Row \cup {None}]
      BY <1>1 DEF DataOK, Memory
    <2> HIDE DEF ws
    <2>3. TasksOK' /\ Carding(t, ws, task'[t]) /\ \A u \in Procs \ {t} : task'[u] = task[u]
      BY <1>1, <2>1, <2>2, PushStep
    <2>4. QED
      BY <1>3, <1>4, <1>6, <2>1, <2>3 DEF ws
  <1>7. QED
    BY <1>5, <1>6

\* The chat of a workstream could not be archived.
LEMMA ArchiveFailsStep ==
  ASSUME TypeInv, NEW t \in Tasks, ArchiveFails(t)
  PROVE  \E ws \in [Names -> Row \cup {None}] :
         LET n == task[t].name IN
         /\ task[t].op = "end" /\ n \in Names /\ task[t].stage = "work" /\ task[t].pc = "archive"
         /\ TasksOK'
         /\ \A u \in Procs \ {t} : task'[u] = task[u]
         /\ ws = IF SameObject(t) THEN WithStatus(mem.ws, n, "gone") ELSE mem.ws
         /\ mem' = [mem EXCEPT !.ws = ws]
         /\ db' = [db EXCEPT !.ws = WithStatus(db.ws, n, "gone")]
         /\ Carding(t, ws, task'[t])
  <1>1. TasksOK /\ DataOK /\ UpInv /\ t \in Procs
    BY TypeParts DEF Procs
  <1>2. task[t] \in TaskRecord /\ Shape(t, task[t])
    BY <1>1 DEF TasksOK
  <1>3. task[t].pc = "archive"
    BY DEF ArchiveFails
  <1>4. task[t].op = "end" /\ task[t].stage = "work" /\ task[t].name \in Names
    <2>1. task[t].op \in Ops
      BY <1>2 DEF TaskRecord
    <2>2. task[t].op = "end" /\ task[t].stage = "work" /\ task[t].name # None
      BY <1>2, <1>3, <2>1 DEF SpawnPc, Shape, Ops
    <2>3. QED
      BY <1>2, <2>2 DEF TaskRecord
  <1> DEFINE n == task[t].name
             ws == IF SameObject(t) THEN WithStatus(mem.ws, n, "gone") ELSE mem.ws
  <1>5. /\ mem' = [mem EXCEPT !.ws = ws]
        /\ db' = [db EXCEPT !.ws = WithStatus(db.ws, n, "gone")]
        /\ \E r \in PushCards(t, ws) : Become(t, r)
    BY DEF ArchiveFails, RowGone
  <1>6. ws \in [Names -> Row \cup {None}]
    <2>1. mem.ws \in [Names -> Row \cup {None}]
      BY <1>1 DEF DataOK, Memory
    <2>2. WithStatus(mem.ws, n, "gone") \in [Names -> Row \cup {None}]
      BY <1>4, <2>1, StatusTyped
    <2>3. QED
      BY <2>1, <2>2
  <1>7. TasksOK' /\ Carding(t, ws, task'[t]) /\ \A u \in Procs \ {t} : task'[u] = task[u]
    <2> HIDE DEF ws
    <2>1. QED
      BY <1>1, <1>5, <1>6, PushStep
  <1>8. QED
    BY <1>3, <1>4, <1>5, <1>6, <1>7

\* The fresh conversation is recorded.
LEMMA ConvoRecordStep ==
  ASSUME TypeInv, NEW t \in Tasks, ConvoRecord(t)
  PROVE  /\ Clears(t) /\ task[t].pc = "record" /\ task[t].sess \in Sessions
         /\ TasksOK'
         /\ \A u \in Procs \ {t} : task'[u] = task[u]
         /\ Carding(t, mem.ws, task'[t])
         /\ db' = Recorded(t, 0)
         /\ mem' = [mem EXCEPT !.convo = task[t].sess]
  <1>1. TasksOK /\ DataOK /\ UpInv /\ t \in Procs
    BY TypeParts DEF Procs
  <1>2. task[t] \in TaskRecord /\ Shape(t, task[t])
    BY <1>1 DEF TasksOK
  <1>3. Clears(t) /\ task[t].pc = "record" /\ db' = Recorded(t, 0) /\ mem' = [mem EXCEPT !.convo = task[t].sess]
    BY DEF ConvoRecord, Follow, MarkerAfterClear
  <1>4. task[t].sess \in Sessions
    BY <1>2, <1>3 DEF SpawnPc, Shape, TaskRecord
  <1>5. mem.ws \in [Names -> Row \cup {None}]
    BY <1>1 DEF DataOK, Memory
  <1>6. PICK r \in IF task[t].op = "model" THEN PushCards(t, mem.ws) ELSE {Idle} : Become(t, r)
    BY DEF ConvoRecord
  <1>7. Carding(t, mem.ws, r)
    <2>1. CASE task[t].op = "model"
      BY <1>1, <1>5, <1>6, <2>1, PushCardsTyped
    <2>2. CASE task[t].op # "model"
      <3>1. r = Idle /\ t # Status
        BY <1>6, <2>2, Constants
      <3>2. QED
        BY <1>1, <3>1, IdleTyped, IdleIs DEF Carding
    <2>3. QED
      BY <2>1, <2>2
  <1>8. TasksOK' /\ Carding(t, mem.ws, task'[t]) /\ \A u \in Procs \ {t} : task'[u] = task[u]
    BY <1>1, <1>6, <1>7, CardingStep DEF Become
  <1>9. QED
    BY <1>3, <1>4, <1>8

\* alive() has answered.
LEMMA CardStep ==
  ASSUME TypeInv, NEW t \in Procs, Card(t)
  PROVE  \E ws \in [Names -> Row \cup {None}], status \in {"running", "gone"} :
         LET n == task[t].name IN
         /\ task[t].op \in {"status", "cards"} /\ task[t].pc = "card"
         /\ n \in Names /\ task[t].old \in Row
         /\ TasksOK'
         /\ \A u \in Procs \ {t} : task'[u] = task[u]
         /\ ws = IF SameObject(t) THEN WithStatus(mem.ws, n, status) ELSE mem.ws
         /\ mem' = [mem EXCEPT !.ws = ws]
         /\ db' = IF status = (IF SameObject(t) THEN mem.ws[n].status ELSE task[t].old.status)
                  THEN db ELSE [db EXCEPT !.ws = WithStatus(db.ws, n, status)]
         /\ Carding(t, ws, task'[t])
  <1>1. TasksOK /\ DataOK /\ UpInv
    BY TypeParts
  <1>2. task[t] \in TaskRecord /\ Shape(t, task[t])
    BY <1>1 DEF TasksOK
  <1>3. task[t].pc = "card"
    BY DEF Card
  <1>4. task[t].op \in {"status", "cards"} /\ task[t].name \in Names /\ task[t].old \in Row
    <2>1. task[t].op \in Ops
      BY <1>2 DEF TaskRecord
    <2>2. task[t].op \in {"status", "cards"} /\ task[t].name # None /\ task[t].old # None
      BY <1>2, <1>3, <2>1 DEF SpawnPc, Shape, Ops
    <2>3. QED
      BY <1>2, <2>2 DEF TaskRecord
  <1> DEFINE n == task[t].name
             status == IF Alive(n) THEN "running" ELSE "gone"
             ws == IF SameObject(t) THEN WithStatus(mem.ws, n, status) ELSE mem.ws
  <1>5. /\ mem' = [mem EXCEPT !.ws = ws]
        /\ db' = IF status = (IF SameObject(t) THEN mem.ws[n].status ELSE task[t].old.status)
                 THEN db ELSE [db EXCEPT !.ws = WithStatus(db.ws, n, status)]
        /\ \E r \in NextCard(t, ws) : Become(t, r)
    BY DEF Card
  <1>6. status \in {"running", "gone"}
    OBVIOUS
  <1> HIDE DEF status
  <1>7. ws \in [Names -> Row \cup {None}]
    <2>1. mem.ws \in [Names -> Row \cup {None}]
      BY <1>1 DEF DataOK, Memory
    <2>2. WithStatus(mem.ws, n, status) \in [Names -> Row \cup {None}]
      BY <1>4, <1>6, <2>1, StatusTyped
    <2>3. QED
      BY <2>1, <2>2
  <1>8. TasksOK' /\ Carding(t, ws, task'[t]) /\ \A u \in Procs \ {t} : task'[u] = task[u]
    <2> HIDE DEF ws
    <2>1. PICK r \in NextCard(t, ws) : Become(t, r)
      BY <1>5
    <2>2. Carding(t, ws, r)
      BY <1>2, <1>7, <2>1, NextCardTyped
    <2>3. QED
      BY <1>1, <2>1, <2>2, CardingStep DEF Become
  <1>9. QED
    BY <1>3, <1>4, <1>5, <1>6, <1>7, <1>8

\* Types are kept: the cards.
LEMMA TypeCard ==
  ASSUME TypeInv, NEW t \in Procs, Card(t)
  PROVE  TypeInv'
  <1>1. TasksOK /\ DataOK /\ UpInv
    BY TypeParts
  <1>2. PICK ws \in [Names -> Row \cup {None}], status \in {"running", "gone"} :
         /\ task[t].op \in {"status", "cards"}
         /\ task[t].name \in Names
         /\ TasksOK'
         /\ \A u \in Procs \ {t} : task'[u] = task[u]
         /\ mem' = [mem EXCEPT !.ws = ws]
         /\ db' = db \/ db' = [db EXCEPT !.ws = WithStatus(db.ws, task[t].name, status)]
         /\ Carding(t, ws, task'[t])
    <2>1. PICK ws \in [Names -> Row \cup {None}], status \in {"running", "gone"} :
         LET n == task[t].name IN
         /\ task[t].op \in {"status", "cards"} /\ task[t].pc = "card"
         /\ n \in Names /\ task[t].old \in Row
         /\ TasksOK'
         /\ \A u \in Procs \ {t} : task'[u] = task[u]
         /\ ws = IF SameObject(t) THEN WithStatus(mem.ws, n, status) ELSE mem.ws
         /\ mem' = [mem EXCEPT !.ws = ws]
         /\ db' = IF status = (IF SameObject(t) THEN mem.ws[n].status ELSE task[t].old.status)
                  THEN db ELSE [db EXCEPT !.ws = WithStatus(db.ws, n, status)]
         /\ Carding(t, ws, task'[t])
      BY CardStep
    <2>2. QED
      BY <2>1
  <1>3. mem' \in Memory /\ mem'.convo = mem.convo
    BY <1>1, <1>2, MemoryTyped DEF DataOK
  <1>4. db' \in Store /\ db'.convo = db.convo
    <2>1. CASE db' = db
      BY <1>1, <2>1 DEF DataOK
    <2>2. CASE db' # db
      <3> DEFINE v == WithStatus(db.ws, task[t].name, status)
      <3>1. db.ws \in [Names -> Row \cup {None}]
        BY <1>1 DEF DataOK, Store
      <3>2. v \in [Names -> Row \cup {None}] /\ db' = [db EXCEPT !.ws = v]
        BY <1>2, <2>2, <3>1, StatusTyped
      <3> HIDE DEF v
      <3>3. QED
        BY <1>1, <3>2, StoreTyped DEF DataOK
    <2>3. QED
      BY <2>1, <2>2
  <1>5. DataOK'
    BY <1>1, <1>3, <1>4 DEF DataOK, Card
  <1>6. up = "up" /\ up' = up
    BY <1>1, <1>2, UpWhen DEF DataOK, Card
  <1>7. task'[Status].op = "status"
    <2>1. CASE t = Status
      BY <1>2, <2>1 DEF Carding
    <2>2. CASE t # Status
      BY <1>1, <1>2, <1>6, <2>2 DEF UpInv, Procs
    <2>3. QED
      BY <2>1, <2>2
  <1>8. UpInv'
    BY <1>1, <1>3, <1>4, <1>6, <1>7, UpServes DEF UpInv
  <1>9. QED
    BY <1>2, <1>5, <1>8, TypePartsNext

\* A task's step that rewrites the workstreams, and pushes the cards.
LEMMA TypePush ==
  ASSUME TypeInv, NEW t \in Tasks, task[t].pc # "idle", TasksOK',
         \A u \in Procs \ {t} : task'[u] = task[u],
         NEW v \in [Names -> Row \cup {None}], mem' = [mem EXCEPT !.ws = v],
         NEW d \in [Names -> Row \cup {None}], db' = [db EXCEPT !.ws = d],
         UNCHANGED <<up, lines>>, done' \in Fate,
         windows' \subseteq Window, buffer' = buffer
  PROVE  TypeInv'
  <1>1. TasksOK /\ DataOK /\ UpInv
    BY TypeParts
  <1>2. mem' \in Memory /\ mem'.convo = mem.convo /\ db' \in Store /\ db'.convo = db.convo
    BY <1>1, MemoryTyped, StoreTyped DEF DataOK
  <1>3. DataOK'
    BY <1>1, <1>2 DEF DataOK
  <1>4. t \in Procs /\ Status \in Procs \ {t}
    BY Constants DEF Procs
  <1>5. up = "up"
    BY <1>1, <1>4, UpWhen, IdleIs DEF DataOK
  <1>6. UpInv'
    BY <1>1, <1>2, <1>4, <1>5, UpTask
  <1>7. QED
    BY <1>3, <1>6, TypePartsNext

\* Types are kept: the phone's tasks go on.
LEMMA TypeResume ==
  ASSUME TypeInv, NEW t \in Tasks, Resume(t)
  PROVE  TypeInv'
  <1>1. TasksOK /\ DataOK /\ UpInv /\ t \in Procs
    BY TypeParts DEF Procs
  <1>2. /\ windows \subseteq Window /\ done \in Fate
        /\ mem.ws \in [Names -> Row \cup {None}] /\ db.ws \in [Names -> Row \cup {None}]
    BY <1>1 DEF DataOK, Memory, Store
  <1>3. CASE Look(t)
    BY <1>1, <1>2, <1>3, LookStep, TypeAside DEF Look, Step
  <1>4. CASE Respawned(t)
    BY <1>1, <1>2, <1>4, RespawnedStep, EnterTyped, TypeAside DEF Respawned, Step
  <1>5. CASE Retyped(t)
    BY <1>1, <1>2, <1>5, RetypedStep, EnterTyped, TypeAside DEF Retyped, Aside, Step
  <1>6. CASE Answered(t)
    BY <1>1, <1>2, <1>6, AnsweredStep, TypeAside DEF Answered, Aside, Step
  <1>7. CASE TimedOut(t)
    BY <1>1, <1>2, <1>7, TimedOutStep, TypeAside DEF TimedOut, Aside, Step
  <1>8. CASE Ready(t)
    BY <1>1, <1>2, <1>8, ReadyStep, TypeAside DEF Ready, Aside, Step
  <1>9. CASE Directed(t)
    BY <1>1, <1>2, <1>9, DirectedStep, EnterTyped, TypeAside DEF Directed, Aside, Step
  <1>10. CASE Rename(t)
    BY <1>1, <1>2, <1>10, RenameStep, EnterTyped, HandedTyped, TypeAside DEF Rename, Step
  <1>11. CASE Archives(t)
    BY <1>1, <1>2, <1>11, ArchivesStep, EnterTyped, TypeAside DEF Archives, Aside, Step
  <1>12. CASE \E n \in Names : Planned(t, n)
    <2>1. PICK n \in Names : Planned(t, n)
      BY <1>12
    <2>2. TasksOK' /\ \A u \in Procs \ {t} : task'[u] = task[u]
      BY <1>1, <2>1, PlannedStep DEF Step
    <2>3. task[t].pc = "kill" /\ KillWindow(t) /\ Aside
      BY <2>1 DEF Planned, KillWindow
    <2>4. windows' \subseteq Window /\ buffer' = buffer
      BY <1>1, <2>3, EnterTyped DEF DataOK
    <2>5. QED
      BY <1>1, <1>2, <2>2, <2>3, <2>4, TypeAside DEF Aside, DataOK
  <1>13. CASE GiveUp(t)
    <2>1. TasksOK' /\ \A u \in Procs \ {t} : task'[u] = task[u]
      BY <1>1, <1>13, OverStep DEF GiveUp, Become
    <2>2. task[t].pc = "kill" /\ done' \in Fate
      BY <1>2, <1>13, HandedTyped DEF GiveUp, KillWindow
    <2>3. QED
      BY <1>2, <1>13, <2>1, <2>2, EnterTyped, TypeAside DEF GiveUp
  <1>14. CASE InputSent(t)
    <2>1. TasksOK' /\ \A u \in Procs \ {t} : task'[u] = task[u]
      BY <1>1, <1>14, OverStep DEF InputSent, Become
    <2>2. task[t].pc = "enter"
      BY <1>14 DEF InputSent, Enter
    <2>3. QED
      BY <1>2, <1>14, <2>1, <2>2, EnterTyped, TypeAside DEF InputSent, Aside
  <1>15. CASE BlankEntered(t)
    <2>1. TasksOK' /\ \A u \in Procs \ {t} : task'[u] = task[u]
      BY <1>1, <1>2, <1>15, PushStep DEF BlankEntered
    <2>2. task[t].pc = "enter"
      BY <1>15 DEF BlankEntered, Enter
    <2>3. QED
      BY <1>2, <1>15, <2>1, <2>2, EnterTyped, TypeAside DEF BlankEntered, Aside
  <1>16. CASE Injected(t)
    <2>1. TasksOK' /\ \A u \in Procs \ {t} : task'[u] = task[u]
      BY <1>1, <1>16, OverStep DEF Injected, Become
    <2>2. task[t].pc = "enter" /\ done' \in Fate /\ windows' \subseteq Window /\ buffer' = buffer
      BY <1>2, <1>16, HandedTyped, EnterTyped DEF Injected, Enter
    <2>3. task[t].cur \in 0..MaxLines
      BY <1>1 DEF TasksOK, TaskRecord
    <2>4. db' \in Store /\ db'.convo = db.convo
      BY <1>1, <1>16, <2>3, StoreTyped DEF DataOK, Injected, MarkerAfterSend
    <2>5. DataOK'
      BY <1>1, <1>16, <2>2, <2>4 DEF DataOK, Injected
    <2>6. up = "up" /\ task'[Status] = task[Status]
      BY <1>1, <2>1, <2>2, UpWhen, IdleIs, Constants DEF DataOK, Procs
    <2>7. UpInv'
      BY <1>1, <1>16, <2>4, <2>6, UpTask DEF Injected
    <2>8. QED
      BY <2>1, <2>5, <2>7, TypePartsNext
  <1>17. CASE Launched(t)
    <2> DEFINE row == [sess |-> task[t].sess, status |-> "running"]
               v == [mem.ws EXCEPT ![task[t].name] = row]
               d == [db.ws EXCEPT ![task[t].name] = row]
    <2>1. /\ task[t].pc = "enter" /\ row \in Row
          /\ mem' = [mem EXCEPT !.ws = v] /\ db' = [db EXCEPT !.ws = d]
          /\ TasksOK' /\ \A u \in Procs \ {t} : task'[u] = task[u]
      BY <1>17, LaunchedStep
    <2>2. v \in [Names -> Row \cup {None}] /\ d \in [Names -> Row \cup {None}]
      BY <1>2, <2>1
    <2>3. done' \in Fate /\ windows' \subseteq Window /\ buffer' = buffer
      BY <1>2, <1>17, HandedTyped, EnterTyped DEF Launched
    <2> HIDE DEF v, d
    <2>4. QED
      BY <1>17, <2>1, <2>2, <2>3, TypePush DEF Launched
  <1>18. CASE Ended(t)
    <2>1. /\ task[t].pc \in {"kill", "archive"} /\ task[t].name \in Names
          /\ TasksOK' /\ \A u \in Procs \ {t} : task'[u] = task[u]
          /\ \/ UNCHANGED <<db, mem>>
             \/ /\ mem' = [mem EXCEPT !.ws = [mem.ws EXCEPT ![task[t].name] = None]]
                /\ db' = [db EXCEPT !.ws = [db.ws EXCEPT ![task[t].name] = None]]
      BY <1>18, EndedStep
    <2>2. windows' \subseteq Window /\ buffer' = buffer
      BY <1>2, <1>18, EnterTyped DEF Ended, Over
    <2>3. CASE UNCHANGED <<db, mem>>
      BY <1>2, <1>18, <2>1, <2>2, <2>3, TypeAside DEF Ended
    <2>4. CASE ~UNCHANGED <<db, mem>>
      <3> DEFINE v == [mem.ws EXCEPT ![task[t].name] = None]
                 d == [db.ws EXCEPT ![task[t].name] = None]
      <3>1. v \in [Names -> Row \cup {None}] /\ d \in [Names -> Row \cup {None}]
        BY <1>2
      <3>2. mem' = [mem EXCEPT !.ws = v] /\ db' = [db EXCEPT !.ws = d]
        BY <2>1, <2>4
      <3> HIDE DEF v, d
      <3>3. QED
        BY <1>2, <1>18, <2>1, <2>2, <3>1, <3>2, TypePush DEF Ended
    <2>5. QED
      BY <2>3, <2>4
  <1>19. CASE ArchiveFails(t)
    <2>1. PICK v \in [Names -> Row \cup {None}] :
           /\ task[t].name \in Names /\ task[t].pc = "archive"
           /\ TasksOK' /\ \A u \in Procs \ {t} : task'[u] = task[u]
           /\ mem' = [mem EXCEPT !.ws = v]
           /\ db' = [db EXCEPT !.ws = WithStatus(db.ws, task[t].name, "gone")]
      BY <1>19, ArchiveFailsStep
    <2> DEFINE d == WithStatus(db.ws, task[t].name, "gone")
    <2>2. d \in [Names -> Row \cup {None}]
      BY <1>2, <2>1, StatusTyped
    <2> HIDE DEF d
    <2>3. db' = [db EXCEPT !.ws = d]
      BY <2>1 DEF d
    <2>4. QED
      BY <1>2, <1>19, <2>1, <2>2, <2>3, TypePush DEF ArchiveFails
  <1>20. CASE ConvoRecord(t)
    <2>1. /\ Clears(t) /\ task[t].sess \in Sessions
          /\ TasksOK' /\ \A u \in Procs \ {t} : task'[u] = task[u]
          /\ db' = Recorded(t, 0) /\ mem' = [mem EXCEPT !.convo = task[t].sess]
      BY <1>20, ConvoRecordStep
    <2>2. db' \in Store /\ db'.convo = task[t].sess
      BY <1>1, <2>1, Constants, RecordedTyped DEF DataOK
    <2>3. mem' \in Memory /\ mem'.convo = task[t].sess
      BY <1>1, <2>1, MemoryTyped DEF DataOK
    <2>4. DataOK'
      BY <1>1, <1>20, <2>2, <2>3, HandedTyped DEF DataOK, ConvoRecord, Follow
    <2>5. up = "up" /\ task'[Status] = task[Status]
      BY <1>1, <2>1, UpWhen, Constants DEF DataOK, Procs, Clears
    <2>6. UpInv'
      BY <1>1, <1>20, <2>1, <2>2, <2>3, <2>5, UpServes, Constants DEF UpInv, ConvoRecord
    <2>7. QED
      BY <2>1, <2>4, <2>6, TypePartsNext
  <1>21. QED
    BY <1>3, <1>4, <1>5, <1>6, <1>7, <1>8, <1>9, <1>10, <1>11, <1>12, <1>13, <1>14, <1>15,
       <1>16, <1>17, <1>18, <1>19, <1>20 DEF Resume

\* A serving manager has a conversation, whose row and whose lines it knows.
LEMMA Serving ==
  ASSUME TypeInv, up = "up"
  PROVE  /\ mem.convo = db.convo /\ mem.convo \in Sessions /\ lines[mem.convo] \in 0..MaxLines
         /\ db.marker \in 0..MaxLines
         /\ mem.ws \in [Names -> Row \cup {None}] /\ db.ws \in [Names -> Row \cup {None}]
  BY TypeParts, Constants DEF UpInv, DataOK, Store, Memory

\* A task that has just begun: its operation, whose window it is about, and its label.
Begun(t, r, op, stage, pc, name) ==
  /\ r \in TaskRecord /\ Shape(t, r)
  /\ r.op = op /\ r.stage = stage /\ r.pc = pc /\ r.name = name
  /\ r.sess = None /\ r.new = {} /\ r.text = "none"

\* A planner or an injector is told of the lines from the marker to the end.
Told(r) == r.convo = mem.convo /\ r.since = db.marker /\ r.cur = lines[mem.convo]

\* What the buttons start with.
LEMMA ButtonTyped ==
  ASSUME TypeInv, up = "up", NEW t \in Tasks
  PROVE  /\ \A codex \in BOOLEAN : LET r == Passthrough("new", "plan", codex)
              IN  Begun(t, r, "new", "plan", "open", None) /\ Told(r)
         /\ \A n \in Names, codex \in BOOLEAN : LET r == [Passthrough("send", "inject", codex) EXCEPT !.name = n]
              IN  Begun(t, r, "send", "inject", "open", n) /\ Told(r)
         /\ \A n \in Taken(mem.ws) : LET r == [Idle EXCEPT !.op = "end", !.pc = "kill", !.name = n, !.old = mem.ws[n]]
              IN  Begun(t, r, "end", "work", "kill", n) /\ r.convo = None /\ r.old = mem.ws[n]
         /\ \A n \in Names, pc \in {"load", "line"} : LET r == [Idle EXCEPT !.op = "input", !.name = n, !.pc = pc]
              IN  Begun(t, r, "input", "work", pc, n) /\ r.convo = None
         /\ \A pc \in {"load", "line"} : LET r == [Idle EXCEPT !.op = "input", !.stage = "convo", !.pc = pc]
              IN  Begun(t, r, "input", "convo", pc, None) /\ r.convo = None
         /\ \A op \in {"clear", "model"} : LET r == Clearing([Idle EXCEPT !.op = op])
              IN  Begun(t, r, op, "convo", "look", None) /\ r.convo = None
         /\ LET r == [Idle EXCEPT !.op = "retype", !.stage = "convo", !.pc = "line"]
              IN  Begun(t, r, "retype", "convo", "line", None) /\ r.convo = None
  <1>1. /\ mem.convo \in Sessions /\ mem.convo # None /\ db.marker \in 0..MaxLines
        /\ lines[mem.convo] \in 0..MaxLines
        /\ \A n \in Taken(mem.ws) : n \in Names /\ n # None /\ mem.ws[n] \in Row /\ mem.ws[n] # None
    BY Serving, Constants DEF Taken
  <1>2. /\ Idle \in TaskRecord
        /\ \A n \in Names : n # None
    BY Constants, IdleTyped
  <1>3. ASSUME NEW codex \in BOOLEAN
        PROVE  LET r == Passthrough("new", "plan", codex)
               IN  Begun(t, r, "new", "plan", "open", None) /\ Told(r)
    <2> DEFINE r == Passthrough("new", "plan", codex)
    <2>1. /\ r.op = "new" /\ r.stage = "plan" /\ r.pc = "open" /\ r.name = None
          /\ r.sess = None /\ r.new = {} /\ r.text = "none"
          /\ Told(r)
      BY DEF Passthrough, Idle, Told
    <2>2. r \in TaskRecord
      BY <1>1, <1>2, Constants DEF Passthrough, TaskRecord, Idle, Ops, Labels
    <2> HIDE DEF r
    <2>3. Shape(t, r)
      BY <1>1, <1>2, <2>1 DEF SpawnPc, Shape, Told
    <2>4. QED
      BY <2>1, <2>2, <2>3 DEF r, Begun
  <1>4. ASSUME NEW n \in Names, NEW codex \in BOOLEAN
        PROVE  LET r == [Passthrough("send", "inject", codex) EXCEPT !.name = n]
               IN  Begun(t, r, "send", "inject", "open", n) /\ Told(r)
    <2> DEFINE r == [Passthrough("send", "inject", codex) EXCEPT !.name = n]
    <2>1. /\ r.op = "send" /\ r.stage = "inject" /\ r.pc = "open" /\ r.name = n
          /\ r.sess = None /\ r.new = {} /\ r.text = "none"
          /\ Told(r)
      BY DEF Passthrough, Idle, Told
    <2>2. r \in TaskRecord
      BY <1>1, <1>2, Constants DEF Passthrough, TaskRecord, Idle, Ops, Labels
    <2> HIDE DEF r
    <2>3. Shape(t, r)
      BY <1>1, <1>2, <2>1 DEF SpawnPc, Shape, Told
    <2>4. QED
      BY <2>1, <2>2, <2>3 DEF r, Begun
  <1>5. ASSUME NEW n \in Taken(mem.ws)
        PROVE  LET r == [Idle EXCEPT !.op = "end", !.pc = "kill", !.name = n, !.old = mem.ws[n]]
               IN  Begun(t, r, "end", "work", "kill", n) /\ r.convo = None /\ r.old = mem.ws[n]
    <2> DEFINE r == [Idle EXCEPT !.op = "end", !.pc = "kill", !.name = n, !.old = mem.ws[n]]
    <2>1. /\ r.op = "end" /\ r.stage = "work" /\ r.pc = "kill" /\ r.name = n
          /\ r.sess = None /\ r.new = {} /\ r.text = "none"
          /\ r.convo = None /\ r.old = mem.ws[n]
      BY DEF Idle
    <2>2. r \in TaskRecord
      BY <1>1, <1>2, Constants DEF TaskRecord, Idle, Ops, Labels
    <2> HIDE DEF r
    <2>3. Shape(t, r)
      BY <1>1, <1>2, <2>1 DEF SpawnPc, Shape
    <2>4. QED
      BY <2>1, <2>2, <2>3 DEF r, Begun
  <1>6. ASSUME NEW n \in Names, NEW pc \in {"load", "line"}
        PROVE  LET r == [Idle EXCEPT !.op = "input", !.name = n, !.pc = pc]
               IN  Begun(t, r, "input", "work", pc, n) /\ r.convo = None
    <2> DEFINE r == [Idle EXCEPT !.op = "input", !.name = n, !.pc = pc]
    <2>1. /\ r.op = "input" /\ r.stage = "work" /\ r.pc = pc /\ r.name = n
          /\ r.sess = None /\ r.new = {} /\ r.text = "none"
          /\ r.convo = None
      BY DEF Idle
    <2>2. r \in TaskRecord
      BY <1>1, <1>2, Constants DEF TaskRecord, Idle, Ops, Labels
    <2> HIDE DEF r
    <2>3. Shape(t, r)
      BY <1>1, <1>2, <2>1 DEF SpawnPc, Shape
    <2>4. QED
      BY <2>1, <2>2, <2>3 DEF r, Begun
  <1>7. ASSUME NEW pc \in {"load", "line"}
        PROVE  LET r == [Idle EXCEPT !.op = "input", !.stage = "convo", !.pc = pc]
               IN  Begun(t, r, "input", "convo", pc, None) /\ r.convo = None
    <2> DEFINE r == [Idle EXCEPT !.op = "input", !.stage = "convo", !.pc = pc]
    <2>1. /\ r.op = "input" /\ r.stage = "convo" /\ r.pc = pc /\ r.name = None
          /\ r.sess = None /\ r.new = {} /\ r.text = "none"
          /\ r.convo = None
      BY DEF Idle
    <2>2. r \in TaskRecord
      BY <1>1, <1>2, Constants DEF TaskRecord, Idle, Ops, Labels
    <2> HIDE DEF r
    <2>3. Shape(t, r)
      BY <1>1, <1>2, <2>1 DEF SpawnPc, Shape
    <2>4. QED
      BY <2>1, <2>2, <2>3 DEF r, Begun
  <1>8. ASSUME NEW op \in {"clear", "model"}
        PROVE  LET r == Clearing([Idle EXCEPT !.op = op])
               IN  Begun(t, r, op, "convo", "look", None) /\ r.convo = None
    <2> DEFINE r == Clearing([Idle EXCEPT !.op = op])
    <2>1. /\ r.op = op /\ r.stage = "convo" /\ r.pc = "look" /\ r.name = None
          /\ r.sess = None /\ r.new = {} /\ r.text = "none"
          /\ r.convo = None
      BY DEF Clearing, Idle
    <2>2. r \in TaskRecord
      BY <1>1, <1>2, Constants DEF Clearing, TaskRecord, Idle, Ops, Labels
    <2> HIDE DEF r
    <2>3. Shape(t, r)
      BY <1>1, <1>2, <2>1 DEF SpawnPc, Shape
    <2>4. QED
      BY <2>1, <2>2, <2>3 DEF r, Begun
  <1>9. LET r == [Idle EXCEPT !.op = "retype", !.stage = "convo", !.pc = "line"]
        IN  Begun(t, r, "retype", "convo", "line", None) /\ r.convo = None
    <2> DEFINE r == [Idle EXCEPT !.op = "retype", !.stage = "convo", !.pc = "line"]
    <2>1. /\ r.op = "retype" /\ r.stage = "convo" /\ r.pc = "line" /\ r.name = None
          /\ r.sess = None /\ r.new = {} /\ r.text = "none"
          /\ r.convo = None
      BY DEF Idle
    <2>2. r \in TaskRecord
      BY <1>1, <1>2, Constants DEF TaskRecord, Idle, Ops, Labels
    <2> HIDE DEF r
    <2>3. Shape(t, r)
      BY <1>1, <1>2, <2>1 DEF SpawnPc, Shape
    <2>4. QED
      BY <2>1, <2>2, <2>3 DEF r, Begun
  <1>10. QED
    BY <1>3, <1>4, <1>5, <1>6, <1>7, <1>8, <1>9

\* What a button does.
LEMMA ButtonStep ==
  ASSUME TypeInv, NEW t \in Tasks, Button(t)
  PROVE  /\ up = "up" /\ task[t] = Idle /\ TasksOK'
         /\ \A u \in Procs \ {t} : task'[u] = task[u]
         /\ UNCHANGED <<windows, buffer, mem, up, lines, done>>
         /\ LET r == task'[t] IN
            \/ /\ Begun(t, r, "new", "plan", "open", None) /\ Told(r)
               /\ db' = [db EXCEPT !.marker = lines[mem.convo]] /\ past' = past
            \/ \E n \in Taken(mem.ws) :
                 /\ Begun(t, r, "send", "inject", "open", n) /\ Told(r)
                 /\ db' = db /\ past' = past
            \/ \E n \in Taken(mem.ws) :
                 /\ Begun(t, r, "end", "work", "kill", n) /\ r.convo = None /\ r.old = mem.ws[n]
                 /\ db' = db /\ past' = past
            \/ \E n \in Taken(mem.ws), pc \in {"load", "line"} :
                 /\ Begun(t, r, "input", "work", pc, n) /\ r.convo = None
                 /\ db' = db /\ past' = past
            \/ \E pc \in {"load", "line"} :
                 /\ Begun(t, r, "input", "convo", pc, None) /\ r.convo = None
                 /\ db' = db /\ past' = past
            \/ \E op \in {"clear", "model"} :
                 /\ Begun(t, r, op, "convo", "look", None) /\ r.convo = None
                 /\ db' = db \/ (op = "model" /\ \E e \in Engines : db' = [db EXCEPT !.pick = e])
                 /\ past' = Resets
            \/ /\ Begun(t, r, "retype", "convo", "line", None) /\ r.convo = None
               /\ \E e \in Engines : e = db.pick /\ db' = [db EXCEPT !.pick = e]
               /\ past' = Resets
  <1>1. TasksOK /\ DataOK /\ UpInv /\ t \in Procs
    BY TypeParts DEF Procs
  <1>2. up = "up" /\ task[t].pc = "idle"
    BY DEF Button, NewWorkstream, SendTo, End, Input, Say, Clear, SetModel, Begin, Tap
  <1>3. task[t] = Idle
    BY <1>1, <1>2, AtRest
  <1>4. db.convo # None
    BY <1>1, <1>2 DEF UpInv
  <1>5. ASSUME NEW r, r \in TaskRecord /\ Shape(t, r), task' = [task EXCEPT ![t] = r]
        PROVE  TasksOK' /\ task'[t] = r /\ \A u \in Procs \ {t} : task'[u] = task[u]
    BY <1>1, <1>5, StepTo
  <1>6. CASE \E codex \in PlanOn : NewWorkstream(t, codex)
    <2>0. PICK codex \in BOOLEAN : NewWorkstream(t, codex)
      BY <1>6, WorkstreamsAssumption
    <2> DEFINE r == Passthrough("new", "plan", codex)
    <2>1. Begun(t, r, "new", "plan", "open", None) /\ Told(r)
      BY <1>2, ButtonTyped
    <2> HIDE DEF r
    <2>2. task' = [task EXCEPT ![t] = r] /\ UNCHANGED <<windows, buffer, past, mem, up, lines, done>>
          /\ db' = [db EXCEPT !.marker = lines[mem.convo]]
      BY <2>0 DEF NewWorkstream, Begin, r
    <2>3. TasksOK' /\ task'[t] = r /\ \A u \in Procs \ {t} : task'[u] = task[u]
      BY <1>5, <2>1, <2>2 DEF Begun
    <2>4. QED
      BY <1>2, <1>3, <2>1, <2>2, <2>3
  <1>7. CASE \E n \in Names, codex \in InjectOn : SendTo(t, n, codex)
    <2>1. PICK n \in Names, codex \in BOOLEAN : SendTo(t, n, codex)
      BY <1>7, WorkstreamsAssumption
    <2> DEFINE r == [Passthrough("send", "inject", codex) EXCEPT !.name = n]
    <2>2. Begun(t, r, "send", "inject", "open", n) /\ Told(r)
      BY <1>2, ButtonTyped
    <2> HIDE DEF r
    <2>3. task' = [task EXCEPT ![t] = r] /\ UNCHANGED <<windows, buffer, past, mem, up, lines, done, db>>
          /\ n \in Taken(mem.ws)
      BY <2>1 DEF SendTo, Begin, r
    <2>4. TasksOK' /\ task'[t] = r /\ \A u \in Procs \ {t} : task'[u] = task[u]
      BY <1>5, <2>2, <2>3 DEF Begun
    <2>5. QED
      BY <1>2, <1>3, <2>2, <2>3, <2>4
  <1>8. CASE \E n \in Names : End(t, n)
    <2>1. PICK n \in Taken(mem.ws) : End(t, n)
      BY <1>8 DEF End
    <2> DEFINE r == [Idle EXCEPT !.op = "end", !.pc = "kill", !.name = n, !.old = mem.ws[n]]
    <2>2. Begun(t, r, "end", "work", "kill", n) /\ r.convo = None /\ r.old = mem.ws[n]
      BY <1>2, ButtonTyped
    <2> HIDE DEF r
    <2>3. task' = [task EXCEPT ![t] = r] /\ UNCHANGED <<windows, buffer, past, mem, up, lines, done, db>>
      BY <2>1 DEF End, Begin, r
    <2>4. TasksOK' /\ task'[t] = r /\ \A u \in Procs \ {t} : task'[u] = task[u]
      BY <1>5, <2>2, <2>3 DEF Begun
    <2>5. QED
      BY <1>2, <1>3, <2>2, <2>3, <2>4
  <1>9. CASE \E n \in Names, slash \in BOOLEAN : Input(t, n, slash)
    <2>1. PICK n \in Taken(mem.ws), slash \in BOOLEAN : Input(t, n, slash)
      BY <1>9 DEF Input
    <2>2. PICK pc \in {"load", "line"} : pc = SendVia(n \in CodexNames, slash)
      BY DEF SendVia
    <2> DEFINE r == [Idle EXCEPT !.op = "input", !.name = n, !.pc = pc]
    <2>3. Begun(t, r, "input", "work", pc, n) /\ r.convo = None
      BY <1>2, ButtonTyped DEF Taken
    <2> HIDE DEF r
    <2>4. task' = [task EXCEPT ![t] = r] /\ UNCHANGED <<windows, buffer, past, mem, up, lines, done, db>>
      BY <2>1, <2>2 DEF Input, Begin, r
    <2>5. TasksOK' /\ task'[t] = r /\ \A u \in Procs \ {t} : task'[u] = task[u]
      BY <1>5, <2>3, <2>4 DEF Begun
    <2>6. QED
      BY <1>2, <1>3, <2>3, <2>4, <2>5
  <1>10. CASE \E slash \in BOOLEAN : Say(t, slash)
    <2>1. PICK slash \in BOOLEAN : Say(t, slash)
      BY <1>10
    <2>2. PICK pc \in {"load", "line"} : pc = SendVia(db.engine = "codex", slash)
      BY DEF SendVia
    <2> DEFINE r == [Idle EXCEPT !.op = "input", !.stage = "convo", !.pc = pc]
    <2>3. Begun(t, r, "input", "convo", pc, None) /\ r.convo = None
      BY <1>2, ButtonTyped
    <2> HIDE DEF r
    <2>4. task' = [task EXCEPT ![t] = r] /\ UNCHANGED <<windows, buffer, past, mem, up, lines, done, db>>
      BY <2>1, <2>2 DEF Say, Begin, r
    <2>5. TasksOK' /\ task'[t] = r /\ \A u \in Procs \ {t} : task'[u] = task[u]
      BY <1>5, <2>3, <2>4 DEF Begun
    <2>6. QED
      BY <1>2, <1>3, <2>3, <2>4, <2>5
  <1>11. CASE Clear(t)
    <2> DEFINE r == Clearing([Idle EXCEPT !.op = "clear"])
    <2>1. Begun(t, r, "clear", "convo", "look", None) /\ r.convo = None
      BY <1>2, ButtonTyped
    <2> HIDE DEF r
    <2>2. task' = [task EXCEPT ![t] = r] /\ UNCHANGED <<windows, buffer, mem, up, lines, done, db>>
          /\ past' = Resets
      BY <1>3, <1>4, <1>11 DEF Clear, FreshConvo, r
    <2>3. TasksOK' /\ task'[t] = r /\ \A u \in Procs \ {t} : task'[u] = task[u]
      BY <1>5, <2>1, <2>2 DEF Begun
    <2>4. QED
      BY <1>2, <1>3, <2>1, <2>2, <2>3
  <1>12. CASE \E engine \in Engines : SetModel(t, engine)
    <2>1. PICK engine \in Engines : SetModel(t, engine)
      BY <1>12
    <2>2. UNCHANGED <<windows, buffer, mem, up, lines, done>>
          /\ past' = Resets /\ db' = [db EXCEPT !.pick = engine]
      BY <2>1 DEF SetModel
    <2>3. CASE engine = "claude" /\ db.pick = "claude"
      <3> DEFINE r == [Idle EXCEPT !.op = "retype", !.stage = "convo", !.pc = "line"]
      <3>1. Begun(t, r, "retype", "convo", "line", None) /\ r.convo = None
        BY <1>2, ButtonTyped
      <3> HIDE DEF r
      <3>2. task' = [task EXCEPT ![t] = r]
        BY <1>3, <2>1, <2>3 DEF SetModel, r
      <3>3. TasksOK' /\ task'[t] = r /\ \A u \in Procs \ {t} : task'[u] = task[u]
        BY <1>5, <3>1, <3>2 DEF Begun
      <3>4. engine = db.pick
        BY <2>3
      <3>5. QED
        BY <1>2, <1>3, <2>2, <3>1, <3>3, <3>4
    <2>4. CASE ~(engine = "claude" /\ db.pick = "claude")
      <3> DEFINE r == Clearing([Idle EXCEPT !.op = "model"])
      <3>1. Begun(t, r, "model", "convo", "look", None) /\ r.convo = None
        BY <1>2, ButtonTyped
      <3> HIDE DEF r
      <3>2. task' = [task EXCEPT ![t] = r]
        BY <1>3, <1>4, <2>1, <2>4 DEF SetModel, FreshConvo, r
      <3>3. TasksOK' /\ task'[t] = r /\ \A u \in Procs \ {t} : task'[u] = task[u]
        BY <1>5, <3>1, <3>2 DEF Begun
      <3>4. QED
        BY <1>2, <1>3, <2>2, <3>1, <3>3
    <2>5. QED
      BY <2>3, <2>4
  <1>13. QED
    BY <1>6, <1>7, <1>8, <1>9, <1>10, <1>11, <1>12 DEF Button

\* Types are kept: the buttons.
LEMMA TypeButton ==
  ASSUME TypeInv, NEW t \in Tasks, Button(t)
  PROVE  TypeInv'
  <1>1. TasksOK /\ DataOK /\ UpInv
    BY TypeParts
  <1>2. /\ up = "up" /\ TasksOK' /\ \A u \in Procs \ {t} : task'[u] = task[u]
        /\ UNCHANGED <<windows, buffer, mem, up, lines, done>>
        /\ \/ db' = db
           \/ db' = [db EXCEPT !.marker = lines[mem.convo]]
           \/ \E e \in Engines : db' = [db EXCEPT !.pick = e]
    BY ButtonStep
  <1>3. lines[mem.convo] \in 0..MaxLines
    BY <1>2, Serving
  <1>4. db' \in Store /\ db'.convo = db.convo
    <2>1. db \in Store
      BY <1>1 DEF DataOK
    <2>2. CASE db' = db
      BY <2>1, <2>2
    <2>3. CASE db' = [db EXCEPT !.marker = lines[mem.convo]]
      <3>1. PICK k \in 0..MaxLines : k = lines[mem.convo]
        BY <1>3
      <3>2. QED
        BY <2>1, <2>3, <3>1, StoreTyped
    <2>4. CASE \E e \in Engines : db' = [db EXCEPT !.pick = e]
      BY <2>1, <2>4, StoreTyped
    <2>5. QED
      BY <1>2, <2>2, <2>3, <2>4
  <1>5. DataOK'
    BY <1>1, <1>2, <1>4 DEF DataOK
  <1>6. task'[Status] = task[Status]
    BY <1>2, Constants DEF Procs
  <1>7. UpInv'
    BY <1>1, <1>2, <1>4, <1>6, UpTask
  <1>8. QED
    BY <1>2, <1>5, <1>7, TypePartsNext

\* The booting server moves only its own process.
LEMMA ServerStep ==
  ASSUME TypeInv, Boot \/ Reuse \/ Respawn \/ CannotResume \/ BootRecord \/ Wake
  PROVE  /\ TasksOK'
         /\ \A u \in Tasks : task'[u] = task[u]
         /\ Boot => up = "down" /\ task'[Status].op = "boot" /\ task'[Status].stage = "convo"
                    /\ task'[Status].sess = None /\ task'[Status].name = None
                    /\ task'[Status].new = {}
                    /\ \/ task'[Status].pc = "look" /\ db.convo # None
                       \/ task'[Status].pc = "open" /\ (task'[Status].codex <=> db.pick = "codex")
         /\ Reuse => up = "booting" /\ task[Status].op = "boot" /\ db.convo # None
         /\ Respawn => /\ task[Status].op = "boot" /\ task[Status].pc = "look" /\ task'[Status].op = "boot"
                       /\ task'[Status].stage = "convo" /\ task'[Status].name = None
                       /\ task'[Status].pc = "open" /\ task'[Status].new = {}
                       /\ task'[Status].codex <=> db.pick = "codex"
                       /\ task'[Status].sess = IF db.engine = "claude" THEN db.convo ELSE None
         /\ CannotResume => up = "booting" /\ task'[Status] = Idle
         /\ BootRecord => up = "booting" /\ task[Status].op = "boot" /\ task[Status].pc = "record"
                          /\ task[Status].sess \in Sessions
         /\ Reuse \/ BootRecord => task'[Status] = [Idle EXCEPT !.op = "status", !.pc = "sleep"]
         /\ Wake => /\ task[Status].op = "status" /\ task[Status].pc = "sleep"
                    /\ Carding(Status, mem.ws, task'[Status])
  <1>1. TasksOK /\ DataOK /\ UpInv /\ Status \in Procs /\ Status \notin Tasks
    BY TypeParts, Constants DEF Procs
  <1>2. task[Status] \in TaskRecord /\ Shape(Status, task[Status])
    BY <1>1 DEF TasksOK
  <1>3. ASSUME NEW r, r \in TaskRecord, Shape(Status, r), task' = [task EXCEPT ![Status] = r]
        PROVE  TasksOK' /\ task'[Status] = r /\ \A u \in Tasks : task'[u] = task[u]
    <2>1. TasksOK' /\ task'[Status] = r /\ \A u \in Procs \ {Status} : task'[u] = task[u]
      BY <1>1, <1>3, StepTo
    <2>2. QED
      BY <1>1, <2>1 DEF Procs
  <1>4. task[Status].op = "boot" => up = "booting"
    BY <1>1, UpWhen DEF DataOK
  <1>5. CASE Boot
    <2> DEFINE q == Booting
    <2>1. /\ q \in TaskRecord /\ q.op = "boot" /\ q.stage = "convo" /\ q.pc = "look" /\ q.sess = None
          /\ q.name = None /\ q.new = {} /\ q.codex = FALSE
      BY Constants DEF Booting, Idle, TaskRecord, Ops, Labels
    <2> HIDE DEF q
    <2>2. CASE db.convo = None
      <3> DEFINE r == SpawnFresh(q)
      <3>1. r \in TaskRecord /\ Alike(q, r, {"stage", "pc", "codex"}) /\ r.stage = "convo" /\ r.pc = "open"
            /\ (r.codex <=> db.pick = "codex")
        BY <2>1, SpawnFreshTyped
      <3> HIDE DEF r
      <3>2. Shape(Status, r)
        BY <2>1, <3>1, Constants DEF SpawnPc, Shape, Alike
      <3>3. up = "down" /\ task' = [task EXCEPT ![Status] = r]
        BY <1>5, <2>2 DEF Boot, r, q
      <3>4. TasksOK' /\ task'[Status] = r /\ \A u \in Tasks : task'[u] = task[u]
        BY <1>3, <3>1, <3>2, <3>3
      <3>5. ~Reuse /\ ~Respawn /\ ~CannotResume /\ ~BootRecord /\ ~Wake
        BY <1>1, <3>3, IdleIs DEF UpInv, Reuse, Respawn, CannotResume, BootRecord, Wake
      <3>6. QED
        BY <2>1, <3>1, <3>3, <3>4, <3>5 DEF Alike
    <2>3. CASE db.convo # None
      <3>1. Shape(Status, q)
        BY <2>1 DEF SpawnPc, Shape
      <3>2. up = "down" /\ task' = [task EXCEPT ![Status] = q]
        BY <1>5, <2>3 DEF Boot, q
      <3>3. TasksOK' /\ task'[Status] = q /\ \A u \in Tasks : task'[u] = task[u]
        BY <1>3, <2>1, <3>1, <3>2
      <3>4. ~Reuse /\ ~Respawn /\ ~CannotResume /\ ~BootRecord /\ ~Wake
        BY <1>1, <3>2, IdleIs DEF UpInv, Reuse, Respawn, CannotResume, BootRecord, Wake
      <3>5. QED
        BY <2>1, <2>3, <3>2, <3>3, <3>4
    <2>4. QED
      BY <2>2, <2>3
  <1>6. CASE Reuse \/ BootRecord
    <2> DEFINE r == [Idle EXCEPT !.op = "status", !.pc = "sleep"]
    <2>1. r \in TaskRecord /\ Shape(Status, r)
      BY IdleTyped
    <2> HIDE DEF r
    <2>2. task' = [task EXCEPT ![Status] = r] /\ task[Status].op = "boot"
      BY <1>6 DEF Reuse, BootRecord, Serve, r
    <2>3. TasksOK' /\ task'[Status] = r /\ \A u \in Tasks : task'[u] = task[u]
      BY <1>3, <2>1, <2>2
    <2>4. Reuse => db.convo # None
      BY <1>1 DEF Reuse, UpInv
    <2>5. BootRecord => task[Status].pc = "record" /\ task[Status].sess \in Sessions
      BY <1>2 DEF SpawnPc, BootRecord, Shape, TaskRecord
    <2>7. ~Boot /\ ~Respawn /\ ~CannotResume /\ ~Wake
      BY <1>4, <1>6, <2>2 DEF Reuse, BootRecord, Serve, Boot, Respawn, CannotResume, Wake
    <2>8. QED
      BY <1>4, <2>2, <2>3, <2>4, <2>5, <2>7 DEF r
  <1>7. CASE Respawn
    <2>1. task[Status].op = "boot" /\ task[Status].pc = "look" /\ ~(Resumable /\ db.pick = "codex")
      BY <1>7 DEF Respawn
    <2> DEFINE q == SpawnFresh(task[Status])
               r == IF Resumable THEN [q EXCEPT !.sess = db.convo] ELSE q
    <2>2. /\ q \in TaskRecord /\ Alike(task[Status], q, {"stage", "pc", "codex"})
          /\ q.stage = "convo" /\ q.pc = "open" /\ (q.codex <=> db.pick = "codex")
      BY <1>2, SpawnFreshTyped
    <2>3. db.convo \in Sessions \cup {None}
      BY <1>1 DEF DataOK, Store
    <2>4. task[Status].sess = None /\ task[Status].new = {} /\ task[Status].name = None
      BY <1>2, <2>1 DEF SpawnPc, Shape
    <2>5. task' = [task EXCEPT ![Status] = r]
      BY <1>7 DEF Respawn
    <2> HIDE DEF q
    <2>6. /\ r \in TaskRecord /\ Alike(q, r, {"sess"})
          /\ r.sess = IF Resumable THEN db.convo ELSE None
      <3>1. CASE Resumable
        BY <2>2, <2>3, <3>1 DEF TaskRecord, Alike
      <3>2. CASE ~Resumable
        BY <2>2, <2>4, <3>2 DEF Alike
      <3>3. QED
        BY <3>1, <3>2
    <2> HIDE DEF r
    <2>7. r.sess # None => ~r.codex
      BY <2>1, <2>2, <2>6 DEF Alike
    <2>8. Shape(Status, r)
      BY <1>2, <2>1, <2>2, <2>4, <2>6, <2>7, Constants DEF SpawnPc, Shape, Alike
    <2>9. TasksOK' /\ task'[Status] = r /\ \A u \in Tasks : task'[u] = task[u]
      BY <1>3, <2>5, <2>6, <2>8
    <2>10. up' = up /\ up = "booting"
      BY <1>4, <1>7, <2>1 DEF Respawn
    <2>11. ~Boot /\ ~Reuse /\ ~CannotResume /\ ~BootRecord /\ ~Wake
      BY <2>1, <2>10 DEF Boot, Reuse, CannotResume, BootRecord, Wake, Serve
    <2>12. QED
      BY <2>1, <2>2, <2>4, <2>6, <2>9, <2>11 DEF Alike, Resumable
  <1>8. CASE CannotResume
    <2>1. task' = [task EXCEPT ![Status] = Idle] /\ task[Status].op = "boot" /\ task[Status].pc = "look"
          /\ up' = "failed"
      BY <1>8 DEF CannotResume
    <2>2. TasksOK' /\ task'[Status] = Idle /\ \A u \in Tasks : task'[u] = task[u]
      BY <1>1, <1>3, <2>1, IdleTyped
    <2>3. ~Boot /\ ~Reuse /\ ~Respawn /\ ~BootRecord /\ ~Wake
      BY <1>4, <2>1 DEF Boot, Reuse, Respawn, BootRecord, Wake, Serve
    <2>4. QED
      BY <1>4, <2>1, <2>2, <2>3
  <1>9. CASE Wake
    <2>1. task[Status].pc = "sleep" /\ \E r \in PushCards(Status, mem.ws) : Become(Status, r)
      BY <1>9 DEF Wake
    <2>2. mem.ws \in [Names -> Row \cup {None}]
      BY <1>1 DEF DataOK, Memory
    <2>3. TasksOK' /\ Carding(Status, mem.ws, task'[Status]) /\ \A u \in Procs \ {Status} : task'[u] = task[u]
      BY <1>1, <2>1, <2>2, PushStep
    <2>4. task[Status].op = "status"
      BY <1>2, <2>1 DEF SpawnPc, Shape, TaskRecord, Ops
    <2>5. ~Boot /\ ~Reuse /\ ~Respawn /\ ~CannotResume /\ ~BootRecord
      BY <1>1, <2>1, <2>4, IdleIs DEF Boot, Reuse, Respawn, CannotResume, BootRecord, UpInv
    <2>6. QED
      BY <1>1, <2>1, <2>3, <2>4, <2>5 DEF Procs
  <1>10. QED
    BY <1>5, <1>6, <1>7, <1>8, <1>9

\* Types are kept: the server and its cards' task.
LEMMA TypeServer ==
  ASSUME TypeInv, Boot \/ Reuse \/ Respawn \/ CannotResume \/ BootRecord \/ Wake
  PROVE  TypeInv'
  <1>1. TasksOK /\ DataOK /\ UpInv /\ Status \in Procs
    BY TypeParts DEF Procs
  <1>2. TasksOK' /\ \A u \in Tasks : task'[u] = task[u]
    BY ServerStep
  <1>3. task[Status].op = "boot" => up = "booting" /\ \A u \in Tasks : task[u] = Idle
    BY <1>1, UpWhen DEF DataOK, UpInv
  <1>4. CASE Boot
    <2>1. /\ up = "down" /\ up' = "booting" /\ task'[Status].op = "boot" /\ task'[Status].sess = None
          /\ task'[Status].pc = "look" => db.convo # None
      BY <1>4, ServerStep DEF Boot
    <2>2. UNCHANGED <<windows, buffer, past, db, mem, lines, done, events>>
      BY <1>4 DEF Boot
    <2>3. DataOK' /\ UpInv'
      BY <1>1, <1>2, <2>1, <2>2 DEF DataOK, UpInv
    <2>4. QED
      BY <1>2, <2>3, TypePartsNext
  <1>5. CASE Reuse
    <2>1. /\ task'[Status] = [Idle EXCEPT !.op = "status", !.pc = "sleep"] /\ db.convo # None
          /\ up' = "up" /\ mem' = Rehydrated(db.convo)
          /\ UNCHANGED <<windows, buffer, past, db, lines, done, events>>
      BY <1>5, ServerStep DEF Reuse, Serve
    <2>2. mem' \in Memory /\ mem'.convo = db.convo
      BY <1>1, <2>1 DEF Rehydrated, Memory, Store, DataOK
    <2>3. task'[Status].op = "status"
      BY <2>1 DEF Idle
    <2>4. DataOK' /\ UpInv'
      BY <1>1, <2>1, <2>2, <2>3, UpServes DEF DataOK
    <2>5. QED
      BY <1>2, <2>4, TypePartsNext
  <1>6. CASE Respawn
    <2>1. /\ task[Status].op = "boot" /\ task'[Status].op = "boot" /\ task'[Status].pc = "open"
          /\ task'[Status].sess = IF db.engine = "claude" THEN db.convo ELSE None
          /\ UNCHANGED <<windows, buffer, past, db, mem, up, lines, done, events>>
      BY <1>6, ServerStep DEF Respawn
    <2>2. DataOK' /\ UpInv'
      BY <1>1, <1>2, <1>3, <2>1 DEF DataOK, UpInv
    <2>3. QED
      BY <1>2, <2>2, TypePartsNext
  <1>7. CASE CannotResume
    <2>1. /\ up' = "failed" /\ task'[Status] = Idle /\ task[Status].op = "boot"
          /\ UNCHANGED <<windows, buffer, past, db, mem, lines, done, events>>
      BY <1>7, ServerStep DEF CannotResume
    <2>2. DataOK' /\ UpInv'
      BY <1>1, <1>2, <1>3, <2>1, IdleIs DEF DataOK, UpInv
    <2>3. QED
      BY <1>2, <2>2, TypePartsNext
  <1>8. CASE BootRecord
    <2> DEFINE s == task[Status].sess
    <2>1. /\ task'[Status] = [Idle EXCEPT !.op = "status", !.pc = "sleep"] /\ s \in Sessions
          /\ up' = "up" /\ mem' = Rehydrated(s)
          /\ UNCHANGED <<windows, buffer, lines, events>>
      BY <1>8, ServerStep DEF BootRecord, Serve
    <2>2. db' \in Store /\ db'.convo = s /\ done' \in Fate
      <3>1. CASE Resumed(Status)
        BY <1>1, <1>8, <3>1 DEF BootRecord, DataOK, Resumed
      <3>2. CASE ~Resumed(Status)
        <4>1. db.marker \in 0..MaxLines /\ db \in Store /\ done \in Fate
          BY <1>1 DEF DataOK, Store
        <4>2. db' = Recorded(Status, db.marker) /\ done' = Nothing
          BY <1>8, <3>2 DEF BootRecord
        <4>3. QED
          BY <1>1, <4>1, <4>2, RecordedTyped, HandedTyped
      <3>3. QED
        BY <3>1, <3>2
    <2>3. mem' \in Memory /\ mem'.convo = s
      BY <1>1, <2>1 DEF Rehydrated, Memory, Store, DataOK
    <2>4. task'[Status].op = "status" /\ s # None
      BY <2>1, Constants DEF Idle
    <2>5. DataOK' /\ UpInv'
      BY <1>1, <2>1, <2>2, <2>3, <2>4, UpServes DEF DataOK
    <2>6. QED
      BY <1>2, <2>5, TypePartsNext
  <1>9. CASE Wake
    <2>1. /\ task[Status].op = "status" /\ Carding(Status, mem.ws, task'[Status])
          /\ UNCHANGED <<windows, buffer, past, db, mem, up, lines, done, events>>
      BY <1>9, ServerStep DEF Wake
    <2>2. up = "up"
      BY <1>1, <2>1, UpWhen DEF DataOK
    <2>3. DataOK' /\ UpInv'
      BY <1>1, <2>1, <2>2, UpServes DEF DataOK, Carding, UpInv
    <2>4. QED
      BY <1>2, <2>3, TypePartsNext
  <1>10. QED
    BY <1>4, <1>5, <1>6, <1>7, <1>8, <1>9

\* A rollout file appears: the spawns that wait for one see it.
Appears(c, s) ==
  task' = [t \in Procs |-> IF c /\ Spawning(t) THEN [task[t] EXCEPT !.new = @ \cup {s}] ELSE task[t]]

\* What that changes of the processes.
LEMMA RolloutStep ==
  ASSUME TasksOK, NEW c \in BOOLEAN, NEW s \in Sessions, Appears(c, s)
  PROVE  /\ TasksOK'
         /\ \A t \in Procs :
              /\ Alike(task[t], task'[t], {"new"})
              /\ task'[t].new = IF c /\ Spawning(t) THEN task[t].new \cup {s} ELSE task[t].new
              /\ ~(c /\ Spawning(t)) => task'[t] = task[t]
  <1>1. ASSUME NEW t \in Procs
        PROVE  /\ task'[t] \in TaskRecord /\ Shape(t, task'[t])
               /\ Alike(task[t], task'[t], {"new"})
               /\ task'[t].new = IF c /\ Spawning(t) THEN task[t].new \cup {s} ELSE task[t].new
               /\ ~(c /\ Spawning(t)) => task'[t] = task[t]
    <2>1. task[t] \in TaskRecord /\ Shape(t, task[t])
      BY DEF TasksOK
    <2>2. CASE c /\ Spawning(t)
      <3> DEFINE r == [task[t] EXCEPT !.new = @ \cup {s}]
      <3>1. task'[t] = r
        BY <2>2 DEF Appears
      <3>2. r \in TaskRecord /\ Alike(task[t], r, {"new"}) /\ r.new = task[t].new \cup {s}
        BY <2>1 DEF TaskRecord, Alike
      <3> HIDE DEF r
      <3>3. Shape(t, r)
        BY <2>1, <2>2, <3>2 DEF SpawnPc, Shape, Alike, Spawning, Idle
      <3>4. QED
        BY <2>2, <3>1, <3>2, <3>3
    <2>3. CASE ~(c /\ Spawning(t))
      <3>1. task'[t] = task[t]
        BY <2>3 DEF Appears
      <3>2. QED
        BY <2>1, <2>3, <3>1 DEF Alike
    <2>4. QED
      BY <2>2, <2>3
  <1>2. task' \in [Procs -> TaskRecord]
    BY <1>1 DEF Appears
  <1>3. QED
    BY <1>1, <1>2 DEF TasksOK

\* An agent comes up.
LEMMA AgentUpStep ==
  ASSUME TasksOK, windows \subseteq Window, NEW w \in windows, AgentUp(w)
  PROVE  /\ TasksOK'
         /\ \A t \in Procs :
              /\ Alike(task[t], task'[t], {"new"})
              /\ task'[t].new = IF w.codex /\ Spawning(t) THEN task[t].new \cup {w.sess} ELSE task[t].new
              /\ ~(w.codex /\ Spawning(t)) => task'[t] = task[t]
  <1>1. w \in Window /\ w.sess \in Sessions /\ w.codex \in BOOLEAN
    BY DEF Window
  <1>2. Appears(w.codex, w.sess)
    BY DEF AgentUp, Appears
  <1>3. QED
    BY <1>1, <1>2, RolloutStep

\* A child comes up, with a session of its own.
LEMMA ChildUpStep ==
  ASSUME TasksOK, NEW w, ChildUp(w)
  PROVE  /\ TasksOK'
         /\ past' = past \cup {"child"} /\ UNCHANGED <<windows, buffer, db, mem, up, done>>
         /\ \E s \in FreshSession :
              /\ s \in Sessions /\ lines' = [lines EXCEPT ![s] = 0]
              /\ \A t \in Procs :
                   /\ Alike(task[t], task'[t], {"new"})
                   /\ task'[t].new = IF Spawning(t) THEN task[t].new \cup {s} ELSE task[t].new
                   /\ ~Spawning(t) => task'[t] = task[t]
  <1>1. PICK s \in FreshSession :
          /\ task' = [t \in Procs |-> IF Spawning(t) THEN [task[t] EXCEPT !.new = @ \cup {s}] ELSE task[t]]
          /\ lines' = [lines EXCEPT ![s] = 0]
    BY DEF ChildUp
  <1>2. s \in Sessions
    BY DEF FreshSession
  <1>3. Appears(TRUE, s)
    BY <1>1 DEF Appears
  <1>4. TasksOK' /\ \A t \in Procs :
          /\ Alike(task[t], task'[t], {"new"})
          /\ task'[t].new = IF Spawning(t) THEN task[t].new \cup {s} ELSE task[t].new
          /\ ~Spawning(t) => task'[t] = task[t]
    BY <1>2, <1>3, RolloutStep
  <1>5. past' = past \cup {"child"} /\ UNCHANGED <<windows, buffer, db, mem, up, done>>
    BY DEF ChildUp
  <1>6. QED
    BY <1>1, <1>2, <1>4, <1>5

\* The server dies.
LEMMA DiesStep ==
  ASSUME TasksOK, DataOK, NEW machine \in BOOLEAN, Dies(machine)
  PROVE  /\ TasksOK' /\ \A t \in Procs : task'[t] = Idle
         /\ up' = "down" /\ mem' = Forgotten /\ lines' = lines
         /\ windows' \subseteq Window /\ buffer' \in Seq(Tasks \cup {None}) /\ mem' \in Memory
         /\ UpInv'
  <1>1. task' = [t \in Procs |-> Idle] /\ up' = "down" /\ mem' = Forgotten /\ lines' = lines
    BY DEF Dies
  <1>2. TasksOK'
    BY <1>1, IdleTyped DEF TasksOK
  <1>3. windows' \subseteq Window
    <2>1. windows' = {} \/ windows' = {[w EXCEPT !.draft = Orphan(@)] : w \in windows}
      BY DEF Dies
    <2>2. \A w \in windows : [w EXCEPT !.draft = Orphan(@)] \in Window
      BY WindowsTyped DEF DataOK
    <2>3. QED
      BY <2>1, <2>2
  <1>4. buffer' \in Seq(Tasks \cup {None})
    <2>1. buffer' = <<>> \/ buffer' = [i \in DOMAIN buffer |-> None]
      BY DEF Dies
    <2>2. buffer \in Seq(Tasks \cup {None})
      BY DEF DataOK
    <2>3. DOMAIN buffer = 1..Len(buffer) /\ Len(buffer) \in Nat
      BY <2>2, LenProperties
    <2>4. <<>> \in Seq(Tasks \cup {None})
      OBVIOUS
    <2>5. CASE buffer' = [i \in DOMAIN buffer |-> None]
      <3>1. buffer' \in [1..Len(buffer) -> Tasks \cup {None}]
        BY <2>3, <2>5
      <3>2. QED
        BY <2>3, <3>1, SeqDef
    <2>6. QED
      BY <2>1, <2>4, <2>5
  <1>5. mem' \in Memory
    BY <1>1 DEF Forgotten, Memory
  <1>6. \A t \in Procs : task'[t] = Idle
    BY <1>1
  <1>7. UpInv'
    BY <1>1, IdleIs DEF UpInv, Procs
  <1>8. QED
    BY <1>1, <1>2, <1>3, <1>4, <1>5, <1>6, <1>7

\* Types are kept: agents, children, windows and crashes.
LEMMA TypeEnvironment ==
  ASSUME TypeInv, Environment
  PROVE  TypeInv'
  <1>1. TasksOK /\ DataOK /\ UpInv /\ Status \in Procs
    BY TypeParts DEF Procs
  <1>2. CASE \E w \in windows : AgentUp(w) /\ Aside
    <2>1. PICK w \in windows : AgentUp(w) /\ Aside
      BY <1>2
    <2>2. TasksOK' /\ \A t \in Procs : /\ Alike(task[t], task'[t], {"new"})
                                       /\ ~(w.codex /\ Spawning(t)) => task'[t] = task[t]
      BY <1>1, <2>1, AgentUpStep DEF DataOK
    <2>3. DataOK'
      BY <1>1, <2>1, WindowsTyped DEF DataOK, AgentUp, Aside, Replace
    <2>4. \A t \in Procs : task[t] = Idle => task'[t] = Idle
      BY <2>2, IdleIs DEF Spawning
    <2>5. UpInv'
      BY <1>1, <2>1, <2>2, <2>4 DEF UpInv, Aside, Alike, Procs
    <2>6. QED
      BY <2>2, <2>3, <2>5, TypePartsNext
  <1>3. CASE \E w \in windows : ChildUp(w)
    <2>1. PICK w \in windows : ChildUp(w)
      BY <1>3
    <2>2. /\ TasksOK' /\ UNCHANGED <<windows, buffer, db, mem, up, done>>
          /\ \A t \in Procs : Alike(task[t], task'[t], {"new"}) /\ (~Spawning(t) => task'[t] = task[t])
          /\ \E s \in Sessions : lines' = [lines EXCEPT ![s] = 0]
      BY <1>1, <2>1, ChildUpStep
    <2>3. DataOK'
      BY <1>1, <2>2, Constants DEF DataOK
    <2>4. \A t \in Procs : task[t] = Idle => task'[t] = Idle
      BY <2>2, IdleIs DEF Spawning
    <2>5. UpInv'
      BY <1>1, <2>2, <2>4 DEF UpInv, Alike, Procs
    <2>6. QED
      BY <2>2, <2>3, <2>5, TypePartsNext
  <1>4. CASE \E w \in windows : WindowCloses(w)
    <2>1. PICK w \in windows : WindowCloses(w)
      BY <1>4
    <2>2. windows' \subseteq windows /\ UNCHANGED <<buffer, task, past, db, mem, up, lines, done>>
      BY <2>1 DEF WindowCloses
    <2>3. TasksOK' /\ DataOK' /\ UpInv'
      BY <1>1, <2>2 DEF TasksOK, DataOK, UpInv
    <2>4. QED
      BY <2>3, TypePartsNext
  <1>5. CASE \E s \in Sessions : Talk(s)
    <2>1. PICK s \in Sessions : Talk(s)
      BY <1>5
    <2>2. /\ UNCHANGED <<windows, buffer, task, past, db, mem, up, done>>
          /\ lines[s] < MaxLines /\ lines' = [lines EXCEPT ![s] = lines[s] + 1]
      BY <2>1 DEF Talk
    <2>3. lines[s] + 1 \in 0..MaxLines
      BY <1>1, <2>2, Constants DEF DataOK
    <2>4. TasksOK' /\ DataOK' /\ UpInv'
      BY <1>1, <2>2, <2>3 DEF TasksOK, DataOK, UpInv
    <2>5. QED
      BY <2>4, TypePartsNext
  <1>6. CASE \E machine \in BOOLEAN : Crash(machine)
    <2>1. PICK machine \in BOOLEAN : Crash(machine)
      BY <1>6
    <2>2. db' = db /\ done' = Forsaken /\ Dies(machine)
      BY <2>1 DEF Crash
    <2>3. DataOK' /\ TasksOK' /\ UpInv'
      BY <1>1, <2>2, DiesStep, HandedTyped DEF DataOK
    <2>4. QED
      BY <2>3, TypePartsNext
  <1>7. CASE \E machine \in BOOLEAN : \E t \in Tasks : CutShort(t, machine)
    <2>1. PICK machine \in BOOLEAN, t \in Tasks : CutShort(t, machine)
      BY <1>7
    <2>2. db' = Recorded(t, db.marker) /\ done' \in {Forsaken, Nothing} /\ Dies(machine)
      BY <2>1 DEF CutShort
    <2>3. db' \in Store /\ t \in Procs
      BY <1>1, <2>2, RecordedTyped DEF DataOK, Store, Procs
    <2>4. DataOK' /\ TasksOK' /\ UpInv'
      BY <1>1, <2>2, <2>3, DiesStep, HandedTyped DEF DataOK
    <2>5. QED
      BY <2>4, TypePartsNext
  <1>8. QED
    BY <1>2, <1>3, <1>4, <1>5, <1>6, <1>7 DEF Environment

\* The first server starts over a store that is well formed.
LEMMA TypeInit == Init => TypeInv
  <1> SUFFICES ASSUME Init PROVE TasksOK /\ DataOK /\ UpInv
    BY TypeParts
  <1>1. PICK convo \in {None, 1}, engine \in Engines, marker \in 0..1, k \in 0..1, restarted \in BOOLEAN :
    /\ marker <= k /\ k <= MaxLines
    /\ LET S == IF convo = None THEN {} ELSE Before
       IN /\ convo = None => k = 0 /\ restarted
          /\ db = [convo |-> convo, engine |-> engine, marker |-> marker, pick |-> engine,
                   ws |-> [n \in Names |-> IF n \in S THEN [sess |-> FirstId[n], status |-> "running"]
                                           ELSE None]]
          /\ lines = [s \in Sessions |-> IF s = 1 THEN k ELSE 0]
          /\ windows = IF restarted THEN {}
                       ELSE {Running("convo", 1, engine = "codex")}
                            \cup {Running(n, FirstId[n], n \in CodexNames) : n \in S}
    /\ done = [told |-> 1..marker, lost |-> {}]
    /\ buffer = <<>> /\ past = {} /\ mem = Forgotten /\ up = "down" /\ events = 0
    /\ task = [t \in Procs |-> Idle]
    BY Zenon DEF Init
  <1>2. /\ done = [told |-> 1..marker, lost |-> {}] /\ buffer = <<>> /\ past = {} /\ mem = Forgotten /\ up = "down"
        /\ task = [t \in Procs |-> Idle]
    BY <1>1
  <1>3. TasksOK
    BY <1>2, IdleTyped DEF TasksOK
  <1>4. marker \in 0..MaxLines /\ k \in 0..MaxLines
    BY <1>1, Constants
  <1>5. db \in Store
    <2> DEFINE S == IF convo = None THEN {} ELSE Before
               v == [n \in Names |-> IF n \in S THEN [sess |-> FirstId[n], status |-> "running"] ELSE None]
    <2>1. v \in [Names -> Row \cup {None}]
      BY FirstIds DEF Row
    <2> HIDE DEF v
    <2>2. db = [convo |-> convo, engine |-> engine, marker |-> marker, pick |-> engine, ws |-> v]
      BY <1>1 DEF v
    <2>3. QED
      BY <1>4, <2>1, <2>2, Constants DEF Store
  <1>6. windows \subseteq Window
    <2>1. \A n \in Names \cup {"convo"}, s \in Sessions, c \in BOOLEAN : Running(n, s, c) \in Window
      BY DEF Running, Window
    <2>2. (engine = "codex") \in BOOLEAN /\ \A n \in Names : (n \in CodexNames) \in BOOLEAN
      OBVIOUS
    <2>3. Running("convo", 1, engine = "codex") \in Window
      BY <2>1, <2>2, Constants
    <2>4. \A n \in Before : Running(n, FirstId[n], n \in CodexNames) \in Window
      BY <2>1, <2>2, FirstIds, Constants
    <2>5. QED
      BY <1>1, <2>3, <2>4
  <1>7. lines \in [Sessions -> 0..MaxLines] /\ done \in Fate
    <2>1. 1..marker \subseteq 1..MaxLines
      BY <1>4, Constants
    <2>2. QED
      BY <1>1, <1>2, <1>4, <2>1, Constants DEF Fate
  <1>8. mem \in Memory
    BY <1>2 DEF Forgotten, Memory
  <1>9. DataOK
    BY <1>2, <1>5, <1>6, <1>7, <1>8 DEF DataOK
  <1>10. UpInv
    BY <1>2, IdleIs DEF UpInv, Procs
  <1>11. QED
    BY <1>3, <1>9, <1>10

\* Every step keeps the types.
LEMMA TypeStep == TypeInv /\ [Next]_vars => TypeInv'
  <1> SUFFICES ASSUME TypeInv, [Next]_vars PROVE TypeInv'
    OBVIOUS
  <1>1. CASE UNCHANGED vars
    BY <1>1 DEF SpawnPc, vars, TypeInv, TypeOK, Shape, UpInv
  <1>2. CASE Next
    BY <1>2, TypeServer, TypeButton, TypeResume, TypeTmux, TypeCard, TypeEnvironment DEF Next
  <1>3. QED
    BY <1>1, <1>2

\* Every variable keeps its shape, whatever crash or interleaving it meets.
THEOREM TypeAlways == Spec => []TypeInv
  <1>1. Init => TypeInv
    BY TypeInit
  <1>2. TypeInv /\ [Next]_vars => TypeInv'
    BY TypeStep
  <1>3. QED
    BY <1>1, <1>2, PTL DEF Spec

\* Type correctness, as the run checks it.
THEOREM TypeCorrect == Spec => []TypeOK
  <1>1. TypeInv => TypeOK
    BY DEF TypeInv
  <1>2. QED
    BY <1>1, TypeAlways, PTL

-----------------------------------------------------------------------------
(* What the invariants below have in common.                               *)

\* The steps in the middle of an operation, which touch neither rows nor memory.
Inner(t) ==
  \/ Look(t) \/ Respawned(t) \/ Retyped(t) \/ Answered(t) \/ TimedOut(t) \/ Ready(t)
  \/ Directed(t) \/ Archives(t)

\* The steps within an operation that write no row: what they leave alone.
LEMMA InnerStep ==
  ASSUME TypeInv, NEW t \in Tasks, Inner(t)
  PROVE  /\ Step(t, {"stage", "pc", "codex", "sess", "got", "text"})
         /\ task[t].op = "new" => task'[t].stage = task[t].stage /\ task'[t].codex = task[t].codex
         /\ UNCHANGED <<db, mem, up, lines, done>> /\ past \subseteq past'
  <1>1. TasksOK
    BY TypeParts
  <1>2. CASE Look(t)
    BY <1>1, <1>2, LookStep DEF Look, Step, Alike, Clears
  <1>3. CASE Respawned(t)
    BY <1>1, <1>3, RespawnedStep DEF Respawned, Step, Alike, Clears
  <1>4. CASE Retyped(t)
    BY <1>1, <1>4, RetypedStep DEF Retyped, Enter, Press, Aside, Step, Alike
  <1>5. CASE Answered(t)
    BY <1>1, <1>5, AnsweredStep DEF Answered, Aside, Step, Alike
  <1>6. CASE TimedOut(t)
    BY <1>1, <1>6, TimedOutStep DEF TimedOut, Aside, Step, Alike
  <1>7. CASE Ready(t)
    BY <1>1, <1>7, ReadyStep DEF Ready, Aside, Step, Alike
  <1>8. CASE Directed(t)
    BY <1>1, <1>8, DirectedStep DEF Directed, Aside, Step, Alike
  <1>9. CASE Archives(t)
    BY <1>1, <1>9, ArchivesStep DEF Archives, Aside, Step, Alike
  <1>10. QED
    BY <1>2, <1>3, <1>4, <1>5, <1>6, <1>7, <1>8, <1>9 DEF Inner

\* A spawn or a send changes where a process is and which session it has.
LEMMA TmuxStep ==
  ASSUME TypeInv, NEW t \in Procs, Tmux(t), ~NoRollout(t)
  PROVE  /\ Step(t, {"pc", "sess", "new"})
         /\ UNCHANGED <<db, mem, up, done>> /\ past \subseteq past'
         /\ task[t].pc \in {"open", "type", "run", "claim", "load", "paste", "line"}
  <1>1. TasksOK /\ db \in Store
    BY TypeParts DEF DataOK
  <1>2. CASE OpenWindow(t)
    BY <1>1, <1>2, OpenWindowStep DEF OpenWindow, NewWindow
  <1>3. CASE TypeCommand(t) /\ Aside
    BY <1>1, <1>3, TypeCommandStep DEF TypeCommand, Typed, Aside, Step, Alike
  <1>4. CASE RunCommand(t) /\ Aside
    BY <1>1, <1>4, RunCommandStep DEF RunCommand, Press, Aside, Step, Alike
  <1>5. CASE Claim(t) /\ Aside
    BY <1>1, <1>5, ClaimStep DEF Aside
  <1>6. CASE LoadBuffer(t) /\ Aside
    BY <1>1, <1>6, LoadBufferStep DEF LoadBuffer, Aside, Step, Alike
  <1>7. CASE PasteBuffer(t) /\ Aside
    BY <1>1, <1>7, PasteBufferStep DEF PasteBuffer, Aside, Step, Alike
  <1>8. CASE TypeLine(t) /\ Aside
    BY <1>1, <1>8, TypeLineStep DEF TypeLine, Typed, Aside, Step, Alike
  <1>9. QED
    BY <1>2, <1>3, <1>4, <1>5, <1>6, <1>7, <1>8 DEF Tmux

\* The steps that end an operation or begin its next stage: what they leave alone.
LEMMA ResumeStep ==
  ASSUME TypeInv, NEW t \in Tasks, Resume(t)
  PROVE  /\ up = "up" /\ up' = "up" /\ lines' = lines
         /\ \A u \in Procs \ {t} : task'[u] = task[u]
         /\ past \subseteq past'
         /\ task[t].pc # "idle" /\ task[t].op \notin {"none", "boot", "status"}
  <1>1. TasksOK /\ DataOK /\ UpInv /\ t \in Procs
    BY TypeParts DEF Procs
  <1>2. task[t].pc # "idle" /\ up' = up /\ past \subseteq past' /\ lines' = lines
        /\ \A u \in Procs \ {t} : task'[u] = task[u]
    <2>1. mem.ws \in [Names -> Row \cup {None}]
      BY <1>1 DEF DataOK, Memory
    <2>2. CASE Inner(t)
      <3>1. task[t].pc # "idle"
        BY <2>2 DEF Inner, Look, Respawned, Retyped, Answered, TimedOut, Ready, Directed,
                   Archives, Enter, KillWindow
      <3>2. QED
        BY <2>2, <3>1, InnerStep DEF Step
    <2>3. CASE ConvoRecord(t)
      BY <2>3, ConvoRecordStep DEF ConvoRecord
    <2>4. CASE BlankEntered(t)
      BY <1>1, <2>1, <2>4, PushStep DEF BlankEntered, Enter, Press, Aside
    <2>5. CASE GiveUp(t)
      BY <1>1, <2>5, OverStep DEF GiveUp, KillWindow, Become
    <2>6. CASE \E n \in Names : Planned(t, n)
      BY <1>1, <2>6, PlannedStep DEF Planned, Aside, Step
    <2>7. CASE Launched(t)
      BY <2>7, LaunchedStep DEF Launched, Enter, Press
    <2>8. CASE Injected(t)
      BY <1>1, <2>8, OverStep DEF Injected, Enter, Press, Become
    <2>9. CASE InputSent(t)
      BY <1>1, <2>9, OverStep DEF InputSent, Enter, Press, Become, Aside
    <2>10. CASE Ended(t)
      BY <2>10, EndedStep DEF Ended, Over
    <2>11. CASE ArchiveFails(t)
      BY <2>11, ArchiveFailsStep DEF ArchiveFails
    <2>12. CASE Rename(t)
      BY <1>1, <2>12, RenameStep DEF Rename, Enter, Press, Step
    <2>13. QED
      BY <2>2, <2>3, <2>4, <2>5, <2>6, <2>7, <2>8, <2>9, <2>10, <2>11, <2>12 DEF Resume, Inner
  <1>3. up = "up" /\ task[t] # Idle
    BY <1>1, <1>2, UpWhen, IdleIs DEF DataOK
  <1>4. task[t].op \notin {"none", "boot", "status"}
    BY <1>1, <1>2, Constants DEF SpawnPc, TasksOK, Shape
  <1>5. QED
    BY <1>2, <1>3, <1>4

\* No accident is forgotten.
LEMMA PastGrows ==
  ASSUME TypeInv, Next
  PROVE  past \subseteq past'
  <1>1. CASE Boot \/ Reuse \/ Respawn \/ CannotResume \/ BootRecord \/ Wake
    BY <1>1 DEF Boot, Reuse, Respawn, CannotResume, BootRecord, Wake
  <1>2. CASE \E t \in Tasks : Button(t)
    <2>1. PICK t \in Tasks : Button(t)
      BY <1>2
    <2>2. past' \in {past, Resets}
      BY <2>1, ButtonStep
    <2>3. QED
      BY <2>2 DEF Resets
  <1>3. CASE \E t \in Tasks : Resume(t)
    BY <1>3, ResumeStep
  <1>4. CASE \E t \in Procs : Tmux(t)
    BY <1>4, TmuxStep DEF NoRollout
  <1>5. CASE \E t \in Procs : Card(t)
    BY <1>5 DEF Card
  <1>6. CASE Environment
    <2>1. CASE \E w \in windows : (AgentUp(w) /\ Aside) \/ ChildUp(w) \/ WindowCloses(w)
      BY <2>1 DEF AgentUp, ChildUp, WindowCloses
    <2>2. CASE \E s \in Sessions : Talk(s)
      BY <2>2 DEF Talk
    <2>3. CASE \E machine \in BOOLEAN : Crash(machine) \/ \E t \in Tasks : CutShort(t, machine)
      BY <2>3 DEF Crash, CutShort
    <2>4. QED
      BY <1>6, <2>1, <2>2, <2>3 DEF Environment
  <1>7. QED
    BY <1>1, <1>2, <1>3, <1>4, <1>5, <1>6 DEF Next

-----------------------------------------------------------------------------
(* The server boots again.                                                 *)

\* A spawn of the conversation is a reset's or the booting server's.
LEMMA ConvoSpawns ==
  ASSUME NEW t, NEW r \in TaskRecord, Shape(t, r),
         r.stage = "convo", r.pc \in {"open", "type", "run", "claim", "record"}
  PROVE  r.op \in {"boot", "clear", "model"}
  BY DEF Shape, TaskRecord, Ops, Idle

\* Process u goes on with its reset or does something else, and spawns what it did.
BootKept(u) ==
  /\ task[u].op = "model" => task'[u].op = "model"
  /\ task'[u].op \in {"clear", "model"} => task[u].op = task'[u].op
  /\ SpawnsChosen(u) => SpawnsChosen(u)'

\* A process does that when it does not move, or when its operation has nothing to
\* do with the conversation.
LEMMA BootStays ==
  ASSUME NEW u \in Procs, TasksOK', db'.pick = db.pick,
         \/ task'[u] = task[u]
         \/ task[u].op # "model" /\ task'[u].op \notin {"boot", "clear", "model"}
         \/ /\ task'[u].op = task[u].op /\ task'[u].codex = task[u].codex
            /\ task'[u].pc \in {"open", "type", "run", "claim", "record"}
                 => task[u].stage = task'[u].stage /\ task[u].pc \in {"open", "type", "run", "claim", "record"}
         \/ task'[u].op = task[u].op /\ (task'[u].codex <=> db.pick = "codex")
  PROVE  BootKept(u)
  <1>1. task'[u] \in TaskRecord /\ Shape(u, task'[u])
    BY DEF TasksOK
  <1>2. CASE task[u].op # "model" /\ task'[u].op \notin {"boot", "clear", "model"}
    <2>1. SpawnsChosen(u)'
      BY <1>1, <1>2, ConvoSpawns DEF SpawnsChosen
    <2>2. QED
      BY <1>2, <2>1 DEF BootKept
  <1>3. QED
    BY <1>2 DEF BootKept, SpawnsChosen

\* A step that leaves the engines as they are.
LEMMA BootFrame ==
  ASSUME BootInv, past \subseteq past', up' # "failed" \/ up' = up,
         db'.pick = db.pick, db'.engine = db.engine, \A u \in Procs : BootKept(u)
  PROVE  BootInv'
  <1>1. Tasks \subseteq Procs
    BY DEF Procs
  <1>2. QED
    BY <1>1 DEF BootInv, BootKept, Clears

\* A button changes the choice, which no other reset sees.
LEMMA BootButton ==
  ASSUME TypeInv, BootInv, NEW t \in Tasks, Button(t)
  PROVE  BootInv'
  <1>1. TasksOK /\ db \in Store /\ Tasks \subseteq Procs /\ Status \notin Tasks
    BY TypeParts, Constants DEF DataOK, Procs
  <1>2. /\ up = "up" /\ up' = up /\ task[t] = Idle /\ TasksOK' /\ past \subseteq past'
        /\ \A u \in Procs \ {t} : task'[u] = task[u]
    BY ButtonStep DEF Resets
  <1>3. task[t].op = "none"
    BY <1>2, IdleIs
  <1>4. CASE ~(task'[t].op \in {"clear", "model"})
    <2>1. db'.pick = db.pick /\ db'.engine = db.engine
      BY <1>1, <1>4, ButtonStep DEF Begun, Store
    <2>2. task'[t].op # "boot"
      BY <1>1, <1>2 DEF TasksOK, Shape
    <2>3. \A u \in Procs : BootKept(u)
      BY <1>1, <1>2, <1>3, <1>4, <2>1, <2>2, BootStays
    <2>4. QED
      BY <1>2, <2>1, <2>3, BootFrame
  <1>5. CASE task'[t].op \in {"clear", "model"}
    <2>1. /\ past' = Resets /\ task'[t].pc = "look" /\ db'.engine = db.engine
          /\ db'.pick = db.pick \/ task'[t].op = "model"
      BY <1>1, <1>5, ButtonStep DEF Begun, Store
    <2>2. SUFFICES ASSUME past' \cap {"cut", "norollout", "resets"} = {}
                   PROVE  /\ up' # "failed"
                          /\ db'.pick = db'.engine \/ \E u \in Tasks : task'[u].op = "model"
                          /\ \A u \in Procs : SpawnsChosen(u)'
                          /\ \A u, v \in Tasks : Clears(u)' /\ Clears(v)' => u = v
      BY DEF BootInv
    <2>3. past \cap {"cut", "norollout", "resets"} = {} /\ \A u \in Tasks : ~Clears(u)
      BY <1>2, <2>1, <2>2 DEF Resets
    <2>4. db'.pick = db'.engine \/ \E u \in Tasks : task'[u].op = "model"
      BY <2>1, <2>3 DEF BootInv, Clears
    <2>5. ASSUME NEW u \in Procs, ~SpawnsChosen(u)'
          PROVE  FALSE
      <3>1. task'[u] \in TaskRecord /\ Shape(u, task'[u])
        BY <1>2 DEF TasksOK
      <3>2. task'[u].op \in {"boot", "clear", "model"} /\ task'[u].pc # "look"
        BY <2>5, <3>1, ConvoSpawns DEF SpawnsChosen
      <3>3. u # t /\ task'[u] = task[u]
        BY <1>2, <2>1, <3>2
      <3>4. u \notin Tasks
        BY <1>1, <2>3, <3>1, <3>2, <3>3 DEF Clears, Shape
      <3>5. u = Status /\ task[u].op = "status"
        BY <1>2, <3>4, TypeParts DEF Procs, UpInv
      <3>6. QED
        BY <3>2, <3>3, <3>5
    <2>6. \A u, v \in Tasks : Clears(u)' /\ Clears(v)' => u = v
      BY <1>1, <1>2, <2>3 DEF Clears
    <2>7. QED
      BY <1>2, <2>4, <2>5, <2>6
  <1>6. QED
    BY <1>4, <1>5

\* The end of a reset: the session recorded is the chosen engine's.
LEMMA BootRecorded ==
  ASSUME TypeInv, BootInv, NEW t \in Procs, NEW k \in 0..MaxLines,
         task[t].stage = "convo", task[t].pc = "record", past \subseteq past',
         TasksOK', db' = Recorded(t, k), up' # "failed",
         \A u \in Procs \ {t} : task'[u] = task[u] \/ task'[u] = Idle,
         task'[t].op \notin {"boot", "clear", "model"}
  PROVE  BootInv'
  <1>1. TasksOK /\ db \in Store /\ Tasks \subseteq Procs
    BY TypeParts DEF DataOK, Procs
  <1>2. db'.pick = db.pick /\ db'.engine = EngineOf(task[t].codex) /\ db.pick \in Engines
    BY <1>1, RecordedTyped DEF Store
  <1>3. SUFFICES ASSUME past' \cap {"cut", "norollout", "resets"} = {}
                 PROVE  /\ up' # "failed"
                        /\ db'.pick = db'.engine
                        /\ \A u \in Procs : SpawnsChosen(u)'
                        /\ \A u, v \in Tasks : Clears(u)' /\ Clears(v)' => u = v
    BY DEF BootInv
  <1>4. /\ \A u \in Procs : SpawnsChosen(u)
        /\ \A u, v \in Tasks : Clears(u) /\ Clears(v) => u = v
    BY <1>3 DEF BootInv
  <1>5. db'.pick = db'.engine
    BY <1>2, <1>4 DEF SpawnsChosen, EngineOf, Engines
  <1>6. ASSUME NEW u \in Procs
        PROVE  SpawnsChosen(u)' /\ (Clears(u)' => Clears(u))
    <2>1. CASE task'[u] = task[u]
      BY <1>2, <1>4, <2>1 DEF SpawnsChosen, Clears
    <2>2. CASE task'[u].op \notin {"boot", "clear", "model"}
      <3>1. task'[u] \in TaskRecord /\ Shape(u, task'[u])
        BY DEF TasksOK
      <3>2. QED
        BY <2>2, <3>1, ConvoSpawns DEF SpawnsChosen, Clears
    <2>3. QED
      BY <2>1, <2>2, IdleIs
  <1>7. QED
    BY <1>1, <1>4, <1>5, <1>6

\* The buttons' tasks go on.
LEMMA BootResume ==
  ASSUME TypeInv, BootInv, NEW t \in Tasks, Resume(t)
  PROVE  BootInv'
  <1>1. TasksOK /\ DataOK /\ UpInv /\ t \in Procs
    BY TypeParts DEF Procs
  <1>2. /\ up' = "up" /\ \A u \in Procs \ {t} : task'[u] = task[u]
        /\ past \subseteq past'
    BY ResumeStep
  <1>3. task[t] \in TaskRecord /\ Shape(t, task[t])
    BY <1>1 DEF TasksOK
  <1>4. CASE ConvoRecord(t)
    <2>1. /\ Clears(t) /\ task[t].pc = "record" /\ TasksOK' /\ db' = Recorded(t, 0)
          /\ Carding(t, mem.ws, task'[t])
      BY <1>4, ConvoRecordStep
    <2>2. task[t].stage = "convo" /\ task'[t].op \notin {"boot", "clear", "model"} /\ 0 \in 0..MaxLines
      BY <1>3, <2>1, Constants DEF Clears, Shape, Carding, Idle
    <2>3. QED
      BY <1>1, <1>2, <2>1, <2>2, BootRecorded
  <1>5. CASE Look(t) \/ Respawned(t)
    <2>1. TasksOK' /\ task'[t].op = task[t].op /\ task'[t].pc \in {"kill", "open"}
          /\ (task'[t].pc = "open" => (task'[t].codex <=> db.pick = "codex"))
      BY <1>1, <1>5, LookStep, RespawnedStep DEF Step, Alike
    <2>2. db' = db
      BY <1>5 DEF Look, Respawned
    <2>3. BootKept(t)
      BY <2>1, <2>2 DEF BootKept, SpawnsChosen
    <2>4. \A u \in Procs : BootKept(u)
      BY <1>2, <2>1, <2>2, <2>3, BootStays
    <2>5. QED
      BY <1>2, <2>2, <2>4, BootFrame
  <1>6. CASE ~ConvoRecord(t) /\ ~Look(t) /\ ~Respawned(t)
    <2>1. TasksOK' /\ task[t].op # "model" /\ task'[t].op \notin {"boot", "clear", "model"}
          /\ db'.pick = db.pick /\ db'.engine = db.engine
      <3>1. mem.ws \in [Names -> Row \cup {None}] /\ db \in Store
        BY <1>1 DEF DataOK, Memory
      <3>2. CASE Retyped(t) \/ Answered(t) \/ Ready(t) \/ Directed(t) \/ Archives(t)
        <4>1. Inner(t)
          BY <3>2 DEF Inner
        <4>2. TasksOK' /\ task'[t].op = task[t].op /\ db' = db
          BY <4>1, InnerStep DEF Step, Alike
        <4>3. task[t].op \notin {"boot", "clear", "model"}
          BY <1>1, <1>3, <3>2, Constants
             DEF Shape, Retyped, Answered, Ready, Directed, Archives
        <4>4. QED
          BY <4>2, <4>3
      <3>3. CASE TimedOut(t)
        <4>1. TasksOK' /\ task'[t].op = task[t].op /\ db' = db
          BY <3>3, InnerStep DEF Step, Alike, Inner
        <4>2. task[t].op \notin {"boot", "clear", "model"}
          BY <1>1, <1>3, <3>3, Constants DEF Shape, TimedOut
        <4>3. QED
          BY <4>1, <4>2
      <3>4. CASE BlankEntered(t)
        <4>1. task[t].op = "retype" /\ db' = db
              /\ \E r \in PushCards(t, mem.ws) : task' = [task EXCEPT ![t] = r]
          BY <3>4 DEF BlankEntered, Aside, Become
        <4>2. TasksOK' /\ Carding(t, mem.ws, task'[t])
          BY <1>1, <3>1, <4>1, PushStep DEF Become
        <4>3. QED
          BY <4>1, <4>2 DEF Carding, Idle
      <3>5. CASE GiveUp(t) \/ InputSent(t)
        <4>1. task' = [task EXCEPT ![t] = Idle] /\ task[t].op \in {"new", "send", "input"} /\ db' = db
          BY <3>5 DEF GiveUp, InputSent, Become, Aside
        <4>2. TasksOK' /\ task'[t].op = "none"
          BY <1>1, <4>1, OverStep, IdleIs
        <4>3. QED
          BY <4>1, <4>2
      <3>6. CASE Injected(t)
        <4>1. task' = [task EXCEPT ![t] = Idle] /\ task[t].op = "send"
              /\ db' = [db EXCEPT !.marker = MarkerAfterSend(t)]
          BY <3>6 DEF Injected, Become
        <4>2. TasksOK' /\ task'[t].op = "none"
          BY <1>1, <4>1, OverStep, IdleIs
        <4>3. db'.pick = db.pick /\ db'.engine = db.engine
          BY <3>1, <4>1 DEF Store
        <4>4. QED
          BY <4>1, <4>2, <4>3
      <3>7. CASE \E n \in Names : Planned(t, n)
        BY <1>1, <3>7, PlannedStep DEF Planned, Aside, Step, Alike
      <3>8. CASE Rename(t)
        BY <1>1, <3>8, RenameStep DEF Rename, Step, Alike
      <3>9. CASE Launched(t)
        BY <3>1, <3>9, LaunchedStep DEF Carding, Store, Idle
      <3>10. CASE Ended(t)
        <4>1. /\ task[t].op = "end" /\ TasksOK'
              /\ task'[t] = Idle \/ task'[t].op \in {"none", "status", "cards"}
              /\ \/ db' = db
                 \/ db' = [db EXCEPT !.ws = [db.ws EXCEPT ![task[t].name] = None]]
          BY <3>10, EndedStep DEF Carding
        <4>2. db'.pick = db.pick /\ db'.engine = db.engine
          BY <3>1, <4>1 DEF Store
        <4>3. QED
          BY <4>1, <4>2, IdleIs
      <3>11. CASE ArchiveFails(t)
        BY <3>1, <3>11, ArchiveFailsStep DEF Carding, Store, Idle
      <3>12. QED
        BY <1>6, <3>2, <3>3, <3>4, <3>5, <3>6, <3>7, <3>8, <3>9, <3>10, <3>11 DEF Resume
    <2>2. \A u \in Procs : BootKept(u)
      BY <1>1, <1>2, <2>1, BootStays
    <2>3. QED
      BY <1>2, <2>1, <2>2, BootFrame
  <1>7. QED
    BY <1>4, <1>5, <1>6

\* The booting server records the session of the engine it chose, or reuses the one
\* there is.
LEMMA BootServer ==
  ASSUME TypeInv, BootInv, Boot \/ Reuse \/ Respawn \/ CannotResume \/ BootRecord \/ Wake
  PROVE  BootInv'
  <1>1. TasksOK /\ DataOK /\ UpInv /\ Status \in Procs /\ Procs = Tasks \cup {Status}
    BY TypeParts DEF Procs
  <1>2. TasksOK' /\ \A u \in Tasks : task'[u] = task[u]
    BY ServerStep
  <1>3. task[Status].op # "model" /\ task'[Status].op # "model" /\ task'[Status].op # "clear"
    BY <1>1, <1>2, Constants DEF TasksOK, Shape
  <1>4. ASSUME db' = db, past' = past, up' # "failed", BootKept(Status)
        PROVE  BootInv'
    <2>1. \A u \in Procs : BootKept(u)
      BY <1>1, <1>2, <1>4, BootStays
    <2>2. QED
      BY <1>4, <2>1, BootFrame
  <1>5. CASE Boot
    <2>1. up' = "booting" /\ db' = db /\ past' = past
      BY <1>5 DEF Boot
    <2>2. \/ task'[Status].pc = "look"
          \/ task'[Status].codex <=> db.pick = "codex"
      BY <1>5, ServerStep
    <2>3. BootKept(Status)
      BY <1>3, <2>1, <2>2 DEF BootKept, SpawnsChosen
    <2>4. QED
      BY <1>4, <2>1, <2>3
  <1>6. CASE Reuse \/ Wake
    <2>1. db' = db /\ past' = past
      BY <1>6 DEF Reuse, Wake
    <2>2. up' # "failed" /\ task'[Status].op \notin {"boot", "clear", "model"}
      <3>1. CASE Reuse
        <4>1. task'[Status] = [Idle EXCEPT !.op = "status", !.pc = "sleep"] /\ up' = "up"
          BY <3>1, ServerStep DEF Reuse, Serve
        <4>2. QED
          BY <4>1 DEF Idle
      <3>2. CASE Wake
        <4>1. task[Status].op = "status" /\ Carding(Status, mem.ws, task'[Status])
          BY <3>2, ServerStep
        <4>2. up = "up" /\ up' = up
          BY <1>1, <3>2, <4>1, UpWhen DEF DataOK, Wake
        <4>3. QED
          BY <4>1, <4>2 DEF Carding, Idle
      <3>3. QED
        BY <1>6, <3>1, <3>2
    <2>3. BootKept(Status)
      BY <1>1, <1>2, <1>3, <2>1, <2>2, BootStays
    <2>4. QED
      BY <1>4, <2>1, <2>2, <2>3
  <1>7. CASE Respawn
    <2>1. db' = db /\ past' = past /\ up' = up /\ up \in {"down", "booting", "up", "failed"}
      BY <1>1, <1>7 DEF Respawn, DataOK
    <2>2. task'[Status].codex <=> db.pick = "codex"
      BY <1>7, ServerStep
    <2>3. task[Status].op = "boot" /\ up = "booting"
      BY <1>1, <1>7, UpWhen DEF Respawn, DataOK
    <2>4. BootKept(Status)
      BY <1>3, <2>1, <2>2 DEF BootKept, SpawnsChosen
    <2>5. QED
      BY <1>4, <2>1, <2>3, <2>4
  <1>8. CASE CannotResume
    <2>1. past' = past /\ db.engine = "claude" /\ db.pick = "codex" /\ up = "booting"
      BY <1>8, ServerStep DEF CannotResume, Resumable
    <2>2. \A u \in Tasks : task[u].op = "none"
      BY <1>1, <2>1, IdleIs DEF UpInv
    <2>3. past \cap {"cut", "norollout", "resets"} # {}
      BY <2>1, <2>2 DEF BootInv
    <2>4. QED
      BY <2>1, <2>3 DEF BootInv
  <1>9. CASE BootRecord
    <2>1. /\ task[Status].op = "boot" /\ task[Status].pc = "record" /\ up' = "up"
          /\ task'[Status].op = "status" /\ past \subseteq past'
      <3>1. /\ task[Status].op = "boot" /\ task[Status].pc = "record" /\ up' = "up"
            /\ task'[Status] = [Idle EXCEPT !.op = "status", !.pc = "sleep"]
        BY <1>9, ServerStep DEF BootRecord, Serve
      <3>2. past \subseteq past'
        BY <1>9 DEF BootRecord
      <3>3. QED
        BY <3>1, <3>2 DEF Idle
    <2>2. CASE Resumed(Status)
      <3>1. db' = db /\ past' = past
        BY <1>9, <2>2 DEF BootRecord
      <3>2. BootKept(Status)
        BY <1>1, <1>2, <1>3, <2>1, <3>1, BootStays
      <3>3. QED
        BY <1>4, <2>1, <3>1, <3>2
    <2>3. CASE ~Resumed(Status)
      <3>1. db' = Recorded(Status, db.marker) /\ db.marker \in 0..MaxLines
        BY <1>1, <1>9, <2>3 DEF BootRecord, DataOK, Store
      <3>2. task[Status].stage = "convo"
        BY <1>1, <2>1 DEF TasksOK, Shape
      <3>3. QED
        BY <1>1, <1>2, <2>1, <3>1, <3>2, BootRecorded
    <2>4. QED
      BY <2>2, <2>3
  <1>10. QED
    BY <1>5, <1>6, <1>7, <1>8, <1>9

\* A crash while no model is being changed leaves the engine that is chosen; so does
\* one that comes when its session has just been recorded.
LEMMA BootCrash ==
  ASSUME TypeInv, BootInv, NEW machine \in BOOLEAN,
         Crash(machine) \/ \E t \in Tasks : CutShort(t, machine)
  PROVE  BootInv'
  <1>1. TasksOK /\ DataOK /\ Tasks \subseteq Procs
    BY TypeParts DEF Procs
  <1>2. Dies(machine) /\ up' = "down" /\ TasksOK' /\ \A u \in Procs : task'[u] = Idle
    <2>1. Dies(machine)
      BY DEF Crash, CutShort
    <2>2. QED
      BY <1>1, <2>1, DiesStep
  <1>3. CASE Crash(machine)
    <2>1. db' = db /\ past' = past \cup Wreck(Tasks)
      BY <1>3 DEF Crash
    <2>2. CASE \E u \in Tasks : task[u].op = "model"
      BY <2>1, <2>2 DEF BootInv, Wreck
    <2>3. CASE \A u \in Tasks : task[u].op # "model"
      BY <1>1, <1>2, <2>1, <2>3, IdleIs DEF BootInv, SpawnsChosen, Clears
    <2>4. QED
      BY <2>2, <2>3
  <1>4. CASE \E t \in Tasks : CutShort(t, machine)
    <2>1. PICK t \in Tasks : CutShort(t, machine)
      BY <1>4
    <2>2. Clears(t) /\ task[t].pc = "record" /\ db' = Recorded(t, db.marker) /\ past \subseteq past'
      BY <2>1 DEF CutShort
    <2>3. t \in Procs /\ task[t].stage = "convo" /\ db.marker \in 0..MaxLines
      BY <1>1, <2>2 DEF TasksOK, Shape, Clears, DataOK, Store
    <2>4. task'[t].op \notin {"boot", "clear", "model"}
      BY <1>2, <2>3, IdleIs
    <2>5. QED
      BY <1>2, <2>2, <2>3, <2>4, BootRecorded
  <1>5. QED
    BY <1>3, <1>4

\* Every step keeps it.
LEMMA BootStep ==
  ASSUME TypeInv, BootInv, [Next]_vars
  PROVE  BootInv'
  <1>1. TasksOK /\ DataOK /\ UpInv
    BY TypeParts
  <1>2. CASE UNCHANGED vars
    BY <1>2 DEF vars, BootInv, SpawnsChosen, Clears
  <1>3. CASE Next
    <2>1. past \subseteq past'
      BY <1>3, PastGrows
    <2>2. CASE Boot \/ Reuse \/ Respawn \/ CannotResume \/ BootRecord \/ Wake
      BY <2>2, BootServer
    <2>3. CASE \E t \in Tasks : Button(t)
      BY <2>3, BootButton
    <2>4. CASE \E t \in Tasks : Resume(t)
      BY <2>4, BootResume
    <2>5. CASE \E t \in Procs : Tmux(t)
      <3>1. PICK t \in Procs : Tmux(t)
        BY <2>5
      <3>2. CASE NoRollout(t)
        <4>1. "norollout" \in past'
          BY <3>2 DEF NoRollout
        <4>2. QED
          BY <4>1 DEF BootInv
      <3>3. CASE ~NoRollout(t)
        <4>1. /\ Step(t, {"pc", "sess", "new"}) /\ UNCHANGED <<db, up>>
              /\ task[t].pc \in {"open", "type", "run", "claim", "load", "paste", "line"}
          BY <3>1, <3>3, TmuxStep
        <4>2. /\ TasksOK' /\ \A u \in Procs \ {t} : task'[u] = task[u]
              /\ task'[t].op = task[t].op /\ task'[t].stage = task[t].stage /\ task'[t].codex = task[t].codex
          BY <4>1 DEF Step, Alike
        <4>3. BootKept(t)
          <5>1. CASE SpawnsChosen(t)'
            BY <4>2, <5>1 DEF BootKept
          <5>2. CASE ~SpawnsChosen(t)'
            <6>1. task'[t] \in TaskRecord /\ Shape(t, task'[t]) /\ Shape(t, task[t])
              BY <1>1, <4>2 DEF TasksOK
            <6>2. task[t].op \in {"boot", "clear", "model"}
              BY <4>2, <5>2, <6>1, ConvoSpawns DEF SpawnsChosen
            <6>3. task[t].pc \in {"open", "type", "run", "claim"}
              BY <4>1, <6>1, <6>2 DEF Shape
            <6>4. QED
              BY <4>1, <4>2, <6>3, BootStays
          <5>3. QED
            BY <5>1, <5>2
        <4>4. \A u \in Procs : BootKept(u)
          BY <4>1, <4>2, <4>3, BootStays
        <4>5. QED
          BY <2>1, <4>1, <4>4, BootFrame
      <3>4. QED
        BY <3>2, <3>3
    <2>6. CASE \E t \in Procs : Card(t)
      <3>1. PICK t \in Procs : Card(t)
        BY <2>6
      <3>2. db \in Store
        BY <1>1 DEF DataOK
      <3>3. /\ task[t].op \in {"status", "cards"} /\ TasksOK'
            /\ \A u \in Procs \ {t} : task'[u] = task[u]
            /\ task'[t].op \notin {"boot", "clear", "model"}
            /\ db'.pick = db.pick /\ db'.engine = db.engine
        BY <3>1, <3>2, CardStep DEF Carding, Store, Idle
      <3>4. up' = up
        BY <3>1 DEF Card
      <3>5. \A u \in Procs : BootKept(u)
        BY <3>3, BootStays
      <3>6. QED
        BY <2>1, <3>3, <3>4, <3>5, BootFrame
    <2>7. CASE \E w \in windows : (AgentUp(w) /\ Aside) \/ ChildUp(w)
      <3>1. /\ UNCHANGED <<db, up>> /\ TasksOK'
            /\ \A u \in Procs : Alike(task[u], task'[u], {"new"})
        BY <1>1, <2>7, AgentUpStep, ChildUpStep DEF Aside, DataOK
      <3>2. \A u \in Procs : BootKept(u)
        BY <3>1, BootStays DEF Alike
      <3>3. QED
        BY <2>1, <3>1, <3>2, BootFrame
    <2>8. CASE (\E w \in windows : WindowCloses(w)) \/ \E s \in Sessions : Talk(s)
      <3>1. UNCHANGED <<db, up, task>>
        BY <2>8 DEF WindowCloses, Talk
      <3>2. \A u \in Procs : BootKept(u)
        BY <3>1 DEF BootKept, SpawnsChosen
      <3>3. QED
        BY <2>1, <3>1, <3>2, BootFrame
    <2>9. CASE \E machine \in BOOLEAN : Crash(machine) \/ \E t \in Tasks : CutShort(t, machine)
      BY <2>9, BootCrash
    <2>10. QED
      BY <1>3, <2>2, <2>3, <2>4, <2>5, <2>6, <2>7, <2>8, <2>9 DEF Next, Environment
  <1>4. QED
    BY <1>2, <1>3

\* At the start the engine chosen is the one recorded.
LEMMA BootInit == Init => BootInv
  <1> SUFFICES ASSUME Init PROVE BootInv
    OBVIOUS
  <1>1. up = "down" /\ \A t \in Procs : task[t] = Idle
    BY DEF Init
  <1>2. db.pick = db.engine
    BY DEF Init
  <1>3. Tasks \subseteq Procs
    BY DEF Procs
  <1>4. QED
    BY <1>1, <1>2, <1>3, IdleIs DEF BootInv, SpawnsChosen, Clears

\* The conversation that is recorded runs on the engine that is chosen or a change of
\* model is under way, and the server comes up over whatever rows and windows a crash
\* leaves, unless a crash cut a change of model short before its session was recorded,
\* Codex gave no rollout, or two resets overlapped.
THEOREM BootsAgainAlways == Spec => []BootsAgain
  <1>1. Init => BootInv
    BY BootInit
  <1>2. TypeInv /\ TypeInv' /\ BootInv /\ [Next]_vars => BootInv'
    BY BootStep
  <1>3. BootInv => BootsAgain
    BY DEF BootInv, BootsAgain
  <1>4. QED
    BY <1>1, <1>2, <1>3, TypeAlways, PTL DEF Spec

-----------------------------------------------------------------------------
(* The rows and the memory agree.                                          *)

\* Process u makes no new name its own, and knows of its name what it did or what
\* the memory says.
NameKept(u) ==
  /\ Making(u)' => Making(u) /\ task'[u].name = task[u].name
  /\ task'[u].name \in {task[u].name, None} \cup Taken(mem.ws)
  /\ task'[u].op \in {"status", "cards", "end"} /\ task'[u].name # None =>
       \/ /\ task[u].op \in {"status", "cards", "end"}
          /\ task'[u].name = task[u].name /\ task'[u].old = task[u].old
       \/ /\ task'[u].name \in Taken(mem.ws)
          /\ task'[u].old = mem.ws[task'[u].name]

\* A process that does not move keeps its name, and so does one that does nothing,
\* pushes cards, or moves in other fields.
LEMMA NameStays ==
  ASSUME NEW u \in Procs,
         \/ task'[u] = task[u]
         \/ task'[u] = Idle
         \/ Carding(u, mem.ws, task'[u])
         \/ /\ task'[u].op = task[u].op /\ task'[u].name = task[u].name /\ task'[u].old = task[u].old
            /\ task[u].op = "new" => task'[u].stage = task[u].stage
  PROVE  NameKept(u)
  BY IdleIs DEF NameKept, Making, Carding

\* A step that leaves the workstreams alone, and in which each process keeps its name.
LEMMA StoreFrame ==
  ASSUME TypeInv, StoreInv, TypeInv', past \subseteq past', mem'.ws = mem.ws, db'.ws = db.ws,
         up' = "up" => up = "up", \A u \in Procs : NameKept(u)
  PROVE  StoreInv'
  <1>1. TasksOK' /\ DataOK' /\ UpInv'
    BY TypePartsNext
  <1>2. StoreMatchesMemory'
    BY <1>1 DEF StoreInv, StoreMatchesMemory, UpInv
  <1>3. ASSUME "reused" \notin past', NEW t \in Procs, Making(t)'
        PROVE  task'[t].name \notin Taken(mem'.ws) /\ \A u \in Procs \ {t} : task'[u].name # task'[t].name
    <2>1. "reused" \notin past
      BY <1>3
    <2>2. Making(t) /\ task'[t].name = task[t].name
      BY <1>3 DEF NameKept
    <2>3. task[t].name \notin Taken(mem.ws) /\ \A u \in Procs \ {t} : task[u].name # task[t].name
      BY <2>1, <2>2 DEF StoreInv, NameInv
    <2>4. task'[t].name # None
      BY <1>1, <1>3 DEF SpawnPc, TasksOK, Shape, Making
    <2>5. \A u \in Procs \ {t} : task'[u].name # task'[t].name
      BY <2>2, <2>3, <2>4 DEF NameKept
    <2>6. Taken(mem'.ws) = Taken(mem.ws)
      BY DEF Taken
    <2>7. QED
      BY <2>2, <2>3, <2>5, <2>6
  <1>4. ASSUME "reused" \notin past', NEW t \in Procs,
               task'[t].op \in {"status", "cards", "end"}, task'[t].name # None
        PROVE  mem'.ws[task'[t].name] = None \/ SameObject(t)'
    <2>1. "reused" \notin past
      BY <1>4
    <2>2. CASE /\ task[t].op \in {"status", "cards", "end"}
               /\ task'[t].name = task[t].name /\ task'[t].old = task[t].old
      BY <1>4, <2>1, <2>2 DEF StoreInv, NameInv, SameObject
    <2>3. CASE task'[t].name \in Taken(mem.ws) /\ task'[t].old = mem.ws[task'[t].name]
      BY <2>3 DEF SameObject, Taken
    <2>4. QED
      BY <1>4, <2>2, <2>3 DEF NameKept
  <1>5. NameInv'
    BY <1>3, <1>4 DEF NameInv
  <1>6. QED
    BY <1>2, <1>5 DEF StoreInv

\* The workstream of a name is changed in memory and in the rows alike, and the cards
\* are pushed: no other process is making that name.
LEMMA StorePush ==
  ASSUME TypeInv, StoreInv, TypeInv', past \subseteq past', NEW t \in Procs, NEW n \in Names,
         up = "up", ~Making(t) \/ task[t].name = n,
         NEW ws \in [Names -> Row \cup {None}], mem'.ws = ws, "reused" \in past \/ db'.ws = ws,
         \A m \in Names \ {n} : ws[m] = mem.ws[m],
         \/ ws[n] = None
         \/ mem.ws[n] # None /\ ws[n] # None /\ ws[n].sess = mem.ws[n].sess
         \/ Making(t),
         mem.ws[n] = None => ws[n] = None \/ Making(t),
         Carding(t, ws, task'[t]) \/ task'[t] = Idle, \A u \in Procs \ {t} : task'[u] = task[u]
  PROVE  StoreInv'
  <1>1. TasksOK' /\ DataOK' /\ UpInv' /\ TasksOK
    BY TypeParts, TypePartsNext
  <1>2. StoreMatchesMemory'
    BY <1>1 DEF StoreMatchesMemory, UpInv
  <1>3. ASSUME "reused" \notin past', NEW u \in Procs, Making(u)'
        PROVE  task'[u].name \notin Taken(mem'.ws) /\ \A v \in Procs \ {u} : task'[v].name # task'[u].name
    <2>1. "reused" \notin past
      BY <1>3
    <2>2. u # t /\ task'[u] = task[u] /\ Making(u)
      BY <1>3, IdleIs DEF Carding, Making
    <2>3. task[u].name \notin Taken(mem.ws) /\ \A v \in Procs \ {u} : task[v].name # task[u].name
      BY <2>1, <2>2 DEF StoreInv, NameInv
    <2>4. task[u].name # None /\ task[u].name \in Names
      BY <1>1, <2>2 DEF SpawnPc, TasksOK, TaskRecord, Shape, Making
    <2>5. task[u].name \notin Taken(ws)
      BY <2>2, <2>3, <2>4 DEF Taken
    <2>6. task'[t].name # task[u].name
      BY <2>4, <2>5, IdleIs DEF Carding
    <2>7. QED
      BY <2>2, <2>3, <2>5, <2>6
  <1>4. ASSUME "reused" \notin past', NEW u \in Procs,
               task'[u].op \in {"status", "cards", "end"}, task'[u].name # None
        PROVE  mem'.ws[task'[u].name] = None \/ SameObject(u)'
    <2>1. "reused" \notin past
      BY <1>4
    <2>2. CASE u = t
      <3>1. Carding(t, ws, task'[t])
        BY <1>4, <2>2, IdleIs
      <3>2. QED
        BY <1>4, <2>2, <3>1 DEF Carding, SameObject, Taken
    <2>3. CASE u # t
      <3>1. task'[u] = task[u]
        BY <2>3
      <3>2. mem.ws[task[u].name] = None \/ SameObject(u)
        BY <1>4, <2>1, <3>1 DEF StoreInv, NameInv
      <3>3. task[u].name \in Names
        BY <1>1, <1>4, <3>1 DEF TasksOK, TaskRecord
      <3>4. CASE task[u].name # n
        BY <3>1, <3>2, <3>3, <3>4 DEF SameObject
      <3>5. CASE task[u].name = n
        <4>1. ~Making(t)
          BY <2>1, <2>3, <3>5 DEF StoreInv, NameInv
        <4>2. QED
          BY <3>1, <3>2, <3>5, <4>1 DEF SameObject
      <3>6. QED
        BY <3>4, <3>5
    <2>4. QED
      BY <2>2, <2>3
  <1>5. NameInv'
    BY <1>3, <1>4 DEF NameInv
  <1>6. QED
    BY <1>2, <1>5 DEF StoreInv

\* The same without a conversation's workstream: a server that is not serving.
LEMMA StoreAtRest ==
  ASSUME \A u \in Procs : task'[u].op \in {"none", "boot", "status"} /\ task'[u].name = None,
         up' = "up" => mem'.convo = db'.convo /\ mem'.ws = db'.ws
  PROVE  StoreInv'
  BY DEF StoreInv, NameInv, StoreMatchesMemory, Making, SameObject

\* A row's status written over itself is the row.
LEMMA SameStatus ==
  ASSUME NEW ws \in [Names -> Row \cup {None}], NEW n \in Names, ws[n] # None
  PROVE  WithStatus(ws, n, ws[n].status) = ws
  <1>1. ws[n] \in Row
    OBVIOUS
  <1>2. [ws[n] EXCEPT !.status = ws[n].status] = ws[n]
    BY <1>1 DEF Row
  <1>3. QED
    BY <1>2 DEF WithStatus

\* What a task writes to the object it read before its await.
LEMMA WrittenBack ==
  ASSUME NEW v \in [Names -> Row \cup {None}], NEW n \in Names,
         NEW status \in {"running", "gone"}, NEW ws,
         ws = v \/ (v[n] # None /\ ws = WithStatus(v, n, status))
  PROVE  /\ \A m \in Names \ {n} : ws[m] = v[m]
         /\ v[n] = None => ws[n] = None
         /\ v[n] # None => ws[n] # None /\ ws[n].sess = v[n].sess
  <1>1. CASE ws = v
    BY <1>1
  <1>2. CASE v[n] # None /\ ws = WithStatus(v, n, status)
    <2>1. /\ ws[n] = [sess |-> v[n].sess, status |-> status]
          /\ \A m \in Names \ {n} : ws[m] = v[m]
          /\ Taken(ws) = Taken(v)
      <3> DEFINE x == WithStatus(v, n, status)
      <3>1. /\ x[n] = [sess |-> v[n].sess, status |-> status]
            /\ \A m \in Names \ {n} : x[m] = v[m]
            /\ Taken(x) = Taken(v)
        BY <1>2, StatusTyped, ZenonT(30)
      <3> HIDE DEF x
      <3>2. QED
        BY <1>2, <3>1 DEF x
    <2>2. ws[n] # None
      BY <1>2, <2>1 DEF Taken
    <2>3. QED
      BY <1>2, <2>1, <2>2
  <1>3. QED
    BY <1>1, <1>2

\* Every step keeps the rows and the memory in agreement.
LEMMA StoreStep ==
  ASSUME TypeInv, StoreInv, TypeInv', Next
  PROVE  StoreInv'
  <1>1. TasksOK /\ DataOK /\ UpInv /\ TasksOK' /\ Status \in Procs
    BY TypeParts, TypePartsNext DEF Procs
  <1>2. past \subseteq past'
    BY PastGrows
  <1>3. mem.ws \in [Names -> Row \cup {None}] /\ db.ws \in [Names -> Row \cup {None}]
    BY <1>1 DEF DataOK, Memory, Store
  <1>4. up = "up" => "reused" \in past \/ mem.ws = db.ws
    BY DEF StoreInv, StoreMatchesMemory
  <1>5. CASE Boot \/ Reuse \/ Respawn \/ CannotResume \/ BootRecord
    <2>1. /\ \A u \in Tasks : task'[u] = task[u]
          /\ task'[Status].op \in {"none", "boot", "status"} /\ task'[Status].name = None
      BY <1>5, ServerStep, IdleIs DEF Idle
    <2>2. up # "up"
      BY <1>1, <1>5, ServerStep, UpWhen DEF DataOK, Boot, Respawn
    <2>3. \A u \in Procs : task'[u].op \in {"none", "boot", "status"} /\ task'[u].name = None
      BY <1>1, <2>1, <2>2, IdleIs DEF UpInv, Procs
    <2>4. up' = "up" => mem'.convo = db'.convo /\ mem'.ws = db'.ws
      <3>1. CASE Reuse
        BY <3>1 DEF Reuse, Serve, Rehydrated
      <3>2. CASE BootRecord
        <4>1. mem' = [convo |-> task[Status].sess, ws |-> db.ws]
          BY <3>2 DEF BootRecord, Serve, Rehydrated
        <4>2. CASE Resumed(Status)
          BY <3>2, <4>1, <4>2 DEF BootRecord, Resumed
        <4>3. CASE ~Resumed(Status)
          <5>1. db' = Recorded(Status, db.marker) /\ db.marker \in 0..MaxLines
            BY <1>1, <3>2, <4>3 DEF BootRecord, DataOK, Store
          <5>2. db'.ws = db.ws /\ db'.convo = task[Status].sess
            BY <1>1, <5>1, RecordedTyped DEF DataOK
          <5>3. QED
            BY <4>1, <5>2
        <4>4. QED
          BY <4>2, <4>3
      <3>3. CASE Boot \/ Respawn \/ CannotResume
        BY <2>2, <3>3 DEF Boot, Respawn, CannotResume
      <3>4. QED
        BY <1>5, <3>1, <3>2, <3>3
    <2>5. QED
      BY <2>3, <2>4, StoreAtRest
  <1>6. CASE Wake
    <2>1. Carding(Status, mem.ws, task'[Status]) /\ \A u \in Tasks : task'[u] = task[u]
      BY <1>6, ServerStep
    <2>2. \A u \in Procs : NameKept(u)
      BY <2>1, NameStays DEF Procs
    <2>3. QED
      BY <1>2, <1>6, <2>2, StoreFrame DEF Wake
  <1>7. CASE \E t \in Tasks : Button(t)
    <2>1. PICK t \in Tasks : Button(t)
      BY <1>7
    <2>2. /\ up = "up" /\ mem' = mem
          /\ \A u \in Procs \ {t} : task'[u] = task[u]
      BY <2>1, ButtonStep
    <2>3. db'.ws = db.ws
      <3>1. lines[mem.convo] \in 0..MaxLines
        BY <2>2, Serving
      <3>2. \/ db' = db \/ db' = [db EXCEPT !.marker = lines[mem.convo]]
            \/ \E e \in Engines : db' = [db EXCEPT !.pick = e]
        BY <2>1, ButtonStep
      <3>3. QED
        BY <1>1, <3>2 DEF DataOK, Store
    <2>4. NameKept(t)
      <3>1. /\ ~Making(t)' /\ task'[t].name \in {None} \cup Taken(mem.ws)
            /\ task'[t].op \in {"status", "cards", "end"} =>
                 task'[t].name \in Taken(mem.ws) /\ task'[t].old = mem.ws[task'[t].name]
        BY <2>1, ButtonStep DEF Begun, Making
      <3>2. QED
        BY <3>1 DEF NameKept
    <2>5. \A u \in Procs : NameKept(u)
      BY <2>2, <2>4, NameStays
    <2>6. QED
      BY <1>2, <2>2, <2>3, <2>5, StoreFrame
  <1>8. CASE \E t \in Tasks : Resume(t)
    <2>1. PICK t \in Tasks : Resume(t)
      BY <1>8
    <2>2. t \in Procs /\ up = "up" /\ up' = "up" /\ \A u \in Procs \ {t} : task'[u] = task[u]
      BY <2>1, ResumeStep DEF Procs
    <2>3. \A u \in Procs \ {t} : NameKept(u)
      BY <2>2, NameStays
    <2>4. CASE Inner(t)
      <3>1. /\ mem' = mem /\ db' = db /\ task'[t].op = task[t].op
            /\ task'[t].name = task[t].name /\ task'[t].old = task[t].old
            /\ task[t].op = "new" => task'[t].stage = task[t].stage
        BY <2>4, InnerStep DEF Step, Alike
      <3>2. NameKept(t)
        BY <2>2, <3>1, NameStays
      <3>3. QED
        BY <1>2, <2>2, <2>3, <3>1, <3>2, StoreFrame
    <2>5. CASE ConvoRecord(t)
      <3>1. Carding(t, mem.ws, task'[t]) /\ db' = Recorded(t, 0) /\ mem' = [mem EXCEPT !.convo = task[t].sess]
        BY <2>5, ConvoRecordStep
      <3>2. db'.ws = db.ws /\ mem'.ws = mem.ws
        BY <1>1, <2>2, <3>1, RecordedTyped, Constants DEF DataOK, Memory
      <3>3. NameKept(t)
        BY <2>2, <3>1, NameStays
      <3>4. QED
        BY <1>2, <2>2, <2>3, <3>2, <3>3, StoreFrame
    <2>6. CASE BlankEntered(t)
      <3>1. Carding(t, mem.ws, task'[t])
        BY <1>1, <1>3, <2>2, <2>6, PushStep DEF BlankEntered
      <3>2. NameKept(t)
        BY <2>2, <3>1, NameStays
      <3>3. QED
        BY <1>2, <2>2, <2>3, <2>6, <3>2, StoreFrame DEF BlankEntered, Aside
    <2>7. CASE GiveUp(t) \/ Injected(t) \/ InputSent(t)
      <3>1. task'[t] = Idle /\ mem' = mem
        BY <1>1, <2>2, <2>7, OverStep DEF GiveUp, Injected, InputSent, Become, Aside
      <3>2. db'.ws = db.ws
        BY <1>1, <2>7 DEF GiveUp, Injected, InputSent, Aside, DataOK, Store
      <3>3. NameKept(t)
        BY <2>2, <3>1, NameStays
      <3>4. QED
        BY <1>2, <2>2, <2>3, <3>1, <3>2, <3>3, StoreFrame
    <2>8. CASE \E n \in Names : Planned(t, n)
      <3>1. PICK n \in Names : Planned(t, n)
        BY <2>8
      <3>2. /\ task'[t].op = "new" /\ task'[t].name = n /\ n # None
            /\ mem' = mem /\ db' = db
            /\ n \in Taken(mem.ws) \/ (\E u \in Procs \ {t} : task[u].name = n) => "reused" \in past'
        BY <1>1, <3>1, PlannedStep, Constants DEF Planned, Aside, Step, Alike
      <3>3. CASE "reused" \in past'
        <4>1. NameInv'
          BY <3>3 DEF NameInv
        <4>2. StoreMatchesMemory'
          BY <1>1, <2>2, <3>2, <3>3 DEF StoreMatchesMemory, UpInv
        <4>3. QED
          BY <4>1, <4>2 DEF StoreInv
      <3>4. CASE "reused" \notin past'
        <4>1. "reused" \notin past /\ n \notin Taken(mem.ws) /\ \A u \in Procs \ {t} : task[u].name # n
          BY <1>2, <3>2, <3>4
        <4>2. ASSUME NEW u \in Procs, Making(u)'
              PROVE  /\ task'[u].name \notin Taken(mem.ws)
                     /\ \A v \in Procs \ {u} : task'[v].name # task'[u].name
          <5>1. CASE u = t
            BY <2>2, <3>2, <4>1, <5>1
          <5>2. CASE u # t
            <6>1. task'[u] = task[u] /\ Making(u)
              BY <2>2, <4>2, <5>2 DEF Making
            <6>2. task[u].name \notin Taken(mem.ws) /\ \A v \in Procs \ {u} : task[v].name # task[u].name
              BY <4>1, <6>1 DEF StoreInv, NameInv
            <6>3. QED
              BY <2>2, <3>2, <4>1, <5>2, <6>1, <6>2
          <5>3. QED
            BY <5>1, <5>2
        <4>3. ASSUME NEW u \in Procs, task'[u].op \in {"status", "cards", "end"}, task'[u].name # None
              PROVE  mem'.ws[task'[u].name] = None \/ SameObject(u)'
          <5>1. u # t /\ task'[u] = task[u]
            BY <2>2, <3>2, <4>3
          <5>2. QED
            BY <3>2, <4>1, <4>3, <5>1 DEF StoreInv, NameInv, SameObject
        <4>4. NameInv'
          BY <3>2, <4>2, <4>3 DEF NameInv
        <4>5. StoreMatchesMemory'
          BY <1>1, <2>2, <3>2, <4>1 DEF StoreMatchesMemory, UpInv, StoreInv
        <4>6. QED
          BY <4>4, <4>5 DEF StoreInv
      <3>5. QED
        BY <3>3, <3>4
    <2>9. CASE Launched(t)
      <3> DEFINE n == task[t].name
                 row == [sess |-> task[t].sess, status |-> "running"]
                 ws == [mem.ws EXCEPT ![n] = row]
      <3>1. /\ Making(t) /\ n \in Names /\ row \in Row
            /\ mem' = [mem EXCEPT !.ws = ws] /\ db' = [db EXCEPT !.ws = [db.ws EXCEPT ![n] = row]]
            /\ Carding(t, ws, task'[t])
        BY <2>9, LaunchedStep DEF Making
      <3>2. mem'.ws = ws /\ db'.ws = [db.ws EXCEPT ![n] = row]
        BY <1>1, <3>1 DEF DataOK, Memory, Store
      <3> HIDE DEF row
      <3>3. ws \in [Names -> Row \cup {None}] /\ \A m \in Names \ {n} : ws[m] = mem.ws[m]
        BY <1>3, <3>1
      <3>4. "reused" \in past \/ db'.ws = ws
        BY <1>4, <2>2, <3>2
      <3> HIDE DEF ws
      <3>5. QED
        BY <1>2, <2>2, <3>1, <3>2, <3>3, <3>4, StorePush
    <2>10. CASE Ended(t)
      <3> DEFINE n == task[t].name
                 ws == [mem.ws EXCEPT ![n] = None]
      <3>1. /\ task[t].op = "end" /\ n \in Names
            /\ \/ task'[t] = Idle /\ UNCHANGED <<db, mem>>
               \/ /\ mem' = [mem EXCEPT !.ws = ws] /\ db' = [db EXCEPT !.ws = [db.ws EXCEPT ![n] = None]]
                  /\ Carding(t, ws, task'[t])
        BY <2>10, EndedStep
      <3>2. CASE task'[t] = Idle /\ UNCHANGED <<db, mem>>
        <4>1. NameKept(t)
          BY <2>2, <3>2, NameStays
        <4>2. QED
          BY <1>2, <2>2, <2>3, <3>2, <4>1, StoreFrame
      <3>3. CASE ~(task'[t] = Idle /\ UNCHANGED <<db, mem>>)
        <4>1. mem'.ws = ws /\ db'.ws = [db.ws EXCEPT ![n] = None] /\ Carding(t, ws, task'[t])
          BY <1>1, <3>1, <3>3 DEF DataOK, Memory, Store
        <4>2. ws \in [Names -> Row \cup {None}] /\ (\A m \in Names \ {n} : ws[m] = mem.ws[m]) /\ ws[n] = None
          BY <1>3, <3>1
        <4>3. "reused" \in past \/ db'.ws = ws
          BY <1>4, <2>2, <4>1
        <4>4. ~Making(t)
          BY <3>1 DEF Making
        <4> HIDE DEF ws
        <4>5. QED
          BY <1>2, <2>2, <3>1, <4>1, <4>2, <4>3, <4>4, StorePush
      <3>4. QED
        BY <3>2, <3>3
    <2>11. CASE ArchiveFails(t)
      <3> DEFINE n == task[t].name
      <3>1. PICK ws \in [Names -> Row \cup {None}] :
              /\ task[t].op = "end" /\ n \in Names
              /\ ws = IF SameObject(t) THEN WithStatus(mem.ws, n, "gone") ELSE mem.ws
              /\ mem' = [mem EXCEPT !.ws = ws]
              /\ db' = [db EXCEPT !.ws = WithStatus(db.ws, n, "gone")]
              /\ Carding(t, ws, task'[t])
        BY <2>11, ArchiveFailsStep
      <3>2. mem'.ws = ws /\ db'.ws = WithStatus(db.ws, n, "gone")
        BY <1>1, <3>1 DEF DataOK, Memory, Store
      <3>3. /\ \A m \in Names \ {n} : ws[m] = mem.ws[m]
            /\ mem.ws[n] = None => ws[n] = None
            /\ mem.ws[n] # None => ws[n] # None /\ ws[n].sess = mem.ws[n].sess
        <4>1. ws = mem.ws \/ (mem.ws[n] # None /\ ws = WithStatus(mem.ws, n, "gone"))
          BY <3>1 DEF SameObject
        <4>2. QED
          BY <1>3, <3>1, <4>1, WrittenBack
      <3>4. "reused" \in past \/ db'.ws = ws
        <4>1. SUFFICES ASSUME "reused" \notin past PROVE WithStatus(mem.ws, n, "gone") = ws
          BY <1>4, <2>2, <3>2
        <4>2. CASE SameObject(t)
          BY <3>1, <4>2
        <4>3. CASE ~SameObject(t)
          <5>1. n # None
            BY <3>1, Constants
          <5>2. mem.ws[n] = None
            BY <2>2, <3>1, <4>1, <4>3, <5>1 DEF StoreInv, NameInv
          <5>3. QED
            BY <3>1, <4>3, <5>2 DEF WithStatus
        <4>4. QED
          BY <4>2, <4>3
      <3>5. ~Making(t)
        BY <3>1 DEF Making
      <3>6. QED
        BY <1>2, <2>2, <3>1, <3>2, <3>3, <3>4, <3>5, StorePush
    <2>12. CASE Rename(t)
      <3>1. /\ mem' = mem /\ db' = db /\ task'[t].op = task[t].op
            /\ task'[t].name = task[t].name /\ task'[t].old = task[t].old
            /\ task'[t].stage = task[t].stage
        BY <1>1, <2>12, RenameStep DEF Rename, Step, Alike
      <3>2. NameKept(t)
        BY <2>2, <3>1, NameStays
      <3>3. QED
        BY <1>2, <2>2, <2>3, <3>1, <3>2, StoreFrame
    <2>13. QED
      BY <2>1, <2>4, <2>5, <2>6, <2>7, <2>8, <2>9, <2>10, <2>11, <2>12 DEF Resume, Inner
  <1>9. CASE \E t \in Procs : Tmux(t)
    <2>1. PICK t \in Procs : Tmux(t)
      BY <1>9
    <2>2. CASE NoRollout(t)
      <3>1. task'[t] = Idle /\ \A u \in Procs \ {t} : task'[u] = task[u]
        BY <1>1, <2>2, OverStep DEF NoRollout
      <3>2. \A u \in Procs : NameKept(u)
        BY <3>1, NameStays
      <3>3. QED
        BY <1>2, <2>2, <3>2, StoreFrame DEF NoRollout
    <2>3. CASE ~NoRollout(t)
      <3>1. /\ \A u \in Procs \ {t} : task'[u] = task[u]
            /\ task'[t].op = task[t].op /\ task'[t].name = task[t].name /\ task'[t].old = task[t].old
            /\ task'[t].stage = task[t].stage
            /\ UNCHANGED <<db, mem, up>>
        BY <2>1, <2>3, TmuxStep DEF Step, Alike
      <3>2. \A u \in Procs : NameKept(u)
        BY <3>1, NameStays
      <3>3. QED
        BY <1>2, <3>1, <3>2, StoreFrame
    <2>4. QED
      BY <2>2, <2>3
  <1>10. CASE \E t \in Procs : Card(t)
    <2>1. PICK t \in Procs : Card(t)
      BY <1>10
    <2> DEFINE n == task[t].name
    <2>2. PICK ws \in [Names -> Row \cup {None}], status \in {"running", "gone"} :
           /\ task[t].op \in {"status", "cards"}
           /\ n \in Names /\ task[t].old \in Row
           /\ \A u \in Procs \ {t} : task'[u] = task[u]
           /\ ws = IF SameObject(t) THEN WithStatus(mem.ws, n, status) ELSE mem.ws
           /\ mem' = [mem EXCEPT !.ws = ws]
           /\ db' = IF status = (IF SameObject(t) THEN mem.ws[n].status ELSE task[t].old.status)
                    THEN db ELSE [db EXCEPT !.ws = WithStatus(db.ws, n, status)]
           /\ Carding(t, ws, task'[t])
      BY <2>1, CardStep
    <2>3. up = "up" /\ ~Making(t) /\ n # None
      BY <1>1, <2>2, UpWhen, Constants DEF DataOK, Making
    <2>4. mem'.ws = ws
      BY <1>1, <2>2 DEF DataOK, Memory
    <2>5. /\ \A m \in Names \ {n} : ws[m] = mem.ws[m]
          /\ mem.ws[n] = None => ws[n] = None
          /\ mem.ws[n] # None => ws[n] # None /\ ws[n].sess = mem.ws[n].sess
      <3>1. ws = mem.ws \/ (mem.ws[n] # None /\ ws = WithStatus(mem.ws, n, status))
        BY <2>2 DEF SameObject
      <3>2. QED
        BY <1>3, <2>2, <3>1, WrittenBack
    <2>6. "reused" \in past \/ db'.ws = ws
      <3>1. SUFFICES ASSUME "reused" \notin past PROVE db'.ws = ws
        OBVIOUS
      <3>2. db.ws = mem.ws
        BY <1>4, <2>3, <3>1
      <3>3. WithStatus(mem.ws, n, status) \in [Names -> Row \cup {None}]
        BY <1>3, <2>2, StatusTyped
      <3>4. CASE SameObject(t)
        <4>1. ws = WithStatus(mem.ws, n, status) /\ mem.ws[n] # None
          BY <2>2, <3>4 DEF SameObject
        <4>2. CASE status = mem.ws[n].status
          <5>1. ws = mem.ws
            BY <1>3, <2>2, <4>1, <4>2, SameStatus
          <5>2. QED
            BY <2>2, <3>2, <3>4, <4>2, <5>1
        <4>3. CASE status # mem.ws[n].status
          <5>1. db' = [db EXCEPT !.ws = ws]
            BY <2>2, <3>2, <3>4, <4>1, <4>3
          <5>2. QED
            BY <1>1, <5>1 DEF DataOK, Store
        <4>4. QED
          BY <4>2, <4>3
      <3>5. CASE ~SameObject(t)
        <4>1. mem.ws[n] = None
          BY <2>2, <2>3, <3>1, <3>5 DEF StoreInv, NameInv
        <4>2. ws = mem.ws /\ WithStatus(db.ws, n, status) = db.ws
          BY <2>2, <3>2, <3>5, <4>1 DEF WithStatus
        <4>3. QED
          BY <1>1, <2>2, <3>2, <4>2 DEF DataOK, Store
      <3>6. QED
        BY <3>4, <3>5
    <2>7. QED
      BY <1>2, <2>2, <2>3, <2>4, <2>5, <2>6, StorePush
  <1>11. CASE Environment
    <2>1. CASE \E w \in windows : AgentUp(w) /\ Aside
      <3>1. PICK w \in windows : AgentUp(w) /\ Aside
        BY <2>1
      <3>2. \A u \in Procs : /\ task'[u].op = task[u].op /\ task'[u].name = task[u].name
                             /\ task'[u].old = task[u].old /\ task'[u].stage = task[u].stage
        BY <1>1, <3>1, AgentUpStep DEF Alike, DataOK
      <3>3. \A u \in Procs : NameKept(u)
        BY <3>2, NameStays
      <3>4. QED
        BY <1>2, <3>1, <3>3, StoreFrame DEF Aside
    <2>2. CASE \E w \in windows : ChildUp(w)
      <3>1. /\ UNCHANGED <<db, mem, up>>
            /\ \A u \in Procs : /\ task'[u].op = task[u].op /\ task'[u].name = task[u].name
                                /\ task'[u].old = task[u].old /\ task'[u].stage = task[u].stage
        BY <1>1, <2>2, ChildUpStep DEF Alike
      <3>2. \A u \in Procs : NameKept(u)
        BY <3>1, NameStays
      <3>3. QED
        BY <1>2, <3>1, <3>2, StoreFrame
    <2>3. CASE (\E w \in windows : WindowCloses(w)) \/ \E s \in Sessions : Talk(s)
      <3>1. UNCHANGED <<task, db, mem, up>>
        BY <2>3 DEF WindowCloses, Talk
      <3>2. \A u \in Procs : NameKept(u)
        BY <3>1, NameStays
      <3>3. QED
        BY <1>2, <3>1, <3>2, StoreFrame
    <2>4. CASE \E machine \in BOOLEAN : Crash(machine) \/ \E t \in Tasks : CutShort(t, machine)
      <3>1. PICK machine \in BOOLEAN : Dies(machine)
        BY <2>4 DEF Crash, CutShort
      <3>2. up' = "down" /\ \A u \in Procs : task'[u] = Idle
        BY <1>1, <3>1, DiesStep
      <3>3. QED
        BY <3>2, StoreAtRest, IdleIs
    <2>5. QED
      BY <1>11, <2>1, <2>2, <2>3, <2>4 DEF Environment
  <1>12. QED
    BY <1>5, <1>6, <1>7, <1>8, <1>9, <1>10, <1>11 DEF Next

\* The names, the rows and the memory, always.
LEMMA StoreAlways == Spec => []StoreInv
  <1>1. Init => StoreInv
    <2> SUFFICES ASSUME Init PROVE StoreInv
      OBVIOUS
    <2>1. up = "down" /\ \A t \in Procs : task[t] = Idle
      BY DEF Init
    <2>2. QED
      BY <2>1, IdleIs DEF StoreInv, NameInv, StoreMatchesMemory, Making
  <1>2. TypeInv /\ TypeInv' /\ StoreInv /\ [Next]_vars => StoreInv'
    <2> SUFFICES ASSUME TypeInv, TypeInv', StoreInv, [Next]_vars PROVE StoreInv'
      OBVIOUS
    <2>1. CASE Next
      BY <2>1, StoreStep
    <2>2. CASE UNCHANGED vars
      <3>1. UNCHANGED <<task, db, mem, up, past>>
        BY <2>2 DEF vars
      <3>2. \A u \in Procs : NameKept(u)
        BY <3>1, NameStays
      <3>3. QED
        BY <3>1, <3>2, StoreFrame
    <2>3. QED
      BY <2>1, <2>2
  <1>3. QED
    BY <1>1, <1>2, TypeAlways, PTL DEF Spec

\* Statuses, registrations and resets are written to the database and to memory
\* between the same two awaits: a serving manager and the rows a restart would read
\* agree, unless one name stood for two workstreams.
THEOREM StoreMatchesMemoryAlways == Spec => []StoreMatchesMemory
  <1>1. StoreInv => StoreMatchesMemory
    BY DEF StoreInv
  <1>2. QED
    BY <1>1, StoreAlways, PTL

-----------------------------------------------------------------------------
(* No line of the conversation is skipped.                                 *)

\* What Covered says of one line.
LEMMA CoveredIs ==
  /\ \A l : l \in Covered <=> l \in Spent \/ \E t \in Tasks : Planning(t) /\ l \in Due(t)
  /\ \A l : l \in Covered' <=> l \in Spent' \/ \E t \in Tasks : Planning(t)' /\ l \in Due(t)'
  <1>1. \A l : l \in Covered <=> l \in Spent \/ \E t \in Tasks : Planning(t) /\ l \in Due(t)
    BY Zenon DEF Covered
  <1>2. \A l : l \in Covered' <=> l \in Spent' \/ \E t \in Tasks : Planning(t)' /\ l \in Due(t)'
    BY Zenon DEF Covered
  <1>3. QED
    BY <1>1, <1>2

\* The lines a planner has in hand are still its own, or have been handed on; a
\* process that sends after the step was sending before, about the same lines.
LinesKept(u) ==
  /\ Planning(u) => \/ Planning(u)' /\ task'[u].since = task[u].since /\ task'[u].cur = task[u].cur
                    \/ Due(u) \subseteq Spent'
  /\ task'[u].op = "send" => /\ task[u].op = "send"
                             /\ task'[u].convo = task[u].convo /\ task'[u].since = task[u].since

\* What is covered stays covered.
LEMMA CoveredGrows ==
  ASSUME Spent \subseteq Spent', \A u \in Tasks : LinesKept(u)
  PROVE  Covered \subseteq Covered'
  <1>1. SUFFICES ASSUME NEW l, l \in Covered PROVE l \in Covered'
    OBVIOUS
  <1>2. CASE l \in Spent
    BY <1>2, CoveredIs
  <1>3. CASE \E t \in Tasks : Planning(t) /\ l \in Due(t)
    <2>1. PICK t \in Tasks : Planning(t) /\ l \in Due(t)
      BY <1>3
    <2>2. CASE Due(t) \subseteq Spent'
      BY <2>1, <2>2, CoveredIs
    <2>3. CASE Planning(t)' /\ task'[t].since = task[t].since /\ task'[t].cur = task[t].cur
      <3>1. Due(t)' = Due(t)
        BY <2>3 DEF Due
      <3>2. QED
        BY <2>1, <2>3, <3>1, CoveredIs
    <2>4. QED
      BY <2>1, <2>2, <2>3 DEF LinesKept
  <1>4. QED
    BY <1>1, <1>2, <1>3, CoveredIs

\* A step that leaves the marker and the conversation alone.
LEMMA SkipFrame ==
  ASSUME SkipInv, past \subseteq past', Spent \subseteq Spent',
         db'.marker = db.marker, db'.convo = db.convo, \A u \in Tasks : LinesKept(u)
  PROVE  SkipInv'
  <1>1. Covered \subseteq Covered'
    BY CoveredGrows
  <1>2. ASSUME "stale" \notin past'
        PROVE  /\ 1..db'.marker \subseteq Covered'
               /\ \A t \in Tasks : task'[t].op = "send" =>
                    task'[t].convo = db'.convo /\ 1..task'[t].since \subseteq Covered'
    <2>1. /\ 1..db.marker \subseteq Covered
          /\ \A t \in Tasks : task[t].op = "send" => task[t].convo = db.convo /\ 1..task[t].since \subseteq Covered
      BY <1>2 DEF SkipInv
    <2>2. QED
      BY <1>1, <2>1 DEF LinesKept
  <1>3. QED
    BY <1>2 DEF SkipInv

\* A process that keeps its operation and its lines, or had none.
LEMMA LinesStay ==
  ASSUME NEW u \in Procs, db'.convo = db.convo,
         \/ task'[u] = task[u]
         \/ /\ task'[u].op = task[u].op /\ task'[u].convo = task[u].convo
            /\ task'[u].since = task[u].since /\ task'[u].cur = task[u].cur
         \/ /\ Planning(u) => Due(u) \subseteq Spent'
            /\ task'[u].op # "send"
  PROVE  LinesKept(u)
  <1>1. CASE /\ Planning(u) => Due(u) \subseteq Spent'
             /\ task'[u].op # "send"
    BY <1>1 DEF LinesKept
  <1>2. CASE /\ task'[u].op = task[u].op /\ task'[u].convo = task[u].convo
             /\ task'[u].since = task[u].since /\ task'[u].cur = task[u].cur
    BY <1>2 DEF LinesKept, Planning
  <1>3. QED
    BY <1>1, <1>2

\* What is handed on, or dropped, is added to what was.
LEMMA HandedGrows ==
  ASSUME done \in Fate, NEW t \in Procs, done' = Handed(t) \/ done' = Dropped(t)
  PROVE  /\ Spent \subseteq Spent'
         /\ Planning(t) => Due(t) \subseteq Spent'
         /\ done' = Handed(t) /\ task[t].convo = db.convo => Due(t) \subseteq Spent'
  BY DEF Fate, Spent, Handed, Dropped, Planning

\* What the planners have in hand is lost in a crash.
LEMMA ForsakenIs ==
  ASSUME done \in Fate, done' = Forsaken
  PROVE  Spent' = Covered
  BY DEF Fate, Spent, Forsaken, Covered

\* The lines after k and up to m.
LEMMA LinesAfter ==
  ASSUME NEW t \in Tasks, NEW k \in 0..MaxLines, NEW m \in 0..MaxLines
  PROVE  /\ task[t].since = k /\ task[t].cur = m => 1..m \subseteq 1..k \cup Due(t)
         /\ task'[t].since = k /\ task'[t].cur = m => 1..m \subseteq 1..k \cup Due(t)'
  BY Constants DEF Due

\* A planner takes the lines up to the end, and the marker is moved there.
LEMMA SkipNew ==
  ASSUME TypeInv, SkipInv, NEW t \in Tasks, up = "up", task[t] = Idle, past' = past, done' = done,
         \A u \in Procs \ {t} : task'[u] = task[u],
         task'[t].op = "new", Told(task'[t]), db' = [db EXCEPT !.marker = lines[mem.convo]]
  PROVE  SkipInv'
  <1> DEFINE m == lines[mem.convo]
  <1>1. /\ mem.convo = db.convo /\ m \in 0..MaxLines /\ db.marker \in 0..MaxLines
        /\ db'.marker = m /\ db'.convo = db.convo
    BY Serving, TypeParts DEF DataOK, Store
  <1>2. \A u \in Tasks : LinesKept(u)
    <2>1. SUFFICES ASSUME NEW u \in Tasks PROVE LinesKept(u)
      OBVIOUS
    <2>2. CASE u = t
      BY <1>1, <2>2, IdleIs, LinesStay DEF Procs, Planning
    <2>3. CASE u # t
      BY <1>1, <2>3, LinesStay DEF Procs
    <2>4. QED
      BY <2>2, <2>3
  <1>3. Covered \subseteq Covered'
    BY <1>2, CoveredGrows DEF Spent
  <1>4. Planning(t)' /\ task'[t].since = db.marker /\ task'[t].cur = m
    BY <1>1 DEF Told, Planning
  <1>5. Due(t)' \subseteq Covered'
    BY <1>4, CoveredIs
  <1> HIDE DEF m
  <1>6. 1..m \subseteq 1..db.marker \cup Due(t)'
    BY <1>1, <1>4, LinesAfter
  <1>7. ASSUME "stale" \notin past'
        PROVE  /\ 1..db'.marker \subseteq Covered'
               /\ \A u \in Tasks : task'[u].op = "send" =>
                    task'[u].convo = db'.convo /\ 1..task'[u].since \subseteq Covered'
    <2>1. /\ 1..db.marker \subseteq Covered
          /\ \A u \in Tasks : task[u].op = "send" => task[u].convo = db.convo /\ 1..task[u].since \subseteq Covered
      BY <1>7 DEF SkipInv
    <2>2. QED
      BY <1>1, <1>2, <1>3, <1>5, <1>6, <2>1 DEF LinesKept
  <1>8. QED
    BY <1>7 DEF SkipInv

\* An injector is told of the lines after the marker.
LEMMA SkipSend ==
  ASSUME TypeInv, SkipInv, NEW t \in Tasks, up = "up", task[t] = Idle, past' = past, done' = done,
         \A u \in Procs \ {t} : task'[u] = task[u],
         task'[t].op = "send", Told(task'[t]), db' = db
  PROVE  SkipInv'
  <1>1. mem.convo = db.convo
    BY Serving
  <1>2. ASSUME NEW u \in Tasks, Planning(u)
        PROVE  Planning(u)' /\ Due(u)' = Due(u)
    <2>1. u # t /\ task'[u] = task[u]
      BY <1>2, IdleIs DEF Planning, Procs
    <2>2. QED
      BY <1>2, <2>1 DEF Planning, Due
  <1>3. Covered \subseteq Covered'
    <2>1. SUFFICES ASSUME NEW l, l \in Covered PROVE l \in Covered'
      OBVIOUS
    <2>2. QED
      BY <1>2, <2>1, CoveredIs DEF Spent
  <1>4. ASSUME "stale" \notin past'
        PROVE  /\ 1..db'.marker \subseteq Covered'
               /\ \A u \in Tasks : task'[u].op = "send" =>
                    task'[u].convo = db'.convo /\ 1..task'[u].since \subseteq Covered'
    <2>1. /\ 1..db.marker \subseteq Covered
          /\ \A u \in Tasks : task[u].op = "send" => task[u].convo = db.convo /\ 1..task[u].since \subseteq Covered
      BY <1>4 DEF SkipInv
    <2>2. ASSUME NEW u \in Tasks, task'[u].op = "send"
          PROVE  task'[u].convo = db'.convo /\ 1..task'[u].since \subseteq Covered'
      <3>1. CASE u = t
        BY <1>1, <1>3, <2>1, <3>1 DEF Told
      <3>2. CASE u # t
        <4>1. task'[u] = task[u]
          BY <3>2 DEF Procs
        <4>2. QED
          BY <1>3, <2>1, <2>2, <4>1
      <3>3. QED
        BY <3>1, <3>2
    <2>3. QED
      BY <1>3, <2>1, <2>2
  <1>5. QED
    BY <1>4 DEF SkipInv

\* A button.
LEMMA SkipButton ==
  ASSUME TypeInv, SkipInv, NEW t \in Tasks, Button(t)
  PROVE  SkipInv'
  <1>1. /\ up = "up" /\ task[t] = Idle /\ done' = done /\ t \in Procs /\ db \in Store
        /\ \A u \in Procs \ {t} : task'[u] = task[u]
        /\ past \subseteq past'
    BY ButtonStep, TypeParts DEF Procs, DataOK, Resets
  <1>2. CASE task'[t].op = "new"
    BY <1>1, <1>2, ButtonStep, SkipNew DEF Begun
  <1>3. CASE task'[t].op = "send"
    BY <1>1, <1>3, ButtonStep, SkipSend DEF Begun
  <1>4. CASE task'[t].op \notin {"new", "send"}
    <2>1. db' = db \/ \E e \in Engines : db' = [db EXCEPT !.pick = e]
      BY <1>4, ButtonStep DEF Begun
    <2>2. db'.marker = db.marker /\ db'.convo = db.convo
      BY <1>1, <2>1 DEF Store
    <2>3. \A u \in Tasks : LinesKept(u)
      <3>1. SUFFICES ASSUME NEW u \in Tasks PROVE LinesKept(u)
        OBVIOUS
      <3>2. CASE u = t
        BY <1>1, <1>4, <2>2, <3>2, IdleIs, LinesStay DEF Planning
      <3>3. CASE u # t
        BY <1>1, <2>2, <3>3, LinesStay DEF Procs
      <3>4. QED
        BY <3>2, <3>3
    <2>4. QED
      BY <1>1, <2>2, <2>3, SkipFrame DEF Spent
  <1>5. QED
    BY <1>2, <1>3, <1>4

\* The directive is in, and the marker moves to where its injector read to.
LEMMA SkipInjected ==
  ASSUME TypeInv, SkipInv, NEW t \in Tasks, Injected(t)
  PROVE  SkipInv'
  <1>1. /\ task[t].op = "send" /\ past \subseteq past' /\ Spent \subseteq Spent'
        /\ task[t].convo = db.convo => Due(t) \subseteq Spent'
    <2>1. task[t].op = "send" /\ done' = Handed(t)
      BY DEF Injected
    <2>2. done \in Fate /\ t \in Procs
      BY TypeParts DEF DataOK, Procs
    <2>3. past \subseteq past'
      BY ResumeStep DEF Resume
    <2>4. QED
      BY <2>1, <2>2, <2>3, HandedGrows
  <1>2. /\ task'[t] = Idle /\ t \in Procs
        /\ \A u \in Procs \ {t} : task'[u] = task[u]
    BY OverStep, TypeParts DEF Injected, Become, Procs
  <1>3. /\ task[t].cur \in 0..MaxLines /\ task[t].since \in 0..MaxLines
        /\ db'.marker = task[t].cur /\ db'.convo = db.convo
    BY <1>2, TypeParts DEF Injected, MarkerAfterSend, TasksOK, TaskRecord, DataOK, Store
  <1>4. \A u \in Tasks : LinesKept(u)
    <2>1. SUFFICES ASSUME NEW u \in Tasks PROVE LinesKept(u)
      OBVIOUS
    <2>2. CASE u = t
      BY <1>1, <1>2, <1>3, <2>2, IdleIs, LinesStay DEF Planning
    <2>3. CASE u # t
      BY <1>2, <1>3, <2>3, LinesStay DEF Procs
    <2>4. QED
      BY <2>2, <2>3
  <1>5. Covered \subseteq Covered' /\ Spent' \subseteq Covered'
    BY <1>1, <1>4, CoveredGrows, CoveredIs
  <1>6. 1..task[t].cur \subseteq 1..task[t].since \cup Due(t)
    BY <1>3, LinesAfter
  <1>7. ASSUME "stale" \notin past'
        PROVE  /\ 1..db'.marker \subseteq Covered'
               /\ \A u \in Tasks : task'[u].op = "send" =>
                    task'[u].convo = db'.convo /\ 1..task'[u].since \subseteq Covered'
    <2>1. \A u \in Tasks : task[u].op = "send" => task[u].convo = db.convo /\ 1..task[u].since \subseteq Covered
      BY <1>1, <1>7 DEF SkipInv
    <2>2. 1..task[t].since \subseteq Covered /\ Due(t) \subseteq Spent'
      BY <1>1, <1>7, <2>1 DEF SkipInv
    <2>3. 1..db'.marker \subseteq Covered'
      BY <1>3, <1>5, <1>6, <2>2
    <2>4. QED
      BY <1>3, <1>4, <1>5, <2>1, <2>3 DEF LinesKept
  <1>8. QED
    BY <1>7 DEF SkipInv

\* A new conversation: what is on its way to a workstream is of the old one.
LEMMA SkipRecord ==
  ASSUME TypeInv, SkipInv, NEW t \in Tasks, ConvoRecord(t)
  PROVE  SkipInv'
  <1>1. /\ t \in Procs /\ db' = Recorded(t, 0)
        /\ \A u \in Procs \ {t} : task'[u] = task[u]
        /\ Carding(t, mem.ws, task'[t]) /\ task[t].op # "new" /\ past \subseteq past'
        /\ db \in Store /\ TasksOK /\ 0 \in 0..MaxLines
    BY ConvoRecordStep, ResumeStep, TypeParts, Constants DEF Resume, Procs, DataOK, Clears
  <1>2. db'.marker = 0 /\ db'.convo = task[t].sess
    BY <1>1, RecordedTyped
  <1>3. ASSUME "stale" \notin past', NEW u \in Tasks, task'[u].op = "send"
        PROVE  task'[u].convo = db'.convo /\ 1..task'[u].since \subseteq Covered'
    <2>1. u # t /\ task'[u] = task[u] /\ u \in Procs
      BY <1>1, <1>3 DEF Carding, Procs
    <2>2. task[u].convo = task[t].sess
      BY <1>3, <2>1 DEF ConvoRecord
    <2>3. "stale" \notin past
      BY <1>1, <1>3
    <2>4. task[u].convo = db.convo /\ 1..task[u].since \subseteq Covered
      BY <1>3, <2>1, <2>3 DEF SkipInv
    <2>5. db'.convo = db.convo /\ done' = done
      BY <1>2, <2>2, <2>4 DEF ConvoRecord, Follow, Resumed
    <2>6. ASSUME NEW v \in Tasks
          PROVE  LinesKept(v)
      <3>1. CASE v = t
        BY <1>1, <2>5, <3>1, LinesStay DEF Carding, Planning
      <3>2. CASE v # t
        BY <1>1, <2>5, <3>2, LinesStay DEF Procs
      <3>3. QED
        BY <3>1, <3>2
    <2>7. Covered \subseteq Covered'
      BY <2>5, <2>6, CoveredGrows DEF Spent
    <2>8. QED
      BY <2>1, <2>4, <2>5, <2>7
  <1>4. 1..db'.marker = {}
    BY <1>2
  <1>5. QED
    BY <1>3, <1>4 DEF SkipInv

\* The steps that end an operation or go on with it.
LEMMA SkipResume ==
  ASSUME TypeInv, SkipInv, NEW t \in Tasks, Resume(t)
  PROVE  SkipInv'
  <1>1. /\ TasksOK /\ DataOK /\ t \in Procs /\ past \subseteq past'
        /\ \A u \in Procs \ {t} : task'[u] = task[u]
    BY TypeParts, ResumeStep DEF Procs
  <1>2. db \in Store /\ mem.ws \in [Names -> Row \cup {None}] /\ done \in Fate
    BY <1>1 DEF DataOK, Memory
  <1>3. ASSUME Spent \subseteq Spent', db'.marker = db.marker, db'.convo = db.convo,
               \/ /\ task'[t].op = task[t].op /\ task'[t].convo = task[t].convo
                  /\ task'[t].since = task[t].since /\ task'[t].cur = task[t].cur
               \/ /\ Planning(t) => Due(t) \subseteq Spent'
                  /\ task'[t].op # "send"
        PROVE  SkipInv'
    <2>1. \A u \in Tasks : LinesKept(u)
      <3>1. SUFFICES ASSUME NEW u \in Tasks PROVE LinesKept(u)
        OBVIOUS
      <3>2. CASE u = t
        BY <1>1, <1>3, <3>2, LinesStay
      <3>3. CASE u # t
        BY <1>1, <1>3, <3>3, LinesStay DEF Procs
      <3>4. QED
        BY <3>2, <3>3
    <2>2. QED
      BY <1>1, <1>3, <2>1, SkipFrame
  <1>4. CASE Inner(t)
    BY <1>3, <1>4, InnerStep DEF Step, Alike, Spent
  <1>5. CASE ConvoRecord(t)
    BY <1>5, SkipRecord
  <1>6. CASE BlankEntered(t)
    <2>1. Carding(t, mem.ws, task'[t])
      BY <1>1, <1>2, <1>6, PushStep DEF BlankEntered
    <2>2. QED
      BY <1>3, <1>6, <2>1 DEF BlankEntered, Aside, Carding, Spent, Planning
  <1>7. CASE GiveUp(t)
    <2>1. task'[t] = Idle
      BY <1>1, <1>7, OverStep DEF GiveUp, Become
    <2>2. QED
      BY <1>1, <1>2, <1>3, <1>7, <2>1, IdleIs, HandedGrows DEF GiveUp
  <1>8. CASE \E n \in Names : Planned(t, n)
    <2>1. PICK n \in Names : Planned(t, n)
      BY <1>8
    <2>2. QED
      BY <1>1, <1>3, <2>1, PlannedStep DEF Planned, Aside, Step, Alike, Spent
  <1>9. CASE Launched(t)
    <2> DEFINE ws == [db.ws EXCEPT ![task[t].name] = [sess |-> task[t].sess, status |-> "running"]]
    <2>1. task'[t].op # "send" /\ db' = [db EXCEPT !.ws = ws] /\ done' = Handed(t)
      BY <1>9, LaunchedStep DEF Carding, Launched
    <2>2. db'.marker = db.marker /\ db'.convo = db.convo
      BY <1>2, <2>1 DEF Store
    <2>3. QED
      BY <1>1, <1>2, <1>3, <2>1, <2>2, HandedGrows
  <1>10. CASE Injected(t)
    BY <1>10, SkipInjected
  <1>11. CASE InputSent(t)
    <2>1. task'[t] = Idle
      BY <1>1, <1>11, OverStep DEF InputSent, Become
    <2>2. QED
      BY <1>3, <1>11, <2>1, IdleIs DEF InputSent, Aside, Spent, Planning
  <1>12. CASE Ended(t)
    <2>1. /\ task[t].op = "end" /\ task'[t].op # "send" /\ done' = done
          /\ db'.marker = db.marker /\ db'.convo = db.convo
      BY <1>2, <1>12, EndedStep, IdleIs DEF Carding, Ended, Store
    <2>2. QED
      BY <1>3, <2>1 DEF Spent, Planning
  <1>13. CASE ArchiveFails(t)
    <2>1. /\ task[t].op = "end" /\ task'[t].op # "send" /\ done' = done
          /\ db'.marker = db.marker /\ db'.convo = db.convo
      BY <1>2, <1>13, ArchiveFailsStep DEF Carding, ArchiveFails, Store
    <2>2. QED
      BY <1>3, <2>1 DEF Spent, Planning
  <1>14. CASE Rename(t)
    <2>1. task'[t].op # "send" /\ done' = Handed(t) /\ db' = db
      BY <1>1, <1>14, RenameStep DEF Rename, Step, Alike
    <2>2. QED
      BY <1>1, <1>2, <1>3, <2>1, HandedGrows
  <1>15. QED
    BY <1>4, <1>5, <1>6, <1>7, <1>8, <1>9, <1>10, <1>11, <1>12, <1>13, <1>14 DEF Resume, Inner

\* Another conversation is recorded, and the marker left.
LEMMA SkipRecorded ==
  ASSUME TasksOK, db \in Store, NEW t \in Procs, db' = Recorded(t, db.marker),
         db.marker > 0 => "stale" \in past', \A u \in Tasks : task'[u].op = "none"
  PROVE  SkipInv'
  <1>1. db.marker \in 0..MaxLines
    BY DEF Store
  <1>2. Recorded(t, db.marker).marker = db.marker
    BY <1>1, RecordedTyped, Zenon
  <1>3. db'.marker = db.marker
    BY <1>2
  <1>4. CASE db.marker > 0
    BY <1>4 DEF SkipInv
  <1>5. CASE ~(db.marker > 0)
    <2>1. db.marker = 0
      BY <1>1, <1>5, Constants
    <2>2. 1..db'.marker = {}
      BY <1>3, <2>1
    <2>3. QED
      BY <2>2 DEF SkipInv
  <1>6. QED
    BY <1>4, <1>5

\* The server boots: its buttons are at rest.
LEMMA SkipServer ==
  ASSUME TypeInv, SkipInv, Boot \/ Reuse \/ Respawn \/ CannotResume \/ BootRecord \/ Wake
  PROVE  SkipInv'
  <1>1. /\ UpInv /\ \A u \in Tasks : task'[u] = task[u]
        /\ db \in Store /\ TasksOK /\ Status \in Procs
    BY TypeParts, ServerStep DEF DataOK, Procs
  <1>2. CASE done' = done /\ db' = db /\ past \subseteq past'
    <2>1. \A u \in Tasks : LinesKept(u)
      BY <1>1, <1>2, LinesStay DEF Procs
    <2>2. QED
      BY <1>2, <2>1, SkipFrame DEF Spent
  <1>3. CASE BootRecord /\ ~Resumed(Status)
    <2>1. \A u \in Tasks : task'[u].op = "none"
      BY <1>1, <1>3, ServerStep, IdleIs DEF UpInv
    <2>2. /\ db' = Recorded(Status, db.marker)
          /\ db.marker > 0 => "stale" \in past'
      BY <1>1, <1>3 DEF BootRecord, Outdated
    <2>3. QED
      BY <1>1, <2>1, <2>2, SkipRecorded
  <1>4. CASE Boot \/ Reuse \/ Respawn \/ CannotResume \/ Wake \/ (BootRecord /\ Resumed(Status))
    BY <1>2, <1>4 DEF Boot, Reuse, Respawn, CannotResume, Wake, BootRecord
  <1>5. QED
    BY <1>3, <1>4

\* A crash loses what the planners had in hand, and no send comes to its end.
LEMMA SkipCrash ==
  ASSUME TypeInv, SkipInv, NEW machine \in BOOLEAN,
         Crash(machine) \/ \E t \in Tasks : CutShort(t, machine)
  PROVE  SkipInv'
  <1>1. TasksOK /\ DataOK /\ db \in Store /\ done \in Fate
    BY TypeParts DEF DataOK
  <1>2. \A u \in Tasks : task'[u].op = "none"
    <2>1. Dies(machine)
      BY DEF Crash, CutShort
    <2>2. QED
      BY <1>1, <2>1, DiesStep, IdleIs DEF Procs
  <1>3. ASSUME done' = Forsaken, db'.marker = db.marker, db'.convo = db.convo, past \subseteq past'
        PROVE  SkipInv'
    <2>1. Spent' = Covered
      BY <1>1, <1>3, ForsakenIs
    <2>2. \A u \in Tasks : LinesKept(u)
      BY <1>2, <2>1, CoveredIs DEF LinesKept
    <2>3. Spent \subseteq Spent'
      BY <2>1, CoveredIs
    <2>4. QED
      BY <1>3, <2>2, <2>3, SkipFrame
  <1>4. CASE Crash(machine)
    BY <1>3, <1>4 DEF Crash
  <1>5. CASE \E t \in Tasks : CutShort(t, machine)
    <2>1. PICK t \in Tasks : CutShort(t, machine)
      BY <1>5
    <2>2. t \in Procs /\ db' = Recorded(t, db.marker) /\ past \subseteq past'
      BY <2>1 DEF CutShort, Procs
    <2>3. CASE Resumed(t)
      <3>1. db.marker \in 0..MaxLines
        BY <1>1 DEF Store
      <3>2. db'.marker = db.marker /\ db'.convo = db.convo
        <4>1. /\ Recorded(t, db.marker).marker = db.marker
              /\ Recorded(t, db.marker).convo = task[t].sess
          BY <1>1, <2>2, <3>1, RecordedTyped, ZenonT(30)
        <4>2. QED
          BY <2>2, <2>3, <4>1 DEF Resumed
      <3>3. done' = Forsaken
        BY <2>1, <2>3 DEF CutShort
      <3>4. QED
        BY <1>3, <2>2, <3>2, <3>3
    <2>4. CASE ~Resumed(t)
      <3>1. db.marker > 0 => "stale" \in past'
        BY <2>1, <2>4 DEF CutShort, Outdated
      <3>2. QED
        BY <1>1, <1>2, <2>2, <3>1, SkipRecorded
    <2>5. QED
      BY <2>3, <2>4
  <1>6. QED
    BY <1>4, <1>5

\* Every step keeps it.
LEMMA SkipStep ==
  ASSUME TypeInv, SkipInv, [Next]_vars
  PROVE  SkipInv'
  <1>1. TasksOK /\ DataOK /\ db \in Store /\ done \in Fate
    BY TypeParts DEF DataOK
  <1>2. ASSUME UNCHANGED <<task, done>>, db' = db, past \subseteq past'
        PROVE  SkipInv'
    BY <1>2, LinesStay, SkipFrame DEF Procs, Spent
  <1>3. CASE UNCHANGED vars
    BY <1>2, <1>3 DEF vars
  <1>4. CASE \E t \in Procs : Tmux(t)
    <2>1. PICK t \in Procs : Tmux(t)
      BY <1>4
    <2>2. CASE NoRollout(t)
      <3>1. task'[t] = Idle /\ \A u \in Procs \ {t} : task'[u] = task[u]
        BY <1>1, <2>2, OverStep DEF NoRollout
      <3>2. done' = Dropped(t) /\ db' = db /\ past \subseteq past'
        BY <2>2 DEF NoRollout
      <3>3. Spent \subseteq Spent' /\ (Planning(t) => Due(t) \subseteq Spent')
        BY <1>1, <3>2, HandedGrows
      <3>4. \A u \in Tasks : LinesKept(u)
        BY <3>1, <3>2, <3>3, LinesStay, IdleIs DEF Procs
      <3>5. QED
        BY <3>2, <3>3, <3>4, SkipFrame
    <2>3. CASE ~NoRollout(t)
      <3>1. Step(t, {"pc", "sess", "new"}) /\ done' = done /\ db' = db /\ past \subseteq past'
        BY <2>1, <2>3, TmuxStep
      <3>2. \A u \in Procs : LinesKept(u)
        BY <3>1, LinesStay DEF Step, Alike
      <3>3. QED
        BY <3>1, <3>2, SkipFrame DEF Procs, Spent
    <2>4. QED
      BY <2>2, <2>3
  <1>5. CASE \E t \in Procs : Card(t)
    <2>1. PICK t \in Procs : Card(t)
      BY <1>5
    <2>2. /\ task[t].op # "new" /\ task'[t].op # "send" /\ done' = done /\ past' = past
          /\ \A u \in Procs \ {t} : task'[u] = task[u]
          /\ db'.marker = db.marker /\ db'.convo = db.convo
      BY <1>1, <2>1, CardStep DEF Carding, Card, Store
    <2>3. \A u \in Procs : LinesKept(u)
      BY <2>2, LinesStay DEF Planning
    <2>4. QED
      BY <2>2, <2>3, SkipFrame DEF Procs, Spent
  <1>6. CASE \E w \in windows : AgentUp(w) /\ Aside
    <2>1. PICK w \in windows : AgentUp(w) /\ Aside
      BY <1>6
    <2>2. \A u \in Procs : Alike(task[u], task'[u], {"new"})
      BY <1>1, <2>1, AgentUpStep DEF DataOK
    <2>3. done' = done /\ db' = db /\ past' = past
      BY <2>1 DEF AgentUp, Aside
    <2>4. \A u \in Procs : LinesKept(u)
      BY <2>2, <2>3, LinesStay DEF Alike
    <2>5. QED
      BY <2>3, <2>4, SkipFrame DEF Procs, Spent
  <1>7. CASE \E w \in windows : ChildUp(w)
    <2>1. /\ \A u \in Procs : Alike(task[u], task'[u], {"new"})
          /\ done' = done /\ db' = db /\ past \subseteq past'
      BY <1>1, <1>7, ChildUpStep
    <2>2. \A u \in Procs : LinesKept(u)
      BY <2>1, LinesStay DEF Alike
    <2>3. QED
      BY <2>1, <2>2, SkipFrame DEF Procs, Spent
  <1>8. CASE (\E w \in windows : WindowCloses(w)) \/ \E s \in Sessions : Talk(s)
    BY <1>2, <1>8 DEF WindowCloses, Talk
  <1>9. QED
    BY <1>3, <1>4, <1>5, <1>6, <1>7, <1>8, SkipServer, SkipButton, SkipResume, SkipCrash
       DEF Next, Environment

\* At the start the lines the marker is past have been told.
LEMMA SkipStart == Init => SkipInv
  <1> SUFFICES ASSUME Init PROVE SkipInv
    OBVIOUS
  <1>1. done.told = 1..db.marker /\ \A t \in Tasks : task[t].op = "none"
    BY IdleIs DEF Init, Procs
  <1>2. done.told \subseteq Covered
    BY DEF Covered, Spent
  <1>3. QED
    BY <1>1, <1>2 DEF SkipInv

\* A line of the conversation the marker is past was submitted to a running workstream,
\* is in the hands of a planner, or was lost with its planner or where no agent of the
\* workstream ran: send_to's marker, read before it waits and written after, skips no
\* line that was said meanwhile.
THEOREM NothingSkippedAlways == Spec => []NothingSkipped
  <1>1. Init => SkipInv
    BY SkipStart
  <1>2. TypeInv /\ SkipInv /\ [Next]_vars => SkipInv'
    BY SkipStep
  <1>3. SkipInv => NothingSkipped
    BY DEF SkipInv, NothingSkipped, Covered, Spent
  <1>4. QED
    BY <1>1, <1>2, <1>3, TypeAlways, PTL DEF Spec
=============================================================================
