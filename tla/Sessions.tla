-------------------------------- MODULE Sessions --------------------------------
(***************************************************************************)
(* A session writes its transcript and the server reads it while it grows: *)
(* SessionVitals and RolloutVitals for the cards (transcript.py,           *)
(* rollout.py), and the log feed of the workstream whose detail view the   *)
(* phone has open (ConvoRuntime.watch_workstream and _watch), over a       *)
(* socket that comes and goes.                                             *)
(*                                                                         *)
(* real is what the session is in fact doing: the lines it writes follow   *)
(* from it, in the order the modules' comments and the tests in            *)
(* tests/test_transcript.py and tests/test_rollout.py pin.  The readers    *)
(* know the file only.  A line is in the file before its newline is.       *)
(***************************************************************************)
EXTENDS Rollout, SequencesExt, FiniteSets

CONSTANTS
  MaxLines,    \* bound: lines of the session's file and its child's, together
  MaxShown,    \* bound: lines of the file when it is its log that is watched
  MaxDrops,    \* bound: how often the socket breaks
  ReplayLimit  \* _LOG_REPLAY_LIMIT: entries that a watch replays

ASSUME SessionsAssumption ==
  /\ MaxLines \in Nat /\ MaxShown \in Nat /\ MaxDrops \in Nat
  /\ ReplayLimit \in Nat \ {0}

VARIABLES
  engine, \* the session's engine
  reader, \* which of its readers this behaviour is about: they share the file only
  file,   \* the lines of the file
  open,   \* is the last line still without its newline?
  real,   \* the session
  kid,    \* the rollout of a child session of a Codex session
  vitals, \* the card's SessionVitals or RolloutVitals; polled: does run() still poll it?
  watch,  \* the _watch task
  phone,  \* is the detail view open on the phone, and what does it show?
  conn,   \* the socket; "dead": broken, and the server does not know yet
  drops

session == <<file, open, real, kid>>
feed == <<watch, phone, conn, drops>>
vars == <<engine, reader, session, vitals, feed>>

Line(kind, id, sep) == [kind |-> kind, id |-> id, sep |-> sep]

NoKid == [there |-> FALSE, here |-> TRUE, file |-> <<>>, open |-> FALSE, busy |-> FALSE]

NoWatch == [pc |-> "none", off |-> 0, frame |-> <<>>, reset |-> FALSE]

NewWatch == [NoWatch EXCEPT !.pc = "start"]

NewVitals == [off |-> 0, seen |-> Fresh, child |-> FALSE, childoff |-> 0, active |-> FALSE,
              polled |-> TRUE]

Init ==
  /\ engine \in {"claude", "codex"} /\ reader \in {"cards", "log"}
  /\ file = <<>> /\ open = FALSE
  /\ real = [turn |-> "idle", woken |-> FALSE, failed |-> FALSE, agents |-> {}, async |-> {},
             context |-> 0, split |-> FALSE]
  /\ kid = NoKid
  /\ vitals = NewVitals
  /\ watch = NoWatch /\ phone = [open |-> FALSE, log |-> <<>>] /\ conn = "up" /\ drops = 0

-----------------------------------------------------------------------------
(* The session writes.                                                     *)

MostLines == IF reader = "cards" THEN MaxLines ELSE MaxShown

Room == Len(file) + Len(kid.file) < MostLines

At == Len(file) + 1

Write(line, r) ==
  /\ ~open /\ Room
  /\ file' = Append(file, line)
  /\ open' = TRUE
  /\ real' = [r EXCEPT !.split = @ \/ line.sep]
  /\ UNCHANGED <<engine, reader, kid, vitals, feed>>

Newline ==
  /\ open
  /\ open' = FALSE
  /\ UNCHANGED <<engine, reader, file, real, kid, vitals, feed>>

Claude(turns) == engine = "claude" /\ real.turn \in turns

Prompt ==
  /\ Claude({"idle", "busy"})
  /\ \E sep \in BOOLEAN :
       Write(Line("text", 0, sep), [real EXCEPT !.turn = "busy", !.failed = FALSE])

Queue ==
  /\ Claude({"busy"})
  /\ Write(Line("queue", 0, FALSE), real)

Compact ==
  /\ Claude({"idle"})
  /\ Write(Line("slash", 0, FALSE), [real EXCEPT !.turn = "compacting", !.failed = FALSE])

Boundary ==
  /\ Claude({"compacting"})
  /\ Write(Line("boundary", 0, FALSE), [real EXCEPT !.turn = "recap", !.context = At])

Recap ==
  /\ Claude({"recap"})
  /\ Write(Line("summary", 0, FALSE), [real EXCEPT !.turn = "idle"])

(* A turn is the user's, or that of a session a notification has woken.    *)
Produces(r) == [r EXCEPT !.turn = "busy", !.woken = FALSE, !.failed = FALSE, !.context = At]

Produce ==
  /\ Claude(IF real.woken THEN {"idle", "busy"} ELSE {"busy"})
  /\ \E kind \in {"say", "act"}, sep \in BOOLEAN :
       /\ sep => kind = "say"
       /\ Write(Line(kind, 0, sep), Produces(real))

Launch ==
  /\ Claude({"busy"})
  /\ Write(Line("call", At, FALSE), [Produces(real) EXCEPT !.agents = @ \cup {At}])

Result ==
  /\ Claude({"busy"})
  /\ \E id \in real.agents \ real.async :
       \/ Write(Line("result", id, FALSE), [real EXCEPT !.agents = @ \ {id}])
       \/ Write(Line("ack", id, FALSE), [real EXCEPT !.async = @ \cup {id}])

Notify ==
  /\ Claude({"idle", "busy"})
  /\ \E id \in real.async :
       Write(Line(IF real.turn = "idle" THEN "notice" ELSE "queuenotice", id, FALSE),
             [real EXCEPT !.agents = @ \ {id}, !.async = @ \ {id},
                          !.woken = @ \/ real.turn = "idle"])

ApiError ==
  /\ Claude({"busy"})
  /\ Write(Line("apierror", 0, FALSE), [real EXCEPT !.failed = TRUE])

EndTurn ==
  /\ Claude({"busy"}) /\ real.agents \subseteq real.async
  /\ Write(Line("end", 0, FALSE), [real EXCEPT !.turn = "idle"])

Aside ==
  /\ engine = "claude"
  /\ \E kind \in {"meta", "sidechain"} :
       /\ kind = "sidechain" => real.agents # {}
       /\ Write(Line(kind, 0, FALSE), real)

Codex(turns) == engine = "codex" /\ real.turn \in turns /\ file # <<>>

Meta ==
  /\ engine = "codex" /\ file = <<>>
  /\ Write(Line("session_meta", 0, FALSE), real)

TaskStarted ==
  /\ Codex({"idle"})
  /\ Write(Line("task_started", 0, FALSE), [real EXCEPT !.turn = "busy", !.failed = FALSE])

TaskLine ==
  /\ Codex({"busy"})
  /\ \E kind \in {"user_message", "agent_message", "function_call", "item"}, sep \in BOOLEAN :
       /\ sep => kind = "agent_message"
       /\ Write(Line(kind, 0, sep), real)

TokenCount ==
  /\ Codex({"busy"})
  /\ Write(Line("token_count", 0, FALSE), [real EXCEPT !.context = At])

TaskError ==
  /\ Codex({"busy"})
  /\ \E kind \in {"error", "stream_error"} :
       Write(Line(kind, 0, FALSE), [real EXCEPT !.failed = TRUE])

TaskOver ==
  /\ Codex({"busy"})
  /\ \E kind \in {"task_complete", "turn_aborted"} :
       Write(Line(kind, 0, FALSE), [real EXCEPT !.turn = "idle"])

(* A child session, in the same day's directory or another's; it comes to  *)
(* an end, and its rollout is archived.                                    *)
KidWrites(kind, k) ==
  /\ reader = "cards" /\ Room
  /\ kid' = [k EXCEPT !.file = Append(@, Line(kind, 0, FALSE)), !.open = TRUE]
  /\ UNCHANGED <<engine, reader, file, open, real, vitals, feed>>

KidStarts ==
  /\ Codex({"busy"}) /\ kid.file = <<>>
  /\ \E here \in BOOLEAN : KidWrites("session_meta", [kid EXCEPT !.there = TRUE, !.here = here])

KidRuns ==
  /\ kid.there /\ ~kid.open
  /\ \/ ~kid.busy /\ KidWrites("task_started", [kid EXCEPT !.busy = TRUE])
     \/ kid.busy /\ \E kind \in {"task_complete", "turn_aborted"} :
                       KidWrites(kind, [kid EXCEPT !.busy = FALSE])

KidNewline ==
  /\ kid.open
  /\ kid' = [kid EXCEPT !.open = FALSE]
  /\ UNCHANGED <<engine, reader, file, open, real, vitals, feed>>

KidArchived ==
  /\ kid.there /\ ~kid.busy /\ ~kid.open
  /\ kid' = [NoKid EXCEPT !.file = kid.file]
  /\ UNCHANGED <<engine, reader, file, open, real, vitals, feed>>

-----------------------------------------------------------------------------
(* The server reads.                                                       *)

(* read_complete_lines() from line off on.  WRONG: a line without its      *)
(* newline counts.                                                         *)
CountPartial(lines, partial) == Len(lines)
Complete(lines, partial) == IF partial THEN Len(lines) - 1 ELSE Len(lines)

Parse(eng, line, at) == IF eng = "codex" THEN ParseCodex(line, at) ELSE ParseClaude(line, at)

(* The end of a turn or of a compaction, which is its line's only entry,   *)
(* is not log (entry_log).                                                 *)
Logged(entries) ==
  IF \E i \in DOMAIN entries : entries[i].role \in {"turn_end", "compact_end"} THEN <<>> ELSE entries

LogLine(eng, log, line, at) == log \o Logged(Parse(eng, line, at))

(* TranscriptTail.read_new(), as the log has it, from line off on.         *)
Entries(eng, lines, off, end) ==
  LET upto[i \in off..end] == IF i = off THEN <<>> ELSE LogLine(eng, upto[i - 1], lines[i], i)
  IN upto[end]

ScanLine(eng, v, line, at) == IF eng = "codex" THEN ScanCodex(v, line, at) ELSE ScanClaude(v, line, at)

Scan(eng, lines, seen, off, end) ==
  LET upto[i \in off..end] == IF i = off THEN seen ELSE ScanLine(eng, upto[i - 1], lines[i], i)
  IN upto[end]

TasksRun(lines, running, off, end) ==
  LET upto[i \in off..end] == IF i = off THEN running ELSE TaskRuns(upto[i - 1], lines[i])
  IN upto[end]

(* _refresh_children, once the session's own first line is there.  A child *)
(* is told by its first line, and looked for in the session's directory.   *)
(* WRONG: a child whose rollout is gone is not forgotten.                  *)
KeepKid(v) == [v EXCEPT !.child = @]
ForgetKid(v) == [v EXCEPT !.child = FALSE, !.childoff = 0, !.active = FALSE]

Children(v) ==
  LET end == Complete(kid.file, kid.open)
  IN CASE engine = "claude" \/ Complete(file, open) = 0 -> v
       [] ~kid.there -> ForgetKid(v)
       [] ~v.child /\ (~kid.here \/ end = 0) -> v
       [] OTHER -> [v EXCEPT !.child = TRUE, !.childoff = end,
                             !.active = TasksRun(kid.file, @, v.childoff, end)]

(* refresh(), before a card is pushed: run() pushes all of them at every   *)
(* interval, and so does each button that has changed one.                 *)
Refresh ==
  /\ reader = "cards"
  /\ LET end == Complete(file, open)
     IN vitals' = Children([vitals EXCEPT !.off = end, !.seen = Scan(engine, file, @, vitals.off, end)])
  /\ UNCHANGED <<engine, reader, session, feed>>

(* push_cards() awaits tmux at every workstream while it iterates over the *)
(* dictionary: one that is added or removed meanwhile raises, and run() is *)
(* over.                                                                   *)
RunDies ==
  /\ reader = "cards" /\ vitals.polled
  /\ vitals' = [vitals EXCEPT !.polled = FALSE]
  /\ UNCHANGED <<engine, reader, session, feed>>

(* The server restarts: the manager makes every card's vitals anew, run()  *)
(* is started.  (To a log's watch a restart is a socket that breaks.)      *)
Restart ==
  /\ reader = "cards"
  /\ vitals' = NewVitals
  /\ UNCHANGED <<engine, reader, session, feed>>

Feed == reader = "log" /\ UNCHANGED <<engine, reader, session, vitals>>

(* _watch: the log's end first, which replaces what the phone had, then    *)
(* what is new at each poll.  WRONG: the replay is added to it.            *)
AddReplay == FALSE
ReplayResets == TRUE

Replay ==
  /\ Feed /\ watch.pc = "start"
  /\ LET end     == Complete(file, open)
         entries == Entries(engine, file, 0, end)
         from    == IF Len(entries) > ReplayLimit THEN Len(entries) - ReplayLimit + 1 ELSE 1
     IN watch' = [pc |-> "push", off |-> end, frame |-> SubSeq(entries, from, Len(entries)),
                  reset |-> ReplayResets]
  /\ UNCHANGED <<phone, conn, drops>>

(* WRONG: the feed is over when there is nothing new.                      *)
Stops == "none"
PollsOn == "sleep"

Poll ==
  /\ Feed /\ watch.pc = "sleep" /\ watch.off < Complete(file, open)
  /\ LET end == Complete(file, open)
         new == Entries(engine, file, watch.off, end)
     IN watch' = [pc |-> IF new = <<>> THEN PollsOn ELSE "push", off |-> end, frame |-> new,
                  reset |-> FALSE]
  /\ UNCHANGED <<phone, conn, drops>>

(* The frame is sent; a socket that broke swallows it.                     *)
Push ==
  /\ Feed /\ watch.pc = "push"
  /\ watch' = [watch EXCEPT !.pc = "sleep", !.frame = <<>>, !.reset = FALSE]
  /\ phone' = IF conn # "up" THEN phone
              ELSE [phone EXCEPT !.log = (IF watch.reset THEN <<>> ELSE @) \o watch.frame]
  /\ UNCHANGED <<conn, drops>>

(* watch_workstream: the task that was watching is cancelled, wherever it  *)
(* is.  The phone asks when its detail view opens and closes, and again    *)
(* over every new socket while it is open.                                 *)
OpenView ==
  /\ Feed /\ ~phone.open
  /\ phone' = [phone EXCEPT !.open = TRUE]
  /\ watch' = IF conn = "up" THEN NewWatch ELSE watch
  /\ UNCHANGED <<conn, drops>>

CloseView ==
  /\ Feed /\ phone.open
  /\ phone' = [phone EXCEPT !.open = FALSE]
  /\ watch' = IF conn = "up" THEN NoWatch ELSE watch
  /\ UNCHANGED <<conn, drops>>

Break ==
  /\ Feed /\ conn = "up" /\ drops < MaxDrops
  /\ conn' = "dead" /\ drops' = drops + 1
  /\ UNCHANGED <<watch, phone>>

(* _teardown, when the server notices or another socket takes over.        *)
Detach ==
  /\ Feed /\ conn = "dead"
  /\ conn' = "down"
  /\ watch' = NoWatch
  /\ UNCHANGED <<phone, drops>>

Reconnect ==
  /\ Feed /\ conn = "down"
  /\ conn' = "up"
  /\ watch' = IF phone.open THEN NewWatch ELSE watch
  /\ UNCHANGED <<phone, drops>>

-----------------------------------------------------------------------------
Next ==
  \/ Newline \/ Prompt \/ Queue \/ Compact \/ Boundary \/ Recap \/ Produce \/ Launch \/ Result
  \/ Notify \/ ApiError \/ EndTurn \/ Aside
  \/ Meta \/ TaskStarted \/ TaskLine \/ TokenCount \/ TaskError \/ TaskOver
  \/ KidStarts \/ KidRuns \/ KidNewline \/ KidArchived
  \/ Refresh \/ RunDies \/ Restart
  \/ Replay \/ Poll \/ Push \/ OpenView \/ CloseView \/ Break \/ Detach \/ Reconnect

(* The event loop runs the watch task, and the manager's run() for as long *)
(* as it is not over; the phone redials, and the server notices a broken   *)
(* socket in the end.  Nothing brings run() back: no fairness for Restart. *)
Fairness == /\ WF_vars(vitals.polled /\ Refresh)
            /\ WF_vars(Replay) /\ WF_vars(Poll) /\ WF_vars(Push)
            /\ WF_vars(Detach) /\ WF_vars(Reconnect)

Spec == Init /\ [][Next]_vars /\ Fairness

-----------------------------------------------------------------------------
(* Properties.                                                             *)

(* The lines that are there with their newlines.                           *)
Whole == Len(file) - (IF open THEN 1 ELSE 0)

LineKinds == DOMAIN ClaudeRoles \cup ClaudeSilent \cup DOMAIN CodexRoles \cup CodexSilent

(* Every variable keeps its shape: the readers never run past the file,    *)
(* and every line written is one the parsers know of.                      *)
TypeOK ==
  /\ engine \in {"claude", "codex"} /\ reader \in {"cards", "log"}
  /\ Len(file) + Len(kid.file) <= MostLines
  /\ \A i \in DOMAIN file : file[i].kind \in LineKinds /\ file[i].id < Len(file) + 1
  /\ open \in BOOLEAN /\ kid.open \in BOOLEAN
  /\ real.turn \in {"idle", "busy", "compacting", "recap"}
  /\ vitals.off \in 0..Whole /\ vitals.childoff \in 0..Len(kid.file)
  /\ vitals.seen.context \in 0..vitals.off /\ vitals.polled \in BOOLEAN
  /\ watch.pc \in {"none", "start", "push", "sleep"} /\ watch.off \in 0..Whole
  /\ conn \in {"up", "dead", "down"} /\ drops \in 0..MaxDrops

Agents == IF engine = "codex" THEN (IF vitals.active THEN 1 ELSE 0) ELSE Cardinality(vitals.seen.agents)

AgentsAtWork == IF engine = "codex" THEN (IF kid.busy THEN 1 ELSE 0) ELSE Cardinality(real.agents)

CaughtUp == /\ ~open /\ vitals.off = Len(file)
            /\ kid.there => ~kid.open /\ vitals.child /\ vitals.childoff = Len(kid.file)
            /\ ~kid.there => ~vitals.child

Told ==
  /\ vitals.seen.thinking = (real.turn \in {"busy", "compacting"})
  /\ vitals.seen.error = real.failed
  /\ vitals.seen.context = real.context
  /\ Agents = AgentsAtWork

(* A card whose reader has read the whole file says what the session is in *)
(* fact doing, in whatever portions it was read: a compaction and a turn   *)
(* that was stopped end, an error holds until the session works again,     *)
(* background agents count until they report.  (A line that splitlines()   *)
(* breaks is lost, and a child of another day's directory is never seen.)  *)
VitalsAreTrue == CaughtUp /\ ~real.split => Told

(* While run() polls, the card comes to say what the session is doing, from *)
(* any state on: after a restart that reads the whole file anew, and of an  *)
(* agent whose rollout was archived.  It need not once run() has died       *)
(* (RunDies), while a line is without its newline, when splitlines() broke  *)
(* a line, or for a child of another day's directory.                       *)
CardsCatchUp ==
  [](reader = "cards" =>
       <>(~vitals.polled \/ open \/ kid.open \/ real.split \/ ~kid.here \/ Told))

(* The log, as the session means it: the entries of all its whole lines.   *)
Log == Entries(engine, file, 0, Whole)

(* What the phone's detail view shows is a stretch of the log, however the *)
(* replay, the polls and broken sockets fall: LogFeed is implemented.      *)
Shown == INSTANCE LogFeed WITH log <- Log, view <- phone.log
FeedIsFaithful == Shown!Spec

ShowsLatest == Log # <<>> => phone.log # <<>> /\ Last(phone.log) = Last(Log)

(* An open detail view over a socket that holds shows the end of the log.  *)
FeedCatchesUp == [](reader = "log" => <>(~phone.open \/ conn # "up" \/ ShowsLatest))
=============================================================================
