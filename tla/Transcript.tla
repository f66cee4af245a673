------------------------------- MODULE Transcript -------------------------------
(***************************************************************************)
(* What the server reads out of one line of a Claude Code transcript       *)
(* (src/remote_workstreams/transcript.py): its chat entries, and what it   *)
(* does to the session's vitals.                                           *)
(*                                                                         *)
(* A line is a record: its kind, the tool call it is about (0: none), and  *)
(* whether a text in it holds a character that splitlines() takes for the  *)
(* end of a line and JSON does not escape (U+2028, U+2029, U+0085).  Texts *)
(* are left out; an entry is known by its line's number.                   *)
(***************************************************************************)
EXTENDS Naturals, Sequences

(* The kinds of lines that are chat, and the roles of their entries.       *)
ClaudeRoles ==
  [ text     |-> <<"user">>,                  \* a user line with a string
    queue    |-> <<"queued">>,                \* enqueued while a turn runs
    say      |-> <<"assistant">>,
    act      |-> <<"assistant", "activity">>, \* and a tool call, on one line
    call     |-> <<"activity">>,              \* a call of Agent or Task
    apierror |-> <<"assistant">>,             \* isApiErrorMessage
    end      |-> <<"turn_end">>,              \* system/turn_duration
    boundary |-> <<"compact_end">> ]          \* system/compact_boundary

(* Those that are not: "/compact" as typed, the result of a tool call, the *)
(* acknowledgement of a background agent's launch, its notification on a   *)
(* user line or a queue line, the summary a compaction leaves, a           *)
(* subagent's own lines, and everything else.                              *)
ClaudeSilent == {"slash", "result", "ack", "notice", "queuenotice", "summary", "sidechain", "meta"}

(* parse_line().  The two halves of a line that was split are not JSON.    *)
ParseClaude(line, at) ==
  IF line.sep \/ line.kind \notin DOMAIN ClaudeRoles THEN <<>>
  ELSE [i \in DOMAIN ClaudeRoles[line.kind] |-> [role |-> ClaudeRoles[line.kind][i], at |-> <<at, i>>]]

-----------------------------------------------------------------------------
(* SessionVitals: a turn in flight, an error, the agents at work, and the  *)
(* line that last told how full the context is.                            *)

Fresh == [thinking |-> FALSE, error |-> FALSE, agents |-> {}, context |-> 0]

Produced == {"say", "act", "call"}

(* _notification_ids and tool results: the agents a line says are done.    *)
(* The acknowledgement of a launch is a result too, but not the agent's.   *)
Finished(line) == IF line.kind \in {"result", "notice", "queuenotice"} THEN {line.id} ELSE {}

(* Does a turn, or a compaction, run after the line?  WRONG: a compaction  *)
(* ends like a turn does.                                                  *)
ThinkingWithoutBoundary(v, line) ==
  /\ line.kind # "end"
  /\ line.kind \in Produced \cup {"text", "slash", "result", "ack"} \/ v.thinking
ThinkingAfter(v, line) ==
  /\ line.kind \notin {"end", "boundary"}
  /\ line.kind \in Produced \cup {"text", "slash", "result", "ack"} \/ v.thinking

(* _scan()                                                                 *)
ScanClaude(v, line, at) ==
  IF line.sep THEN v
  ELSE [ thinking |-> ThinkingAfter(v, line),
         error    |-> IF line.kind = "apierror" THEN TRUE
                      ELSE v.error /\ line.kind \notin Produced \cup {"text", "slash"},
         agents   |-> (v.agents \ Finished(line)) \cup (IF line.kind = "call" THEN {line.id} ELSE {}),
         context  |-> IF line.kind \in Produced \cup {"boundary"} THEN at ELSE v.context ]
=============================================================================
