-------------------------------- MODULE Rollout --------------------------------
(***************************************************************************)
(* What the server reads out of one line of a Codex rollout                *)
(* (src/remote_workstreams/rollout.py), with Transcript's entries, lines   *)
(* and vitals.  Lines of a child session's rollout tell of an agent.       *)
(***************************************************************************)
EXTENDS Transcript

CodexRoles ==
  [ user_message  |-> <<"user">>,
    agent_message |-> <<"assistant">>,
    function_call |-> <<"activity">>,  \* custom_tool_call too
    task_complete |-> <<"turn_end">> ]

(* session_meta is the first line; an item repeats an agent_message.       *)
CodexSilent == {"session_meta", "task_started", "turn_aborted", "token_count", "error",
                "stream_error", "item"}

ParseCodex(line, at) ==
  IF line.sep \/ line.kind \notin DOMAIN CodexRoles THEN <<>>
  ELSE [i \in DOMAIN CodexRoles[line.kind] |-> [role |-> CodexRoles[line.kind][i], at |-> <<at, i>>]]

(* RolloutVitals._scan and _scan_child: does a task run after the line?    *)
TaskRuns(running, line) ==
  line.kind = "task_started" \/ (running /\ line.kind \notin {"task_complete", "turn_aborted"})

ScanCodex(v, line, at) ==
  IF line.sep THEN v
  ELSE [v EXCEPT !.thinking = TaskRuns(@, line),
                 !.error = \/ line.kind \in {"error", "stream_error"}
                           \/ @ /\ line.kind # "task_started",
                 !.context = IF line.kind = "token_count" THEN at ELSE @]
=============================================================================
