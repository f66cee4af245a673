-------------------------------- MODULE Approvals --------------------------------
(***************************************************************************)
(* A destructive command of a workstream asks the phone: the PreToolUse    *)
(* hook (src/hooks/ask_phone.py) posts it and waits, the server's handler  *)
(* (server/approvals.py, /approvals of server/api.py) shows a card and     *)
(* parks on a future, the phone (web/ui.js) answers over its socket.  Each *)
(* of the three has a time limit of its own, counted here in ticks.        *)
(*                                                                         *)
(* Assumed of the machine: a step of the event loop and a reply to         *)
(* localhost take less than a tick, so time stands still while one is due. *)
(***************************************************************************)
EXTENDS Auth, SequencesExt

CONSTANTS
  Requests,    \* the commands that ask, one hook process each
  ServerWait,  \* Approvals.timeout
  HookWait     \* ask_phone.py's --wait

ASSUME ApprovalsAssumption == ServerWait \in Nat \ {0} /\ HookWait \in Nat /\ HookWait >= ServerWait

VARIABLES
  boot,     \* the run of the server, whose token is in the settings of what it launches
  conn,     \* the phone's socket: "up", "dead" (neither side has noticed) or "down"
  hook,     \* the hook's process
  gate,     \* the handler of its request, and its future
  pending,  \* Approvals.pending
  cards,    \* the cards on the phone
  answers,  \* approval messages the socket's handler has yet to read
  tapped    \* history: what the user chose

asking == <<boot, conn, hook, gate, pending, cards, answers, tapped>>

NoGate == [ pc      |-> "none",
            live    |-> FALSE,   \* notify sends over a socket that is still the phone's
            shown   |-> FALSE,   \* while notify is not back: the card is on the phone
            wait    |-> 0,       \* since notify returned
            verdict |-> "none",  \* the future's result
            slow    |-> FALSE,   \* history: notify took longer than the hook has to spare,
            late    |-> FALSE ]  \* or the verdict came as the time ran out

AskInit ==
  /\ boot = 1 /\ conn = "down"
  /\ hook = [r \in Requests |-> [pc |-> "idle", age |-> 0, result |-> "none"]]
  /\ gate = [r \in Requests |-> NoGate]
  /\ pending = {} /\ cards = {} /\ answers = <<>>
  /\ tapped = [r \in Requests |-> "none"]

Told(r, result) == [hook EXCEPT ![r] = [pc |-> "done", age |-> 0, result |-> result]]

(* What a reply is to the hook: nothing, if it has given up.               *)
Reply(r, result) == hook' = IF hook[r].pc = "posted" THEN Told(r, result) ELSE hook

Closed(r) == gate' = [gate EXCEPT ![r] = [@ EXCEPT !.pc = "closed", !.wait = 0]]

-----------------------------------------------------------------------------
(* The hook posts with the token of the run that launched its workstream.  *)
Ask(r) ==
  /\ scale = "seconds" /\ hook[r].pc = "idle"
  /\ hook' = [hook EXCEPT ![r].pc = "posted"]
  /\ gate' = [gate EXCEPT ![r] = [NoGate EXCEPT !.pc = "notify", !.live = conn # "down"]]
  /\ pending' = pending \cup {r}
  /\ UNCHANGED <<boot, conn, cards, answers, tapped, auth>>

(* It was launched by an earlier run: 403.                                 *)
AskForbidden(r) ==
  /\ scale = "seconds" /\ hook[r].pc = "idle" /\ boot > 1
  /\ hook' = Told(r, "silent")
  /\ UNCHANGED <<boot, conn, gate, pending, cards, answers, tapped, auth>>

(* The card gets to the phone; the send that brought it may still wait.    *)
CardArrives(r) ==
  /\ gate[r].pc = "notify" /\ gate[r].live /\ ~gate[r].shown /\ conn = "up"
  /\ gate' = [gate EXCEPT ![r].shown = TRUE]
  /\ cards' = cards \cup {r}
  /\ UNCHANGED <<boot, conn, hook, pending, answers, tapped, auth>>

(* notify returns: the card was sent, or there was no phone to send it to. *)
(* (WSConnection.send_message swallows what a send raises.)  A future that *)
(* was resolved meanwhile is not waited for.                               *)
Notified(r) ==
  /\ gate[r].pc = "notify"
  /\ gate[r].live /\ conn = "up" => gate[r].shown
  /\ gate' = [gate EXCEPT ![r] =
                 [@ EXCEPT !.pc = IF gate[r].verdict = "none" THEN "waiting" ELSE "set",
                           !.live = FALSE, !.shown = FALSE]]
  /\ UNCHANGED <<boot, conn, hook, pending, cards, answers, tapped, auth>>

(* decide in web/ui.js: the card goes if send() says the socket is open.   *)
Tap(r, verdict) ==
  /\ r \in cards /\ conn # "down"
  /\ cards' = cards \ {r}
  /\ tapped' = [tapped EXCEPT ![r] = verdict]
  /\ answers' = IF conn = "up" THEN Append(answers, [req |-> r, verdict |-> verdict]) ELSE answers
  /\ UNCHANGED <<boot, conn, hook, gate, pending, auth>>

(* The card fades when its minute is over, counted from the ask here, so a *)
(* little too soon after a slow send (after a restart, at some time).      *)
Fade(r) ==
  /\ r \in cards
  /\ hook[r].age >= ServerWait \/ hook[r].pc = "done" \/ gate[r].pc \in {"none", "closed"}
  /\ cards' = cards \ {r}
  /\ UNCHANGED <<boot, conn, hook, gate, pending, answers, tapped, auth>>

(* The handler's time is up.  WRONG: only when the hook's is.              *)
DueWithHook(r) == gate[r].wait >= HookWait
Due(r) == gate[r].wait >= ServerWait

(* The socket's handler reads an answer: resolve.  A request that is not   *)
(* pending, or whose future is done, is left alone; one whose notify has   *)
(* not returned yet is resolved all the same.                              *)
Resolve ==
  /\ answers # <<>>
  /\ LET r == Head(answers).req
         open == r \in pending /\ gate[r].pc \in {"notify", "waiting"} /\ gate[r].verdict = "none" IN
     gate' = IF open
             THEN [gate EXCEPT ![r] = [@ EXCEPT !.pc = IF gate[r].pc = "notify" THEN "notify" ELSE "set",
                                                !.verdict = Head(answers).verdict,
                                                !.late = Due(r)]]
             ELSE gate
  /\ answers' = Tail(answers)
  /\ UNCHANGED <<boot, conn, hook, pending, cards, tapped, auth>>

(* The handler resumes with the verdict, and the hook prints it.           *)
Answered(r) ==
  /\ gate[r].pc = "set"
  /\ Closed(r) /\ pending' = pending \ {r}
  /\ Reply(r, gate[r].verdict)
  /\ UNCHANGED <<boot, conn, cards, answers, tapped, auth>>

(* wait_for's timer cancels the future.  A result that was set in the same *)
(* turn of the loop is lost with it.                                       *)
TimesUp(r) ==
  /\ gate[r].pc \in {"waiting", "set"} /\ Due(r)
  /\ gate' = [gate EXCEPT ![r].pc = "over"]
  /\ UNCHANGED <<boot, conn, hook, pending, cards, answers, tapped, auth>>

(* The handler resumes with TimeoutError: 408, and the hook says nothing.  *)
(* WRONG: it takes no answer for a no; or it leaves the entry.             *)
TakenForNo == "deny"
Silence == "silent"

Left(r) == pending
Popped(r) == pending \ {r}

TimedOut(r) ==
  /\ gate[r].pc = "over"
  /\ Closed(r) /\ pending' = Popped(r)
  /\ Reply(r, Silence)
  /\ UNCHANGED <<boot, conn, cards, answers, tapped, auth>>

HookGivesUp(r) ==
  /\ hook[r].pc = "posted" /\ hook[r].age >= HookWait
  /\ hook' = Told(r, Silence)
  /\ UNCHANGED <<boot, conn, gate, pending, cards, answers, tapped, auth>>

Prompt(r) ==
  \/ gate[r].pc \in {"set", "over"}
  \/ (gate[r].pc = "waiting" /\ Due(r))
  \/ (gate[r].pc = "notify" /\ ~gate[r].live)
  \/ (hook[r].pc = "posted" /\ hook[r].age >= HookWait)

(* A tick older: the send, or the wait.                                    *)
Aged(r) ==
  CASE gate[r].pc = "notify" ->
         [gate[r] EXCEPT !.slow = @ \/ hook[r].age >= HookWait - ServerWait]
    [] gate[r].pc = "waiting" -> [gate[r] EXCEPT !.wait = @ + 1]
    [] OTHER -> gate[r]

SecondsPass ==
  /\ scale = "seconds" /\ \A r \in Requests : ~Prompt(r)
  /\ hook' = [r \in Requests |->
                IF hook[r].pc = "posted" THEN [hook[r] EXCEPT !.age = @ + 1] ELSE hook[r]]
  /\ gate' = [r \in Requests |-> Aged(r)]
  /\ UNCHANGED <<boot, conn, pending, cards, answers, tapped, auth>>

-----------------------------------------------------------------------------
(* The sends of notify fail when their socket is gone.                     *)
SendsFail == gate' = [r \in Requests |-> [gate[r] EXCEPT !.live = FALSE]]

(* The network drops the socket, with the end of what was on its way.      *)
Break ==
  /\ conn = "up" /\ conn' = "dead"
  /\ \E sent \in Prefixes(answers) : answers' = sent
  /\ UNCHANGED <<boot, hook, gate, pending, cards, tapped, auth>>

(* The server has read what arrived, and then notices.                     *)
Detach ==
  /\ conn = "dead" /\ answers = <<>> /\ conn' = "down"
  /\ SendsFail
  /\ UNCHANGED <<boot, hook, pending, cards, answers, tapped, auth>>

(* The phone dials (again) with its token: ready clears its cards, and the *)
(* handler of an older socket stops reading.                               *)
Hello(token) ==
  /\ scale = "seconds" /\ conn # "up" /\ SessionOk(token)
  /\ conn' = "up"
  /\ SendsFail /\ cards' = {} /\ answers' = <<>>
  /\ UNCHANGED <<boot, hook, pending, tapped, auth>>
=============================================================================
