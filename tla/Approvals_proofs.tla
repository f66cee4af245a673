----------------------------- MODULE Approvals_proofs -----------------------------
(***************************************************************************)
(* Proofs about the approvals of Phone, for every set of requests, every   *)
(* pair of time limits and every bound: that a verdict the server took     *)
(* reaches the hook, and that the whole of Phone implements Verdict.       *)
(***************************************************************************)
EXTENDS Phone_proofs

-----------------------------------------------------------------------------
(* The inductive invariants.                                               *)

(* While a handler can still take or tell a verdict, its hook has been     *)
(* waiting no longer than the handler, but for the time a fast notify took.*)
InStep(r) ==
  \/ /\ hook[r].pc = "posted"
     /\ hook[r].age <= (HookWait - ServerWait) + gate[r].wait
  \/ hook[r].pc = "done" /\ gate[r].wait >= ServerWait

ToldOf(r) ==
  /\ hook[r].pc = "idle" => hook[r].age = 0
  /\ gate[r].pc \in {"none", "waiting"} => gate[r].verdict = "none"
  /\ gate[r].pc = "notify" => gate[r].wait = 0
  /\ gate[r].pc \in {"notify", "waiting", "set"} /\ ~gate[r].slow => InStep(r)
  /\ gate[r].pc = "set" /\ ~gate[r].late => gate[r].wait < ServerWait
  /\ gate[r].pc = "over" /\ gate[r].verdict # "none" => gate[r].late
  /\ gate[r].pc = "closed" /\ gate[r].verdict # "none" =>
       gate[r].slow \/ gate[r].late \/ hook[r].result = gate[r].verdict

ToldInv == \A r \in Requests : ToldOf(r)

(* What is on its way from the phone is what the user chose, once.         *)
Faithful(r) ==
  /\ hook[r].pc \in {"idle", "posted"} => hook[r].result = "none"
  /\ hook[r].pc = "done" => hook[r].result # "none"
  /\ hook[r].pc = "idle" => gate[r].pc = "none" /\ tapped[r] = "none"
  /\ gate[r].pc = "notify" /\ ~gate[r].shown => tapped[r] = "none" /\ r \notin cards
  /\ gate[r].verdict # "none" => gate[r].verdict = tapped[r]
  /\ gate[r].pc = "set" => gate[r].verdict # "none"

VerdictInv ==
  /\ \A r \in Requests : Faithful(r)
  /\ \A r \in cards : tapped[r] = "none" /\ hook[r].pc # "idle"
  /\ \A i \in DOMAIN answers : tapped[answers[i].req] = answers[i].verdict

-----------------------------------------------------------------------------
(* What is told is what was said.                                          *)

\* The steps of pairing and login, the clock's among them, touch no approval.
LEMMA AskingSteps ==
  ASSUME [Next]_vars
  PROVE  \/ UNCHANGED asking
         \/ \E r \in Requests :
              \/ Ask(r) \/ AskForbidden(r) \/ CardArrives(r) \/ Notified(r)
              \/ \E verdict \in Verdicts : Tap(r, verdict)
              \/ Fade(r) \/ Answered(r) \/ TimesUp(r) \/ TimedOut(r) \/ HookGivesUp(r)
         \/ Resolve \/ SecondsPass \/ Break \/ Detach
         \/ (\E s \in sessions : Hello(s.token)) \/ Restart
  BY DEF Next, vars, Verdicts

\* An answer on its way is somebody's.
LEMMA AnswerTypes ==
  ASSUME AskTypes
  PROVE  /\ Len(answers) \in Nat /\ DOMAIN answers = 1..Len(answers)
         /\ \A i \in 1..Len(answers) : answers[i].req \in Requests /\ answers[i].verdict \in Verdicts
  <1>1. Len(answers) \in Nat /\ DOMAIN answers = 1..Len(answers) /\ answers \in Seq(Answer)
    BY LenProperties DEF AskTypes
  <1>2. \A i \in 1..Len(answers) : answers[i] \in Answer
    BY <1>1, ElementOfSeq
  <1>3. QED
    BY <1>1, <1>2 DEF Answer

\* The answer the server reads next is one of them.
LEMMA HeadAnswer ==
  ASSUME AskTypes, answers # <<>>
  PROVE  /\ Len(answers) \in Nat \ {0} /\ Head(answers) = answers[1]
         /\ Head(answers).req \in Requests /\ Head(answers).verdict \in Verdicts
  <1>1. Len(answers) \in Nat \ {0} /\ Head(answers) = answers[1]
    BY EmptySeq DEF AskTypes
  <1>2. QED
    BY <1>1, AnswerTypes

\* A step that taps no card, reads no answer, and is about one request.
LEMMA FaithfulStep ==
  ASSUME AskTypes, VerdictInv, NEW r \in Requests,
         \A q \in Requests \ {r} : UNCHANGED <<hook[q], gate[q]>>,
         Faithful(r)', UNCHANGED <<tapped, answers>>, cards' \subseteq cards,
         hook[r].pc # "idle" => hook'[r].pc # "idle"
  PROVE  VerdictInv'
  <1>1. \A q \in Requests : Faithful(q)'
    <2>1. \A q \in Requests \ {r} : Faithful(q)'
      BY DEF VerdictInv, Faithful
    <2>2. QED
      BY <2>1
  <1>2. \A q \in cards' : tapped'[q] = "none" /\ hook'[q].pc # "idle"
    BY DEF VerdictInv, AskTypes
  <1>3. QED
    BY <1>1, <1>2 DEF VerdictInv

\* What a hook is told once it waits, or has been told.
LEMMA ReplyFaithful ==
  ASSUME AskTypes, VerdictInv, NEW r \in Requests, NEW result \in {"silent"} \cup Verdicts,
         hook[r].pc # "idle", Reply(r, result), Closed(r) \/ UNCHANGED gate,
         gate[r].pc = "notify" => UNCHANGED cards, cards' \subseteq cards, UNCHANGED <<tapped, answers>>
  PROVE  VerdictInv'
  <1>1. /\ hook' = IF hook[r].pc = "posted"
                   THEN [hook EXCEPT ![r] = [pc |-> "done", age |-> 0, result |-> result]] ELSE hook
        /\ gate' = gate \/ gate' = [gate EXCEPT ![r] = [gate[r] EXCEPT !.pc = "closed", !.wait = 0]]
    BY DEF Reply, Told, Closed
  <1>2. \A q \in Requests \ {r} : UNCHANGED <<hook[q], gate[q]>>
    BY <1>1 DEF AskTypes
  <1>3. /\ hook'[r].pc = "done" /\ hook'[r].result # "none"
        /\ gate'[r].verdict = gate[r].verdict /\ gate'[r].pc \in {gate[r].pc, "closed"}
        /\ gate'[r].shown = gate[r].shown
    <2>1. hook[r] \in Hook /\ gate[r] \in Gate /\ Faithful(r)
      BY DEF AskTypes, VerdictInv
    <2>2. hook'[r].pc = "done" /\ hook'[r].result # "none"
      BY <1>1, <2>1 DEF AskTypes, Hook, Faithful, Verdicts
    <2>3. gate'[r] = gate[r] \/ gate'[r] = [gate[r] EXCEPT !.pc = "closed", !.wait = 0]
      BY <1>1 DEF AskTypes
    <2>4. /\ gate'[r].verdict = gate[r].verdict /\ gate'[r].pc \in {gate[r].pc, "closed"}
          /\ gate'[r].shown = gate[r].shown
      BY <2>1, <2>3 DEF Gate
    <2>5. QED
      BY <2>2, <2>4
  <1>4. Faithful(r)'
    BY <1>3 DEF VerdictInv, Faithful
  <1>5. QED
    BY <1>2, <1>3, <1>4, FaithfulStep

\* VerdictInv is inductive.
LEMMA VerdictStep == Types /\ VerdictInv /\ [Next]_vars => VerdictInv'
  <1> SUFFICES ASSUME Types, VerdictInv, [Next]_vars PROVE VerdictInv'
    OBVIOUS
  <1>0. AskTypes /\ \A r \in Requests : Faithful(r) /\ hook[r] \in Hook /\ gate[r] \in Gate
    BY DEF Types, AskTypes, VerdictInv
  <1>1. ASSUME NEW r \in Requests, Ask(r) PROVE VerdictInv'
    <2>1. /\ hook'[r] = [hook[r] EXCEPT !.pc = "posted"]
          /\ gate'[r] = [NoGate EXCEPT !.pc = "notify", !.live = conn # "down"]
          /\ \A q \in Requests \ {r} : UNCHANGED <<hook[q], gate[q]>>
          /\ UNCHANGED <<tapped, answers, cards>> /\ hook[r].pc = "idle"
      BY <1>0, <1>1 DEF Ask, AskTypes
    <2>2. /\ hook'[r].pc = "posted" /\ hook'[r].result = hook[r].result
          /\ gate'[r].pc = "notify" /\ gate'[r].verdict = "none"
      BY <1>0, <2>1 DEF Hook, NoGate
    <2>3. tapped[r] = "none" /\ r \notin cards /\ hook[r].result = "none"
      BY <1>0, <2>1 DEF Faithful, VerdictInv
    <2>4. Faithful(r)'
      BY <2>1, <2>2, <2>3 DEF Faithful
    <2>5. QED
      BY <1>0, <2>1, <2>2, <2>4, FaithfulStep
  <1>2. ASSUME NEW r \in Requests, AskForbidden(r) PROVE VerdictInv'
    <2>1. hook' = [hook EXCEPT ![r] = [pc |-> "done", age |-> 0, result |-> "silent"]]
          /\ UNCHANGED <<gate, tapped, answers, cards>>
      BY <1>2 DEF AskForbidden, Told
    <2>2. hook'[r].pc = "done" /\ hook'[r].result = "silent"
          /\ \A q \in Requests \ {r} : UNCHANGED <<hook[q], gate[q]>>
      BY <1>0, <2>1 DEF AskTypes
    <2>3. Faithful(r)'
      BY <1>0, <2>1, <2>2 DEF Faithful
    <2>4. QED
      BY <1>0, <2>1, <2>2, <2>3, FaithfulStep
  <1>3. ASSUME NEW r \in Requests, Notified(r) PROVE VerdictInv'
    <2>1. /\ gate[r].pc = "notify" /\ UNCHANGED <<hook, tapped, answers, cards>>
          /\ gate'[r] = [gate[r] EXCEPT !.pc = IF gate[r].verdict = "none" THEN "waiting" ELSE "set",
                                        !.live = FALSE, !.shown = FALSE]
          /\ \A q \in Requests \ {r} : gate'[q] = gate[q]
      BY <1>0, <1>3 DEF Notified, AskTypes
    <2>2. /\ gate'[r].pc = IF gate[r].verdict = "none" THEN "waiting" ELSE "set"
          /\ gate'[r].verdict = gate[r].verdict
      BY <1>0, <2>1 DEF Gate
    <2>3. hook[r].pc # "idle"
      BY <1>0, <2>1 DEF Faithful
    <2>4. Faithful(r)'
      BY <1>0, <2>1, <2>2, <2>3 DEF Faithful
    <2>5. QED
      BY <1>0, <2>1, <2>4, FaithfulStep
  <1>3a. ASSUME NEW r \in Requests, CardArrives(r) PROVE VerdictInv'
    <2>1. /\ gate[r].pc = "notify" /\ ~gate[r].shown /\ UNCHANGED <<hook, tapped, answers>>
          /\ gate'[r] = [gate[r] EXCEPT !.shown = TRUE]
          /\ \A q \in Requests \ {r} : gate'[q] = gate[q]
          /\ cards' = cards \cup {r}
      BY <1>0, <1>3a DEF CardArrives, AskTypes
    <2>2. gate'[r].pc = "notify" /\ gate'[r].verdict = gate[r].verdict /\ gate'[r].shown
      BY <1>0, <2>1 DEF Gate
    <2>3. tapped[r] = "none" /\ hook[r].pc # "idle"
      BY <1>0, <2>1 DEF Faithful
    <2>4. Faithful(r)'
      BY <1>0, <2>1, <2>2, <2>3 DEF Faithful
    <2>5. \A q \in Requests \ {r} : Faithful(q)'
      BY <1>0, <2>1 DEF Faithful
    <2>6. QED
      BY <2>1, <2>3, <2>4, <2>5 DEF VerdictInv
  <1>4. ASSUME NEW r \in Requests, NEW verdict \in Verdicts, Tap(r, verdict) PROVE VerdictInv'
    <2>1. /\ r \in cards /\ cards' = cards \ {r} /\ UNCHANGED <<hook, gate>>
          /\ tapped'[r] = verdict /\ \A q \in Requests \ {r} : tapped'[q] = tapped[q]
          /\ answers' = Append(answers, [req |-> r, verdict |-> verdict]) \/ answers' = answers
      BY <1>0, <1>4 DEF Tap, AskTypes
    <2>2. tapped[r] = "none" /\ hook[r].pc # "idle"
      BY <2>1 DEF VerdictInv
    <2>3. gate[r].verdict = "none" /\ (gate[r].pc = "notify" => gate[r].shown) /\ gate[r].pc # "set"
      BY <1>0, <2>1, <2>2 DEF Faithful
    <2>4. \A q \in Requests : Faithful(q)'
      <3>1. Faithful(r)'
        BY <1>0, <2>1, <2>2, <2>3 DEF Faithful
      <3>2. \A q \in Requests \ {r} : Faithful(q)'
        BY <1>0, <2>1 DEF Faithful
      <3>3. QED
        BY <3>1, <3>2
    <2>5. \A q \in cards' : tapped'[q] = "none" /\ hook'[q].pc # "idle"
      BY <1>0, <2>1 DEF VerdictInv, AskTypes
    <2>6. \A i \in 1..Len(answers) : answers[i].req # r /\ tapped'[answers[i].req] = answers[i].verdict
      <3> SUFFICES ASSUME NEW i \in 1..Len(answers)
                   PROVE  answers[i].req # r /\ tapped'[answers[i].req] = answers[i].verdict
        OBVIOUS
      <3>1. /\ answers[i].req \in Requests /\ answers[i].verdict \in Verdicts
            /\ tapped[answers[i].req] = answers[i].verdict
        BY <1>0, AnswerTypes DEF VerdictInv
      <3>2. QED
        BY <2>1, <2>2, <3>1 DEF Verdicts
    <2>7. \A i \in DOMAIN answers' : tapped'[answers'[i].req] = answers'[i].verdict
      <3> DEFINE a == [req |-> r, verdict |-> verdict]
      <3>1. CASE answers' = Append(answers, a)
        <4>1. answers \in Seq(Answer) /\ a \in Answer
          BY <1>0 DEF AskTypes, Answer
        <4>2. /\ answers' \in Seq(Answer) /\ Len(answers') = Len(answers) + 1
              /\ answers'[Len(answers) + 1] = a
              /\ \A i \in 1..Len(answers) : answers'[i] = answers[i]
          BY <3>1, <4>1, AppendProperties
        <4>3. DOMAIN answers' = 1..(Len(answers) + 1) /\ Len(answers) \in Nat
          BY <1>0, <4>2, LenProperties, AnswerTypes
        <4>4. \A i \in DOMAIN answers' : i \in 1..Len(answers) \/ i = Len(answers) + 1
          BY <4>3
        <4>5. QED
          BY <2>1, <2>6, <4>2, <4>4
      <3>2. CASE answers' = answers
        BY <1>0, <2>6, <3>2, AnswerTypes
      <3>3. QED
        BY <2>1, <3>1, <3>2
    <2>8. QED
      BY <2>4, <2>5, <2>7 DEF VerdictInv
  <1>5. ASSUME NEW r \in Requests, Fade(r) PROVE VerdictInv'
    <2>1. UNCHANGED <<hook, gate, tapped, answers>> /\ cards' \subseteq cards
      BY <1>5 DEF Fade
    <2>2. QED
      BY <2>1 DEF VerdictInv, Faithful
  <1>6. CASE Resolve
    <2> DEFINE r == Head(answers).req
               v == Head(answers).verdict
               pc == IF gate[r].pc = "notify" THEN "notify" ELSE "set"
    <2>1. /\ answers # <<>> /\ UNCHANGED <<hook, tapped, cards>> /\ answers' = Tail(answers)
          /\ \/ gate' = gate
             \/ gate' = [gate EXCEPT ![r] = [gate[r] EXCEPT !.pc = pc, !.verdict = v, !.late = Due(r)]]
                  /\ gate[r].pc \in {"notify", "waiting"}
      BY <1>6 DEF Resolve
    <2>2. /\ Len(answers) \in Nat \ {0} /\ Head(answers) = answers[1]
          /\ r \in Requests /\ v \in Verdicts
      BY <1>0, <2>1, HeadAnswer
    <2>3. r \in Requests /\ v \in Verdicts /\ tapped[r] = v
      BY <1>0, <2>2, AnswerTypes DEF VerdictInv
    <2>4. \A i \in DOMAIN answers' : tapped[answers'[i].req] = answers'[i].verdict
      <3>1. /\ answers' \in Seq(Answer) /\ Len(answers') = Len(answers) - 1
            /\ \A i \in 1..Len(answers') : answers'[i] = answers[i + 1]
        BY <1>0, <2>1, HeadTailProperties DEF AskTypes
      <3>2. DOMAIN answers' = 1..Len(answers') /\ \A i \in 1..Len(answers') : i + 1 \in 1..Len(answers)
        BY <2>2, <3>1, LenProperties
      <3>3. \A i \in 1..Len(answers) : tapped[answers[i].req] = answers[i].verdict
        BY <1>0, AnswerTypes DEF VerdictInv
      <3>4. QED
        BY <3>1, <3>2, <3>3
    <2>5. Due(r) \in BOOLEAN /\ pc = (IF gate[r].pc = "notify" THEN "notify" ELSE "set")
      BY DEF Due
    <2> HIDE DEF r, v, pc
    <2>6. ASSUME gate' # gate, NEW q \in Requests PROVE Faithful(q)'
      <3>1. gate'[r] = [gate[r] EXCEPT !.pc = pc, !.verdict = v, !.late = Due(r)]
              /\ \A p \in Requests \ {r} : gate'[p] = gate[p]
        BY <1>0, <2>1, <2>3, <2>6 DEF AskTypes
      <3>2. /\ gate'[r].pc = pc /\ gate'[r].verdict = v /\ gate'[r].shown = gate[r].shown
            /\ gate[r].pc \in {"notify", "waiting"} /\ pc \in {"notify", "set"}
            /\ pc = "notify" => gate[r].pc = "notify"
        BY <1>0, <2>1, <2>3, <2>5, <2>6, <3>1 DEF Gate
      <3>3. hook[r].pc # "idle" /\ v # "none"
        BY <1>0, <2>3, <3>2 DEF Faithful, Verdicts
      <3>4. CASE q = r
        BY <1>0, <2>1, <2>3, <3>2, <3>3, <3>4 DEF Faithful
      <3>5. CASE q # r
        BY <1>0, <2>1, <3>1, <3>5 DEF Faithful
      <3>6. QED
        BY <3>4, <3>5
    <2>7. ASSUME gate' = gate, NEW q \in Requests PROVE Faithful(q)'
      BY <1>0, <2>1, <2>7 DEF Faithful
    <2>8. QED
      BY <2>1, <2>4, <2>6, <2>7 DEF VerdictInv
  <1>7. ASSUME NEW r \in Requests, Answered(r) PROVE VerdictInv'
    <2>1. gate[r].verdict \in Verdicts /\ hook[r].pc # "idle"
      BY <1>0, <1>7 DEF Answered, Faithful, Gate
    <2>2. QED
      BY <1>0, <1>7, <2>1, ReplyFaithful DEF Answered
  <1>8. ASSUME NEW r \in Requests, TimesUp(r) PROVE VerdictInv'
    <2>1. /\ gate[r].pc \in {"waiting", "set"} /\ gate'[r] = [gate[r] EXCEPT !.pc = "over"]
          /\ \A q \in Requests \ {r} : UNCHANGED <<hook[q], gate[q]>>
          /\ UNCHANGED <<hook, tapped, answers, cards>>
      BY <1>0, <1>8 DEF TimesUp, AskTypes
    <2>2. gate'[r].pc = "over" /\ gate'[r].verdict = gate[r].verdict
      BY <1>0, <2>1 DEF Gate
    <2>3. Faithful(r)'
      BY <1>0, <2>1, <2>2 DEF Faithful
    <2>4. QED
      BY <1>0, <2>1, <2>3, FaithfulStep
  <1>9. ASSUME NEW r \in Requests, TimedOut(r) PROVE VerdictInv'
    <2>1. hook[r].pc # "idle"
      BY <1>0, <1>9 DEF TimedOut, Faithful
    <2>2. QED
      BY <1>0, <1>9, <2>1, ReplyFaithful DEF TimedOut, Silence
  <1>10. ASSUME NEW r \in Requests, HookGivesUp(r) PROVE VerdictInv'
    <2>1. hook[r].pc = "posted" /\ Reply(r, "silent")
      BY <1>10 DEF HookGivesUp, Reply, Silence
    <2>2. QED
      BY <1>0, <1>10, <2>1, ReplyFaithful DEF HookGivesUp
  <1>11. ASSUME \A r \in Requests : /\ hook'[r].pc = hook[r].pc /\ hook'[r].result = hook[r].result
                                    /\ gate'[r].pc = gate[r].pc /\ gate'[r].verdict = gate[r].verdict
                                    /\ gate'[r].shown = gate[r].shown,
                UNCHANGED tapped, cards' \subseteq cards,
                \A i \in DOMAIN answers' : i \in DOMAIN answers /\ answers'[i] = answers[i]
         PROVE  VerdictInv'
    <2>1. \A q \in Requests : Faithful(q)'
      BY <1>0, <1>11 DEF Faithful
    <2>2. \A q \in cards' : tapped'[q] = "none" /\ hook'[q].pc # "idle"
      BY <1>0, <1>11 DEF VerdictInv, AskTypes
    <2>3. \A i \in DOMAIN answers' : tapped'[answers'[i].req] = answers'[i].verdict
      BY <1>11 DEF VerdictInv
    <2>4. QED
      BY <2>1, <2>2, <2>3 DEF VerdictInv
  <1>12. CASE SecondsPass
    <2>1. ASSUME NEW r \in Requests
          PROVE  /\ hook'[r].pc = hook[r].pc /\ hook'[r].result = hook[r].result
                 /\ gate'[r].pc = gate[r].pc /\ gate'[r].verdict = gate[r].verdict
                 /\ gate'[r].shown = gate[r].shown
      BY <1>0, <1>12 DEF SecondsPass, Aged, Hook, Gate
    <2>2. QED
      BY <1>11, <1>12, <2>1 DEF SecondsPass
  <1>13. CASE Break
    <2>1. PICK l \in 0..Len(answers) : answers' = SubSeq(answers, 1, l)
      BY <1>13 DEF Break, Prefixes
    <2>2. \A i \in DOMAIN answers' : i \in DOMAIN answers /\ answers'[i] = answers[i]
      <3>1. answers \in Seq(Answer) /\ Len(answers) \in Nat /\ DOMAIN answers = 1..Len(answers)
        BY <1>0, AnswerTypes DEF AskTypes
      <3>2. \A i \in 1..l : i \in 1..Len(answers) /\ answers[i] \in Answer
        BY <3>1, ElementOfSeq
      <3>3. /\ SubSeq(answers, 1, l) \in Seq(Answer)
            /\ Len(SubSeq(answers, 1, l)) = IF 1 <= l THEN l - 1 + 1 ELSE 0
            /\ \A i \in 1..(l - 1 + 1) : SubSeq(answers, 1, l)[i] = answers[1 + i - 1]
        BY <3>1, <3>2, SubSeqProperties
      <3>4. answers' \in Seq(Answer) /\ Len(answers') = l
        BY <2>1, <3>1, <3>3
      <3>5. DOMAIN answers' = 1..l
        BY <3>4, LenProperties
      <3>6. \A i \in 1..l : answers'[i] = answers[i]
        BY <2>1, <3>1, <3>3
      <3>7. QED
        BY <3>1, <3>2, <3>5, <3>6
    <2>3. QED
      BY <1>11, <1>13, <2>2 DEF Break
  <1>14. ASSUME SendsFail, NEW r \in Requests
         PROVE  /\ gate'[r].pc = gate[r].pc /\ gate'[r].verdict = gate[r].verdict
                /\ gate'[r].shown = gate[r].shown
    BY <1>0, <1>14 DEF SendsFail, Gate
  <1>15. CASE Detach
    BY <1>11, <1>14, <1>15 DEF Detach
  <1>16. ASSUME NEW s \in sessions, Hello(s.token) PROVE VerdictInv'
    <2>1. DOMAIN answers' = {}
      BY <1>16 DEF Hello
    <2>2. QED
      BY <1>11, <1>14, <1>16, <2>1 DEF Hello
  <1>17. CASE Restart
    <2>1. /\ UNCHANGED <<cards, tapped>> /\ answers' = <<>>
          /\ \A q \in Requests : /\ gate'[q] = NoGate
                                 /\ hook'[q] = IF hook[q].pc = "posted" THEN Told(q, "silent")[q] ELSE hook[q]
      BY <1>17 DEF Restart, Silence
    <2>2. \A q \in Requests : Told(q, "silent")[q] = [pc |-> "done", age |-> 0, result |-> "silent"]
      BY <1>0 DEF Told, AskTypes
    <2>3. \A q \in Requests : Faithful(q)'
      BY <1>0, <2>1, <2>2 DEF Faithful, NoGate
    <2>4. \A q \in cards' : tapped'[q] = "none" /\ hook'[q].pc # "idle"
      BY <1>0, <2>1, <2>2 DEF VerdictInv, AskTypes
    <2>5. QED
      BY <2>1, <2>3, <2>4 DEF VerdictInv
  <1>18. CASE UNCHANGED asking
    BY <1>18 DEF asking, VerdictInv, Faithful
  <1>19. QED
    BY <1>1, <1>2, <1>3, <1>3a, <1>4, <1>5, <1>6, <1>7, <1>8, <1>9, <1>10, <1>12, <1>13, <1>15, <1>16,
       <1>17, <1>18, AskingSteps

-----------------------------------------------------------------------------
(* A verdict the server took is told.                                      *)

\* A step that is about one request, for which it is enough to look at it.
LEMMA ToldStep ==
  ASSUME ToldInv, NEW r \in Requests, ToldOf(r)',
         \A q \in Requests \ {r} : UNCHANGED <<hook[q], gate[q]>>
  PROVE  ToldInv'
  <1>1. \A q \in Requests \ {r} : ToldOf(q)'
    BY DEF ToldInv, ToldOf, InStep
  <1>2. QED
    BY <1>1 DEF ToldInv

\* ToldInv is inductive, given that a hook which never posted has no handler.
LEMMA ToldInvStep == Types /\ VerdictInv /\ ToldInv /\ [Next]_vars => ToldInv'
  <1> SUFFICES ASSUME Types, VerdictInv, ToldInv, [Next]_vars PROVE ToldInv'
    OBVIOUS
  <1> USE Constants
  <1>0. /\ AskTypes
        /\ \A r \in Requests : /\ Faithful(r) /\ ToldOf(r)
                               /\ hook[r] \in Hook /\ gate[r] \in Gate
                               /\ hook[r].age \in Nat /\ gate[r].wait \in Nat
    BY DEF Types, AskTypes, VerdictInv, ToldInv, Hook, Gate
  <1>1. ASSUME NEW r \in Requests, Ask(r) PROVE ToldInv'
    <2>1. /\ hook'[r] = [hook[r] EXCEPT !.pc = "posted"]
          /\ gate'[r] = [NoGate EXCEPT !.pc = "notify", !.live = conn # "down"]
          /\ \A q \in Requests \ {r} : UNCHANGED <<hook[q], gate[q]>>
          /\ hook[r].pc = "idle"
      BY <1>0, <1>1 DEF Ask, AskTypes
    <2>2. /\ hook'[r].pc = "posted" /\ hook'[r].age = 0
          /\ gate'[r].pc = "notify" /\ gate'[r].verdict = "none" /\ gate'[r].wait = 0
      BY <1>0, <2>1 DEF Hook, NoGate, ToldOf
    <2>3. ToldOf(r)'
      BY <2>2 DEF ToldOf, InStep
    <2>4. QED
      BY <2>1, <2>3, ToldStep
  <1>2. ASSUME NEW r \in Requests, AskForbidden(r) PROVE ToldInv'
    <2>1. /\ hook' = [hook EXCEPT ![r] = [pc |-> "done", age |-> 0, result |-> "silent"]]
          /\ gate' = gate /\ hook[r].pc = "idle"
      BY <1>2 DEF AskForbidden, Told
    <2>2. hook'[r].pc = "done" /\ \A q \in Requests \ {r} : UNCHANGED <<hook[q], gate[q]>>
      BY <1>0, <2>1 DEF AskTypes
    <2>3. ToldOf(r)'
      BY <1>0, <2>1, <2>2 DEF ToldOf, Faithful
    <2>4. QED
      BY <2>2, <2>3, ToldStep
  <1>3. ASSUME NEW r \in Requests, Notified(r) PROVE ToldInv'
    <2>1. /\ gate[r].pc = "notify" /\ hook' = hook
          /\ gate'[r] = [gate[r] EXCEPT !.pc = IF gate[r].verdict = "none" THEN "waiting" ELSE "set",
                                        !.live = FALSE, !.shown = FALSE]
          /\ \A q \in Requests \ {r} : UNCHANGED <<hook[q], gate[q]>>
      BY <1>0, <1>3 DEF Notified, AskTypes
    <2>2. /\ gate'[r].pc = IF gate[r].verdict = "none" THEN "waiting" ELSE "set"
          /\ gate'[r].verdict = gate[r].verdict
          /\ gate'[r].slow = gate[r].slow /\ gate'[r].wait = 0 /\ gate[r].wait = 0
      BY <1>0, <2>1 DEF Gate, ToldOf
    <2>3. ToldOf(r)'
      BY <1>0, <2>1, <2>2 DEF ToldOf, InStep
    <2>4. QED
      BY <2>1, <2>3, ToldStep
  <1>3a. ASSUME NEW r \in Requests, CardArrives(r) PROVE ToldInv'
    <2>1. /\ gate[r].pc = "notify" /\ hook' = hook
          /\ gate'[r] = [gate[r] EXCEPT !.shown = TRUE]
          /\ \A q \in Requests \ {r} : UNCHANGED <<hook[q], gate[q]>>
      BY <1>0, <1>3a DEF CardArrives, AskTypes
    <2>2. /\ gate'[r].pc = gate[r].pc /\ gate'[r].verdict = gate[r].verdict
          /\ gate'[r].slow = gate[r].slow /\ gate'[r].wait = gate[r].wait
      BY <1>0, <2>1 DEF Gate
    <2>3. ToldOf(r)'
      BY <1>0, <2>1, <2>2 DEF ToldOf, InStep
    <2>4. QED
      BY <2>1, <2>3, ToldStep
  <1>4. CASE Resolve
    <2>1. Head(answers).req \in Requests
      BY <1>0, <1>4, HeadAnswer DEF Resolve
    <2>2. PICK r \in Requests : r = Head(answers).req
      BY <2>1
    <2> DEFINE pc == IF gate[r].pc = "notify" THEN "notify" ELSE "set"
    <2>3. /\ hook' = hook
          /\ \/ gate' = gate
             \/ /\ gate[r].pc \in {"notify", "waiting"}
                /\ gate' = [gate EXCEPT ![r] = [gate[r] EXCEPT !.pc = pc, !.verdict = Head(answers).verdict,
                                                                !.late = Due(r)]]
      BY <1>4, <2>2 DEF Resolve
    <2>3a. pc \in {"notify", "set"} /\ (pc = "notify" => gate[r].pc = "notify")
      OBVIOUS
    <2> HIDE DEF pc
    <2>4. CASE gate' = gate
      BY <1>0, <2>3, <2>4 DEF ToldInv, ToldOf, InStep
    <2>5. CASE gate' # gate
      <3>1. gate[r].pc \in {"notify", "waiting"} /\ \A p \in Requests \ {r} : UNCHANGED <<hook[p], gate[p]>>
        BY <1>0, <2>3, <2>5 DEF AskTypes
      <3>2. gate'[r] = [gate[r] EXCEPT !.pc = pc, !.verdict = Head(answers).verdict, !.late = Due(r)]
        BY <1>0, <2>3, <2>5 DEF AskTypes
      <3>3. /\ gate'[r].pc = pc /\ gate'[r].slow = gate[r].slow /\ gate'[r].wait = gate[r].wait
            /\ gate'[r].late = Due(r)
        BY <1>0, <3>2 DEF Gate
      <3>4. ~gate'[r].late => gate'[r].wait < ServerWait
        <4>1. CASE Due(r)
          BY <3>3, <4>1
        <4>2. CASE ~Due(r)
          BY <1>0, <3>3, <4>2 DEF Due
        <4>3. QED
          BY <4>1, <4>2
      <3>5. ~gate'[r].slow => InStep(r)'
        BY <1>0, <2>3, <3>1, <3>3 DEF ToldOf, InStep
      <3>6. hook[r].pc # "idle"
        BY <1>0, <3>1 DEF Faithful
      <3>7. ToldOf(r)'
        BY <1>0, <2>3, <2>3a, <3>1, <3>3, <3>4, <3>5, <3>6 DEF ToldOf
      <3>8. QED
        BY <3>1, <3>7, ToldStep
    <2>6. QED
      BY <2>4, <2>5
  <1>5. ASSUME NEW r \in Requests, NEW result, Closed(r), Reply(r, result)
        PROVE  /\ \A q \in Requests \ {r} : UNCHANGED <<hook[q], gate[q]>>
               /\ gate'[r].pc = "closed" /\ gate'[r].verdict = gate[r].verdict
               /\ gate'[r].slow = gate[r].slow /\ gate'[r].late = gate[r].late
               /\ hook[r].pc = "posted" => hook'[r].pc = "done" /\ hook'[r].result = result
               /\ hook[r].pc # "posted" => hook'[r] = hook[r]
    <2>1. /\ gate' = [gate EXCEPT ![r] = [gate[r] EXCEPT !.pc = "closed", !.wait = 0]]
          /\ hook' = IF hook[r].pc = "posted"
                     THEN [hook EXCEPT ![r] = [pc |-> "done", age |-> 0, result |-> result]] ELSE hook
      BY <1>5 DEF Closed, Reply, Told
    <2>2. gate'[r] = [gate[r] EXCEPT !.pc = "closed", !.wait = 0]
          /\ \A q \in Requests \ {r} : UNCHANGED <<hook[q], gate[q]>>
      BY <1>0, <2>1 DEF AskTypes
    <2>3. /\ gate'[r].pc = "closed" /\ gate'[r].verdict = gate[r].verdict
          /\ gate'[r].slow = gate[r].slow /\ gate'[r].late = gate[r].late
      BY <1>0, <2>2 DEF Gate
    <2>4. /\ hook[r].pc = "posted" => hook'[r].pc = "done" /\ hook'[r].result = result
          /\ hook[r].pc # "posted" => hook'[r] = hook[r]
      BY <1>0, <2>1 DEF AskTypes
    <2>5. QED
      BY <2>2, <2>3, <2>4
  <1>6. ASSUME NEW r \in Requests, Answered(r) PROVE ToldInv'
    <2>1. gate[r].pc = "set" /\ Closed(r) /\ Reply(r, gate[r].verdict)
      BY <1>6 DEF Answered
    <2>2. /\ \A q \in Requests \ {r} : UNCHANGED <<hook[q], gate[q]>>
          /\ gate'[r].pc = "closed" /\ gate'[r].verdict = gate[r].verdict
          /\ gate'[r].slow = gate[r].slow /\ gate'[r].late = gate[r].late
          /\ hook[r].pc = "posted" => hook'[r].pc = "done" /\ hook'[r].result = gate[r].verdict
          /\ hook[r].pc # "posted" => hook'[r] = hook[r]
      BY <1>5, <2>1
    <2>3. ~gate[r].slow /\ ~gate[r].late => hook[r].pc = "posted"
      BY <1>0, <2>1 DEF ToldOf, InStep
    <2>4. hook[r].pc # "idle"
      BY <1>0, <2>1 DEF Faithful
    <2>5. ToldOf(r)'
      BY <1>0, <2>2, <2>3, <2>4 DEF ToldOf
    <2>6. QED
      BY <2>2, <2>5, ToldStep
  <1>7. ASSUME NEW r \in Requests, TimedOut(r) PROVE ToldInv'
    <2>1. gate[r].pc = "over" /\ Closed(r) /\ Reply(r, "silent")
      BY <1>7 DEF TimedOut, Silence
    <2>2. /\ \A q \in Requests \ {r} : UNCHANGED <<hook[q], gate[q]>>
          /\ gate'[r].pc = "closed" /\ gate'[r].verdict = gate[r].verdict
          /\ gate'[r].slow = gate[r].slow /\ gate'[r].late = gate[r].late
          /\ hook[r].pc = "posted" => hook'[r].pc = "done"
          /\ hook[r].pc # "posted" => hook'[r] = hook[r]
      BY <1>5, <2>1
    <2>3. hook[r].pc # "idle"
      BY <1>0, <2>1 DEF Faithful
    <2>4. ToldOf(r)'
      BY <1>0, <2>1, <2>2, <2>3 DEF ToldOf
    <2>5. QED
      BY <2>2, <2>4, ToldStep
  <1>8. ASSUME NEW r \in Requests, TimesUp(r) PROVE ToldInv'
    <2>1. /\ gate[r].pc \in {"waiting", "set"} /\ gate[r].wait >= ServerWait /\ hook' = hook
          /\ gate'[r] = [gate[r] EXCEPT !.pc = "over"]
          /\ \A q \in Requests \ {r} : UNCHANGED <<hook[q], gate[q]>>
      BY <1>0, <1>8 DEF TimesUp, Due, AskTypes
    <2>2. gate'[r].pc = "over" /\ gate'[r].verdict = gate[r].verdict /\ gate'[r].late = gate[r].late
      BY <1>0, <2>1 DEF Gate
    <2>3. gate[r].verdict # "none" => gate[r].late
      BY <1>0, <2>1 DEF ToldOf
    <2>4. ToldOf(r)'
      BY <1>0, <2>1, <2>2, <2>3 DEF ToldOf
    <2>5. QED
      BY <2>1, <2>4, ToldStep
  <1>9. ASSUME NEW r \in Requests, HookGivesUp(r) PROVE ToldInv'
    <2>1. /\ hook[r].pc = "posted" /\ hook[r].age >= HookWait /\ gate' = gate
          /\ hook' = [hook EXCEPT ![r] = [pc |-> "done", age |-> 0, result |-> "silent"]]
      BY <1>9 DEF HookGivesUp, Told, Silence
    <2>2. hook'[r].pc = "done" /\ \A q \in Requests \ {r} : UNCHANGED <<hook[q], gate[q]>>
      BY <1>0, <2>1 DEF AskTypes
    <2>3. gate[r].pc \in {"notify", "waiting", "set"} /\ ~gate[r].slow => gate[r].wait >= ServerWait
      BY <1>0, <2>1 DEF ToldOf, InStep
    <2>4. gate[r].pc = "closed" /\ gate[r].verdict # "none" => gate[r].slow \/ gate[r].late
      BY <1>0, <2>1 DEF ToldOf, Faithful
    <2>5. ToldOf(r)'
      BY <1>0, <2>1, <2>2, <2>3, <2>4 DEF ToldOf, InStep
    <2>6. QED
      BY <2>2, <2>5, ToldStep
  <1>10. CASE SecondsPass
    <2> SUFFICES ASSUME NEW r \in Requests PROVE ToldOf(r)'
      BY DEF ToldInv
    <2>1. /\ ~(gate[r].pc = "waiting" /\ gate[r].wait >= ServerWait)
          /\ gate[r].pc # "set" /\ gate[r].pc # "over"
      BY <1>10 DEF SecondsPass, Prompt, Due
    <2>2. /\ hook'[r].pc = hook[r].pc /\ hook'[r].result = hook[r].result
          /\ hook'[r].age = IF hook[r].pc = "posted" THEN hook[r].age + 1 ELSE hook[r].age
      BY <1>0, <1>10 DEF SecondsPass, Hook
    <2>3. /\ gate'[r].pc = gate[r].pc /\ gate'[r].verdict = gate[r].verdict /\ gate'[r].late = gate[r].late
          /\ gate'[r].wait = IF gate[r].pc = "waiting" THEN gate[r].wait + 1 ELSE gate[r].wait
          /\ ~gate'[r].slow => ~gate[r].slow
          /\ gate[r].pc = "notify" /\ ~gate'[r].slow => hook[r].age < HookWait - ServerWait
      <3>1. CASE gate[r].pc = "notify"
        <4>1. gate'[r] = [gate[r] EXCEPT !.slow = gate[r].slow \/ hook[r].age >= HookWait - ServerWait]
          BY <1>10, <3>1 DEF SecondsPass, Aged
        <4> DEFINE over == hook[r].age >= HookWait - ServerWait
        <4>2. gate'[r].slow = (gate[r].slow \/ over)
          BY <1>0, <4>1 DEF Gate
        <4>3. /\ gate'[r].pc = gate[r].pc /\ gate'[r].verdict = gate[r].verdict
              /\ gate'[r].late = gate[r].late /\ gate'[r].wait = gate[r].wait
          BY <1>0, <4>1 DEF Gate
        <4>4. ~over => hook[r].age < HookWait - ServerWait
          BY <1>0
        <4> HIDE DEF over
        <4>5. ~gate'[r].slow => ~gate[r].slow /\ ~over
          BY <4>2
        <4>6. QED
          BY <3>1, <4>3, <4>4, <4>5
      <3>2. CASE gate[r].pc = "waiting"
        <4>1. gate'[r] = [gate[r] EXCEPT !.wait = gate[r].wait + 1]
          BY <1>10, <3>2 DEF SecondsPass, Aged
        <4>2. QED
          BY <1>0, <3>2, <4>1 DEF Gate
      <3>3. CASE gate[r].pc \notin {"notify", "waiting"}
        BY <1>10, <3>3 DEF SecondsPass, Aged
      <3>4. QED
        BY <3>1, <3>2, <3>3
    <2>4. gate[r].pc \in {"notify", "waiting", "set"} /\ ~gate'[r].slow => InStep(r)'
      BY <1>0, <2>1, <2>2, <2>3 DEF ToldOf, InStep
    <2>5. gate[r].slow => gate'[r].slow
      BY <1>0, <1>10 DEF SecondsPass, Aged, Gate
    <2>6. QED
      BY <1>0, <2>1, <2>2, <2>3, <2>4, <2>5 DEF ToldOf
  <1>11. ASSUME hook' = hook, gate' = gate \/ SendsFail PROVE ToldInv'
    <2> SUFFICES ASSUME NEW r \in Requests PROVE ToldOf(r)'
      BY DEF ToldInv
    <2>1. /\ gate'[r].pc = gate[r].pc /\ gate'[r].verdict = gate[r].verdict /\ gate'[r].late = gate[r].late
          /\ gate'[r].wait = gate[r].wait /\ gate'[r].slow = gate[r].slow
      BY <1>0, <1>11 DEF SendsFail, Gate
    <2>2. QED
      BY <1>0, <1>11, <2>1 DEF ToldOf, InStep
  <1>12. CASE Restart
    <2> SUFFICES ASSUME NEW r \in Requests PROVE ToldOf(r)'
      BY DEF ToldInv
    <2>1. gate'[r] = NoGate /\ (hook'[r] = hook[r] \/ hook'[r] = Told(r, "silent")[r])
      BY <1>12 DEF Restart, Silence
    <2>2. hook'[r] = hook[r] \/ hook'[r].pc = "done"
      BY <1>0, <2>1 DEF Told, AskTypes
    <2>3. QED
      BY <1>0, <2>1, <2>2 DEF ToldOf, NoGate
  <1>13. QED
    BY <1>1, <1>2, <1>3, <1>3a, <1>4, <1>6, <1>7, <1>8, <1>9, <1>10, <1>11, <1>12, AskingSteps
    DEF Tap, Fade, Break, Detach, Hello, asking

\* The invariants of the approvals hold at first, and so always.
LEMMA AskingAlways == Spec => [](Types /\ VerdictInv /\ ToldInv)
  <1>1. Init => VerdictInv /\ ToldInv
    <2> SUFFICES ASSUME Init PROVE VerdictInv /\ ToldInv
      OBVIOUS
    <2>1. /\ \A r \in Requests : /\ hook[r] = [pc |-> "idle", age |-> 0, result |-> "none"]
                                 /\ gate[r] = NoGate /\ tapped[r] = "none"
          /\ cards = {} /\ answers = <<>>
      BY DEF Init, AskInit
    <2>2. DOMAIN answers = {}
      BY <2>1
    <2>3. VerdictInv
      BY <2>1, <2>2 DEF VerdictInv, Faithful, NoGate
    <2>4. ToldInv
      BY <2>1 DEF ToldInv, ToldOf, NoGate
    <2>5. QED
      BY <2>3, <2>4
  <1>2. QED
    BY TypesInit, AuthTypesStep, AskTypesStep, VerdictStep, ToldInvStep, <1>1, PTL DEF Spec, Types

\* A verdict the server took in time reaches the session that asked, whatever the
\* limits of the hook and of the server, as long as the hook's is not the shorter.
THEOREM TakenIsToldAlways == Spec => []TakenIsTold
  <1>1. Types /\ VerdictInv /\ ToldInv => TakenIsTold
    <2> SUFFICES ASSUME Types, VerdictInv, ToldInv, NEW r \in Requests, gate[r].verdict # "none",
                        ~gate[r].slow, ~gate[r].late
                 PROVE  hook[r].pc = "posted" \/ hook[r].result = gate[r].verdict
      BY DEF TakenIsTold
    <2>1. ToldOf(r) /\ gate[r] \in Gate /\ hook[r] \in Hook
      BY DEF ToldInv, Types, AskTypes
    <2>2. gate[r].wait \in Nat /\ gate[r].pc \in {"notify", "set", "closed"}
      BY <2>1 DEF ToldOf, Gate
    <2>3. QED
      BY <2>1, <2>2, Constants DEF ToldOf, InStep
  <1>2. QED
    BY AskingAlways, <1>1, PTL

-----------------------------------------------------------------------------
(* The approvals implement Verdict.                                        *)

\* What the mapping of Phone to Verdict shows of a hook.
Shown(h) == IF h.pc = "posted" THEN "asked" ELSE h.result

\* A step that changes what the hook of one request shows, and no more, is a step
\* of Verdict that asks, or that tells the silence or what was said.
LEMMA OneResult ==
  ASSUME AskTypes, AskTypes', NEW r \in Requests, tapped' = tapped,
         \A q \in Requests \ {r} : hook'[q] = hook[q],
         \/ Shown(hook'[r]) = Shown(hook[r])
         \/ Shown(hook[r]) = "none" /\ Shown(hook'[r]) = "asked"
         \/ /\ Shown(hook[r]) \in {"none", "asked"}
            /\ Shown(hook'[r]) \in {tapped[r], "silent"} \ {"none"}
  PROVE  [Promise!Next]_<<tapped, [q \in Requests |-> IF hook[q].pc = "posted" THEN "asked" ELSE hook[q].result]>>
  <1> DEFINE R == [q \in Requests |-> IF hook[q].pc = "posted" THEN "asked" ELSE hook[q].result]
             R2 == [q \in Requests |-> IF hook'[q].pc = "posted" THEN "asked" ELSE hook'[q].result]
  <1>1. R2 = [R EXCEPT ![r] = Shown(hook'[r])]
    BY DEF Shown
  <1>2. R[r] = Shown(hook[r]) /\ R \in [Requests -> {R[q] : q \in Requests}]
    BY DEF Shown
  <1>3. CASE Shown(hook'[r]) = Shown(hook[r])
    <2>1. R2 = R
      BY <1>1, <1>2, <1>3
    <2>2. QED
      BY <2>1
  <1>4. CASE Shown(hook[r]) = "none" /\ Shown(hook'[r]) = "asked"
    <2>1. Promise!Ask(r)
      BY <1>1, <1>2, <1>4 DEF Promise!Ask
    <2>2. QED
      BY <2>1 DEF Promise!Next
  <1>5. CASE /\ Shown(hook[r]) \in {"none", "asked"}
             /\ Shown(hook'[r]) \in {tapped[r], "silent"} \ {"none"}
    <2>1. Shown(hook'[r]) \in {"allow", "deny", "silent"}
      BY <1>5 DEF AskTypes, Verdicts
    <2>2. PICK answer \in {"allow", "deny", "silent"} : answer = Shown(hook'[r])
      BY <2>1
    <2>3. R2 = [R EXCEPT ![r] = answer] /\ answer \in {tapped[r], "silent"} \ {"none"}
      BY <1>1, <1>5, <2>2
    <2>4. Promise!Tell(r, answer)
      BY <1>2, <1>5, <2>3 DEF Promise!Tell
    <2>5. QED
      BY <2>4 DEF Promise!Next
  <1>6. QED
    BY <1>3, <1>4, <1>5

\* Every step of Phone is a step of Verdict or leaves what Verdict sees alone.
LEMMA Simulation ==
  ASSUME Types, Types', VerdictInv, [Next]_vars
  PROVE  [Promise!Next]_<<tapped, [r \in Requests |-> IF hook[r].pc = "posted" THEN "asked" ELSE hook[r].result]>>
  <1> DEFINE R == [q \in Requests |-> IF hook[q].pc = "posted" THEN "asked" ELSE hook[q].result]
             Step == [Promise!Next]_<<tapped, [r \in Requests |-> IF hook[r].pc = "posted" THEN "asked" ELSE hook[r].result]>>
  <1>0. /\ AskTypes /\ AskTypes'
        /\ \A r \in Requests : Faithful(r) /\ hook[r] \in Hook /\ gate[r] \in Gate
    BY DEF Types, AskTypes, VerdictInv
  <1>1. ASSUME NEW r \in Requests, Ask(r) PROVE Step
    <2>1. /\ hook[r].pc = "idle" /\ hook'[r] = [hook[r] EXCEPT !.pc = "posted"] /\ tapped' = tapped
          /\ \A q \in Requests \ {r} : hook'[q] = hook[q]
      BY <1>0, <1>1 DEF Ask, AskTypes
    <2>2. hook'[r].pc = "posted" /\ hook[r].result = "none"
      BY <1>0, <2>1 DEF Hook, Faithful
    <2>3. Shown(hook[r]) = "none" /\ Shown(hook'[r]) = "asked"
      BY <2>1, <2>2 DEF Shown
    <2>4. QED
      BY <1>0, <2>1, <2>3, OneResult
  <1>2. ASSUME NEW r \in Requests, NEW result \in {tapped[r], "silent"} \ {"none"}, tapped' = tapped,
               hook' = Told(r, result), hook[r].pc \in {"idle", "posted"}
        PROVE  Step
    <2>1. /\ hook'[r] = [pc |-> "done", age |-> 0, result |-> result]
          /\ \A q \in Requests \ {r} : hook'[q] = hook[q]
      BY <1>0, <1>2 DEF Told, AskTypes
    <2>2. Shown(hook'[r]) = result /\ Shown(hook[r]) \in {"none", "asked"}
      BY <1>0, <1>2, <2>1 DEF Shown, Faithful
    <2>3. QED
      BY <1>0, <1>2, <2>1, <2>2, OneResult
  <1>3. ASSUME NEW r \in Requests, NEW result \in {tapped[r], "silent"} \ {"none"}, tapped' = tapped,
               Reply(r, result)
        PROVE  Step
    BY <1>2, <1>3 DEF Reply
  <1>4. ASSUME NEW r \in Requests, AskForbidden(r) PROVE Step
    BY <1>2, <1>4 DEF AskForbidden
  <1>5. ASSUME NEW r \in Requests, NEW verdict \in Verdicts, Tap(r, verdict) PROVE Step
    <2>1. /\ r \in cards /\ hook' = hook /\ tapped' = [tapped EXCEPT ![r] = verdict]
      BY <1>5 DEF Tap
    <2>2. tapped[r] = "none" /\ hook[r].pc # "idle"
      BY <2>1 DEF VerdictInv
    <2>3. R[r] # "none" /\ R' = R
      <3>1. hook[r].pc \in {"posted", "done"}
        BY <1>0, <2>2 DEF Hook
      <3>2. QED
        BY <1>0, <2>1, <3>1 DEF Faithful
    <2>4. Promise!Say(r, verdict)
      BY <2>1, <2>2, <2>3 DEF Promise!Say
    <2>5. QED
      BY <2>4 DEF Promise!Next, Verdicts
  <1>6. ASSUME NEW r \in Requests, Answered(r) PROVE Step
    <2>1. gate[r].verdict = tapped[r] /\ gate[r].verdict # "none"
      BY <1>0, <1>6 DEF Answered, Faithful
    <2>2. QED
      BY <1>3, <1>6, <2>1 DEF Answered
  <1>7. ASSUME NEW r \in Requests, TimedOut(r) PROVE Step
    BY <1>3, <1>7 DEF TimedOut, Silence
  <1>8. ASSUME NEW r \in Requests, HookGivesUp(r) PROVE Step
    BY <1>2, <1>8 DEF HookGivesUp, Silence
  <1>9. CASE SecondsPass
    <2>1. \A r \in Requests : hook'[r].pc = hook[r].pc /\ hook'[r].result = hook[r].result
      BY <1>0, <1>9 DEF SecondsPass, Hook
    <2>2. R' = R
      BY <2>1
    <2>3. QED
      BY <1>9, <2>2 DEF SecondsPass
  <1>10. CASE Restart
    <2>1. tapped' = tapped
          /\ \A r \in Requests : hook'[r] = IF hook[r].pc = "posted" THEN Told(r, "silent")[r] ELSE hook[r]
      BY <1>10 DEF Restart, Silence
    <2>2. \A r \in Requests : Told(r, "silent")[r] = [pc |-> "done", age |-> 0, result |-> "silent"]
      BY <1>0 DEF Told, AskTypes
    <2>3. \A r \in Requests : R'[r] = IF R[r] = "asked" THEN "silent" ELSE R[r]
      <3> SUFFICES ASSUME NEW r \in Requests PROVE R'[r] = IF R[r] = "asked" THEN "silent" ELSE R[r]
        OBVIOUS
      <3>1. CASE hook[r].pc = "posted"
        BY <2>1, <2>2, <3>1
      <3>2. CASE hook[r].pc # "posted"
        <4>1. hook[r].result # "asked"
          BY <1>0 DEF Hook, Verdicts
        <4>2. QED
          BY <2>1, <3>2, <4>1
      <3>3. QED
        BY <3>1, <3>2
    <2>4. Promise!FallSilent
      BY <2>1, <2>3 DEF Promise!FallSilent
    <2>5. QED
      BY <2>4 DEF Promise!Next
  <1>11. ASSUME hook' = hook, tapped' = tapped PROVE Step
    BY <1>11
  <1>12. QED
    BY <1>1, <1>4, <1>5, <1>6, <1>7, <1>8, <1>9, <1>10, <1>11, AskingSteps
    DEF CardArrives, Notified, Fade, TimesUp, Resolve, Break, Detach, Hello, asking

\* With sockets, timers, tokens and restarts, the session is told what the user
\* chose, or silence, and once: Phone implements Verdict.
THEOREM ImplementsVerdict == Spec => VerdictHolds
  <1>1. Init => Promise!Init
    BY DEF Init, AskInit, Promise!Init
  <1>2. Types /\ Types' /\ VerdictInv /\ [Next]_vars =>
          [Promise!Next]_<<tapped, [r \in Requests |-> IF hook[r].pc = "posted" THEN "asked" ELSE hook[r].result]>>
    BY Simulation
  <1>3. QED
    BY AskingAlways, <1>1, <1>2, PTL DEF Spec, VerdictHolds, Promise!Spec
=============================================================================
