---------------------------------- MODULE Phone ----------------------------------
(***************************************************************************)
(* The phone and the server: pairing and login (Auth), a socket that needs *)
(* a live session token, the approvals that go over it (Approvals), and    *)
(* restarts of the server, which forgets everything but its database.      *)
(***************************************************************************)
EXTENDS Approvals

CONSTANTS MaxBoots  \* bound: runs of the server

ASSUME PhoneAssumption == MaxBoots \in Nat \ {0}

vars == <<auth, asking>>

Init == AuthInit /\ AskInit

(* The process dies: a hook that waits loses its connection, the phone its *)
(* socket, and the next run has a token of its own.                        *)
Restart ==
  /\ boot < MaxBoots /\ boot' = boot + 1
  /\ AuthForgets
  /\ conn' = "down" /\ pending' = {} /\ answers' = <<>>
  /\ gate' = [r \in Requests |-> NoGate]
  /\ hook' = [r \in Requests |-> IF hook[r].pc = "posted" THEN Told(r, Silence)[r] ELSE hook[r]]
  /\ UNCHANGED <<cards, tapped>>

Next ==
  \/ WrongPin /\ UNCHANGED asking
  \/ PairStart /\ UNCHANGED asking
  \/ \E e \in pairings : PairFinish(e) /\ UNCHANGED asking
  \/ \E e \in pairings : PairRefused(e) /\ UNCHANGED asking
  \/ LoginStart /\ UNCHANGED asking
  \/ \E e \in logins, r \in rows : LoginFinish(e, r.key) /\ UNCHANGED asking
  \/ \E e \in logins : LoginRefused(e) /\ UNCHANGED asking
  \/ \E r \in rows : Revoke(r) /\ UNCHANGED asking
  \/ TimePasses /\ UNCHANGED asking
  \/ \E r \in Requests : Ask(r)
  \/ \E r \in Requests : AskForbidden(r)
  \/ \E r \in Requests : CardArrives(r)
  \/ \E r \in Requests : Notified(r)
  \/ \E r \in Requests, verdict \in {"allow", "deny"} : Tap(r, verdict)
  \/ \E r \in Requests : Fade(r)
  \/ Resolve
  \/ \E r \in Requests : Answered(r)
  \/ \E r \in Requests : TimesUp(r)
  \/ \E r \in Requests : TimedOut(r)
  \/ \E r \in Requests : HookGivesUp(r)
  \/ SecondsPass
  \/ Break
  \/ Detach
  \/ \E s \in sessions : Hello(s.token)
  \/ Restart

(* Time passes, and the event loop and the hooks do what is due.  A send   *)
(* to the phone ends: uvicorn's pings end a socket that takes nothing.     *)
Fairness ==
  /\ WF_vars(SecondsPass)
  /\ \A r \in Requests : /\ WF_vars(CardArrives(r)) /\ WF_vars(Notified(r)) /\ WF_vars(HookGivesUp(r))
                         /\ WF_vars(Answered(r)) /\ WF_vars(TimesUp(r)) /\ WF_vars(TimedOut(r))

Spec == Init /\ [][Next]_vars /\ Fairness

-----------------------------------------------------------------------------
(* Properties.                                                             *)

Flow == [id : 1..MaxChallenges, at : 0..MaxClock]

(* Every variable keeps its shape: the count of failures never gets to the *)
(* number that locks.                                                      *)
TypeOK ==
  /\ scale \in {"minutes", "seconds"} /\ clock \in 0..MaxClock
  /\ failures \in 0..(Attempts - 1) /\ lockedUntil \in 0..(MaxClock + Lockout)
  /\ pairings \subseteq Flow /\ logins \subseteq Flow
  /\ \A s \in sessions : s.token \in 1..MaxChallenges /\ s.expires \in Nat
  /\ \A r \in rows : r.key \in 1..MaxChallenges /\ r.revoked \in BOOLEAN
  /\ boot \in 1..MaxBoots /\ conn \in {"up", "dead", "down"}
  /\ \A r \in Requests :
       /\ hook[r].pc \in {"idle", "posted", "done"} /\ hook[r].age \in 0..HookWait
       /\ gate[r].pc \in {"none", "notify", "waiting", "set", "over", "closed"}
       /\ gate[r].wait \in 0..HookWait
  /\ pending \subseteq Requests /\ cards \subseteq Requests

(* Whatever the sequence of attempts, of lockouts that end and of counts   *)
(* that start over, no stretch of time as long as a lockout has more wrong *)
(* PINs in it than the lockout allows, unless the right PIN or a restart   *)
(* came in between.  (README.md:168: five wrong PINs lock pairing.)        *)
FewGuesses == Len(history.guesses) <= Attempts

Minted == {history.minted[i] : i \in DOMAIN history.minted}

(* A challenge admits one phone, once, and not when it is old.             *)
OneUse == \A i, j \in DOMAIN history.minted : history.minted[i].id = history.minted[j].id => i = j

InTime == \A m \in Minted : m.age <= IF m.id = m.key THEN PairingTtl ELSE LoginTtl

RevokedStaysOut ==
  \A b \in history.barred : \A i \in DOMAIN history.minted : i > b.after => history.minted[i].key # b.key

(* A token is minted once for a challenge, while the challenge is fresh,   *)
(* and never again for a passkey after it was revoked: also when flows of  *)
(* several devices, the revocation and restarts fall between a start and   *)
(* its finish.                                                             *)
Admission == OneUse /\ InTime /\ RevokedStaysOut

(* A verdict the server took in time reaches the session, and no other:    *)
(* the hook outlasts the server's limit, unless the card took longer to    *)
(* send than the two limits differ by, or it came as the time ran out.     *)
TakenIsTold ==
  \A r \in Requests : gate[r].verdict # "none" =>
    \/ gate[r].slow \/ gate[r].late
    \/ hook[r].pc = "posted" \/ hook[r].result = gate[r].verdict

Promise == INSTANCE Verdict WITH
  said   <- tapped,
  result <- [r \in Requests |-> IF hook[r].pc = "posted" THEN "asked" ELSE hook[r].result]

(* What the session is told is what the user chose, or silence, once:      *)
(* Verdict is implemented, with sockets, timers, tokens and restarts.      *)
VerdictHolds == Promise!Spec

(* Every request ends, for the session and for the server.                 *)
EveryAskEnds ==
  \A r \in Requests : hook[r].pc = "posted" ~> hook[r].pc = "done" /\ r \notin pending
=============================================================================
