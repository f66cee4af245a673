--------------------------------- MODULE Verdict ---------------------------------
(***************************************************************************)
(* What the phone approvals promise the session that asks: it gets one     *)
(* answer, once; what the phone said, or silence; never an answer that     *)
(* nobody gave, and never two.                                             *)
(***************************************************************************)
CONSTANTS Requests

VARIABLES
  said,   \* what the phone's user chose
  result  \* what the session was told

Init ==
  /\ said = [r \in Requests |-> "none"]
  /\ result = [r \in Requests |-> "none"]

Ask(r) ==
  /\ result[r] = "none"
  /\ result' = [result EXCEPT ![r] = "asked"]
  /\ UNCHANGED said

Say(r, verdict) ==
  /\ said[r] = "none" /\ result[r] # "none"
  /\ said' = [said EXCEPT ![r] = verdict]
  /\ UNCHANGED result

Tell(r, answer) ==
  /\ result[r] \in {"none", "asked"} /\ answer \in {said[r], "silent"} \ {"none"}
  /\ result' = [result EXCEPT ![r] = answer]
  /\ UNCHANGED said

(* The service stops: nobody is left to answer whoever has asked.          *)
FallSilent ==
  /\ result' = [r \in Requests |-> IF result[r] = "asked" THEN "silent" ELSE result[r]]
  /\ UNCHANGED said

Next ==
  \/ FallSilent
  \/ \E r \in Requests : Ask(r) \/ Say(r, "allow") \/ Say(r, "deny")
                           \/ \E answer \in {"allow", "deny", "silent"} : Tell(r, answer)

Spec == Init /\ [][Next]_<<said, result>>
=============================================================================
