-------------------------------- MODULE LogFeed --------------------------------
(***************************************************************************)
(* What the phone's detail view of a workstream promises: whatever is lost *)
(* on the way, what it shows is a stretch of the workstream's log without  *)
(* gaps or repetitions, and it never goes back to an older one.            *)
(***************************************************************************)
EXTENDS Naturals, Sequences, SequencesExt

VARIABLES
  log,  \* the entries the workstream's session has produced, all different
  view  \* the entries the phone shows

Stretch(i, j) == SubSeq(log, i, j)

(* The place in the log that the view has come to.                         *)
Reached == IF view = <<>> THEN 0 ELSE CHOOSE i \in DOMAIN log : log[i] = Last(view)

Init == log = <<>> /\ view = <<>>

Grow == IsPrefix(log, log') /\ log' # log /\ view' = view

Show ==
  /\ \E i \in 1..(Len(log) + 1), j \in Reached..Len(log) : view' = Stretch(i, j)
  /\ UNCHANGED log

Spec == Init /\ [][Grow \/ Show]_<<log, view>>
=============================================================================
