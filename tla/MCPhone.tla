--------------------------------- MODULE MCPhone ---------------------------------
(* A small instance of Phone for TLC.  Ticks are of five minutes or of     *)
(* thirty seconds.                                                         *)
EXTENDS Phone
=============================================================================
