----------------------------- MODULE MCWorkstreams -----------------------------
(* A small instance of Workstreams for TLC.                                *)
EXTENDS Workstreams, TLC

CONSTANTS t1, t2, a, b

Prefixed == {<<b, a>>}

(* Bound: a behaviour is followed up to the accident after the second.      *)
FewAccidents == Cardinality(past) <= 2

Symmetric == Permutations(Tasks)
=============================================================================
