------------------------------- MODULE DeadlinesMC -------------------------------
EXTENDS Deadlines, TLC

(* In half seconds; as in config.py the connect timeout is the shortest.   *)
ShortTimeouts ==
  [s \in Active |-> IF s = "CONNECTING_TO_BACKEND" THEN 1 ELSE 2]

Symmetry == Permutations(Conns)
=============================================================================
