---------------------------- MODULE MCTokenLife ----------------------------
(* Instances of TokenLife for TLC.                                         *)
EXTENDS TokenLife, TLC

CONSTANTS c1, t1, t2, r1, r2, m1, v1

MCS256 == [v \in {v1} |-> "h1"]
=============================================================================
