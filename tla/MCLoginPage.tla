---------------------------- MODULE MCLoginPage ----------------------------
(* Instances of LoginPage for TLC.                                         *)
EXTENDS LoginPage

CONSTANTS s1, s2
=============================================================================
