------------------------------ MODULE MCOAuth ------------------------------
(* Instances of OAuth for TLC.                                             *)
EXTENDS OAuthInv, TLC

CONSTANTS c1, c2, t1, t2, r1, r2, k1, v1, v2

(* Two verifiers with different hashes.                                    *)
MCS256 == [v \in {v1, v2} |-> IF v = v1 THEN "h1" ELSE "h2"]

(* The requests are alike, and so are the tokens and the codes.            *)
Symmetry == Permutations(Codes) \cup Permutations(Tokens) \cup Permutations(Reqs)
=============================================================================
