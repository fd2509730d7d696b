------------------------- MODULE MCRequestPipeline -------------------------
(* Instances of RequestPipeline for TLC.                                   *)
EXTENDS RequestPipeline, TLC

CONSTANTS r1, r2, r3

(* Two requests with one x-request-id and one with an id of its own.       *)
MCIdOf == (r1 :> "i1") @@ (r2 :> "i1") @@ (r3 :> "i2")
=============================================================================
