--------------------------- MODULE MCSseSession ----------------------------
(* Instances of SseSession for TLC.                                        *)
EXTENDS SseSession, TLC

CONSTANTS s1, s2
=============================================================================
