--------------------------- MODULE MCMcpRequest ----------------------------
(* Instances of McpRequest for TLC.                                        *)
EXTENDS McpRequest, TLC

CONSTANTS t1, t2, r1, r2
=============================================================================
