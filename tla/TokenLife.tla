----------------------------- MODULE TokenLife -----------------------------
(***************************************************************************)
(* An access token from the login to its last use: the exchange (OAuth)    *)
(* and the requests to /mcp (McpRequest) over one table of tokens and in   *)
(* one process.                                                            *)
(*                                                                         *)
(* The rows of mcp_access_tokens are OAuth's "tokens"; McpRequest sees of  *)
(* them that they exist.  A token is 48 random bytes that leave the server *)
(* in the 200 of POST /token and nowhere else, so a request carries one    *)
(* that such an answer gave out, or none that exists.  A row whose INSERT  *)
(* was not acknowledged stays in the table and nobody knows its token.     *)
(***************************************************************************)
EXTENDS OAuth

CONSTANTS
  McpReqs,   \* requests to /mcp at one time
  MaxCalls   \* backend calls one tool makes at most

ASSUME MaxCallsAssumption == MaxCalls \in Nat

VARIABLES
  revoked, alive, mcpPc, tok, calls, open, denied, bySession, got, connecting,
  sessions, late, told, revoking   \* as in McpRequest

Mcp == INSTANCE McpRequest WITH
  stored <- DOMAIN tokens, Legacy <- {}, Reqs <- McpReqs, pc <- mcpPc

ASSUME UnknownAssumption == Mcp!UnknownToken \notin Tokens

mcpLocals ==
  <<revoked, alive, mcpPc, tok, bySession, late, calls, open, denied, got, told,
    revoking, connecting, sessions>>
lifeVars == <<vars, mcpLocals>>

(* The tokens some client holds.                                           *)
Granted == {minted[r] : r \in {q \in DOMAIN minted : pc[q] = "granted"}}

LifeInit == Init /\ Mcp!Init

LoginStep == Arrival \/ (\E r \in Reqs : Handler(r)) \/ Tick

UseStep ==
  \/ \E r \in McpReqs :
       \/ \E t \in Granted \cup {Mcp!UnknownToken} : Mcp!Arrive(r, t)
       \/ \E t \in Tokens : Mcp!Message(r, t)
       \/ Mcp!Request(r)
  \/ \E t \in Granted : Mcp!AuthorizeStream(t)
  \/ \E t \in Tokens :
       \/ Mcp!OpenSession(t) \/ Mcp!ConnectFails(t) \/ Mcp!CloseSession(t)
       \/ Mcp!RevokeLands(t) \/ Mcp!RevokeFails(t) \/ Mcp!SessionEnds(t)

LifeNext ==
  \/ LoginStep /\ UNCHANGED mcpLocals
  \/ UNCHANGED vars /\ UseStep
  \/ Crash /\ Mcp!Crash

LifeSpec == LifeInit /\ [][LifeNext]_lifeVars

(* The handlers of /token are as fair as in OAuth.                         *)
FairLife ==
  LifeSpec /\ \A r \in Reqs : WF_lifeVars(Handler(r) /\ UNCHANGED mcpLocals)

-----------------------------------------------------------------------------
(* Properties.                                                             *)

(* A login is worth what the 200 of /token says: its client is sent back   *)
(* to the login page, by HTTP 401 or by [AUTH_REQUIRED], only once the     *)
(* backend has ended its session, whatever failed or crashed before.       *)
GrantedIsAccepted ==
  \A r \in McpReqs :
    mcpPc[r] \in {"unauthorized", "authRequired"} => tok[r] \notin alive

(* Data of the backend has been paid for: whoever gets any had an exchange *)
(* answered 200 that proved a code's verifier and burned it, and gets it   *)
(* with the credentials of the user who logged in for that code.           *)
DataIsEarned ==
  \A r \in McpReqs : got[r] =>
    \E q \in DOMAIN minted :
      LET c == posted[q].code IN
      /\ pc[q] = "granted" /\ minted[q] = tok[r]
      /\ Proves(q, c) /\ IsUsed(c)
      /\ tokens[tok[r]].jwt.user = codes[c].user

(* The two halves do to the table what each says of it alone.              *)
ImplementsOAuth == Spec
ImplementsMcp == Mcp!Spec
=============================================================================
