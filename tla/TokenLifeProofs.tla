-------------------------- MODULE TokenLifeProofs --------------------------
(***************************************************************************)
(* Proofs about TokenLife.  Its behaviours are behaviours of OAuth and of  *)
(* McpRequest, so whatever is proved of these carries over; what relates   *)
(* the two is added here.                                                  *)
(***************************************************************************)
EXTENDS TokenLife, OAuthProofs

McpP == INSTANCE McpRequestProofs WITH
  stored <- DOMAIN tokens, Legacy <- {}, Reqs <- McpReqs, pc <- mcpPc

-----------------------------------------------------------------------------
(* The exchange.                                                           *)

LEMMA LoginStepIsNext == [LifeNext]_lifeVars => [Next]_vars
BY DEF LifeNext, LoginStep, Next, lifeVars

(* Requests to /mcp write nothing the exchange reads.                      *)
THEOREM LoginsAreExchanges == LifeSpec => ImplementsOAuth
<1>1. LifeInit => Init
  BY DEF LifeInit
<1> QED
  BY <1>1, LoginStepIsNext, PTL DEF LifeSpec, ImplementsOAuth, Spec

(* So its invariant holds here.                                            *)
LEMMA ExchangeInvariance == LifeSpec => []IInv
BY LoginsAreExchanges, Invariance, PTL DEF ImplementsOAuth

-----------------------------------------------------------------------------
(* The rows of the token table.                                            *)

(* A step of the exchange writes one row of a new token, or none.          *)
LEMMA RowsStep ==
  ASSUME LoginStep
  PROVE  \/ UNCHANGED (DOMAIN tokens)
         \/ \E t \in Tokens : /\ t \notin DOMAIN tokens
                              /\ DOMAIN tokens' = DOMAIN tokens \cup {t}
<1>1. CASE Arrival \/ Tick
  BY <1>1 DEF Arrival, Tick, Register, Callback, PostMalformed, PostToken, tables, locals
<1>2. CASE \E r \in Reqs, t \in Tokens : InsertToken(r, t) \/ InsertUnacknowledged(r, t)
  BY <1>2 DEF InsertToken, InsertUnacknowledged, InsertRow, Put
<1>3. CASE \E r \in Reqs :
             \/ ReadCode(r) \/ CheckCode(r) \/ BurnCode(r) \/ FindClient(r)
             \/ Resolve(r) \/ ResolveFails(r) \/ Respond(r)
             \/ DbFails(r) \/ BurnUnacknowledged(r)
  BY <1>3 DEF ReadCode, CheckCode, BurnCode, FindClient, Resolve, ResolveFails,
              Respond, DbFails, BurnUnacknowledged, tables, locals
<1> QED
  BY <1>1, <1>2, <1>3 DEF LoginStep, Handler

LEMMA GrantedAreTokens == IInv => Granted \subseteq DOMAIN tokens /\ Granted \subseteq Tokens
<1>1. IInv => \A r \in DOMAIN minted : minted[r] \in DOMAIN tokens
  BY DEF IInv, Minted
<1>2. IInv => DOMAIN tokens \subseteq Tokens
  BY DEF IInv, TypeOK, IsTable
<1> QED
  BY <1>1, <1>2 DEF Granted

-----------------------------------------------------------------------------
(* The requests to /mcp.                                                   *)

LEMMA UseIsMcp ==
  ASSUME IInv, UNCHANGED vars, UseStep
  PROVE  Mcp!Next
BY GrantedAreTokens DEF UseStep, Mcp!Next, Mcp!Bearers

LEMMA LifeIsMcp == IInv /\ [LifeNext]_lifeVars => [Mcp!Next]_(Mcp!vars)
<1> SUFFICES ASSUME IInv, [LifeNext]_lifeVars
             PROVE  [Mcp!Next]_(Mcp!vars)
  OBVIOUS
<1>1. CASE LoginStep /\ UNCHANGED mcpLocals
  <2>1. CASE UNCHANGED (DOMAIN tokens)
    BY <1>1, <2>1 DEF mcpLocals, Mcp!vars, Mcp!arrival, Mcp!counts, Mcp!streams
  <2>2. ASSUME NEW t \in Tokens, t \notin DOMAIN tokens,
               DOMAIN tokens' = DOMAIN tokens \cup {t}
        PROVE  Mcp!Issue(t)
    BY <1>1, <2>2 DEF mcpLocals, Mcp!Issue, Mcp!arrival, Mcp!counts, Mcp!streams
  <2> QED
    BY <1>1, <2>1, <2>2, RowsStep DEF Mcp!Next
<1>2. CASE UNCHANGED vars /\ UseStep
  BY <1>2, UseIsMcp
<1>3. CASE Crash /\ Mcp!Crash
  BY <1>3 DEF Mcp!Next
<1>4. CASE UNCHANGED lifeVars
  BY <1>4 DEF lifeVars, vars, mcpLocals, Mcp!vars, Mcp!arrival, Mcp!counts, Mcp!streams
<1> QED
  BY <1>1, <1>2, <1>3, <1>4 DEF LifeNext

(* The exchange does nothing to the token table but add rows: no request   *)
(* to /mcp can tell it from McpRequest's Issue.                            *)
THEOREM UsesAreRequests == LifeSpec => ImplementsMcp
<1>1. LifeInit => Mcp!Init
  BY DEF LifeInit
<1> QED
  BY <1>1, LifeIsMcp, ExchangeInvariance, PTL DEF LifeSpec, ImplementsMcp, Mcp!Spec

-----------------------------------------------------------------------------
(* What McpRequestProofs proves holds here.  Mcp and McpP are instances of *)
(* one module; the prover has to be shown that they say the same.          *)

LEMMA SameInit == Mcp!Init => McpP!Init
BY DEF Mcp!Init, McpP!Init, Mcp!UnknownToken, McpP!UnknownToken

LEMMA SameStep == [Mcp!Next]_(Mcp!vars) => [McpP!Next]_(McpP!vars)
<1> USE DEF Mcp!Goto, McpP!Goto, Mcp!Rejects, McpP!Rejects, Mcp!arrival, McpP!arrival,
            Mcp!counts, Mcp!streams, McpP!counts, McpP!streams, Mcp!Answers, McpP!Answers, Mcp!Running, McpP!Running,
            Mcp!IsValid, McpP!IsValid, Mcp!UnknownToken, McpP!UnknownToken,
            Mcp!Bearers, McpP!Bearers
<1>1. UNCHANGED Mcp!vars => UNCHANGED McpP!vars
  BY DEF Mcp!vars, McpP!vars
<1>2. ASSUME NEW r \in McpReqs, NEW t \in Mcp!Bearers, Mcp!Arrive(r, t) PROVE McpP!Arrive(r, t)
  BY <1>2 DEF Mcp!Arrive, McpP!Arrive, Mcp!Take, McpP!Take
<1>3. ASSUME NEW r \in McpReqs, NEW t \in Tokens, Mcp!Message(r, t) PROVE McpP!Message(r, t)
  BY <1>3 DEF Mcp!Message, McpP!Message, Mcp!Take, McpP!Take
<1>4. ASSUME NEW r \in McpReqs, Mcp!Request(r) PROVE McpP!Request(r)
  BY <1>4 DEF Mcp!Request, McpP!Request,
     Mcp!Authorize, McpP!Authorize, Mcp!AuthorizeFails, McpP!AuthorizeFails,
     Mcp!Invalid, McpP!Invalid, Mcp!Return, McpP!Return, Mcp!Call, McpP!Call,
     Mcp!Answered, McpP!Answered, Mcp!CallSucceeds, McpP!CallSucceeds,
     Mcp!PermissionDenied, McpP!PermissionDenied, Mcp!BackendError, McpP!BackendError,
     Mcp!Deny, McpP!Deny, Mcp!Handled, McpP!Handled, Mcp!Revoke401, McpP!Revoke401,
     Mcp!Unreadable401, McpP!Unreadable401
<1>5. ASSUME NEW t \in Tokens,
             \/ Mcp!AuthorizeStream(t) \/ Mcp!OpenSession(t) \/ Mcp!ConnectFails(t)
             \/ Mcp!CloseSession(t)
             \/ Mcp!Issue(t) \/ Mcp!RevokeLands(t) \/ Mcp!RevokeFails(t) \/ Mcp!SessionEnds(t)
      PROVE  \/ McpP!AuthorizeStream(t) \/ McpP!OpenSession(t) \/ McpP!ConnectFails(t)
             \/ McpP!CloseSession(t)
             \/ McpP!Issue(t) \/ McpP!RevokeLands(t) \/ McpP!RevokeFails(t) \/ McpP!SessionEnds(t)
  BY <1>5 DEF Mcp!AuthorizeStream, McpP!AuthorizeStream, Mcp!OpenSession,
     McpP!OpenSession, Mcp!ConnectFails, McpP!ConnectFails, Mcp!CloseSession, McpP!CloseSession,
     Mcp!Issue, McpP!Issue, Mcp!RevokeLands, McpP!RevokeLands, Mcp!RevokeFails,
     McpP!RevokeFails, Mcp!SessionEnds, McpP!SessionEnds
<1>6. Mcp!Crash => McpP!Crash
  BY DEF Mcp!Crash, McpP!Crash
<1>7. Mcp!Next => McpP!Next
  <2>1. Mcp!Bearers = McpP!Bearers
    OBVIOUS
  <2> QED
    BY ONLY <1>2, <1>3, <1>4, <1>5, <1>6, <2>1 DEF Mcp!Next, McpP!Next
<1> QED
  BY ONLY <1>1, <1>7

LEMMA AccessInvariance == LifeSpec => []McpP!IInv
<1>1. LifeSpec => McpP!Spec
  <2>1. LifeInit => McpP!Init
    BY SameInit DEF LifeInit
  <2>2. IInv /\ [LifeNext]_lifeVars => [McpP!Next]_(McpP!vars)
    BY LifeIsMcp, SameStep
  <2> QED
    BY <2>1, <2>2, ExchangeInvariance, PTL DEF LifeSpec, McpP!Spec
<1>2. McpP!Spec => []McpP!IInv
  <2>1. {} \subseteq Tokens /\ MaxCalls \in Nat
    BY MaxCallsAssumption
  <2> QED
    BY <2>1, McpP!Invariance DEF McpP!ConstantsAssumption
<1> QED
  BY <1>1, <1>2, PTL

-----------------------------------------------------------------------------
(* Who holds what.                                                         *)

(* Requests and SSE sessions carry tokens that a 200 gave out, or none     *)
(* that exists: this the exchange and the requests keep only together.     *)
Carried ==
  /\ tok \in [McpReqs -> Granted \cup {Mcp!UnknownToken}]
  /\ connecting \subseteq Granted /\ sessions \subseteq Granted
  /\ \A r \in McpReqs : got[r] => tok[r] \in Granted

(* Not inductive alone: an [AUTH_REQUIRED] needs to know that a denial is  *)
(* of a dead session, a 401 that only dead tokens are revoked, which       *)
(* McpP!IInv says, and that a token that was given out has its row, which  *)
(* IInv says.                                                              *)
LifeInv == IInv /\ McpP!IInv /\ Carried /\ GrantedIsAccepted

LEMMA InitLifeInv == LifeInit => Carried /\ GrantedIsAccepted
BY DEF LifeInit, Mcp!Init, Carried, GrantedIsAccepted

(* A token that has been given out stays so, and the row it stands for.    *)
LEMMA GrantedGrow ==
  ASSUME IInv, [LifeNext]_lifeVars
  PROVE  Granted \subseteq Granted'
<1> SUFFICES ASSUME NEW r \in DOMAIN minted, pc[r] = "granted"
             PROVE  r \in DOMAIN minted' /\ minted'[r] = minted[r] /\ pc'[r] = "granted"
  BY DEF Granted
<1>1. r \in Reqs
  BY DEF IInv, TypeOK, IsTable
<1>2. CASE Arrival \/ Tick
  BY <1>1, <1>2 DEF Arrival, Tick, Register, Callback, PostMalformed, PostToken, tables,
     locals, Goto, IInv, TypeOK
<1>3. CASE \E q \in Reqs, t \in Tokens : InsertToken(q, t) \/ InsertUnacknowledged(q, t)
  BY <1>1, <1>3 DEF InsertToken, InsertUnacknowledged, InsertRow, Put, Goto, IInv, TypeOK
<1>4. CASE \E q \in Reqs :
             \/ ReadCode(q) \/ CheckCode(q) \/ BurnCode(q) \/ FindClient(q)
             \/ Resolve(q) \/ ResolveFails(q) \/ Respond(q)
             \/ DbFails(q) \/ BurnUnacknowledged(q)
  BY <1>1, <1>4 DEF ReadCode, CheckCode, BurnCode, FindClient, Resolve, ResolveFails,
     Respond, DbFails, BurnUnacknowledged, tables, locals, Goto, IInv, TypeOK
<1>5. CASE Crash
  BY <1>1, <1>5 DEF Crash, InFlight, locals
<1>6. CASE UNCHANGED vars
  BY <1>6 DEF vars
<1> QED
  BY <1>2, <1>3, <1>4, <1>5, <1>6 DEF LifeNext, LoginStep, Handler, lifeVars

(* A request takes up a token; it is judged by nothing yet.                *)
LEMMA TakeCarried ==
  ASSUME LifeInv, UNCHANGED vars, NEW r \in McpReqs,
         \/ \E t \in Granted \cup {Mcp!UnknownToken} : Mcp!Arrive(r, t)
         \/ \E t \in Tokens : Mcp!Message(r, t)
  PROVE  Carried' /\ GrantedIsAccepted'
<1>1. PICK t \in Granted \cup {Mcp!UnknownToken} :
        /\ tok' = [tok EXCEPT ![r] = t]
        /\ got' = [got EXCEPT ![r] = FALSE]
        /\ \E to \in {"arrived", "authorized"} : mcpPc' = [mcpPc EXCEPT ![r] = to]
        /\ UNCHANGED <<alive, connecting, sessions>>
  BY DEF Mcp!Arrive, Mcp!Message, Mcp!Take, Mcp!streams, LifeInv, Carried
<1>2. Granted' = Granted
  BY DEF Granted, vars
<1>3. /\ mcpPc \in [McpReqs -> {"idle"} \cup McpP!Running \cup McpP!Answers]
      /\ got \in [McpReqs -> BOOLEAN]
  BY DEF LifeInv, McpP!IInv, McpP!TypeOK
<1>4. Carried'
  BY <1>1, <1>2, <1>3 DEF LifeInv, Carried
<1>5. GrantedIsAccepted'
  BY <1>1, <1>3 DEF LifeInv, Carried, GrantedIsAccepted
<1> QED
  BY <1>4, <1>5

(* The judgement of a token, and what comes of it.                         *)
LEMMA RequestCarried ==
  ASSUME LifeInv, UNCHANGED vars, NEW r \in McpReqs, Mcp!Request(r)
  PROVE  Carried' /\ GrantedIsAccepted'
<1> USE DEF Mcp!Goto, Mcp!arrival, Mcp!counts, Mcp!streams
<1>1. Granted' = Granted
  BY DEF Granted, vars
<1>2. UNCHANGED <<alive, connecting, sessions, tok>>
  BY DEF Mcp!Request, Mcp!Authorize, Mcp!AuthorizeFails, Mcp!Invalid, Mcp!Return,
     Mcp!Call, Mcp!Answered, Mcp!CallSucceeds, Mcp!PermissionDenied, Mcp!BackendError,
     Mcp!Deny, Mcp!Handled, Mcp!Revoke401, Mcp!Unreadable401
<1>3. \/ got' = got
      \/ got' = [got EXCEPT ![r] = TRUE] /\ tok[r] \in alive
  BY DEF Mcp!Request, Mcp!Authorize, Mcp!AuthorizeFails, Mcp!Invalid, Mcp!Return,
     Mcp!Call, Mcp!Answered, Mcp!CallSucceeds, Mcp!PermissionDenied, Mcp!BackendError,
     Mcp!Deny, Mcp!Handled, Mcp!Revoke401, Mcp!Unreadable401
<1>4. /\ mcpPc \in [McpReqs -> {"idle"} \cup McpP!Running \cup McpP!Answers]
      /\ got \in [McpReqs -> BOOLEAN] /\ denied \in [McpReqs -> 0..MaxCalls]
      /\ alive \subseteq Tokens
  BY DEF LifeInv, McpP!IInv, McpP!TypeOK
<1>5. tok \in [McpReqs -> Granted \cup {Mcp!UnknownToken}] /\ Mcp!UnknownToken \notin alive
  BY <1>4, UnknownAssumption DEF LifeInv, Carried
<1>6. Carried'
  <2>1. tok[r] \in alive => tok[r] \in Granted
    BY <1>5
  <2> QED
    BY <1>1, <1>2, <1>3, <1>4, <2>1 DEF LifeInv, Carried
<1>7. /\ \A q \in McpReqs : q # r => mcpPc'[q] = mcpPc[q]
      /\ mcpPc'[r] \in {"unauthorized", "authRequired"} =>
           \/ mcpPc'[r] = mcpPc[r]
           \/ ~ Mcp!IsValid(tok[r])
           \/ denied[r] > 0
  BY <1>4 DEF Mcp!Request, Mcp!Authorize, Mcp!AuthorizeFails, Mcp!Invalid, Mcp!Return,
     Mcp!Call, Mcp!Answered, Mcp!CallSucceeds, Mcp!PermissionDenied, Mcp!BackendError,
     Mcp!Deny, Mcp!Handled, Mcp!Revoke401, Mcp!Unreadable401, Mcp!Rejects
<1>8. denied[r] > 0 => tok[r] \notin alive
  BY DEF LifeInv, McpP!IInv, McpP!Standing
<1>9. ~ Mcp!IsValid(tok[r]) => tok[r] \notin alive
  <2>1. Granted \subseteq DOMAIN tokens /\ revoked \cap alive = {}
    BY GrantedAreTokens DEF LifeInv, McpP!IInv, McpP!OnlyDeadRevoked
  <2> QED
    BY <1>5, <2>1 DEF Mcp!IsValid
<1>10. GrantedIsAccepted'
  BY <1>2, <1>7, <1>8, <1>9 DEF LifeInv, GrantedIsAccepted
<1> QED
  BY <1>6, <1>10

LEMMA CarriedStep == LifeInv /\ [LifeNext]_lifeVars => Carried' /\ GrantedIsAccepted'
<1> SUFFICES ASSUME LifeInv, [LifeNext]_lifeVars
             PROVE  Carried' /\ GrantedIsAccepted'
  OBVIOUS
<1>1. Granted \subseteq Granted'
  BY GrantedGrow DEF LifeInv
<1>2. ASSUME UNCHANGED <<tok, got, mcpPc>>, connecting' \subseteq Granted,
             sessions' \subseteq Granted, alive' \subseteq alive
      PROVE  Carried' /\ GrantedIsAccepted'
  BY <1>1, <1>2 DEF LifeInv, Carried, GrantedIsAccepted
<1>3. CASE LoginStep /\ UNCHANGED mcpLocals
  BY <1>2, <1>3 DEF mcpLocals, LifeInv, Carried
<1>4. CASE UNCHANGED vars /\ UseStep
  <2>1. ASSUME NEW t \in Tokens,
               \/ t \in Granted /\ Mcp!AuthorizeStream(t)
               \/ Mcp!OpenSession(t) \/ Mcp!ConnectFails(t) \/ Mcp!CloseSession(t)
               \/ Mcp!RevokeLands(t) \/ Mcp!RevokeFails(t) \/ Mcp!SessionEnds(t)
        PROVE  Carried' /\ GrantedIsAccepted'
    BY <1>2, <2>1 DEF Mcp!AuthorizeStream, Mcp!OpenSession, Mcp!ConnectFails,
       Mcp!CloseSession, Mcp!RevokeLands, Mcp!RevokeFails, Mcp!SessionEnds, LifeInv,
       Carried, Mcp!arrival, Mcp!counts, Mcp!streams
  <2>2. Granted \subseteq Tokens
    BY GrantedAreTokens DEF LifeInv
  <2> QED
    BY <1>4, <2>1, <2>2, TakeCarried, RequestCarried DEF UseStep
<1>5. CASE Crash /\ Mcp!Crash
  <2>1. /\ UNCHANGED <<tok, got, alive>> /\ connecting' = {} /\ sessions' = {}
        /\ mcpPc' = [r \in McpReqs |-> IF mcpPc[r] \in Mcp!Running THEN "lost" ELSE mcpPc[r]]
    BY <1>5 DEF Mcp!Crash, Mcp!arrival
  <2> QED
    BY <1>1, <2>1 DEF LifeInv, Carried, GrantedIsAccepted
<1>6. CASE UNCHANGED lifeVars
  BY <1>2, <1>6 DEF lifeVars, mcpLocals, LifeInv, Carried
<1> QED
  BY <1>3, <1>4, <1>5, <1>6 DEF LifeNext

THEOREM LifeInvariance == LifeSpec => []LifeInv
<1>1. IInv /\ IInv' /\ McpP!IInv /\ McpP!IInv' /\ Carried /\ GrantedIsAccepted
        /\ [LifeNext]_lifeVars => Carried' /\ GrantedIsAccepted'
  BY CarriedStep DEF LifeInv
<1> QED
  BY <1>1, InitLifeInv, ExchangeInvariance, AccessInvariance, PTL DEF LifeSpec, LifeInv

(* Whoever holds a token from a 200 of /token is sent to the login page    *)
(* only when the backend has ended the session.                            *)
THEOREM GrantsAreAccepted == LifeSpec => []GrantedIsAccepted
<1>1. LifeInv => GrantedIsAccepted
  BY DEF LifeInv
<1> QED
  BY <1>1, LifeInvariance, PTL

(* Whoever gets data of the backend logged in for it: his exchange proved  *)
(* a code's verifier, burned the code and was answered 200, and the data   *)
(* is fetched with the credentials of that code's user.                    *)
THEOREM DataIsPaidFor == LifeSpec => []DataIsEarned
<1>1. LifeInv => DataIsEarned
  <2> SUFFICES ASSUME LifeInv, NEW r \in McpReqs, got[r]
               PROVE  \E q \in DOMAIN minted :
                        LET c == posted[q].code IN
                        /\ pc[q] = "granted" /\ minted[q] = tok[r]
                        /\ Proves(q, c) /\ IsUsed(c)
                        /\ tokens[tok[r]].jwt.user = codes[c].user
    BY DEF DataIsEarned
  <2>1. PICK q \in DOMAIN minted : pc[q] = "granted" /\ minted[q] = tok[r]
    BY DEF LifeInv, Carried, Granted
  <2>2. q \in DOMAIN creds /\ q \in DOMAIN slug /\ q \in DOMAIN row /\ q \in Reqs
    BY Nested DEF LifeInv
  <2>3. Proves(q, posted[q].code) /\ IsUsed(posted[q].code)
    BY <2>2 DEF LifeInv, IInv, Verified, Held
  <2>4. tokens[tok[r]].jwt = creds[q] /\ creds[q].user = row[q].user
    <3>1. creds[q] = [user |-> row[q].user, slug |-> slug[q]]
      BY <2>2 DEF LifeInv, IInv, Resolved
    <3>2. tokens[minted[q]] =
            [user |-> row[q].user, type |-> row[q].type,
             client |-> row[q].client, slug |-> slug[q], jwt |-> creds[q]]
      BY <2>1 DEF LifeInv, IInv, Minted
    <3> QED
      BY <2>1, <3>1, <3>2
  <2>5. row[q].user = codes[posted[q].code].user
    BY <2>2 DEF LifeInv, IInv, Snapshots
  <2> QED
    BY <2>1, <2>3, <2>4, <2>5
<1> QED
  BY <1>1, LifeInvariance, PTL
=============================================================================
