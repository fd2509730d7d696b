---------------------------- MODULE McpRequest -----------------------------
(***************************************************************************)
(* The use of access tokens: authorization of a /mcp request from its      *)
(* token row, the backend calls of the tool it runs, and what a 401 of the *)
(* backend does to the token.                                              *)
(*                                                                         *)
(* Of mcp_access_tokens the model keeps which tokens have a row, "stored", *)
(* and which rows are "revoked"; OAuth writes the rows, and TokenLife puts *)
(* the two together.  "alive" is the backend's: the sessions it still      *)
(* accepts.  The rest is local to the requests in flight, each a slot of   *)
(* Reqs that may be used again once the calls it started have settled.  A  *)
(* tool may have several calls in flight (Promise.all), and those outlive  *)
(* a tool that one of them made fail.  A revocation is sent and not        *)
(* awaited, so it is in flight on its own.                                 *)
(*                                                                         *)
(* A client of the HTTP + SSE transport is authorized once, by the GET     *)
(* that opens its session; each message it posts then runs with the        *)
(* SessionAuth of that GET.  How a session ends is in SseSession.          *)
(***************************************************************************)
EXTENDS Naturals, FiniteSets

CONSTANTS
  Tokens,   \* the access tokens there may be
  Legacy,   \* those without cached_jwt or cached_signature (pre-migration)
  Reqs,     \* requests to /mcp at one time
  MaxCalls  \* backend calls one tool makes at most

ASSUME ConstantsAssumption == Legacy \subseteq Tokens /\ MaxCalls \in Nat

UnknownToken == "unknown-token"

VARIABLES
  stored,    \* mcp_access_tokens: the tokens that have a row
  revoked,   \* rows with revoked = true
  alive,     \* tokens whose cached credentials the backend accepts
  pc,        \* where each request is
  tok,       \* its Bearer token: auth.accessToken once it is authorized
  calls,     \* backend calls its tool has started
  open,      \* those the backend has not answered
  denied,    \* those it has answered with a 401 that is not handled yet
  bySession, \* it is a message of an SSE session
  got,       \* history: the backend has answered a call of it with data
  connecting, \* tokens with a GET of an SSE stream that is past authorize
  sessions,  \* tokens with an SSE session in the map
  late,      \* history: its token was revoked when it arrived
  told,      \* history: tokens whose client was told [AUTH_REQUIRED]
  revoking   \* tokens with an UPDATE in flight that nobody awaits

arrival == <<tok, bySession, late>>
counts == <<calls, open, denied, got>>
streams == <<connecting, sessions>>
vars == <<stored, revoked, alive, pc, arrival, counts, told, revoking, streams>>

Bearers == Tokens \cup {UnknownToken}
Running == {"arrived", "authorized"}
Answers == {"unauthorized", "invalid", "done", "permissionDenied",
            "backendError", "authRequired", "serverError", "lost"}

(* A wrong variant, no part of Spec: the revoked column is not looked at.  *)
MutIsValid(t) == t \in stored /\ t \notin Legacy

(* The row getAccessToken returns, if any.                                 *)
IsValid(t) == t \in stored /\ t \notin revoked /\ t \notin Legacy

Init ==
  /\ stored = Legacy
  /\ revoked = {} /\ told = {} /\ revoking = {} /\ connecting = {} /\ sessions = {}
  /\ alive = Tokens \ Legacy
  /\ pc = [r \in Reqs |-> "idle"]
  /\ tok = [r \in Reqs |-> UnknownToken]
  /\ calls = [r \in Reqs |-> 0]
  /\ open = [r \in Reqs |-> 0]
  /\ denied = [r \in Reqs |-> 0]
  /\ bySession = [r \in Reqs |-> FALSE]
  /\ got = [r \in Reqs |-> FALSE]
  /\ late = [r \in Reqs |-> FALSE]

Goto(r, from, to) == pc[r] = from /\ pc' = [pc EXCEPT ![r] = to]

(* A call of r rejects: the tool fails with it and the request is answered *)
(* "to"; or the tool swallows it (Promise.allSettled), or has  *)
(* been answered before, and nobody hears of it.                           *)
Rejects(r, to) == Goto(r, "authorized", to) \/ UNCHANGED pc

-----------------------------------------------------------------------------
(* Wrong variants of definitions below, no part of Spec.                   *)

(* The sentinel is not looked at: any 401 revokes.                         *)
MutPermissionDenied(r) ==
  /\ open[r] > 0
  /\ open' = [open EXCEPT ![r] = @ - 1]
  /\ Rejects(r, "permissionDenied")
  /\ revoking' = revoking \cup {tok[r]}
  /\ UNCHANGED <<stored, revoked, alive, arrival, calls, denied, told, got, streams>>

(* The tool polls: it calls again until a call fails.                      *)
MutCall(r) ==
  /\ pc[r] = "authorized"
  /\ calls' = [calls EXCEPT ![r] = (@ + 1) % (MaxCalls + 1)]
  /\ open' = [open EXCEPT ![r] = 1]
  /\ UNCHANGED <<stored, revoked, alive, pc, arrival, denied, told, revoking, got, streams>>

(* A call that was denied is also left waiting for an answer.              *)
MutDeny(r) ==
  /\ open[r] > 0 /\ tok[r] \notin alive
  /\ denied' = [denied EXCEPT ![r] = @ + 1]
  /\ UNCHANGED <<stored, revoked, alive, pc, arrival, calls, open, told, revoking, got, streams>>

-----------------------------------------------------------------------------
(* A request.                                                              *)

Take(r, t, viaSession) ==
  /\ pc[r] \in {"idle"} \cup Answers
  /\ open[r] = 0 /\ denied[r] = 0
  /\ tok' = [tok EXCEPT ![r] = t]
  /\ bySession' = [bySession EXCEPT ![r] = viaSession]
  /\ calls' = [calls EXCEPT ![r] = 0]
  /\ got' = [got EXCEPT ![r] = FALSE]
  /\ late' = [late EXCEPT ![r] = t \in revoked]
  /\ UNCHANGED <<stored, revoked, alive, open, denied, told, revoking, streams>>

(* POST /mcp.                                                              *)
Arrive(r, t) ==
  /\ Take(r, t, FALSE)
  /\ pc' = [pc EXCEPT ![r] = "arrived"]

(* POST /mcp/messages of an open session: nothing is looked up but that.   *)
Message(r, t) ==
  /\ t \in sessions
  /\ Take(r, t, TRUE)
  /\ pc' = [pc EXCEPT ![r] = "authorized"]

(* authorize: the SELECT is evaluated, and the session is built from the   *)
(* row; from here on the request never looks at the row again.             *)
Authorize(r) ==
  /\ Goto(r, "arrived", IF IsValid(tok[r]) THEN "authorized" ELSE "unauthorized")
  /\ UNCHANGED <<stored, revoked, alive, arrival, counts, told, revoking, streams>>

AuthorizeFails(r) ==
  /\ Goto(r, "arrived", "serverError")
  /\ UNCHANGED <<stored, revoked, alive, arrival, counts, told, revoking, streams>>

(* executeTool refuses: no such tool, or input that does not validate.     *)
Invalid(r) ==
  /\ calls[r] = 0
  /\ Goto(r, "authorized", "invalid")
  /\ UNCHANGED <<stored, revoked, alive, arrival, counts, told, revoking, streams>>

(* The handler returns: it awaits every call it starts.                    *)
Return(r) ==
  /\ open[r] = 0 /\ denied[r] = 0
  /\ Goto(r, "authorized", "done")
  /\ UNCHANGED <<stored, revoked, alive, arrival, counts, told, revoking, streams>>

-----------------------------------------------------------------------------
(* authedPost, by what the backend answers.                                *)

Call(r) ==
  /\ pc[r] = "authorized" /\ calls[r] < MaxCalls
  /\ calls' = [calls EXCEPT ![r] = @ + 1]
  /\ open' = [open EXCEPT ![r] = @ + 1]
  /\ UNCHANGED <<stored, revoked, alive, pc, arrival, denied, told, revoking, got, streams>>

CallSucceeds(r) ==
  /\ open[r] > 0 /\ tok[r] \in alive
  /\ open' = [open EXCEPT ![r] = @ - 1]
  /\ got' = [got EXCEPT ![r] = TRUE]
  /\ UNCHANGED <<stored, revoked, alive, pc, arrival, calls, denied, told, revoking, streams>>

(* 403, or 401 with the permission sentinel: the token is kept.            *)
PermissionDenied(r) ==
  /\ open[r] > 0
  /\ open' = [open EXCEPT ![r] = @ - 1]
  /\ Rejects(r, "permissionDenied")
  /\ UNCHANGED <<stored, revoked, alive, arrival, calls, denied, told, revoking, got, streams>>

(* A wrong variant: the client is told to log in again whatever failed.    *)
MutBackendError(r) ==
  /\ open[r] > 0
  /\ open' = [open EXCEPT ![r] = @ - 1]
  /\ Rejects(r, "authRequired")
  /\ UNCHANGED <<stored, revoked, alive, arrival, calls, denied, told, revoking, got, streams>>

(* Any other failure: a 4xx, a 5xx, or no answer within 60 seconds.        *)
BackendError(r) ==
  /\ open[r] > 0
  /\ open' = [open EXCEPT ![r] = @ - 1]
  /\ Rejects(r, "backendError")
  /\ UNCHANGED <<stored, revoked, alive, arrival, calls, denied, told, revoking, got, streams>>

(* The backend does not know the session: a 401 is on its way.             *)
Deny(r) ==
  /\ open[r] > 0 /\ tok[r] \notin alive
  /\ open' = [open EXCEPT ![r] = @ - 1]
  /\ denied' = [denied EXCEPT ![r] = @ + 1]
  /\ UNCHANGED <<stored, revoked, alive, pc, arrival, calls, told, revoking, got, streams>>

(* It is handled: the revocation is sent off and the call throws           *)
(* [AUTH_REQUIRED], which executeTool makes the tool's answer.             *)
Revoke401(r) ==
  /\ denied[r] > 0
  /\ denied' = [denied EXCEPT ![r] = @ - 1]
  /\ revoking' = revoking \cup {tok[r]}
  /\ Rejects(r, "authRequired")
  /\ told' = IF pc' = pc THEN told ELSE told \cup {tok[r]}
  /\ UNCHANGED <<stored, revoked, alive, arrival, calls, open, got, streams>>

(* Its body has a "message" that is neither a string nor holds one (null,  *)
(* [], {}): parseAxiosError's message is undefined, and looking for the    *)
(* sentinel in it throws a TypeError before the revocation is sent.        *)
Unreadable401(r) ==
  /\ denied[r] > 0
  /\ denied' = [denied EXCEPT ![r] = @ - 1]
  /\ Rejects(r, "backendError")
  /\ UNCHANGED <<stored, revoked, alive, arrival, calls, open, told, revoking, got, streams>>

-----------------------------------------------------------------------------
(* SSE sessions: GET /mcp/sse, and whatever destroys the session.          *)

(* authorize has found the row; server.connect is still to settle.         *)
AuthorizeStream(t) ==
  /\ IsValid(t) /\ t \notin connecting
  /\ connecting' = connecting \cup {t}
  /\ UNCHANGED <<stored, revoked, alive, pc, arrival, counts, told, revoking, sessions>>

(* It has: the session is entered, whatever became of the row meanwhile.   *)
OpenSession(t) ==
  /\ t \in connecting
  /\ connecting' = connecting \ {t}
  /\ sessions' = sessions \cup {t}
  /\ UNCHANGED <<stored, revoked, alive, pc, arrival, counts, told, revoking>>

ConnectFails(t) ==
  /\ t \in connecting
  /\ connecting' = connecting \ {t}
  /\ UNCHANGED <<stored, revoked, alive, pc, arrival, counts, told, revoking, sessions>>

CloseSession(t) ==
  /\ t \in sessions
  /\ sessions' = sessions \ {t}
  /\ UNCHANGED <<stored, revoked, alive, pc, arrival, counts, told, revoking, connecting>>

-----------------------------------------------------------------------------
(* The revocation, the environment and the process.                        *)

(* POST /token inserts a row (see OAuth).  The backend's session is older: *)
(* it may even be over by then.                                            *)
Issue(t) ==
  /\ t \notin stored
  /\ stored' = stored \cup {t}
  /\ UNCHANGED <<revoked, alive, pc, arrival, counts, told, revoking, streams>>

RevokeLands(t) ==
  /\ t \in revoking
  /\ revoking' = revoking \ {t}
  /\ revoked' = revoked \cup {t}
  /\ UNCHANGED <<stored, alive, pc, arrival, counts, told, streams>>

(* The UPDATE is refused: logged as non-fatal and forgotten.               *)
RevokeFails(t) ==
  /\ t \in revoking
  /\ revoking' = revoking \ {t}
  /\ UNCHANGED <<stored, revoked, alive, pc, arrival, counts, told, streams>>

(* The backend ends a session: a logout elsewhere, an expired JWT.  A new  *)
(* login gives a new token row; this one's credentials never come back.    *)
SessionEnds(t) ==
  /\ t \in alive
  /\ alive' = alive \ {t}
  /\ UNCHANGED <<stored, revoked, pc, arrival, counts, told, revoking, streams>>

(* The process dies (or a serverless instance is frozen): the requests,    *)
(* their calls and the revocations in flight are gone.                     *)
Crash ==
  /\ pc' = [r \in Reqs |-> IF pc[r] \in Running THEN "lost" ELSE pc[r]]
  /\ open' = [r \in Reqs |-> 0]
  /\ denied' = [r \in Reqs |-> 0]
  /\ revoking' = {} /\ connecting' = {} /\ sessions' = {}
  /\ UNCHANGED <<stored, revoked, alive, arrival, calls, got, told>>

-----------------------------------------------------------------------------
Answered(r) ==
  CallSucceeds(r) \/ PermissionDenied(r) \/ BackendError(r) \/ Deny(r)

Handled(r) == Revoke401(r) \/ Unreadable401(r)

Request(r) ==
  \/ Authorize(r) \/ AuthorizeFails(r) \/ Invalid(r) \/ Return(r)
  \/ Call(r) \/ Answered(r) \/ Handled(r)

Next ==
  \/ \E r \in Reqs, t \in Bearers : Arrive(r, t)
  \/ \E r \in Reqs, t \in Tokens : Message(r, t)
  \/ \E r \in Reqs : Request(r)
  \/ \E t \in Tokens :
       AuthorizeStream(t) \/ OpenSession(t) \/ ConnectFails(t) \/ CloseSession(t)
  \/ \E t \in Tokens : Issue(t) \/ RevokeLands(t) \/ RevokeFails(t) \/ SessionEnds(t)
  \/ Crash

Spec == Init /\ [][Next]_vars

(* Requests make progress: awaits settle (axios gives up after 60 seconds) *)
(* and a tool goes on to its next call or returns.  Strong fairness of     *)
(* RevokeLands is an assumption about the database: of revocations sent    *)
(* again and again, one gets through.                                      *)
FairSpec ==
  /\ Spec
  /\ \A r \in Reqs :
       /\ WF_vars(Authorize(r)) /\ WF_vars(Answered(r)) /\ WF_vars(Handled(r))
       /\ WF_vars(Call(r) \/ Return(r))
  /\ \A t \in Tokens : SF_vars(RevokeLands(t))

-----------------------------------------------------------------------------
(* Properties.                                                             *)

(* Types; and a call in flight is one that was started.                    *)
TypeOK ==
  /\ stored \subseteq Tokens /\ revoked \subseteq stored /\ alive \subseteq Tokens \ Legacy
  /\ told \subseteq Tokens /\ revoking \subseteq Tokens
  /\ connecting \subseteq Tokens /\ sessions \subseteq Tokens
  /\ pc \in [Reqs -> {"idle"} \cup Running \cup Answers]
  /\ tok \in [Reqs -> Bearers]
  /\ calls \in [Reqs -> 0..MaxCalls]
  /\ open \in [Reqs -> 0..MaxCalls] /\ denied \in [Reqs -> 0..MaxCalls]
  /\ late \in [Reqs -> BOOLEAN]
  /\ bySession \in [Reqs -> BOOLEAN] /\ got \in [Reqs -> BOOLEAN]
  /\ \A r \in Reqs : open[r] + denied[r] <= calls[r]

(* A permission denial, an outage or somebody else's 401 never costs a     *)
(* user the login: only a token whose session the backend has ended is     *)
(* revoked, or is about to be, and only its client is told to log in again.*)
OnlyDeadRevoked == (revoked \cup revoking \cup told) \cap alive = {}

(* A request to /mcp after its token's revocation took effect is answered  *)
(* 401, never gets to run a tool and never reaches the backend.            *)
RevokedIsRefused ==
  \A r \in Reqs : late[r] /\ ~ bySession[r] =>
    /\ pc[r] \in {"arrived", "unauthorized", "serverError", "lost"}
    /\ calls[r] = 0

(* An SSE session outlives the revocation of its token, but to no effect:  *)
(* whatever comes in after the revocation, by whatever transport, gets no  *)
(* data from the backend.                                                  *)
RevokedGetsNothing == \A r \in Reqs : late[r] => ~ got[r]

(* A token stands for its backend session, as TokenAccess says, whatever   *)
(* the transports, the parallel calls, the failures and the revocations    *)
(* that cross each other: data comes only while that session lasts, a      *)
(* client is sent to the login page, by HTTP 401 or by [AUTH_REQUIRED],    *)
(* only when it is over, and a token goes from live to ended to revoked.   *)
Life(t) ==
  IF t \notin stored \ Legacy THEN "none"
  ELSE IF t \in revoked THEN "revoked"
  ELSE IF t \in alive THEN "live" ELSE "ended"

ReplyOf(r) ==
  IF pc[r] = "idle" THEN "none"
  ELSE IF pc[r] \in Running THEN "pending"
  ELSE IF pc[r] \in {"unauthorized", "authRequired"} THEN "login" ELSE "other"

LifeOf == [t \in Bearers |-> Life(t)]
Replies == [r \in Reqs |-> ReplyOf(r)]

Access == INSTANCE TokenAccess WITH
  Valid <- Tokens \ Legacy, life <- LifeOf, holder <- tok, data <- got, reply <- Replies

ImplementsAccess == Access!Spec

(* The login page does come: a client is not told [AUTH_REQUIRED] for one  *)
(* token forever, however many requests it sends, revocations fail and     *)
(* crashes happen; sooner or later its requests get HTTP 401.  (Messages   *)
(* of an SSE session may be answered so for as long as the session lives.) *)
NoEndlessDenial ==
  \A r \in Reqs, t \in Tokens :
    <>[][~ (/\ tok[r] = t /\ ~ bySession[r]
            /\ pc[r] = "authorized" /\ pc'[r] = "authRequired")]_vars

(* Every request is answered, and every call it started settles.           *)
RequestsEnd ==
  \A r \in Reqs : pc[r] \in Running ~>
    pc[r] \in Answers /\ open[r] = 0 /\ denied[r] = 0

-----------------------------------------------------------------------------
(* Statements of the repository that the code does not keep.               *)

(* authed-axios.ts:8-9: "Revoke the MCP access token [...] -> the next     *)
(* Claude request gets HTTP 401".  A request sent after an [AUTH_REQUIRED] *)
(* answer may be authorized: the revocation is not awaited, and may fail.  *)
(* (Said of one request at a time, which is sent when the last is over.)   *)
NextRequestRefused ==
  [][\A r \in Reqs :
       pc[r] = "arrived" /\ pc'[r] = "authorized" => tok[r] \notin told]_vars

(* authed-axios.ts:40-41: "Throws [AUTH_REQUIRED] (and revokes the MCP     *)
(* token) if the backend returns 401".  A 401 whose body has no message to *)
(* read ends the call in a TypeError and revokes nothing.                  *)
EveryDenialRevokes ==
  [][\A r \in Reqs :
       /\ denied'[r] < denied[r]
       /\ pc[r] = "authorized" /\ pc'[r] # "lost"
       => tok[r] \in revoking']_vars
=============================================================================
