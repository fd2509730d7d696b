---------------------------- MODULE TokenAccess -----------------------------
(***************************************************************************)
(* What an access token stands for, with no rows, calls or transports: a   *)
(* session of the backend.  Its holder gets data for as long as the        *)
(* session lasts and is sent to the login page only once it is over; the   *)
(* token is revoked after that and never comes back.                       *)
(***************************************************************************)
CONSTANTS
  Bearers,  \* tokens a request may carry
  Valid,    \* those that are issued for a session
  Reqs

VARIABLES
  life,    \* of each token: "none", "live", "ended" or "revoked"
  holder,  \* the token of each request
  data,    \* whether it has got data of the backend
  reply    \* "none", "pending", "login" or "other"

Init ==
  /\ life = [t \in Bearers |-> "none"]
  /\ holder \in [Reqs -> Bearers]
  /\ data = [r \in Reqs |-> FALSE]
  /\ reply = [r \in Reqs |-> "none"]

Ask(r, t) ==
  /\ reply[r] # "pending"
  /\ holder' = [holder EXCEPT ![r] = t]
  /\ data' = [data EXCEPT ![r] = FALSE]
  /\ reply' = [reply EXCEPT ![r] = "pending"]
  /\ UNCHANGED life

(* A call of a request may be answered after the request itself was.       *)
GetData(r) ==
  /\ life[holder[r]] = "live"
  /\ data' = [data EXCEPT ![r] = TRUE]
  /\ UNCHANGED <<life, holder, reply>>

(* HTTP 401, or [AUTH_REQUIRED] as the answer of a tool.                   *)
SendToLogin(r) ==
  /\ reply[r] = "pending" /\ life[holder[r]] # "live"
  /\ reply' = [reply EXCEPT ![r] = "login"]
  /\ UNCHANGED <<life, holder, data>>

Answer(r) ==
  /\ reply[r] = "pending"
  /\ reply' = [reply EXCEPT ![r] = "other"]
  /\ UNCHANGED <<life, holder, data>>

(* The session is older than its token.                                    *)
Issue(t) ==
  /\ life[t] = "none"
  /\ life' \in {[life EXCEPT ![t] = "live"], [life EXCEPT ![t] = "ended"]}
  /\ UNCHANGED <<holder, data, reply>>

End(t) ==
  /\ life[t] = "live" /\ life' = [life EXCEPT ![t] = "ended"]
  /\ UNCHANGED <<holder, data, reply>>

Revoke(t) ==
  /\ life[t] = "ended" /\ life' = [life EXCEPT ![t] = "revoked"]
  /\ UNCHANGED <<holder, data, reply>>

Crash ==
  /\ reply' = [r \in Reqs |-> IF reply[r] = "pending" THEN "other" ELSE reply[r]]
  /\ UNCHANGED <<life, holder, data>>

Next ==
  \/ \E r \in Reqs :
       (\E t \in Bearers : Ask(r, t)) \/ GetData(r) \/ SendToLogin(r) \/ Answer(r)
  \/ \E t \in Valid : Issue(t) \/ End(t) \/ Revoke(t)
  \/ Crash

Spec == Init /\ [][Next]_<<life, holder, data, reply>>
=============================================================================
