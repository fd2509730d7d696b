------------------------- MODULE McpRequestProofs --------------------------
(***************************************************************************)
(* Proofs about McpRequest, for any number of tokens, requests and calls.  *)
(***************************************************************************)
EXTENDS McpRequest, TLAPS

USE DEF streams

(* What a request past its authorization knows: a token that has a row,    *)
(* and, while a 401 is on its way, a session the backend has ended.  Calls *)
(* outlive their tool, so both are said of the calls and not of pc alone.  *)
(* An SSE session and a revocation in flight are of such a token, too.     *)
Standing ==
  /\ Legacy \cup connecting \cup sessions \cup revoking \subseteq stored
  /\ \A r \in Reqs :
       /\ pc[r] = "authorized" \/ calls[r] > 0 => tok[r] \in stored
       /\ denied[r] > 0 => tok[r] \in stored \ alive
       /\ pc[r] = "arrived" => calls[r] = 0
       /\ late[r] => tok[r] \in revoked

(* The inductive invariant: Standing is what OnlyDeadRevoked,              *)
(* RevokedIsRefused and RevokedGetsNothing lack to be preserved by every   *)
(* step.  The last also needs the first: a token that is revoked when a    *)
(* message of a session arrives is one whose backend session is over.      *)
IInv ==
  TypeOK /\ Standing /\ OnlyDeadRevoked /\ RevokedIsRefused /\ RevokedGetsNothing

LEMMA GotoStep ==
  ASSUME TypeOK, NEW r \in Reqs, NEW from, NEW to, Goto(r, from, to),
         to \in {"idle"} \cup Running \cup Answers
  PROVE  /\ pc[r] = from
         /\ pc' \in [Reqs -> {"idle"} \cup Running \cup Answers]
         /\ pc'[r] = to
         /\ \A q \in Reqs : q # r => pc'[q] = pc[q]
BY DEF TypeOK, Goto

LEMMA InitIInv == Init => IInv
<1> SUFFICES ASSUME Init PROVE IInv
  OBVIOUS
<1>1. TypeOK
  BY ConstantsAssumption DEF Init, TypeOK, Bearers
<1>2. Standing /\ OnlyDeadRevoked /\ RevokedIsRefused /\ RevokedGetsNothing
  BY DEF Init, Standing, OnlyDeadRevoked, RevokedIsRefused, RevokedGetsNothing
<1> QED
  BY <1>1, <1>2 DEF IInv

-----------------------------------------------------------------------------
(* Steps that touch nothing but control states: the authorization and the  *)
(* answers that leave the token alone.                                     *)
LEMMA QuietStep ==
  ASSUME IInv,
         UNCHANGED <<stored, revoked, alive, arrival, counts, told, revoking, streams>>,
         pc' \in [Reqs -> {"idle"} \cup Running \cup Answers],
         \A q \in Reqs :
           \/ pc'[q] = pc[q]
           \/ pc[q] = "arrived" /\ pc'[q] \in {"unauthorized", "serverError"}
           \/ pc[q] = "arrived" /\ pc'[q] = "authorized" /\ IsValid(tok[q])
           \/ pc[q] = "authorized" /\ pc'[q] \in Answers
  PROVE  IInv'
<1> USE DEF arrival, counts
<1>1. TypeOK'
  BY DEF IInv, TypeOK
<1>2. Standing'
  BY DEF IInv, TypeOK, Standing, IsValid, Answers
<1>3. OnlyDeadRevoked' /\ RevokedIsRefused' /\ RevokedGetsNothing'
  BY DEF IInv, Standing, OnlyDeadRevoked, RevokedIsRefused, RevokedGetsNothing, IsValid
<1> QED
  BY <1>1, <1>2, <1>3 DEF IInv

LEMMA FlagSet ==
  \A f \in [Reqs -> BOOLEAN], r \in Reqs, b \in BOOLEAN :
    [f EXCEPT ![r] = b] \in [Reqs -> BOOLEAN]
OBVIOUS

(* A request is taken up: authorized only by a session, whose token has a  *)
(* row; everything it is to be judged by starts afresh.                    *)
LEMMA TakeStep ==
  ASSUME IInv, NEW r \in Reqs, NEW t \in Bearers,
         Arrive(r, t) \/ (t \in Tokens /\ Message(r, t))
  PROVE  IInv'
<1>1. /\ denied[r] = 0
      /\ UNCHANGED <<stored, revoked, alive, open, denied, told, revoking, streams>>
      /\ \A q \in Reqs : q # r =>
           /\ pc'[q] = pc[q] /\ tok'[q] = tok[q] /\ late'[q] = late[q]
           /\ calls'[q] = calls[q] /\ got'[q] = got[q] /\ bySession'[q] = bySession[q]
      /\ tok'[r] = t /\ calls'[r] = 0 /\ got'[r] = FALSE
      /\ late'[r] => t \in revoked
      /\ \/ pc'[r] = "arrived"
         \/ pc'[r] = "authorized" /\ t \in stored /\ bySession'[r]
  BY DEF Arrive, Message, Take, IInv, TypeOK, Standing
<1>2. TypeOK'
  <2>1. /\ pc' \in [Reqs -> {"idle"} \cup Running \cup Answers]
        /\ tok' \in [Reqs -> Bearers]
    <3>1. pc \in [Reqs -> {"idle"} \cup Running \cup Answers] /\ tok \in [Reqs -> Bearers]
      BY DEF IInv, TypeOK
    <3>2. /\ tok' = [tok EXCEPT ![r] = t]
          /\ \E to \in {"arrived", "authorized"} : pc' = [pc EXCEPT ![r] = to]
      BY DEF Arrive, Message, Take
    <3> QED
      BY <3>1, <3>2 DEF Running
  <2>2. /\ late' \in [Reqs -> BOOLEAN]
        /\ bySession' \in [Reqs -> BOOLEAN] /\ got' \in [Reqs -> BOOLEAN]
    <3>1. /\ late' = [late EXCEPT ![r] = t \in revoked]
          /\ got' = [got EXCEPT ![r] = FALSE]
          /\ \/ bySession' = [bySession EXCEPT ![r] = FALSE]
             \/ bySession' = [bySession EXCEPT ![r] = TRUE]
      BY DEF Arrive, Message, Take
    <3>2. /\ late \in [Reqs -> BOOLEAN]
          /\ bySession \in [Reqs -> BOOLEAN] /\ got \in [Reqs -> BOOLEAN]
      BY DEF IInv, TypeOK
    <3>3. late' \in [Reqs -> BOOLEAN]
      BY <3>1, <3>2, FlagSet
    <3>4. bySession' \in [Reqs -> BOOLEAN] /\ got' \in [Reqs -> BOOLEAN]
      BY <3>1, <3>2, FlagSet
    <3> QED
      BY <3>3, <3>4
  <2>3. /\ calls' \in [Reqs -> 0..MaxCalls]
        /\ \A q \in Reqs : open[q] + denied[q] <= calls'[q]
    <3>1. calls' = [calls EXCEPT ![r] = 0] /\ open[r] = 0 /\ denied[r] = 0
      BY DEF Arrive, Message, Take
    <3> QED
      BY <3>1, ConstantsAssumption DEF IInv, TypeOK
  <2> QED
    BY <1>1, <2>1, <2>2, <2>3 DEF IInv, TypeOK
<1>3. Standing'
  <2> SUFFICES ASSUME NEW q \in Reqs
               PROVE  /\ pc'[q] = "authorized" \/ calls'[q] > 0 => tok'[q] \in stored
                      /\ denied'[q] > 0 => tok'[q] \in stored \ alive
                      /\ pc'[q] = "arrived" => calls'[q] = 0
                      /\ late'[q] => tok'[q] \in revoked
    BY <1>1 DEF Standing, IInv
  <2>1. CASE q = r
    BY <1>1, <2>1
  <2>2. CASE q # r
    BY <1>1, <2>2 DEF IInv, Standing
  <2> QED
    BY <2>1, <2>2
<1>4. OnlyDeadRevoked'
  BY <1>1 DEF IInv, OnlyDeadRevoked
<1>5. RevokedIsRefused' /\ RevokedGetsNothing'
  BY <1>1 DEF IInv, RevokedIsRefused, RevokedGetsNothing
<1> QED
  BY <1>2, <1>3, <1>4, <1>5 DEF IInv

LEMMA CallStep ==
  ASSUME IInv, NEW r \in Reqs, Call(r)
  PROVE  IInv'
<1> USE ConstantsAssumption DEF Call, arrival
<1>1. TypeOK'
  BY DEF IInv, TypeOK
<1>2. Standing'
  BY DEF IInv, TypeOK, Standing
<1>3. OnlyDeadRevoked' /\ RevokedIsRefused' /\ RevokedGetsNothing'
  BY DEF IInv, TypeOK, OnlyDeadRevoked, RevokedIsRefused, RevokedGetsNothing
<1> QED
  BY <1>1, <1>2, <1>3 DEF IInv

(* A call that rejects ends its request or is not heard of.                *)
LEMMA RejectsStep ==
  ASSUME IInv, NEW r \in Reqs, NEW to \in Answers, Rejects(r, to)
  PROVE  /\ pc' \in [Reqs -> {"idle"} \cup Running \cup Answers]
         /\ \A q \in Reqs : \/ pc'[q] = pc[q]
                            \/ pc[q] = "authorized" /\ pc'[q] = to
BY GotoStep DEF Rejects, IInv, TypeOK

(* A call is answered: nothing but the counts of r changes, and its pc if  *)
(* the answer is an error; a 401 is counted only against a dead session.   *)
LEMMA AnsweredStep ==
  ASSUME IInv, NEW r \in Reqs, Answered(r)
  PROVE  IInv'
<1> USE DEF arrival
<1>1. /\ open[r] > 0 /\ open' = [open EXCEPT ![r] = @ - 1]
      /\ \/ denied' = denied
         \/ denied' = [denied EXCEPT ![r] = @ + 1] /\ tok[r] \notin alive
      /\ \/ got' = got
         \/ got' = [got EXCEPT ![r] = TRUE] /\ tok[r] \in alive
      /\ UNCHANGED <<stored, revoked, alive, arrival, calls, told, revoking, streams>>
  BY DEF Answered, CallSucceeds, PermissionDenied, BackendError, Deny
<1>2. /\ pc' \in [Reqs -> {"idle"} \cup Running \cup Answers]
      /\ \A q \in Reqs : \/ pc'[q] = pc[q]
                         \/ pc[q] = "authorized" /\ pc'[q] \in Answers
  <2>1. CASE UNCHANGED pc
    BY <2>1 DEF IInv, TypeOK
  <2>2. CASE \E to \in Answers : Rejects(r, to)
    BY <2>2, RejectsStep
  <2> QED
    BY <2>1, <2>2 DEF Answered, CallSucceeds, PermissionDenied, BackendError, Deny,
                      Answers
<1>3. TypeOK'
  <2>1. /\ open' \in [Reqs -> 0..MaxCalls] /\ denied' \in [Reqs -> 0..MaxCalls]
        /\ \A q \in Reqs : open'[q] + denied'[q] <= calls[q]
    <3>1. /\ open[r] - 1 \in 0..MaxCalls
          /\ denied[r] + 1 \in 0..MaxCalls
      BY <1>1, ConstantsAssumption DEF IInv, TypeOK
    <3>2. CASE denied' = denied
      BY <1>1, <3>1, <3>2 DEF IInv, TypeOK
    <3>3. CASE denied' = [denied EXCEPT ![r] = @ + 1]
      BY <1>1, <3>1, <3>3 DEF IInv, TypeOK
    <3> QED
      BY <1>1, <3>2, <3>3
  <2> QED
    BY <1>1, <1>2, <2>1 DEF IInv, TypeOK
<1>4. Standing'
  <2>1. calls[r] > 0
    BY <1>1 DEF IInv, TypeOK
  <2>2. tok[r] \in stored
    BY <2>1 DEF IInv, TypeOK, Standing
  <2>3. \A q \in Reqs : denied'[q] > 0 => tok[q] \in stored \ alive
    BY <1>1, <2>2 DEF IInv, TypeOK, Standing
  <2> QED
    BY <1>1, <1>2, <2>3 DEF IInv, TypeOK, Standing, Answers
<1>5. OnlyDeadRevoked' /\ RevokedIsRefused'
  BY <1>1, <1>2 DEF IInv, OnlyDeadRevoked, RevokedIsRefused
<1>6. RevokedGetsNothing'
  <2>1. late[r] => tok[r] \notin alive
    BY DEF IInv, Standing, OnlyDeadRevoked
  <2> QED
    BY <1>1, <2>1 DEF IInv, TypeOK, RevokedGetsNothing
<1> QED
  BY <1>3, <1>4, <1>5, <1>6 DEF IInv

(* A 401 is handled: if its revocation is sent, it is that of a dead token.*)
LEMMA HandledStep ==
  ASSUME IInv, NEW r \in Reqs, Handled(r)
  PROVE  IInv'
<1> USE DEF arrival
<1>1. /\ denied[r] > 0 /\ denied' = [denied EXCEPT ![r] = @ - 1]
      /\ tok[r] \in stored \ alive
      /\ revoking' \in {revoking, revoking \cup {tok[r]}}
      /\ told' \in {told, told \cup {tok[r]}}
      /\ UNCHANGED <<stored, revoked, alive, arrival, calls, open, got, streams>>
  BY DEF Handled, Revoke401, Unreadable401, IInv, Standing
<1>2. /\ pc' \in [Reqs -> {"idle"} \cup Running \cup Answers]
      /\ \A q \in Reqs : \/ pc'[q] = pc[q]
                         \/ pc[q] = "authorized" /\ pc'[q] \in Answers
  <2>1. PICK to \in Answers : Rejects(r, to)
    BY DEF Handled, Revoke401, Unreadable401, Answers
  <2> QED
    BY <2>1, RejectsStep
<1>3. TypeOK'
  <2>1. denied[r] - 1 \in 0..MaxCalls
    BY <1>1, ConstantsAssumption DEF IInv, TypeOK
  <2>2. /\ denied' \in [Reqs -> 0..MaxCalls]
        /\ \A q \in Reqs : open[q] + denied'[q] <= calls[q]
    BY <1>1, <2>1 DEF IInv, TypeOK
  <2> QED
    BY <1>1, <1>2, <2>2 DEF IInv, TypeOK
<1>4. Standing'
  BY <1>1, <1>2 DEF IInv, TypeOK, Standing, Answers
<1>5. OnlyDeadRevoked'
  BY <1>1 DEF IInv, OnlyDeadRevoked
<1>6. RevokedIsRefused' /\ RevokedGetsNothing'
  BY <1>1, <1>2 DEF IInv, RevokedIsRefused, RevokedGetsNothing
<1> QED
  BY <1>3, <1>4, <1>5, <1>6 DEF IInv

LEMMA RequestStep ==
  ASSUME IInv, NEW r \in Reqs, Request(r)
  PROVE  IInv'
<1> USE DEF Running, Answers
<1>1. CASE Authorize(r)
  <2> DEFINE to == IF IsValid(tok[r]) THEN "authorized" ELSE "unauthorized"
  <2>1. /\ pc[r] = "arrived" /\ pc'[r] = to
        /\ pc' \in [Reqs -> {"idle"} \cup Running \cup Answers]
        /\ \A q \in Reqs : q # r => pc'[q] = pc[q]
    BY <1>1, GotoStep DEF Authorize, IInv
  <2> QED
    BY <1>1, <2>1, QuietStep DEF Authorize
<1>2. CASE AuthorizeFails(r)
  <2>1. /\ pc' \in [Reqs -> {"idle"} \cup Running \cup Answers]
        /\ \A q \in Reqs : \/ pc'[q] = pc[q]
                           \/ pc[q] = "arrived" /\ pc'[q] = "serverError"
    BY <1>2, GotoStep DEF AuthorizeFails, IInv
  <2> QED
    BY <1>2, <2>1, QuietStep DEF AuthorizeFails
<1>3. CASE Invalid(r) \/ Return(r)
  <2>1. /\ pc' \in [Reqs -> {"idle"} \cup Running \cup Answers]
        /\ \A q \in Reqs : \/ pc'[q] = pc[q]
                           \/ pc[q] = "authorized" /\ pc'[q] \in Answers
    BY <1>3, GotoStep DEF Invalid, Return, IInv
  <2> QED
    BY <1>3, <2>1, QuietStep DEF Invalid, Return
<1> QED
  BY <1>1, <1>2, <1>3, CallStep, AnsweredStep, HandledStep DEF Request

-----------------------------------------------------------------------------
(* Steps of the database, the backend and the process.                     *)

LEMMA TokenStep ==
  ASSUME IInv, NEW t \in Tokens,
         Issue(t) \/ RevokeLands(t) \/ RevokeFails(t) \/ SessionEnds(t)
  PROVE  IInv'
<1>1. TypeOK'
  BY DEF IInv, TypeOK, Standing, Issue, RevokeLands, RevokeFails, SessionEnds, arrival, counts
<1>2. Standing'
  BY DEF IInv, Standing, Issue, RevokeLands, RevokeFails, SessionEnds, arrival, counts
<1>3. OnlyDeadRevoked'
  BY DEF IInv, OnlyDeadRevoked, Issue, RevokeLands, RevokeFails, SessionEnds
<1>4. RevokedIsRefused' /\ RevokedGetsNothing'
  BY DEF IInv, RevokedIsRefused, RevokedGetsNothing, Issue, RevokeLands, RevokeFails,
         SessionEnds, arrival, counts
<1> QED
  BY <1>1, <1>2, <1>3, <1>4 DEF IInv

LEMMA SessionStep ==
  ASSUME IInv, NEW t \in Tokens,
         AuthorizeStream(t) \/ OpenSession(t) \/ ConnectFails(t) \/ CloseSession(t)
  PROVE  IInv'
<1>1. /\ UNCHANGED <<stored, revoked, alive, pc, arrival, counts, told, revoking>>
      /\ connecting' \subseteq stored /\ sessions' \subseteq stored
      /\ connecting' \subseteq Tokens /\ sessions' \subseteq Tokens
  BY DEF AuthorizeStream, OpenSession, ConnectFails, CloseSession, IsValid, IInv, TypeOK,
         Standing
<1>2. TypeOK'
  BY <1>1 DEF IInv, TypeOK, arrival, counts
<1>3. Standing' /\ OnlyDeadRevoked' /\ RevokedIsRefused' /\ RevokedGetsNothing'
  BY <1>1 DEF IInv, Standing, OnlyDeadRevoked, RevokedIsRefused, RevokedGetsNothing,
              arrival, counts
<1> QED
  BY <1>2, <1>3 DEF IInv

LEMMA CrashStep ==
  ASSUME IInv, Crash
  PROVE  IInv'
<1>1. TypeOK'
  BY ConstantsAssumption DEF IInv, TypeOK, Crash, Answers, arrival
<1>2. Standing' /\ OnlyDeadRevoked' /\ RevokedIsRefused' /\ RevokedGetsNothing'
  BY DEF IInv, TypeOK, Standing, OnlyDeadRevoked, RevokedIsRefused, RevokedGetsNothing,
         Crash, Running, arrival
<1> QED
  BY <1>1, <1>2 DEF IInv

LEMMA NextStep == IInv /\ [Next]_vars => IInv'
<1> SUFFICES ASSUME IInv, [Next]_vars PROVE IInv'
  OBVIOUS
<1>1. CASE \/ \E r \in Reqs, t \in Bearers : Arrive(r, t)
           \/ \E r \in Reqs, t \in Tokens : Message(r, t)
  BY <1>1, TakeStep DEF Bearers
<1>2. CASE \E r \in Reqs : Request(r)
  BY <1>2, RequestStep
<1>3. CASE \E t \in Tokens : Issue(t) \/ RevokeLands(t) \/ RevokeFails(t) \/ SessionEnds(t)
  BY <1>3, TokenStep
<1>4. CASE \/ Crash
           \/ \E t \in Tokens : AuthorizeStream(t) \/ OpenSession(t) \/ ConnectFails(t) \/ CloseSession(t)
  BY <1>4, CrashStep, SessionStep
<1>5. CASE UNCHANGED vars
  BY <1>5, QuietStep DEF vars, IInv, TypeOK
<1> QED
  BY <1>1, <1>2, <1>3, <1>4, <1>5 DEF Next

THEOREM Invariance == Spec => []IInv
BY InitIInv, NextStep, PTL DEF Spec

(* Type correctness; in particular, calls in flight never outnumber those  *)
(* the tool has started.                                                   *)
THEOREM TypeCorrect == Spec => []TypeOK
<1>1. IInv => TypeOK
  BY DEF IInv
<1> QED
  BY <1>1, Invariance, PTL

(* Only a token whose backend session has ended is ever revoked.           *)
THEOREM OnlyTheDeadAreRevoked == Spec => []OnlyDeadRevoked
<1>1. IInv => OnlyDeadRevoked
  BY DEF IInv
<1> QED
  BY <1>1, Invariance, PTL

(* No request to /mcp after a revocation took effect runs a tool or        *)
(* makes a backend call.                                                   *)
THEOREM TheRevokedAreRefused == Spec => []RevokedIsRefused
<1>1. IInv => RevokedIsRefused
  BY DEF IInv
<1> QED
  BY <1>1, Invariance, PTL

(* Nothing that arrives after a revocation took effect, a message of an    *)
(* SSE session included, gets data from the backend.                       *)
THEOREM TheRevokedGetNothing == Spec => []RevokedGetsNothing
<1>1. IInv => RevokedGetsNothing
  BY DEF IInv
<1> QED
  BY <1>1, Invariance, PTL

-----------------------------------------------------------------------------
(* The refinement of TokenAccess.                                          *)

accessVars == <<LifeOf, tok, got, Replies>>

LEMMA SameLife == UNCHANGED <<stored, revoked, alive>> => UNCHANGED LifeOf
BY DEF LifeOf, Life

LEMMA SameReplies == UNCHANGED pc => UNCHANGED Replies
BY DEF Replies, ReplyOf

LEMMA OneReply ==
  ASSUME NEW r \in Reqs, \A q \in Reqs : q # r => pc'[q] = pc[q]
  PROVE  Replies' = [Replies EXCEPT ![r] = ReplyOf(r)']
BY DEF Replies, ReplyOf

LEMMA SameReply ==
  ASSUME NEW r \in Reqs, \A q \in Reqs : q # r => pc'[q] = pc[q], ReplyOf(r)' = ReplyOf(r)
  PROVE  UNCHANGED Replies
BY DEF Replies, ReplyOf

(* A request is answered, in a way that says nothing of its token.         *)
LEMMA AnswerImplements ==
  ASSUME IInv, NEW r \in Reqs, NEW from \in Running,
         NEW to \in Answers \ {"unauthorized", "authRequired"}, Goto(r, from, to),
         UNCHANGED <<stored, revoked, alive, tok, got>>
  PROVE  Access!Next
<1>1. pc[r] = from /\ pc'[r] = to /\ \A q \in Reqs : q # r => pc'[q] = pc[q]
  BY GotoStep DEF IInv
<1>2. ReplyOf(r)' = "other" /\ Replies[r] = "pending"
  BY <1>1 DEF ReplyOf, Replies, Running, Answers
<1>3. Access!Answer(r)
  BY <1>1, <1>2, OneReply, SameLife DEF Access!Answer
<1> QED
  BY <1>3 DEF Access!Next

(* It is answered by a 401 or [AUTH_REQUIRED]: its session is over.        *)
LEMMA LoginImplements ==
  ASSUME IInv, NEW r \in Reqs, NEW from \in Running,
         NEW to \in {"unauthorized", "authRequired"}, Goto(r, from, to),
         UNCHANGED <<stored, revoked, alive, tok, got>>, Life(tok[r]) # "live"
  PROVE  Access!Next
<1>1. pc[r] = from /\ pc'[r] = to /\ \A q \in Reqs : q # r => pc'[q] = pc[q]
  BY GotoStep DEF IInv, Answers
<1>2. ReplyOf(r)' = "login" /\ Replies[r] = "pending"
  BY <1>1 DEF ReplyOf, Replies, Running
<1>3. LifeOf[tok[r]] # "live"
  BY DEF LifeOf, IInv, TypeOK
<1>4. Access!SendToLogin(r)
  BY <1>1, <1>2, <1>3, OneReply, SameLife DEF Access!SendToLogin
<1> QED
  BY <1>4 DEF Access!Next

LEMMA RejectsImplements ==
  ASSUME IInv, NEW r \in Reqs, NEW to \in Answers \ {"unauthorized", "authRequired"},
         Rejects(r, to), UNCHANGED <<stored, revoked, alive, tok, got>>
  PROVE  [Access!Next]_accessVars
<1>1. CASE Goto(r, "authorized", to)
  BY <1>1, AnswerImplements DEF Running
<1>2. CASE UNCHANGED pc
  BY <1>2, SameLife, SameReplies DEF accessVars
<1> QED
  BY <1>1, <1>2 DEF Rejects

LEMMA TakeImplements ==
  ASSUME IInv, NEW r \in Reqs, NEW t \in Bearers,
         Arrive(r, t) \/ (t \in Tokens /\ Message(r, t))
  PROVE  Access!Next
<1>1. /\ pc[r] \in {"idle"} \cup Answers
      /\ tok' = [tok EXCEPT ![r] = t] /\ got' = [got EXCEPT ![r] = FALSE]
      /\ UNCHANGED <<stored, revoked, alive>>
      /\ pc'[r] \in Running /\ \A q \in Reqs : q # r => pc'[q] = pc[q]
  BY DEF Arrive, Message, Take, Running, IInv, TypeOK
<1>2. Replies[r] # "pending" /\ ReplyOf(r)' = "pending"
  BY <1>1 DEF Replies, ReplyOf, Running, Answers
<1>3. Access!Ask(r, t)
  BY <1>1, <1>2, OneReply, SameLife DEF Access!Ask
<1> QED
  BY <1>3 DEF Access!Next

LEMMA AuthorizeImplements ==
  ASSUME IInv, NEW r \in Reqs, Authorize(r)
  PROVE  [Access!Next]_accessVars
<1>1. UNCHANGED <<stored, revoked, alive, tok, got>>
  BY DEF Authorize, arrival, counts
<1>2. CASE IsValid(tok[r])
  <2>1. /\ pc[r] = "arrived" /\ pc'[r] = "authorized"
        /\ \A q \in Reqs : q # r => pc'[q] = pc[q]
    BY <1>2 DEF Authorize, Goto, IInv, TypeOK
  <2>2. UNCHANGED Replies
    BY <2>1, SameReply DEF ReplyOf, Running
  <2> QED
    BY <1>1, <2>2, SameLife DEF accessVars
<1>3. CASE ~ IsValid(tok[r])
  <2>1. Life(tok[r]) # "live"
    BY <1>3 DEF Life, IsValid
  <2> QED
    BY <1>1, <1>3, <2>1, LoginImplements DEF Authorize, Running
<1> QED
  BY <1>2, <1>3

LEMMA CallsImplement ==
  ASSUME IInv, NEW r \in Reqs, Call(r) \/ Answered(r)
  PROVE  [Access!Next]_accessVars
<1>1. CASE Call(r) \/ Deny(r)
  BY <1>1, SameLife, SameReplies DEF Call, Deny, arrival, accessVars
<1>2. CASE CallSucceeds(r)
  <2>1. tok[r] \in stored /\ tok[r] \in alive
    <3>1. calls[r] > 0
      BY <1>2 DEF CallSucceeds, IInv, TypeOK
    <3> QED
      BY <1>2, <3>1 DEF CallSucceeds, IInv, Standing
  <2>2. LifeOf[tok[r]] = "live"
    BY <2>1 DEF LifeOf, Life, IInv, TypeOK, OnlyDeadRevoked
  <2>3. Access!GetData(r)
    BY <1>2, <2>2, SameLife, SameReplies DEF CallSucceeds, arrival, Access!GetData
  <2> QED
    BY <2>3 DEF Access!Next
<1>3. CASE PermissionDenied(r) \/ BackendError(r)
  <2>1. UNCHANGED <<stored, revoked, alive, tok, got>>
    BY <1>3 DEF PermissionDenied, BackendError, arrival
  <2>2. \E to \in Answers \ {"unauthorized", "authRequired"} : Rejects(r, to)
    BY <1>3 DEF PermissionDenied, BackendError, Answers
  <2> QED
    BY <2>1, <2>2, RejectsImplements
<1> QED
  BY <1>1, <1>2, <1>3 DEF Answered

LEMMA HandledImplements ==
  ASSUME IInv, NEW r \in Reqs, Handled(r)
  PROVE  [Access!Next]_accessVars
<1>1. denied[r] > 0 /\ UNCHANGED <<stored, revoked, alive, tok, got>>
  BY DEF Handled, Revoke401, Unreadable401, arrival
<1>2. CASE Unreadable401(r)
  BY <1>1, <1>2, RejectsImplements DEF Unreadable401, Answers
<1>3. CASE Revoke401(r) /\ Goto(r, "authorized", "authRequired")
  <2>1. Life(tok[r]) # "live"
    BY <1>1 DEF Life, IInv, Standing
  <2> QED
    BY <1>1, <1>3, <2>1, LoginImplements DEF Running
<1>4. CASE Revoke401(r) /\ UNCHANGED pc
  BY <1>1, <1>4, SameLife, SameReplies DEF accessVars
<1> QED
  BY <1>2, <1>3, <1>4 DEF Handled, Revoke401, Rejects

LEMMA RequestImplements ==
  ASSUME IInv, NEW r \in Reqs, Request(r)
  PROVE  [Access!Next]_accessVars
<1>1. CASE AuthorizeFails(r) \/ Invalid(r) \/ Return(r)
  <2>1. \E from \in Running, to \in Answers \ {"unauthorized", "authRequired"} :
          Goto(r, from, to)
    BY <1>1 DEF AuthorizeFails, Invalid, Return, Running, Answers
  <2>2. UNCHANGED <<stored, revoked, alive, tok, got>>
    BY <1>1 DEF AuthorizeFails, Invalid, Return, arrival, counts
  <2> QED
    BY <2>1, <2>2, AnswerImplements
<1> QED
  BY <1>1, AuthorizeImplements, CallsImplement, HandledImplements DEF Request

(* The life of a token goes one way.                                       *)
LEMMA LifeImplements ==
  ASSUME IInv, NEW t \in Tokens,
         Issue(t) \/ RevokeLands(t) \/ RevokeFails(t) \/ SessionEnds(t)
  PROVE  [Access!Next]_accessVars
<1>1. UNCHANGED <<tok, got>> /\ UNCHANGED Replies
  BY SameReplies DEF Issue, RevokeLands, RevokeFails, SessionEnds, arrival, counts
<1>2. CASE RevokeFails(t)
  BY <1>1, <1>2, SameLife DEF RevokeFails, accessVars
<1>3. CASE SessionEnds(t) /\ t \notin stored
  <2>1. UNCHANGED LifeOf
    BY <1>3 DEF SessionEnds, LifeOf, Life
  <2> QED
    BY <1>1, <2>1 DEF accessVars
<1>4. CASE SessionEnds(t) /\ t \in stored
  <2>1. t \in stored \ Legacy /\ t \in Tokens \ Legacy /\ t \notin revoked /\ t \in Bearers
    BY <1>4 DEF SessionEnds, IInv, TypeOK, OnlyDeadRevoked, Bearers
  <2>2. LifeOf[t] = "live" /\ LifeOf' = [LifeOf EXCEPT ![t] = "ended"]
    BY <1>4, <2>1 DEF SessionEnds, LifeOf, Life
  <2> QED
    BY <1>1, <2>1, <2>2 DEF Access!Next, Access!End
<1>5. CASE RevokeLands(t) /\ (t \in Legacy \/ t \in revoked)
  <2>1. UNCHANGED LifeOf
    BY <1>5 DEF RevokeLands, LifeOf, Life
  <2> QED
    BY <1>1, <2>1 DEF accessVars
<1>6. CASE RevokeLands(t) /\ t \notin Legacy /\ t \notin revoked
  <2>1. t \in stored \ Legacy /\ t \in Tokens \ Legacy /\ t \notin alive /\ t \in Bearers
    BY <1>6 DEF RevokeLands, IInv, TypeOK, Standing, OnlyDeadRevoked, Bearers
  <2>2. LifeOf[t] = "ended" /\ LifeOf' = [LifeOf EXCEPT ![t] = "revoked"]
    BY <1>6, <2>1 DEF RevokeLands, LifeOf, Life
  <2> QED
    BY <1>1, <2>1, <2>2 DEF Access!Next, Access!Revoke
<1>7. CASE Issue(t)
  <2>1. t \notin Legacy /\ t \notin revoked /\ t \in Bearers
    BY <1>7 DEF Issue, IInv, TypeOK, Standing, Bearers
  <2>2. LifeOf[t] = "none" /\ LifeOf' = [LifeOf EXCEPT ![t] = IF t \in alive THEN "live" ELSE "ended"]
    BY <1>7, <2>1 DEF Issue, LifeOf, Life
  <2> QED
    BY <1>1, <2>1, <2>2 DEF Access!Next, Access!Issue
<1> QED
  BY <1>2, <1>3, <1>4, <1>5, <1>6, <1>7

LEMMA CrashImplements ==
  ASSUME IInv, Crash
  PROVE  Access!Next
<1>1. /\ UNCHANGED <<stored, revoked, alive, tok, got>>
      /\ pc' = [r \in Reqs |-> IF pc[r] \in Running THEN "lost" ELSE pc[r]]
  BY DEF Crash, arrival
<1>2. Replies' = [r \in Reqs |-> IF Replies[r] = "pending" THEN "other" ELSE Replies[r]]
  BY <1>1 DEF Replies, ReplyOf, Running
<1>3. Access!Crash
  BY <1>1, <1>2, SameLife DEF Access!Crash
<1> QED
  BY <1>3 DEF Access!Next

(* Whatever the tokens, requests, parallel calls and revocations: an       *)
(* access token stands for its backend session.  Data comes only while     *)
(* that lasts, the way to the login page opens only when it is over.       *)
THEOREM TokensStandForSessions == Spec => ImplementsAccess
<1>1. Init => Access!Init
  BY ConstantsAssumption
     DEF Init, Access!Init, LifeOf, Life, Replies, ReplyOf, Bearers
<1>2. IInv /\ [Next]_vars => [Access!Next]_accessVars
  <2> SUFFICES ASSUME IInv, [Next]_vars
               PROVE  [Access!Next]_accessVars
    OBVIOUS
  <2>1. ASSUME NEW r \in Reqs, NEW t \in Bearers, Arrive(r, t) PROVE Access!Next
    BY <2>1, TakeImplements
  <2>2. ASSUME NEW r \in Reqs, NEW t \in Tokens, Message(r, t) PROVE Access!Next
    BY <2>2, TakeImplements DEF Bearers
  <2>3. ASSUME NEW t \in Tokens,
               AuthorizeStream(t) \/ OpenSession(t) \/ ConnectFails(t) \/ CloseSession(t)
        PROVE  UNCHANGED accessVars
    BY <2>3, SameLife, SameReplies
       DEF AuthorizeStream, OpenSession, ConnectFails, CloseSession, arrival, counts,
           accessVars
  <2>4. CASE UNCHANGED vars
    BY <2>4, SameLife, SameReplies DEF vars, arrival, counts, accessVars
  <2> QED
    BY <2>1, <2>2, <2>3, <2>4, RequestImplements, LifeImplements, CrashImplements DEF Next
<1> QED
  BY <1>1, <1>2, Invariance, PTL DEF Spec, ImplementsAccess, Access!Spec, accessVars
=============================================================================
