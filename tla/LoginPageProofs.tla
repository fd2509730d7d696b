-------------------------- MODULE LoginPageProofs ---------------------------
(***************************************************************************)
(* Proofs about LoginPage, for any accounts, any number of calls in flight *)
(* and any number of one-time passwords.                                   *)
(***************************************************************************)
EXTENDS LoginPage, TLAPS

(* What the calls in flight know: whom they are for, and that what they    *)
(* report did happen; and a code that is verified is no empty one.         *)
CallsAreTrue ==
  \A s \in Calls :
    /\ call[s].kind # "none" => call[s].who \in Accounts
    /\ call[s].kind = "login" /\ call[s].reply \in Accepting => call[s].who \in letIn
    /\ call[s].kind = "verify" /\ call[s].reply = "ok" => call[s].who \in verified
    /\ call[s].kind = "verify" => call[s].code # Short

IInv == TypeOK /\ CallsAreTrue /\ RedirectIsVerified /\ UserIsLetIn

CallType ==
  [kind : Kinds \cup {"none"}, who : Users, code : Codes \cup {Short}, reply : Replies]

LEMMA InitIInv == Init => IInv
<1> SUFFICES ASSUME Init PROVE IInv
  OBVIOUS
<1>1. call \in [Calls -> CallType] /\ \A s \in Calls : call[s] = Free
  <2>1. Free \in CallType
    BY DEF Free, CallType, Users, Replies, Short
  <2> QED
    BY <2>1 DEF Init
<1>2. TypeOK
  BY <1>1, MaxOtpsAssumption DEF Init, TypeOK, CallType, Users
<1>3. CallsAreTrue /\ RedirectIsVerified /\ UserIsLetIn
  BY <1>1 DEF Init, CallsAreTrue, RedirectIsVerified, UserIsLetIn, Free
<1> QED
  BY <1>2, <1>3 DEF IInv

-----------------------------------------------------------------------------
(* The pieces the actions are made of.                                     *)

LEMMA FetchStep ==
  ASSUME TypeOK, NEW s \in Calls, NEW k \in Kinds, NEW who \in Users,
         NEW code \in Codes \cup {Short}, Fetch(s, k, who, code)
  PROVE  /\ call' \in [Calls -> CallType]
         /\ call'[s] = [kind |-> k, who |-> who, code |-> code, reply |-> "none"]
         /\ \A q \in Calls : q # s => call'[q] = call[q]
BY DEF TypeOK, Fetch, CallType, Replies

LEMMA BackStep ==
  ASSUME TypeOK, NEW s \in Calls, NEW k \in Kinds, Back(s, k)
  PROVE  /\ call[s].kind = k /\ call[s].reply # "none"
         /\ call' \in [Calls -> CallType]
         /\ call'[s] = Free
         /\ \A q \in Calls : q # s => call'[q] = call[q]
BY DEF TypeOK, Back, CallType, Replies, Free, Users

LEMMA RepliedStep ==
  ASSUME TypeOK, NEW s \in Calls, NEW reply \in Replies, Replied(s, reply)
  PROVE  /\ call[s].kind \in Kinds /\ call[s].reply = "none"
         /\ call' \in [Calls -> CallType]
         /\ call'[s].kind = call[s].kind /\ call'[s].who = call[s].who
         /\ call'[s].reply = reply
         /\ \A q \in Calls : q # s => call'[q] = call[q]
         /\ UNCHANGED <<page, typed, boxes, user, loginBusy, verifyOff, notice, timers, visited>>
BY DEF TypeOK, Replied, CallType, fields, buttons, redirect

-----------------------------------------------------------------------------
(* The login screen.                                                       *)

LEMMA TypeStep ==
  ASSUME IInv, NEW a \in Accounts, Type(a)
  PROVE  IInv'
BY DEF IInv, TypeOK, CallsAreTrue, RedirectIsVerified, UserIsLetIn, Type,
       fields, buttons, redirect, service, Users

LEMMA HandleLoginStep ==
  ASSUME IInv, NEW s \in Calls, HandleLogin(s)
  PROVE  IInv'
<1>1. TypeOK /\ typed \in Accounts /\ Short \in Codes \cup {Short}
  BY DEF IInv, TypeOK, UserIsLetIn, HandleLogin, Users
<1>2. /\ call' \in [Calls -> CallType]
      /\ call'[s] = [kind |-> "login", who |-> typed, code |-> Short, reply |-> "none"]
      /\ \A q \in Calls : q # s => call'[q] = call[q]
  BY <1>1, FetchStep DEF HandleLogin, Kinds, Users
<1>3. TypeOK'
  BY <1>1, <1>2 DEF TypeOK, HandleLogin, CallType, fields, buttons, redirect, service
<1>4. CallsAreTrue'
  BY <1>1, <1>2 DEF IInv, CallsAreTrue, HandleLogin, service, Accepting
<1>5. (RedirectIsVerified /\ UserIsLetIn)'
  BY <1>1, <1>2
     DEF IInv, RedirectIsVerified, UserIsLetIn, HandleLogin, fields,
         buttons, redirect, service
<1> QED
  BY <1>3, <1>4, <1>5 DEF IInv

LEMMA LoginAnsweredStep ==
  ASSUME IInv, NEW s \in Calls, LoginAnswered(s)
  PROVE  IInv'
<1>1. TypeOK /\ "login" \in Kinds
  BY DEF IInv, Kinds
<1>2. /\ call[s].kind = "login"
      /\ call' \in [Calls -> CallType]
      /\ call'[s] = Free
      /\ \A q \in Calls : q # s => call'[q] = call[q]
  BY <1>1, BackStep DEF LoginAnswered
<1>3. call[s].who \in Accounts /\ (call[s].reply \in Accepting => call[s].who \in letIn)
  BY <1>2 DEF IInv, CallsAreTrue
<1>4. TypeOK'
  BY <1>1, <1>2, <1>3
     DEF TypeOK, LoginAnswered, CallType, fields, buttons, redirect, service,
         Users
<1>5. CallsAreTrue'
  BY <1>2 DEF IInv, CallsAreTrue, LoginAnswered, service, Free
<1>6. (RedirectIsVerified /\ UserIsLetIn)'
  BY <1>2, <1>3
     DEF IInv, RedirectIsVerified, UserIsLetIn, LoginAnswered, fields,
         buttons, redirect, service, Free
<1> QED
  BY <1>4, <1>5, <1>6 DEF IInv

-----------------------------------------------------------------------------
(* The OTP screen.                                                         *)

LEMMA TypeOtpStep ==
  ASSUME IInv, NEW c \in Codes \cup {Short}, TypeOtp(c)
  PROVE  IInv'
BY DEF IInv, TypeOK, CallsAreTrue, RedirectIsVerified, UserIsLetIn,
       TypeOtp, fields, buttons, redirect, service

LEMMA HandleVerifyOtpStep ==
  ASSUME IInv, NEW s \in Calls, HandleVerifyOtp(s)
  PROVE  IInv'
<1>1. TypeOK /\ user \in Accounts /\ boxes \in Codes \cup {Short}
  BY DEF IInv, TypeOK, UserIsLetIn, HandleVerifyOtp, Users
<1>2. /\ call' \in [Calls -> CallType]
      /\ call'[s] = [kind |-> "verify", who |-> user, code |-> boxes, reply |-> "none"]
      /\ \A q \in Calls : q # s => call'[q] = call[q]
  BY <1>1, FetchStep DEF HandleVerifyOtp, Kinds, Users
<1>3. TypeOK'
  BY <1>1, <1>2 DEF TypeOK, HandleVerifyOtp, CallType, fields, buttons, redirect, service
<1>4. CallsAreTrue'
  BY <1>1, <1>2 DEF IInv, CallsAreTrue, HandleVerifyOtp, service
<1>5. (RedirectIsVerified /\ UserIsLetIn)'
  BY <1>1, <1>2
     DEF IInv, RedirectIsVerified, UserIsLetIn, HandleVerifyOtp, fields,
         buttons, redirect, service
<1> QED
  BY <1>3, <1>4, <1>5 DEF IInv

LEMMA IncompleteOtpStep ==
  ASSUME IInv, IncompleteOtp
  PROVE  IInv'
BY DEF IInv, TypeOK, CallsAreTrue, RedirectIsVerified, UserIsLetIn,
       IncompleteOtp, fields, buttons, redirect, service

LEMMA VerifyAnsweredStep ==
  ASSUME IInv, NEW s \in Calls, VerifyAnswered(s)
  PROVE  IInv'
<1>1. TypeOK /\ "verify" \in Kinds
  BY DEF IInv, Kinds
<1>2. /\ call[s].kind = "verify"
      /\ call' \in [Calls -> CallType]
      /\ call'[s] = Free
      /\ \A q \in Calls : q # s => call'[q] = call[q]
  BY <1>1, BackStep DEF VerifyAnswered
<1>3. call[s].who \in Accounts /\ (call[s].reply = "ok" => call[s].who \in verified)
  BY <1>2 DEF IInv, CallsAreTrue
<1>4. TypeOK'
  BY <1>1, <1>2, <1>3
     DEF TypeOK, VerifyAnswered, CallType, fields, buttons, redirect, service,
         Users
<1>5. CallsAreTrue'
  BY <1>2 DEF IInv, CallsAreTrue, VerifyAnswered, service, Free
<1>6. (RedirectIsVerified /\ UserIsLetIn)'
  BY <1>2, <1>3
     DEF IInv, RedirectIsVerified, UserIsLetIn, VerifyAnswered, fields,
         buttons, redirect, service, Free
<1> QED
  BY <1>4, <1>5, <1>6 DEF IInv

LEMMA HandleResendStep ==
  ASSUME IInv, NEW s \in Calls, HandleResend(s)
  PROVE  IInv'
<1>1. TypeOK /\ user \in Accounts /\ Short \in Codes \cup {Short}
  BY DEF IInv, TypeOK, UserIsLetIn, HandleResend, Users
<1>2. /\ call' \in [Calls -> CallType]
      /\ call'[s] = [kind |-> "resend", who |-> user, code |-> Short, reply |-> "none"]
      /\ \A q \in Calls : q # s => call'[q] = call[q]
  BY <1>1, FetchStep DEF HandleResend, Kinds, Users
<1>3. TypeOK'
  BY <1>1, <1>2 DEF TypeOK, HandleResend, CallType, fields, buttons, redirect, service
<1>4. CallsAreTrue'
  BY <1>1, <1>2 DEF IInv, CallsAreTrue, HandleResend, service
<1>5. (RedirectIsVerified /\ UserIsLetIn)'
  BY <1>1, <1>2
     DEF IInv, RedirectIsVerified, UserIsLetIn, HandleResend, fields,
         buttons, redirect, service
<1> QED
  BY <1>3, <1>4, <1>5 DEF IInv

LEMMA ResendAnsweredStep ==
  ASSUME IInv, NEW s \in Calls, ResendAnswered(s)
  PROVE  IInv'
<1>1. TypeOK /\ "resend" \in Kinds
  BY DEF IInv, Kinds
<1>2. /\ call[s].kind = "resend"
      /\ call' \in [Calls -> CallType]
      /\ call'[s] = Free
      /\ \A q \in Calls : q # s => call'[q] = call[q]
  BY <1>1, BackStep DEF ResendAnswered
<1>3. call[s].who \in Accounts
  BY <1>2 DEF IInv, CallsAreTrue
<1>4. TypeOK'
  BY <1>1, <1>2, <1>3
     DEF TypeOK, ResendAnswered, CallType, fields, buttons, redirect, service,
         Users
<1>5. CallsAreTrue'
  BY <1>2 DEF IInv, CallsAreTrue, ResendAnswered, service, Free
<1>6. (RedirectIsVerified /\ UserIsLetIn)'
  BY <1>2, <1>3
     DEF IInv, RedirectIsVerified, UserIsLetIn, ResendAnswered, fields,
         buttons, redirect, service, Free
<1> QED
  BY <1>4, <1>5, <1>6 DEF IInv

LEMMA RedirectStep ==
  ASSUME IInv, NEW a \in Accounts, Redirect(a)
  PROVE  IInv'
BY DEF IInv, TypeOK, CallsAreTrue, RedirectIsVerified, UserIsLetIn,
       Redirect, fields, buttons, redirect, service

LEMMA UnloadStep ==
  ASSUME IInv, Unload
  PROVE  IInv'
<1>1. call' \in [Calls -> CallType] /\ \A s \in Calls : call'[s] = Free
  <2>1. Free \in CallType
    BY DEF Free, CallType, Users, Replies, Short
  <2> QED
    BY <2>1 DEF Unload
<1>2. TypeOK'
  BY <1>1 DEF IInv, TypeOK, CallType, Unload, fields, buttons, redirect, service, Users
<1>3. (CallsAreTrue /\ RedirectIsVerified /\ UserIsLetIn)'
  BY <1>1
     DEF IInv, CallsAreTrue, RedirectIsVerified, UserIsLetIn, Unload,
         fields, buttons, redirect, service, Free
<1> QED
  BY <1>2, <1>3 DEF IInv

-----------------------------------------------------------------------------
(* The user service.                                                       *)

LEMMA IssuesStep ==
  ASSUME IInv, NEW s \in Calls, Issues(s)
  PROVE  IInv'
<1>1. PICK reply \in {"ok", "refused", "broken"} : Replied(s, reply) /\ Heard(s, reply)
  BY DEF Issues
<1>2. TypeOK /\ reply \in Replies
  BY DEF IInv, Replies, Accepting
<1>3. /\ call[s].kind \in Kinds /\ call[s].reply = "none"
      /\ call' \in [Calls -> CallType]
      /\ call'[s].kind = call[s].kind /\ call'[s].who = call[s].who
      /\ call'[s].reply = reply
      /\ \A q \in Calls : q # s => call'[q] = call[q]
      /\ UNCHANGED <<page, typed, boxes, user, loginBusy, verifyOff, notice, timers, visited>>
  BY <1>1, <1>2, RepliedStep
<1>4. /\ call[s].who \in Accounts
      /\ letIn' \subseteq Accounts /\ letIn \subseteq letIn'
      /\ call[s].kind = "login" /\ reply \in Accepting => call[s].who \in letIn'
  <2>1. call[s].who \in Accounts
    BY <1>3 DEF IInv, CallsAreTrue, Kinds
  <2> QED
    BY <1>1, <2>1 DEF Heard, IInv, TypeOK
<1>5. /\ otp' \in [Accounts -> Codes \cup {0}] /\ issued' \in Codes \cup {0}
      /\ verified' = verified /\ call[s].kind # "verify"
  BY <1>3, <1>4, MaxOtpsAssumption DEF Issues, IInv, TypeOK, Codes
<1>6. TypeOK'
  BY <1>2, <1>3, <1>4, <1>5 DEF TypeOK, CallType
<1>7. CallsAreTrue'
  <2>1. \A q \in Calls : q # s => call'[q] = call[q]
    BY <1>3
  <2>2. call'[s].code = call[s].code
    BY <1>1, <1>2 DEF Replied, TypeOK
  <2> QED
    BY <1>2, <1>3, <1>4, <1>5, <2>1, <2>2 DEF IInv, CallsAreTrue
<1>8. (RedirectIsVerified /\ UserIsLetIn)'
  BY <1>3, <1>4, <1>5 DEF IInv, RedirectIsVerified, UserIsLetIn
<1> QED
  BY <1>6, <1>7, <1>8 DEF IInv

LEMMA VerifiesStep ==
  ASSUME IInv, NEW s \in Calls, Verifies(s)
  PROVE  IInv'
<1>1. PICK reply \in {"ok", "refused", "broken"} : Replied(s, reply)
  BY DEF Verifies
<1>2. TypeOK /\ reply \in Replies
  BY DEF IInv, Replies, Accepting
<1>3. /\ call[s].kind \in Kinds /\ call[s].reply = "none"
      /\ call' \in [Calls -> CallType]
      /\ call'[s].kind = call[s].kind /\ call'[s].who = call[s].who
      /\ call'[s].reply = reply
      /\ \A q \in Calls : q # s => call'[q] = call[q]
      /\ UNCHANGED <<page, typed, boxes, user, loginBusy, verifyOff, notice, timers, visited>>
  BY <1>1, <1>2, RepliedStep
<1>4. call[s].who \in Accounts /\ call[s].kind = "verify"
  BY <1>3 DEF IInv, CallsAreTrue, Kinds, Verifies
<1>5. /\ letIn' = letIn /\ otp' = otp /\ issued' = issued
      /\ verified' = verified \cup {call[s].who}
  BY DEF Verifies
<1>6. TypeOK'
  BY <1>2, <1>3, <1>4, <1>5 DEF TypeOK, CallType
<1>7. CallsAreTrue'
  <2>1. \A q \in Calls : q # s => call'[q] = call[q]
    BY <1>3
  <2>2. call'[s].code = call[s].code
    BY <1>1, <1>2 DEF Replied, TypeOK
  <2> QED
    BY <1>2, <1>3, <1>4, <1>5, <2>1, <2>2 DEF IInv, CallsAreTrue
<1>8. (RedirectIsVerified /\ UserIsLetIn)'
  BY <1>3, <1>4, <1>5 DEF IInv, RedirectIsVerified, UserIsLetIn
<1> QED
  BY <1>6, <1>7, <1>8 DEF IInv

LEMMA RefusesStep ==
  ASSUME IInv, NEW s \in Calls, Refuses(s)
  PROVE  IInv'
<1>1. PICK reply \in {"refused", "unsuccessful", "broken"} : Replied(s, reply) /\ Heard(s, reply)
  BY DEF Refuses
<1>2. TypeOK /\ reply \in Replies
  BY DEF IInv, Replies, Accepting
<1>3. /\ call[s].kind \in Kinds /\ call[s].reply = "none"
      /\ call' \in [Calls -> CallType]
      /\ call'[s].kind = call[s].kind /\ call'[s].who = call[s].who
      /\ call'[s].reply = reply
      /\ \A q \in Calls : q # s => call'[q] = call[q]
      /\ UNCHANGED <<page, typed, boxes, user, loginBusy, verifyOff, notice, timers, visited>>
  BY <1>1, <1>2, RepliedStep
<1>4. /\ call[s].who \in Accounts
      /\ letIn' \subseteq Accounts /\ letIn \subseteq letIn'
      /\ call[s].kind = "login" /\ reply \in Accepting => call[s].who \in letIn'
  <2>1. call[s].who \in Accounts
    BY <1>3 DEF IInv, CallsAreTrue, Kinds
  <2> QED
    BY <1>1, <2>1 DEF Heard, IInv, TypeOK
<1>5. /\ otp' = otp /\ issued' = issued /\ verified' = verified
      /\ call[s].kind = "verify" => reply # "ok"
  BY <1>1 DEF Refuses
<1>6. TypeOK'
  BY <1>2, <1>3, <1>4, <1>5 DEF TypeOK, CallType
<1>7. CallsAreTrue'
  <2>1. \A q \in Calls : q # s => call'[q] = call[q]
    BY <1>3
  <2>2. call'[s].code = call[s].code
    BY <1>1, <1>2 DEF Replied, TypeOK
  <2> QED
    BY <1>2, <1>3, <1>4, <1>5, <2>1, <2>2 DEF IInv, CallsAreTrue
<1>8. (RedirectIsVerified /\ UserIsLetIn)'
  BY <1>3, <1>4, <1>5 DEF IInv, RedirectIsVerified, UserIsLetIn
<1> QED
  BY <1>6, <1>7, <1>8 DEF IInv

-----------------------------------------------------------------------------
LEMMA NextStep ==
  ASSUME IInv, [Next]_vars
  PROVE  IInv'
<1>1. ASSUME NEW a \in Accounts, Type(a) PROVE IInv'
  BY <1>1, TypeStep
<1>2. ASSUME NEW c \in Codes \cup {Short}, TypeOtp(c) PROVE IInv'
  BY <1>2, TypeOtpStep
<1>3. CASE IncompleteOtp
  BY <1>3, IncompleteOtpStep
<1>4. ASSUME NEW s \in Calls, HandleLogin(s) \/ HandleVerifyOtp(s) \/ HandleResend(s)
      PROVE  IInv'
  BY <1>4, HandleLoginStep, HandleVerifyOtpStep, HandleResendStep
<1>5. ASSUME NEW s \in Calls, Serve(s)
      PROVE  IInv'
  BY <1>5, IssuesStep, VerifiesStep, RefusesStep DEF Serve
<1>6. ASSUME NEW s \in Calls, Answered(s)
      PROVE  IInv'
  BY <1>6, LoginAnsweredStep, VerifyAnsweredStep, ResendAnsweredStep DEF Answered
<1>7. ASSUME NEW a \in Accounts, Redirect(a) PROVE IInv'
  BY <1>7, RedirectStep
<1>8. CASE Unload
  BY <1>8, UnloadStep
<1>9. CASE UNCHANGED vars
  BY <1>9 DEF IInv, TypeOK, CallsAreTrue, RedirectIsVerified, UserIsLetIn, vars, fields,
              buttons, redirect, service
<1> QED
  BY <1>1, <1>2, <1>3, <1>4, <1>5, <1>6, <1>7, <1>8, <1>9 DEF Next, User

-----------------------------------------------------------------------------
(* The invariant holds in every state of every behaviour.                  *)
THEOREM Invariance == Spec => []IInv
BY InitIInv, NextStep, PTL DEF Spec

(* The variables of the page and of the user service keep their types.     *)
THEOREM TypeCorrect == Spec => []TypeOK
<1>1. IInv => TypeOK
  BY DEF IInv
<1> QED
  BY <1>1, Invariance, PTL

(* Only an account that an OTP was verified for is taken to /callback by   *)
(* handleVerifyOtp, however many calls are in flight and however they are  *)
(* answered.                                                               *)
THEOREM RedirectsAreVerified == Spec => []RedirectIsVerified
<1>1. IInv => RedirectIsVerified
  BY DEF IInv
<1> QED
  BY <1>1, Invariance, PTL

(* The OTP screen is only shown, and handleVerifyOtp and handleResend only *)
(* ask, for an account whose login was answered by a 2xx, which is all     *)
(* that handleLogin looks at.                                              *)
THEOREM UsersAreLetIn == Spec => []UserIsLetIn
<1>1. IInv => UserIsLetIn
  BY DEF IInv
<1> QED
  BY <1>1, Invariance, PTL

-----------------------------------------------------------------------------
(* What the page owes: a busy login waits for a call, whoever was told     *)
(* "Verified!" has a redirect due or asked for, and a page that is left    *)
(* waits for nothing.                                                      *)
LoginIsUnderWay == loginBusy => \E s \in Calls : call[s].kind = "login"
PromiseStands == notice = "verified" => timers \cup visited # {}
LeftIsQuiet == page = "left" => \A s \in Calls : call[s].kind = "none"

Owed == LoginIsUnderWay /\ PromiseStands /\ LeftIsQuiet

LEMMA OwedScreens ==
  ASSUME IInv, Owed,
         \/ \E a \in Accounts : Type(a)
         \/ \E c \in Codes \cup {Short} : TypeOtp(c)
         \/ IncompleteOtp
         \/ \E a \in Accounts : Redirect(a)
         \/ UNCHANGED vars
  PROVE  Owed'
<1>1. /\ call' = call /\ loginBusy' = loginBusy /\ page' = page
      /\ notice' = "verified" => notice = "verified"
      /\ timers \cup visited \subseteq timers' \cup visited'
  BY DEF Type, TypeOtp, IncompleteOtp, Redirect, vars, fields, buttons, redirect
<1> QED
  BY <1>1 DEF Owed, LoginIsUnderWay, PromiseStands, LeftIsQuiet

LEMMA OwedFetch ==
  ASSUME IInv, Owed, NEW s \in Calls,
         HandleLogin(s) \/ HandleVerifyOtp(s) \/ HandleResend(s)
  PROVE  Owed'
<1>1. PICK k \in Kinds, who \in Users, code \in Codes \cup {Short} : Fetch(s, k, who, code)
  BY DEF HandleLogin, HandleVerifyOtp, HandleResend, IInv, TypeOK, Kinds
<1>2. /\ call[s] = Free /\ call'[s].kind = k
      /\ \A q \in Calls : q # s => call'[q] = call[q]
  BY <1>1, FetchStep DEF Fetch, IInv
<1>3. LoginIsUnderWay'
  <2>1. CASE HandleLogin(s)
    <3>1. call'[s].kind = "login"
      BY <2>1 DEF HandleLogin, Fetch, IInv, TypeOK
    <3> QED
      BY <3>1 DEF LoginIsUnderWay
  <2>2. CASE loginBusy' = loginBusy
    BY <2>2, <1>2 DEF Owed, LoginIsUnderWay, Free
  <2> QED
    BY <2>1, <2>2 DEF HandleVerifyOtp, HandleResend
<1>4. PromiseStands'
  BY DEF Owed, PromiseStands, HandleLogin, HandleVerifyOtp, HandleResend, redirect
<1>5. LeftIsQuiet'
  BY DEF LeftIsQuiet, HandleLogin, HandleVerifyOtp, HandleResend
<1> QED
  BY <1>3, <1>4, <1>5 DEF Owed

LEMMA OwedServe ==
  ASSUME IInv, Owed, NEW s \in Calls, Serve(s)
  PROVE  Owed'
<1>1. PICK reply \in Replies : Replied(s, reply)
  BY DEF Serve, Issues, Verifies, Refuses, Replies, Accepting
<1>2. /\ call[s].kind \in Kinds /\ call'[s].kind = call[s].kind
      /\ \A q \in Calls : q # s => call'[q] = call[q]
      /\ UNCHANGED <<page, loginBusy, notice, timers, visited>>
  BY <1>1, RepliedStep DEF IInv, Replies
<1> QED
  BY <1>2 DEF Owed, LoginIsUnderWay, PromiseStands, LeftIsQuiet

LEMMA OwedAnswered ==
  ASSUME IInv, Owed, NEW s \in Calls, Answered(s)
  PROVE  Owed'
<1>1. PICK k \in Kinds : Back(s, k) /\ (k = "login" \/ loginBusy' = loginBusy)
  BY DEF Answered, LoginAnswered, VerifyAnswered, ResendAnswered, Kinds, buttons
<1>2. /\ call[s].kind = k /\ call'[s] = Free
      /\ \A q \in Calls : q # s => call'[q] = call[q]
  BY <1>1, BackStep DEF IInv
<1>3. LoginIsUnderWay'
  <2>1. CASE LoginAnswered(s)
    BY <2>1 DEF LoginIsUnderWay, LoginAnswered
  <2>2. CASE VerifyAnswered(s) \/ ResendAnswered(s)
    <3>1. call[s].kind # "login" /\ loginBusy' = loginBusy
      BY <2>2 DEF VerifyAnswered, ResendAnswered, Back, buttons
    <3> QED
      BY <3>1, <1>2 DEF Owed, LoginIsUnderWay
  <2> QED
    BY <2>1, <2>2 DEF Answered
<1>4. PromiseStands'
  BY DEF Owed, PromiseStands, Answered, LoginAnswered, VerifyAnswered, ResendAnswered, redirect
<1>5. LeftIsQuiet'
  BY <1>2
     DEF Owed, LeftIsQuiet, Answered, LoginAnswered, VerifyAnswered,
         ResendAnswered, Kinds
<1> QED
  BY <1>3, <1>4, <1>5 DEF Owed

LEMMA OwedStep ==
  ASSUME IInv, Owed, [Next]_vars
  PROVE  Owed'
<1>1. ASSUME NEW s \in Calls, HandleLogin(s) \/ HandleVerifyOtp(s) \/ HandleResend(s)
      PROVE  Owed'
  BY <1>1, OwedFetch
<1>2. ASSUME NEW s \in Calls, Serve(s) \/ Answered(s)
      PROVE  Owed'
  BY <1>2, OwedServe, OwedAnswered
<1>3. CASE Unload
  BY <1>3 DEF Unload, Owed, LoginIsUnderWay, PromiseStands, LeftIsQuiet, Free
<1> QED
  BY <1>1, <1>2, <1>3, OwedScreens DEF Next, User

(* While the login button is disabled a login is under way, however many   *)
(* were started and answered meanwhile; whoever was told "Verified!" is    *)
(* due at /callback or was there; a page that is left waits for nothing.   *)
(* It is the part of LoginSettles and VerifiedConnects that needs no       *)
(* fairness: what the scheduler has to run is always there.                *)
THEOREM PromisesAreOwed == Spec => []Owed
<1>1. Init => Owed
  BY DEF Init, Owed, LoginIsUnderWay, PromiseStands, LeftIsQuiet
<1>2. IInv /\ Owed /\ [Next]_vars => Owed'
  BY OwedStep
<1> QED
  BY <1>1, <1>2, Invariance, PTL DEF Spec

-----------------------------------------------------------------------------
(* The refinement of TwoFactor.                                            *)

state == <<page # "left", letIn, Mailed, verified, timers, visited>>

LEMMA ScreensAreStutters ==
  ASSUME \/ \E a \in Accounts : Type(a)
         \/ \E c \in Codes \cup {Short} : TypeOtp(c)
         \/ IncompleteOtp
         \/ \E s \in Calls : HandleLogin(s) \/ HandleVerifyOtp(s) \/ HandleResend(s)
         \/ UNCHANGED vars
  PROVE  UNCHANGED state
<1>1. UNCHANGED <<page, timers, visited, otp, letIn, verified>>
  BY DEF Type, TypeOtp, IncompleteOtp, HandleLogin, HandleVerifyOtp, HandleResend,
         vars, redirect, service
<1> QED
  BY <1>1 DEF state, Mailed

LEMMA ServiceFlow ==
  ASSUME IInv, Owed, NEW s \in Calls, Serve(s)
  PROVE  \/ \E a \in Accounts : Flow!Admit(a) \/ Flow!Prove(a)
         \/ UNCHANGED state
<1> DEFINE who == call[s].who
<1>1. PICK reply \in Replies : Replied(s, reply)
  BY DEF Serve, Issues, Verifies, Refuses, Replies, Accepting
<1>2. call[s].kind \in Kinds /\ UNCHANGED <<page, timers, visited>>
  BY <1>1 DEF Replied, redirect
<1>3. who \in Accounts /\ page # "left"
  BY <1>2 DEF IInv, CallsAreTrue, Owed, LeftIsQuiet, Kinds
<1>4. CASE Issues(s)
  <2>1. letIn' \in {letIn, letIn \cup {who}} /\ verified' = verified
    BY <1>4 DEF Issues, Heard
  <2>2. otp' = [otp EXCEPT ![who] = issued + 1] /\ issued + 1 # 0
    BY <1>4 DEF Issues, IInv, TypeOK, Codes
  <2>3. Mailed' = Mailed \cup {who}
    BY <1>3, <2>2 DEF Mailed, IInv, TypeOK
  <2> QED
    BY <1>2, <1>3, <2>1, <2>3 DEF Flow!Admit
<1>5. CASE Verifies(s)
  <2>1. who \in letIn
    BY <1>5 DEF Verifies, IInv, UserIsLetIn
  <2>2. who \in Mailed
    BY <1>3, <1>5 DEF Verifies, IInv, CallsAreTrue, Mailed, Short
  <2>3. verified' = verified \cup {who} /\ letIn' = letIn /\ Mailed' = Mailed
    BY <1>5 DEF Verifies, Mailed
  <2> QED
    BY <1>2, <1>3, <2>1, <2>2, <2>3 DEF Flow!Prove
<1>6. CASE Refuses(s)
  <2>1. letIn' \in {letIn, letIn \cup {who}} /\ verified' = verified
    BY <1>6 DEF Refuses, Heard
  <2>2. Mailed' = Mailed
    BY <1>6 DEF Refuses, Mailed
  <2> QED
    BY <1>2, <1>3, <2>1, <2>2 DEF Flow!Admit
<1> QED
  BY <1>4, <1>5, <1>6 DEF Serve

LEMMA AnswerFlow ==
  ASSUME IInv, Owed, NEW s \in Calls, Answered(s)
  PROVE  \/ \E a \in Accounts : Flow!Promise(a)
         \/ UNCHANGED state
<1>0. Mailed' = Mailed
  BY DEF Answered, LoginAnswered, VerifyAnswered, ResendAnswered, service, Mailed
<1>1. PICK k \in Kinds : Back(s, k)
  BY DEF Answered, LoginAnswered, VerifyAnswered, ResendAnswered, Kinds
<1>2. page # "left" /\ call[s].who \in Accounts
  BY <1>1 DEF Back, IInv, CallsAreTrue, Owed, LeftIsQuiet, Kinds
<1>3. page' # "left"
  BY <1>2 DEF Answered, LoginAnswered, VerifyAnswered, ResendAnswered
<1>4. CASE VerifyAnswered(s) /\ call[s].reply = "ok"
  <2>1. call[s].who \in verified
    BY <1>4 DEF VerifyAnswered, Back, IInv, CallsAreTrue
  <2> QED
    BY <1>0, <1>2, <1>3, <1>4, <2>1 DEF VerifyAnswered, Flow!Promise, service
<1>5. CASE ~ (VerifyAnswered(s) /\ call[s].reply = "ok")
  <2>1. UNCHANGED <<timers, visited, letIn, verified>>
    BY <1>5 DEF Answered, LoginAnswered, VerifyAnswered, ResendAnswered, redirect, service
  <2> QED
    BY <1>0, <1>2, <1>3, <2>1 DEF state
<1> QED
  BY <1>4, <1>5

(* The page, its timers and the proxies implement TwoFactor: an account is *)
(* let in and sent an OTP, then verified, then promised, then connected,   *)
(* whatever is under way beside it, and a promised redirect is never taken *)
(* back but by the page going away with another.                           *)
THEOREM ThePageIsTwoFactor == Spec => ImplementsTwoFactor
<1>1. Init => Flow!Init
  BY DEF Init, Flow!Init, Mailed
<1>2. IInv /\ Owed /\ [Next]_vars => [Flow!Next]_state
  <2> SUFFICES ASSUME IInv, Owed, [Next]_vars
               PROVE  Flow!Next \/ UNCHANGED state
    OBVIOUS
  <2>1. ASSUME NEW s \in Calls, Serve(s)
        PROVE  Flow!Next \/ UNCHANGED state
    BY <2>1, ServiceFlow DEF Flow!Next
  <2>2. ASSUME NEW s \in Calls, Answered(s)
        PROVE  Flow!Next \/ UNCHANGED state
    BY <2>2, AnswerFlow DEF Flow!Next
  <2>3. ASSUME NEW a \in Accounts, Redirect(a) PROVE Flow!Next
    <3>1. Flow!Connect(a)
      BY <2>3 DEF Redirect, Flow!Connect, service, Mailed
    <3> QED
      BY <3>1 DEF Flow!Next
  <2>4. CASE Unload
    <3>1. Flow!Leave
      BY <2>4 DEF Unload, Flow!Leave, service, Mailed
    <3> QED
      BY <3>1 DEF Flow!Next
  <2> QED
    BY <2>1, <2>2, <2>3, <2>4, ScreensAreStutters DEF Next, User
<1> QED
  BY <1>1, <1>2, Invariance, PromisesAreOwed, PTL DEF Spec, ImplementsTwoFactor, Flow!Spec, state

=============================================================================
