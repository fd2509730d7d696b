----------------------------- MODULE LoginPage -----------------------------
(***************************************************************************)
(* The page of /authorize in a browser: a login screen, an OTP screen and  *)
(* the redirect to /callback, over three proxies of the user service.      *)
(*                                                                         *)
(* The page's handlers are async functions that nothing keeps apart: the   *)
(* Enter key starts another while the button is disabled, and answers come *)
(* back in any order.  Each call of a proxy is a slot of Calls.            *)
(*                                                                         *)
(* An account is an e-mail address with its password.  The user service is *)
(* external: a login or a resend issues a new one-time password, numbered  *)
(* here, that replaces the account's last.  It refuses whatever it likes,  *)
(* one that was used before too, and so does the limiter in front of it.   *)
(* The login screen's alert and all layout are left out.                   *)
(***************************************************************************)
EXTENDS Naturals, FiniteSets

CONSTANTS
  Accounts,  \* what may be typed on the login screen
  Calls,     \* proxy calls in flight at one time
  MaxOtps    \* bound: one-time passwords issued

ASSUME MaxOtpsAssumption == MaxOtps \in Nat

VARIABLES
  page,       \* "login", "otp" or "left"
  typed,      \* the fields of the login screen, NoOne if one is empty
  user,       \* userEmail and userPassword
  boxes,      \* what the four OTP boxes hold: an OTP or Short
  loginBusy,  \* the login button is disabled
  verifyOff,  \* the verify button is disabled
  notice,     \* alert or success of the OTP screen
  call,       \* slot |-> the call
  timers,     \* accounts whose redirect is due in 700 ms
  visited,    \* accounts whose /callback was requested
  otp,        \* user service: account |-> its OTP, 0 if none
  issued,     \* user service: OTPs issued
  letIn,      \* history: accounts with a login that was answered by a 2xx
  verified    \* history: accounts that an OTP was verified for

fields == <<typed, boxes>>
buttons == <<loginBusy, verifyOff>>
redirect == <<timers, visited>>
service == <<otp, issued, letIn, verified>>
vars == <<page, fields, user, buttons, notice, call, redirect, service>>

NoOne == "no_one"
Codes == 1..MaxOtps     \* one that is not issued is just four wrong digits
Short == 0              \* fewer than four digits

Free == [kind |-> "none", who |-> NoOne, code |-> Short, reply |-> "none"]
Kinds == {"login", "verify", "resend"}

(* What an answer is to the page: a success; a 2xx whose body says it is   *)
(* none, which only handleVerifyOtp tells apart; another status; or none,  *)
(* one that does not parse, or has not what is read of it.                 *)
Accepting == {"ok", "unsuccessful"}
Replies == {"none", "refused", "broken"} \cup Accepting

Init ==
  /\ page = "login" /\ typed = NoOne /\ user = NoOne /\ boxes = Short
  /\ loginBusy = FALSE /\ verifyOff = TRUE /\ notice = "none"
  /\ call = [s \in Calls |-> Free]
  /\ timers = {} /\ visited = {}
  /\ otp = [a \in Accounts |-> 0] /\ issued = 0
  /\ letIn = {} /\ verified = {}

(* fetch: the request is on its way.                                       *)
Fetch(s, kind, who, code) ==
  /\ call[s] = Free
  /\ call' = [call EXCEPT ![s] = [kind |-> kind, who |-> who, code |-> code, reply |-> "none"]]

(* The await of it is over.                                                *)
Back(s, kind) ==
  /\ call[s].kind = kind /\ call[s].reply # "none"
  /\ call' = [call EXCEPT ![s] = Free]

-----------------------------------------------------------------------------
(* The login screen.                                                       *)

Type(a) ==
  /\ page = "login" /\ typed # a
  /\ typed' = a
  /\ UNCHANGED <<page, boxes, user, buttons, notice, call, redirect, service>>

(* Wrong variants: empty fields are sent; the fields are read again when   *)
(* the answer is there; the button comes back only after an HTTP answer.   *)
MutHandleLogin(s) ==
  /\ page = "login"
  /\ Fetch(s, "login", typed, Short)
  /\ loginBusy' = TRUE
  /\ UNCHANGED <<page, fields, user, verifyOff, notice, redirect, service>>

MutLoginReadsFields(s) ==
  /\ Back(s, "login")
  /\ loginBusy' = FALSE
  /\ IF call[s].reply \in Accepting THEN user' = typed /\ page' = "otp" /\ typed' = NoOne
     ELSE UNCHANGED <<user, page, typed>>
  /\ UNCHANGED <<boxes, verifyOff, notice, redirect, service>>

MutLoginStaysBusy(s) ==
  /\ Back(s, "login")
  /\ loginBusy' = (call[s].reply = "broken")
  /\ IF call[s].reply \in Accepting THEN user' = call[s].who /\ page' = "otp" /\ typed' = NoOne
     ELSE UNCHANGED <<user, page, typed>>
  /\ UNCHANGED <<boxes, verifyOff, notice, redirect, service>>

(* By the button, or by Enter whether the button is disabled or not.       *)
HandleLogin(s) ==
  /\ page = "login" /\ typed # NoOne
  /\ Fetch(s, "login", typed, Short)
  /\ loginBusy' = TRUE
  /\ UNCHANGED <<page, fields, user, verifyOff, notice, redirect, service>>

(* Any 2xx stores what was sent and turns to the OTP screen, also when it  *)
(* is shown already: res.ok is all that is looked at.  (The login fields   *)
(* are out of reach from here on: the model forgets them.)                 *)
LoginAnswered(s) ==
  /\ Back(s, "login")
  /\ loginBusy' = FALSE
  /\ IF call[s].reply \in Accepting THEN user' = call[s].who /\ page' = "otp" /\ typed' = NoOne
     ELSE UNCHANGED <<user, page, typed>>
  /\ UNCHANGED <<boxes, verifyOff, notice, redirect, service>>

-----------------------------------------------------------------------------
(* The OTP screen.                                                         *)

(* input, Backspace and paste all end in updateVerifyBtn.                  *)
TypeOtp(c) ==
  /\ page = "otp" /\ boxes # c
  /\ boxes' = c /\ verifyOff' = (c = Short)
  /\ UNCHANGED <<page, typed, user, loginBusy, notice, call, redirect, service>>

(* Wrong variants: another attempt cancels the redirect; the redirect is   *)
(* for the page's user.                                                    *)
MutHandleVerifyOtp(s) ==
  /\ page = "otp" /\ boxes # Short
  /\ Fetch(s, "verify", user, boxes)
  /\ verifyOff' = TRUE /\ notice' = "none" /\ timers' = {}
  /\ UNCHANGED <<page, fields, user, loginBusy, visited, service>>

MutVerifyAnswered(s) ==
  /\ Back(s, "verify")
  /\ verifyOff' = FALSE
  /\ notice' = IF call[s].reply = "ok" THEN "verified" ELSE "error"
  /\ timers' = IF call[s].reply = "ok" THEN timers \cup {user} ELSE timers
  /\ boxes' = IF call[s].reply \in {"refused", "unsuccessful"} THEN Short ELSE boxes
  /\ UNCHANGED <<page, typed, user, loginBusy, visited, service>>

(* By the button if it is enabled, by Enter if there are four digits.      *)
HandleVerifyOtp(s) ==
  /\ page = "otp" /\ boxes # Short
  /\ Fetch(s, "verify", user, boxes)
  /\ verifyOff' = TRUE /\ notice' = "none"
  /\ UNCHANGED <<page, fields, user, loginBusy, redirect, service>>

(* The button may be enabled without: a complaint.                         *)
IncompleteOtp ==
  /\ page = "otp" /\ boxes = Short /\ ~ verifyOff
  /\ notice' = "error"
  /\ UNCHANGED <<page, fields, user, buttons, call, redirect, service>>

(* The redirect is built from the answer, and due in 700 ms.  In every     *)
(* case the button is enabled again: the "finally" comes last.             *)
VerifyAnswered(s) ==
  /\ Back(s, "verify")
  /\ verifyOff' = FALSE
  /\ notice' = IF call[s].reply = "ok" THEN "verified" ELSE "error"
  /\ timers' = IF call[s].reply = "ok" THEN timers \cup {call[s].who} ELSE timers
  /\ boxes' = IF call[s].reply \in {"refused", "unsuccessful"} THEN Short ELSE boxes
  /\ UNCHANGED <<page, typed, user, loginBusy, visited, service>>

HandleResend(s) ==
  /\ page = "otp"
  /\ Fetch(s, "resend", user, Short)
  /\ boxes' = Short /\ verifyOff' = TRUE /\ notice' = "none"
  /\ UNCHANGED <<page, typed, user, loginBusy, redirect, service>>

(* Neither status nor body is looked at: "sent" whatever came back, be it  *)
(* an answer that does not parse.                                          *)
ResendAnswered(s) ==
  /\ Back(s, "resend")
  /\ notice' \in IF call[s].reply = "broken" THEN {"error", "sent"} ELSE {"sent"}
  /\ UNCHANGED <<page, fields, user, buttons, redirect, service>>

(* location.href is set: the browser requests /callback, and the page      *)
(* stays until there is an answer; with it goes all of its state.          *)
Redirect(a) ==
  /\ page # "left" /\ a \in timers
  /\ timers' = timers \ {a} /\ visited' = visited \cup {a}
  /\ UNCHANGED <<page, fields, user, buttons, notice, call, service>>

Unload ==
  /\ page # "left" /\ visited # {}
  /\ page' = "left" /\ typed' = NoOne /\ user' = NoOne /\ boxes' = Short
  /\ loginBusy' = FALSE /\ verifyOff' = TRUE /\ notice' = "none"
  /\ call' = [s \in Calls |-> Free] /\ timers' = {}
  /\ UNCHANGED <<visited, service>>

-----------------------------------------------------------------------------
(* The proxies and the user service.                                       *)

Replied(s, reply) ==
  /\ call[s].kind \in Kinds /\ call[s].reply = "none"
  /\ call' = [call EXCEPT ![s].reply = reply]
  /\ UNCHANGED <<page, fields, user, buttons, notice, redirect>>

(* A login answered so turns to the OTP screen, whoever it was for.        *)
Heard(s, reply) ==
  letIn' = IF call[s].kind = "login" /\ reply \in Accepting
           THEN letIn \cup {call[s].who} ELSE letIn

(* The user service sends an OTP, or verifies one.  The answer may be      *)
(* lost: the proxy's 502 or the gateway's 504 come back in its place.      *)
Issues(s) ==
  /\ call[s].kind \in {"login", "resend"} /\ issued < MaxOtps
  /\ \E reply \in {"ok", "refused", "broken"} : Replied(s, reply) /\ Heard(s, reply)
  /\ issued' = issued + 1
  /\ otp' = [otp EXCEPT ![call[s].who] = issued + 1]
  /\ UNCHANGED verified

Verifies(s) ==
  /\ call[s].kind = "verify" /\ call[s].code = otp[call[s].who]
  /\ \E reply \in {"ok", "refused", "broken"} : Replied(s, reply)
  /\ verified' = verified \cup {call[s].who}
  /\ UNCHANGED <<otp, issued, letIn>>

(* A 4xx of the service, the limiter's 429, a 5xx, 502 after a timeout; a  *)
(* 200 that is no success, which the proxies pass on as it is; or no       *)
(* answer that can be read.                                                *)
Refuses(s) ==
  /\ \E reply \in {"refused", "unsuccessful", "broken"} :
       Replied(s, reply) /\ Heard(s, reply)
  /\ UNCHANGED <<otp, issued, verified>>

-----------------------------------------------------------------------------
Serve(s) == Issues(s) \/ Verifies(s) \/ Refuses(s)
Answered(s) == LoginAnswered(s) \/ VerifyAnswered(s) \/ ResendAnswered(s)

User ==
  \/ \E a \in Accounts : Type(a)
  \/ \E c \in Codes \cup {Short} : TypeOtp(c)
  \/ IncompleteOtp
  \/ \E s \in Calls : HandleLogin(s) \/ HandleVerifyOtp(s) \/ HandleResend(s)

Next ==
  \/ User
  \/ \E s \in Calls : Serve(s) \/ Answered(s)
  \/ \E a \in Accounts : Redirect(a)
  \/ Unload

Spec == Init /\ [][Next]_vars

(* Every call of a proxy is answered (the proxies give up after 60         *)
(* seconds), its continuation runs, timers fire.                           *)
FairSpec ==
  /\ Spec
  /\ \A s \in Calls : WF_vars(Serve(s)) /\ WF_vars(Answered(s))
  /\ \A a \in Accounts : WF_vars(Redirect(a))
  /\ WF_vars(Unload)

-----------------------------------------------------------------------------
(* Properties.                                                             *)

Users == Accounts \cup {NoOne}

TypeOK ==
  /\ page \in {"login", "otp", "left"}
  /\ typed \in Users /\ user \in Users /\ boxes \in Codes \cup {Short}
  /\ loginBusy \in BOOLEAN /\ verifyOff \in BOOLEAN
  /\ notice \in {"none", "error", "verified", "sent"}
  /\ call \in [Calls -> [kind : Kinds \cup {"none"}, who : Users, code : Codes \cup {Short},
                         reply : Replies]]
  /\ timers \subseteq Accounts /\ visited \subseteq Accounts
  /\ otp \in [Accounts -> Codes \cup {0}] /\ issued \in Codes \cup {0}
  /\ letIn \subseteq Accounts /\ verified \subseteq Accounts

(* Nobody is connected but who an OTP was verified for, although another   *)
(* login may have changed the page's user while the OTP was on its way.    *)
RedirectIsVerified == timers \cup visited \subseteq verified

(* On the OTP screen, what is verified and resent is for an account whose  *)
(* login was answered by a 2xx, whatever is typed or answered meanwhile.   *)
(* (Not: whose login was accepted.  A 200 may say that it was not.)        *)
UserIsLetIn ==
  /\ page = "otp" => user \in letIn
  /\ \A s \in Calls : call[s].kind \in {"verify", "resend"} => call[s].who \in letIn

(* The page, its delayed redirects and the three proxies implement         *)
(* TwoFactor: whatever is typed, sent and answered at the same time, an    *)
(* account is let in and sent an OTP, then verified, then promised, then   *)
(* connected, and nothing the page does takes a promised redirect back.    *)
Mailed == {a \in Accounts : otp[a] # 0}

Flow == INSTANCE TwoFactor WITH
  open <- page # "left", mailed <- Mailed, proved <- verified, due <- timers, connected <- visited

ImplementsTwoFactor == Flow!Spec

(* A login that is under way ends: its button comes back.                  *)
LoginSettles == loginBusy ~> ~ loginBusy \/ page = "left"

(* Who was told "Verified! Connecting your account..." is connected,       *)
(* whatever is clicked or answered in the meantime.                        *)
VerifiedConnects == notice = "verified" ~> page = "left"
=============================================================================
