----------------------------- MODULE TwoFactor ------------------------------
(***************************************************************************)
(* What logging in promises, with no screens, fields or calls: an account  *)
(* is connected only after a login of it was let in and, that or a resend  *)
(* having sent it a one-time password, this was given; and who has been    *)
(* promised that is connected, unless the page goes away with another.     *)
(* That the user service accepted a login let in is not promised.          *)
(***************************************************************************)
CONSTANTS Accounts

VARIABLES
  open,       \* the page is there
  letIn,      \* accounts let in at the login
  mailed,     \* accounts that were sent a one-time password
  proved,     \* accounts that gave theirs
  due,        \* accounts that were told they are being connected
  connected   \* accounts that were

Init ==
  /\ open = TRUE
  /\ letIn = {} /\ mailed = {} /\ proved = {} /\ due = {} /\ connected = {}

(* A login is let in, a one-time password is sent, or one answer is both.  *)
Admit(a) ==
  /\ open
  /\ letIn' \in {letIn, letIn \cup {a}} /\ mailed' \in {mailed, mailed \cup {a}}
  /\ UNCHANGED <<open, proved, due, connected>>

Prove(a) ==
  /\ open /\ a \in letIn \cap mailed
  /\ proved' = proved \cup {a}
  /\ UNCHANGED <<open, letIn, mailed, due, connected>>

Promise(a) ==
  /\ open /\ a \in proved
  /\ due' = due \cup {a}
  /\ UNCHANGED <<open, letIn, mailed, proved, connected>>

Connect(a) ==
  /\ open /\ a \in due
  /\ due' = due \ {a} /\ connected' = connected \cup {a}
  /\ UNCHANGED <<open, letIn, mailed, proved>>

Leave ==
  /\ open /\ connected # {}
  /\ open' = FALSE /\ due' = {}
  /\ UNCHANGED <<letIn, mailed, proved, connected>>

Next ==
  \/ \E a \in Accounts : Admit(a) \/ Prove(a) \/ Promise(a) \/ Connect(a)
  \/ Leave

Spec == Init /\ [][Next]_<<open, letIn, mailed, proved, due, connected>>
=============================================================================
