---------------------------- MODULE LoginGrants ----------------------------
(***************************************************************************)
(* What the authorization-code flow promises, with no handlers and no      *)
(* awaits: a login opens a grant, a grant is spent once and for all, and a *)
(* session is opened only from a spent grant, for the grant's owner.       *)
(* Sessions and grants are never forgotten and never change hands.         *)
(***************************************************************************)
CONSTANTS Codes, Tokens, Owners

VARIABLES
  grant,    \* code -> [owner, spent]
  session   \* token -> owner

Init == grant = [c \in {} |-> c] /\ session = [t \in {} |-> t]

Open(c, u) ==
  /\ c \notin DOMAIN grant
  /\ grant' = [x \in DOMAIN grant \cup {c} |->
                 IF x = c THEN [owner |-> u, spent |-> FALSE] ELSE grant[x]]
  /\ UNCHANGED session

Spend(c) ==
  /\ c \in DOMAIN grant
  /\ grant' = [grant EXCEPT ![c].spent = TRUE]
  /\ UNCHANGED session

OpenSession(t, c) ==
  /\ c \in DOMAIN grant /\ grant[c].spent
  /\ t \notin DOMAIN session
  /\ session' = [x \in DOMAIN session \cup {t} |->
                   IF x = t THEN grant[c].owner ELSE session[x]]
  /\ UNCHANGED grant

Next ==
  \/ \E c \in Codes, u \in Owners : Open(c, u)
  \/ \E c \in Codes : Spend(c)
  \/ \E t \in Tokens, c \in Codes : OpenSession(t, c)

Spec == Init /\ [][Next]_<<grant, session>>
=============================================================================
