---------------------------- MODULE SessionLease ----------------------------
(***************************************************************************)
(* What the HTTP + SSE transport promises of a session, with no timers and *)
(* no streams: a session is let for a time that every message renews, is   *)
(* let once in its life, and is over before its time only when its start   *)
(* failed, its client left or the process died.                            *)
(***************************************************************************)
EXTENDS Naturals

CONSTANTS Sessions, TTL

VARIABLES
  state,  \* of each session: "new", "opening", "open" or "over"
  left,   \* what is left of its time
  gone    \* sessions whose client has left

Live == {s \in Sessions : state[s] \in {"opening", "open"}}
Move(S, to) == state' = [s \in Sessions |-> IF s \in S THEN to ELSE state[s]]

Init ==
  /\ state = [s \in Sessions |-> "new"]
  /\ left = [s \in Sessions |-> 0]
  /\ gone = {}

Enter(s) ==
  /\ state[s] = "new" /\ Move({s}, "opening")
  /\ left' = [left EXCEPT ![s] = TTL]
  /\ UNCHANGED gone

Confirm(s) ==
  /\ state[s] = "opening" /\ Move({s}, "open")
  /\ UNCHANGED <<left, gone>>

Fail(s) ==
  /\ state[s] \in {"new", "opening"} /\ Move({s}, "over")
  /\ UNCHANGED <<left, gone>>

Renew(s) ==
  /\ s \in Live
  /\ left' = [left EXCEPT ![s] = TTL]
  /\ UNCHANGED <<state, gone>>

Pass ==
  /\ left' = [s \in Sessions |-> IF left[s] = 0 THEN 0 ELSE left[s] - 1]
  /\ UNCHANGED <<state, gone>>

Expire(S) ==
  /\ S \subseteq {s \in Live : left[s] = 0} /\ Move(S, "over")
  /\ UNCHANGED <<left, gone>>

(* A client that leaves before it has its session may leave one behind.    *)
Depart(s) ==
  /\ gone' = gone \cup {s}
  /\ UNCHANGED state \/ Move({s}, "over")
  /\ UNCHANGED left

(* The process dies: only a session nobody has asked for is still to come. *)
Crash ==
  /\ \E S \in SUBSET Sessions :
       Sessions \ S \subseteq {s \in Sessions : state[s] = "new"} /\ Move(S, "over")
  /\ UNCHANGED <<left, gone>>

Next ==
  \/ \E s \in Sessions : Enter(s) \/ Confirm(s) \/ Fail(s) \/ Renew(s) \/ Depart(s)
  \/ \E S \in SUBSET Sessions : Expire(S)
  \/ Pass \/ Crash

Spec == Init /\ [][Next]_<<state, left, gone>>
=============================================================================
