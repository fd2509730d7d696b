------------------------------ MODULE Journal ------------------------------
(***************************************************************************)
(* What the server promises of its request log, with no limiters and no    *)
(* middleware.  A request is let in at most once and only by a process     *)
(* that runs; it is over in one way, whole or not; only a whole answer of  *)
(* a running process makes an entry due, each once; an entry is written    *)
(* or lost, never over another, and stays until the next start.            *)
(***************************************************************************)
EXTENDS Naturals

CONSTANTS
  Reqs,  \* requests
  IdOf   \* request |-> the id its entry would have

VARIABLES
  life,  \* of the process: "up", "closing" or "down"
  fate,  \* of each request: "none", "inside", then "whole" or "short"
  due,   \* requests whose entry is to be written
  book   \* id |-> the request it is an entry of

Running == life \in {"up", "closing"}
Turns(r, from, to) == fate[r] = from /\ fate' = [fate EXCEPT ![r] = to]

Init ==
  /\ life = "up"
  /\ fate = [r \in Reqs |-> "none"]
  /\ due = {} /\ book = <<>>

Come(r) ==
  /\ Running
  /\ Turns(r, "none", "inside") \/ Turns(r, "none", "short")
  /\ UNCHANGED <<life, due, book>>

Finish(r) ==
  /\ Running /\ Turns(r, "inside", "whole")
  /\ due' = due \cup {r}
  /\ UNCHANGED <<life, book>>

GiveUp(r) ==
  /\ Running /\ Turns(r, "inside", "short")
  /\ UNCHANGED <<life, due, book>>

(* The process may have ended since.                                       *)
File(r) ==
  /\ r \in due /\ IdOf[r] \notin DOMAIN book
  /\ due' = due \ {r}
  /\ book' = [i \in {IdOf[r]} \cup DOMAIN book |-> IF i = IdOf[r] THEN r ELSE book[i]]
  /\ UNCHANGED <<life, fate>>

Lose(r) ==
  /\ r \in due
  /\ due' = due \ {r}
  /\ UNCHANGED <<life, fate, book>>

Signal ==
  /\ life = "up" /\ life' = "closing"
  /\ UNCHANGED <<fate, due, book>>

(* Nobody is inside a process that is down.                                *)
Stop ==
  /\ Running /\ life' = "down"
  /\ fate' = [r \in Reqs |-> IF fate[r] = "inside" THEN "short" ELSE fate[r]]
  /\ UNCHANGED <<due, book>>

Start ==
  /\ life = "down" /\ life' = "up"
  /\ \E old \in SUBSET DOMAIN book : book' = [i \in DOMAIN book \ old |-> book[i]]
  /\ UNCHANGED <<fate, due>>

Next ==
  \/ \E r \in Reqs : Come(r) \/ Finish(r) \/ GiveUp(r) \/ File(r) \/ Lose(r)
  \/ Signal \/ Stop \/ Start

Spec == Init /\ [][Next]_<<life, fate, due, book>>
=============================================================================
