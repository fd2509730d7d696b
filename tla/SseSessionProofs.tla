------------------------- MODULE SseSessionProofs --------------------------
(***************************************************************************)
(* Proofs about SseSession, for any number of sessions and messages and    *)
(* any TTL.                                                                *)
(***************************************************************************)
EXTENDS SseSession, TLAPS

(* What the entry of a session amounts to: it was made by a GET that got   *)
(* as far as its start, its deadline is its TTL less the time it has been  *)
(* idle, and its timeout is due then.                                      *)
Entries ==
  \A s \in sessions :
    /\ pc[s] \in {"starting", "open"}
    /\ left[s] + idle[s] = TTL
    /\ handle[s] = left[s]

(* The inductive invariant.                                                *)
IInv == TypeOK /\ OneTimeout /\ Entries

LEMMA InitIInv == Init => IInv
BY ConstantsAssumption DEF Init, IInv, TypeOK, OneTimeout, Entries, Handler

(* destroySession, from whichever timers are armed when it is called.      *)
LEMMA DestroyStep ==
  ASSUME IInv, NEW gone, NEW timers, timers \in [Sessions -> SUBSET (0..TTL)],
         Destroy(gone, timers),
         \A s \in Sessions : \/ timers[s] = armed[s]
                             \/ s \in gone \cap sessions /\ timers[s] = {}
  PROVE  /\ sessions' = sessions \ gone
         /\ stream' \subseteq stream
         /\ armed' \in [Sessions -> SUBSET (0..TTL)]
         /\ \A s \in Sessions :
              armed'[s] = IF s \in sessions' THEN armed[s] ELSE {}
BY DEF Destroy, IInv, TypeOK, OneTimeout, Entries

(* Steps after which the map has lost some entries and nothing else that   *)
(* the invariant speaks of has changed but control states.                 *)
LEMMA ShrinkStep ==
  ASSUME IInv,
         sessions' \subseteq sessions, stream' \subseteq Sessions,
         listening' \subseteq Sessions, reap' \in 0..ReapEvery,
         pc' \in [Sessions -> Handler],
         armed' \in [Sessions -> SUBSET (0..TTL)],
         \A s \in Sessions :
           armed'[s] = IF s \in sessions' THEN armed[s] ELSE {},
         \A s \in sessions' : pc'[s] \in {"starting", "open"},
         UNCHANGED <<left, handle, idle, posts>>
  PROVE  IInv'
BY DEF IInv, TypeOK, OneTimeout, Entries

-----------------------------------------------------------------------------
(* The GET handler and the close event.                                    *)

LEMMA GotoStep ==
  ASSUME TypeOK, NEW s \in Sessions, NEW from, NEW to \in Handler, Goto(s, from, to)
  PROVE  /\ pc[s] = from
         /\ pc' \in [Sessions -> Handler]
         /\ pc'[s] = to
         /\ \A q \in Sessions : q # s => pc'[q] = pc[q]
BY DEF TypeOK, Goto

LEMMA GetStepsKeep ==
  ASSUME IInv, NEW s \in Sessions,
         Get(s) \/ Unauthorized(s) \/ Authorized(s) \/ ConnectFails(s) \/ Started(s)
  PROVE  IInv'
<1>1. /\ pc' \in [Sessions -> Handler]
      /\ \A q \in sessions : pc'[q] \in {"starting", "open"}
  BY DEF IInv, TypeOK, Entries, Goto, Handler, Get, Unauthorized, Authorized,
         ConnectFails, Started
<1>2. /\ stream' \subseteq Sessions /\ listening' \subseteq Sessions
      /\ UNCHANGED <<sessions, left, armed, handle, idle, posts, reap>>
  BY DEF IInv, TypeOK, perSession, Get, Unauthorized, Authorized, ConnectFails,
         Started
<1> QED
  BY <1>1, <1>2 DEF IInv, TypeOK, OneTimeout, Entries

LEMMA ConnectedStep ==
  ASSUME IInv, NEW s \in Sessions, Connected(s)
  PROVE  IInv'
<1>1. /\ pc[s] = "connecting" /\ pc'[s] = "starting"
      /\ pc' \in [Sessions -> Handler]
      /\ \A q \in Sessions : q # s => pc'[q] = pc[q]
  BY GotoStep DEF Connected, Handler, IInv
<1>2. s \notin sessions /\ armed[s] = {}
  BY <1>1 DEF IInv, Entries, OneTimeout
<1>3. /\ sessions' = sessions \cup {s}
      /\ left' = [left EXCEPT ![s] = TTL]
      /\ armed' = [armed EXCEPT ![s] = {TTL}]
      /\ handle' = [handle EXCEPT ![s] = TTL]
      /\ idle' = [idle EXCEPT ![s] = 0]
      /\ UNCHANGED <<stream, listening, posts, reap>>
  BY <1>2 DEF Connected, Enter, IInv, TypeOK
<1>4. TypeOK'
  BY <1>1, <1>3, ConstantsAssumption DEF IInv, TypeOK
<1>5. OneTimeout'
  BY <1>3 DEF IInv, TypeOK, OneTimeout
<1>6. Entries'
  BY <1>1, <1>3, ConstantsAssumption DEF IInv, TypeOK, Entries
<1> QED
  BY <1>4, <1>5, <1>6 DEF IInv

LEMMA StartFailsStep ==
  ASSUME IInv, NEW s \in Sessions, StartFails(s)
  PROVE  IInv'
<1>1. /\ pc' \in [Sessions -> Handler]
      /\ \A q \in Sessions : q # s => pc'[q] = pc[q]
  BY GotoStep DEF StartFails, Handler, IInv
<1>2. /\ sessions' = sessions \ {s} /\ stream' \subseteq stream
      /\ armed' \in [Sessions -> SUBSET (0..TTL)]
      /\ \A q \in Sessions :
           armed'[q] = IF q \in sessions' THEN armed[q] ELSE {}
  BY DestroyStep DEF StartFails, IInv, TypeOK
<1>3. \A q \in sessions' : pc'[q] \in {"starting", "open"}
  BY <1>1, <1>2 DEF IInv, TypeOK, Entries
<1> QED
  BY <1>1, <1>2, <1>3, ShrinkStep DEF StartFails, IInv, TypeOK

LEMMA DisconnectStep ==
  ASSUME IInv, NEW s \in Sessions, Disconnect(s)
  PROVE  IInv'
<1>1. CASE s \in listening /\ s \in sessions
  <2>1. /\ sessions' = sessions \ {s} /\ stream' \subseteq stream
        /\ armed' \in [Sessions -> SUBSET (0..TTL)]
        /\ \A q \in Sessions :
             armed'[q] = IF q \in sessions' THEN armed[q] ELSE {}
    BY <1>1, DestroyStep DEF Disconnect, IInv, TypeOK
  <2> QED
    BY <2>1, ShrinkStep DEF Disconnect, IInv, TypeOK, Entries
<1>2. CASE ~ (s \in listening /\ s \in sessions)
  BY <1>2 DEF Disconnect, IInv, TypeOK, OneTimeout, Entries
<1> QED
  BY <1>1, <1>2

-----------------------------------------------------------------------------
(* Messages, time, crashes.                                                *)

LEMMA PostStep ==
  ASSUME IInv, NEW s \in Sessions, Post(s)
  PROVE  IInv'
<1>1. posts' \in [Sessions -> 0..MaxPosts]
  BY ConstantsAssumption DEF Post, IInv, TypeOK
<1>2. CASE s \in sessions /\ Rearm(s)
  <2>1. /\ left' = [left EXCEPT ![s] = TTL]
        /\ armed' = [armed EXCEPT ![s] = {TTL}]
        /\ handle' = [handle EXCEPT ![s] = TTL]
        /\ idle' = [idle EXCEPT ![s] = 0]
        /\ UNCHANGED <<pc, stream, listening, sessions, reap>>
    BY <1>2 DEF Post, Rearm, IInv, TypeOK, OneTimeout, Entries
  <2>2. TypeOK'
    BY <1>1, <2>1, ConstantsAssumption DEF IInv, TypeOK
  <2>3. OneTimeout'
    BY <1>2, <2>1 DEF IInv, TypeOK, OneTimeout
  <2>4. Entries'
    BY <2>1, ConstantsAssumption DEF IInv, TypeOK, Entries
  <2> QED
    BY <2>2, <2>3, <2>4 DEF IInv
<1>3. CASE s \notin sessions /\ UNCHANGED perSession
  BY <1>1, <1>3 DEF Post, perSession, IInv, TypeOK, OneTimeout, Entries
<1> QED
  BY <1>2, <1>3 DEF Post

LEMMA TickStep ==
  ASSUME IInv, Tick
  PROVE  IInv'
<1>1. \A n \in 0..TTL : Less(n) \in 0..TTL
  BY ConstantsAssumption DEF Less
<1>2. reap' \in 0..ReapEvery
  BY ConstantsAssumption DEF Tick, Less, IInv, TypeOK
<1>3. /\ left' \in [Sessions -> 0..TTL] /\ handle' \in [Sessions -> 0..TTL]
      /\ idle' \in [Sessions -> 0..TTL]
  BY <1>1, ConstantsAssumption DEF Tick, IInv, TypeOK
<1>4. armed' \in [Sessions -> SUBSET (0..TTL)]
  BY <1>1 DEF Tick, IInv, TypeOK
<1>5. TypeOK'
  BY <1>2, <1>3, <1>4 DEF Tick, IInv, TypeOK
<1>6. OneTimeout'
  <2> SUFFICES ASSUME NEW s \in Sessions
               PROVE  armed'[s] = IF s \in sessions THEN {handle'[s]} \cap {left'[s]}
                                  ELSE {}
    BY DEF OneTimeout, Tick
  <2>1. CASE s \in sessions
    <3>1. armed[s] = {left[s]} /\ handle[s] = left[s]
      BY <2>1 DEF IInv, OneTimeout, Entries
    <3>2. armed'[s] = {Less(left[s])}
      BY <3>1 DEF Tick
    <3> QED
      BY <2>1, <3>1, <3>2 DEF Tick
  <2>2. CASE s \notin sessions
    BY <2>2 DEF Tick, IInv, OneTimeout
  <2> QED
    BY <2>1, <2>2
<1>7. Entries'
  <2> SUFFICES ASSUME NEW s \in sessions
               PROVE  left'[s] + idle'[s] = TTL /\ handle'[s] = left'[s]
    BY DEF Entries, Tick, IInv
  <2>1. /\ s \in Sessions /\ left[s] \in 0..TTL /\ idle[s] \in 0..TTL
        /\ left[s] + idle[s] = TTL /\ handle[s] = left[s]
    BY DEF IInv, TypeOK, Entries
  <2> QED
    BY <2>1, ConstantsAssumption DEF Tick, Less
<1> QED
  BY <1>5, <1>6, <1>7 DEF IInv

LEMMA TimeoutFiresStep ==
  ASSUME IInv, NEW s \in Sessions, TimeoutFires(s)
  PROVE  /\ IInv' /\ s \in sessions /\ idle[s] = TTL
         /\ sessions' = sessions \ {s}
<1>1. s \in sessions /\ handle[s] = 0 /\ left[s] = 0 /\ armed[s] = {0}
  BY DEF TimeoutFires, IInv, OneTimeout, Entries
<1>2. idle[s] = TTL
  BY <1>1, ConstantsAssumption DEF IInv, TypeOK, Entries
<1> DEFINE timers == [armed EXCEPT ![s] = @ \ {0}]
<1>3. /\ timers \in [Sessions -> SUBSET (0..TTL)]
      /\ timers[s] = {} /\ \A q \in Sessions : q # s => timers[q] = armed[q]
  BY <1>1 DEF IInv, TypeOK
<1>4. /\ Destroy({s}, timers)
      /\ UNCHANGED <<pc, listening, left, handle, idle, posts, reap>>
  BY DEF TimeoutFires
<1> HIDE DEF timers
<1>5. /\ sessions' = sessions \ {s} /\ stream' \subseteq stream
      /\ armed' \in [Sessions -> SUBSET (0..TTL)]
      /\ \A q \in Sessions :
           armed'[q] = IF q \in sessions' THEN armed[q] ELSE {}
  BY <1>1, <1>3, <1>4, DestroyStep
<1> QED
  BY <1>1, <1>2, <1>4, <1>5, ShrinkStep DEF IInv, TypeOK, Entries

LEMMA ReapStep ==
  ASSUME IInv, Reap
  PROVE  IInv' /\ \A s \in sessions \ sessions' : idle[s] = TTL
<1> DEFINE due == {s \in sessions : left[s] = 0}
<1>1. /\ Destroy(due, armed) /\ reap' = ReapEvery
      /\ UNCHANGED <<pc, listening, left, handle, idle, posts>>
  BY DEF Reap
<1>2. /\ sessions' = sessions \ due /\ stream' \subseteq stream
      /\ armed' \in [Sessions -> SUBSET (0..TTL)]
      /\ \A q \in Sessions :
           armed'[q] = IF q \in sessions' THEN armed[q] ELSE {}
  <2> HIDE DEF due
  <2> QED
    BY <1>1, DestroyStep DEF IInv, TypeOK
<1>3. \A s \in sessions \ sessions' : idle[s] = TTL
  BY <1>2, ConstantsAssumption DEF IInv, TypeOK, Entries
<1>4. IInv'
  BY <1>1, <1>2, ShrinkStep, ConstantsAssumption DEF IInv, TypeOK, Entries
<1> QED
  BY <1>3, <1>4

LEMMA CrashStep ==
  ASSUME IInv, Crash
  PROVE  IInv' /\ \A s \in sessions : pc'[s] = "lost"
<1>1. \A s \in sessions : pc'[s] = "lost"
  BY DEF IInv, TypeOK, Entries, Crash
<1>2. IInv'
  BY ConstantsAssumption DEF IInv, TypeOK, OneTimeout, Entries, Crash, Handler
<1> QED
  BY <1>1, <1>2

LEMMA NextStep == IInv /\ [Next]_vars => IInv'
<1> SUFFICES ASSUME IInv, [Next]_vars PROVE IInv'
  OBVIOUS
<1>1. ASSUME NEW s \in Sessions,
             Get(s) \/ GetStep(s) \/ Disconnect(s) \/ Post(s) \/ TimeoutFires(s)
      PROVE  IInv'
  BY <1>1, GetStepsKeep, ConnectedStep, StartFailsStep, DisconnectStep, PostStep,
     TimeoutFiresStep DEF GetStep
<1>2. CASE UNCHANGED vars
  BY <1>2 DEF vars, IInv, TypeOK, OneTimeout, Entries
<1> QED
  BY <1>1, <1>2, TickStep, ReapStep, CrashStep DEF Next

THEOREM Invariance == Spec => []IInv
BY InitIInv, NextStep, PTL DEF Spec

(* Type correctness: no counter of the map runs past its bound.            *)
THEOREM TypeCorrect == Spec => []TypeOK
<1>1. IInv => TypeOK
  BY DEF IInv
<1> QED
  BY <1>1, Invariance, PTL

(* Every entry of the map has one armed timeout, no other session has any. *)
THEOREM TimeoutsAreExact == Spec => []OneTimeout
<1>1. IInv => OneTimeout
  BY DEF IInv
<1> QED
  BY <1>1, Invariance, PTL

(* The sliding window holds: nothing but a whole idle TTL, a departed      *)
(* client, a failed start or a crash takes a session out of the map.       *)
THEOREM TheWindowSlides == Spec => NoEarlyKill
<1> DEFINE Late == \A s \in sessions \ sessions' :
                     idle[s] = TTL \/ s \in departed' \/ pc'[s] \in {"failed", "lost"}
<1>1. IInv /\ [Next]_vars => [Late]_vars
  <2> SUFFICES ASSUME IInv, Next, NEW s \in sessions \ sessions'
               PROVE  idle[s] = TTL \/ s \in departed' \/ pc'[s] \in {"failed", "lost"}
    OBVIOUS
  <2>1. ASSUME NEW q \in Sessions, TimeoutFires(q) PROVE idle[s] = TTL
    BY <2>1, TimeoutFiresStep
  <2>2. ASSUME NEW q \in Sessions, Disconnect(q) PROVE s \in departed'
    BY <2>2 DEF Disconnect, Destroy
  <2>3. ASSUME NEW q \in Sessions, StartFails(q) PROVE pc'[s] = "failed"
    BY <2>3 DEF StartFails, Destroy, Goto, IInv, TypeOK
  <2>4. ASSUME NEW q \in Sessions, Get(q) \/ Unauthorized(q) \/ Authorized(q)
                 \/ Connected(q) \/ ConnectFails(q) \/ Started(q) \/ Post(q)
        PROVE  FALSE
    BY <2>4 DEF Get, Unauthorized, Authorized, Connected, Enter, ConnectFails,
                Started, Post
  <2>5. CASE Tick
    BY <2>5 DEF Tick
  <2> QED
    BY <2>1, <2>2, <2>3, <2>4, <2>5, ReapStep, CrashStep DEF Next, GetStep
<1> QED
  BY <1>1, Invariance, PTL DEF Spec, NoEarlyKill

-----------------------------------------------------------------------------
(* The refinement of SessionLease.                                         *)

LEMMA MoveStep ==
  ASSUME NEW S, NEW to,
         \A s \in Sessions : Phase(s)' = IF s \in S THEN to ELSE Phase(s)
  PROVE  Lease!Move(S, to)
BY DEF Lease!Move, PhaseOf

LEMMA StayStep ==
  ASSUME \A s \in Sessions : Phase(s)' = Phase(s)
  PROVE  UNCHANGED PhaseOf
BY DEF PhaseOf

LEMMA InMap ==
  ASSUME IInv
  PROVE  /\ Lease!Live = sessions
         /\ \A s \in Sessions : PhaseOf[s] = Phase(s)
BY DEF Lease!Live, PhaseOf, Phase, IInv, TypeOK

(* The GET handler up to its entry, and after it.                          *)
LEMMA GetLeases ==
  ASSUME IInv, NEW s \in Sessions, Get(s) \/ GetStep(s)
  PROVE  [Lease!Next]_<<PhaseOf, left, departed>>
<1>1. CASE Get(s) \/ Authorized(s)
  <2>1. \A q \in Sessions : Phase(q)' = Phase(q)
    BY <1>1, GotoStep DEF Get, Authorized, Phase, IInv, TypeOK, Entries, Goto
  <2> QED
    BY <1>1, <2>1, StayStep DEF Get, Authorized, perSession
<1>2. CASE Unauthorized(s) \/ ConnectFails(s)
  <2>1. PhaseOf[s] = "new"
    BY <1>2, InMap DEF Unauthorized, ConnectFails, Phase, IInv, Entries, Goto
  <2>2. \A q \in Sessions : Phase(q)' = IF q \in {s} THEN "over" ELSE Phase(q)
    BY <1>2 DEF Unauthorized, ConnectFails, Phase, IInv, TypeOK, Entries, Goto
  <2>3. Lease!Fail(s)
    BY <1>2, <2>1, <2>2, MoveStep DEF Lease!Fail, Unauthorized, ConnectFails, perSession
  <2> QED
    BY <2>3 DEF Lease!Next
<1>3. CASE Connected(s)
  <2>1. PhaseOf[s] = "new"
    BY <1>3, InMap DEF Connected, Phase, IInv, Entries, Goto
  <2>2. \A q \in Sessions : Phase(q)' = IF q \in {s} THEN "opening" ELSE Phase(q)
    BY <1>3 DEF Connected, Enter, Phase, IInv, TypeOK, Entries, Goto
  <2>3. Lease!Enter(s)
    BY <1>3, <2>1, <2>2, MoveStep DEF Lease!Enter, Connected, Enter
  <2> QED
    BY <2>3 DEF Lease!Next
<1>4. CASE Started(s) /\ s \in sessions
  <2>1. PhaseOf[s] = "opening"
    BY <1>4, InMap DEF Started, Phase, Goto
  <2>2. \A q \in Sessions : Phase(q)' = IF q \in {s} THEN "open" ELSE Phase(q)
    BY <1>4 DEF Started, Phase, IInv, TypeOK, Entries, Goto
  <2>3. Lease!Confirm(s)
    BY <1>4, <2>1, <2>2, MoveStep DEF Lease!Confirm, Started, perSession
  <2> QED
    BY <2>3 DEF Lease!Next
<1>5. CASE StartFails(s) /\ s \in sessions
  <2>1. PhaseOf[s] = "opening"
    BY <1>5, InMap DEF StartFails, Phase, Goto
  <2>2. \A q \in Sessions : Phase(q)' = IF q \in {s} THEN "over" ELSE Phase(q)
    BY <1>5 DEF StartFails, Destroy, Phase, IInv, TypeOK, Entries, Goto
  <2>3. Lease!Fail(s)
    BY <1>5, <2>1, <2>2, MoveStep DEF Lease!Fail, StartFails
  <2> QED
    BY <2>3 DEF Lease!Next
<1>6. CASE (Started(s) \/ StartFails(s)) /\ s \notin sessions
  <2>1. \A q \in Sessions : Phase(q)' = Phase(q)
    BY <1>6 DEF Started, StartFails, Destroy, Phase, IInv, TypeOK, Entries, Goto
  <2> QED
    BY <1>6, <2>1, StayStep DEF Started, StartFails, perSession
<1> QED
  BY <1>1, <1>2, <1>3, <1>4, <1>5, <1>6 DEF GetStep

LEMMA DisconnectLeases ==
  ASSUME IInv, NEW s \in Sessions, Disconnect(s)
  PROVE  Lease!Next
<1>1. departed' = departed \cup {s} /\ left' = left /\ pc' = pc
  BY DEF Disconnect
<1>2. CASE s \in listening /\ s \in sessions
  <2>1. \A q \in Sessions : Phase(q)' = IF q \in {s} THEN "over" ELSE Phase(q)
    BY <1>1, <1>2 DEF Disconnect, Destroy, Phase, IInv, Entries
  <2> QED
    BY <1>1, <2>1, MoveStep DEF Lease!Next, Lease!Depart
<1>3. CASE ~ (s \in listening /\ s \in sessions)
  <2>1. UNCHANGED PhaseOf
    BY <1>1, <1>3, StayStep DEF Disconnect, Phase
  <2> QED
    BY <1>1, <2>1 DEF Lease!Next, Lease!Depart
<1> QED
  BY <1>2, <1>3

LEMMA PostLeases ==
  ASSUME IInv, NEW s \in Sessions, Post(s)
  PROVE  [Lease!Next]_<<PhaseOf, left, departed>>
<1>1. UNCHANGED PhaseOf /\ departed' = departed
  BY StayStep DEF Post, Phase
<1>2. CASE s \in sessions /\ Rearm(s)
  <2>1. Lease!Renew(s)
    BY <1>1, <1>2, InMap DEF Lease!Renew, Rearm
  <2> QED
    BY <2>1 DEF Lease!Next
<1> QED
  BY <1>1, <1>2 DEF Post, perSession

LEMMA TickLeases ==
  ASSUME Tick
  PROVE  Lease!Next
<1>1. UNCHANGED PhaseOf /\ departed' = departed
  BY StayStep DEF Tick, Phase
<1>2. left' = [s \in Sessions |-> IF left[s] = 0 THEN 0 ELSE left[s] - 1]
  BY DEF Tick, Less
<1> QED
  BY <1>1, <1>2 DEF Lease!Next, Lease!Pass

(* What the timeouts and the reaper take out has had its time.             *)
LEMMA ExpireLeases ==
  ASSUME IInv, NEW S \in SUBSET Sessions, S \subseteq {s \in sessions : left[s] = 0},
         sessions' = sessions \ S, UNCHANGED <<pc, left, departed>>
  PROVE  Lease!Next
<1>1. \A q \in Sessions : Phase(q)' = IF q \in S THEN "over" ELSE Phase(q)
  BY DEF Phase, IInv, Entries
<1>2. Lease!Expire(S)
  BY <1>1, InMap, MoveStep DEF Lease!Expire
<1> QED
  BY <1>2 DEF Lease!Next

LEMMA CrashLeases ==
  ASSUME IInv, Crash
  PROVE  Lease!Next
<1> DEFINE S == {s \in Sessions : pc[s] # "none"}
<1>1. /\ sessions' = {} /\ UNCHANGED <<left, departed>>
      /\ pc' = [s \in Sessions |-> IF pc[s] = "none" THEN "none" ELSE "lost"]
  BY DEF Crash
<1>2. \A q \in Sessions : Phase(q)' = IF q \in S THEN "over" ELSE Phase(q)
  BY <1>1 DEF Phase, IInv, Entries
<1>3. Sessions \ S \subseteq {s \in Sessions : PhaseOf[s] = "new"}
  BY InMap DEF Phase, IInv, Entries
<1>4. Lease!Crash
  BY <1>1, <1>2, <1>3, MoveStep DEF Lease!Crash
<1> QED
  BY <1>4 DEF Lease!Next

(* The transport implements SessionLease, for any number of sessions and   *)
(* messages and any TTL: with the timers, the sweep and the close events   *)
(* gone, a session is let for its TTL from the last message, once.         *)
THEOREM TheLeaseHolds == Spec => ImplementsLease
<1>1. Init => Lease!Init
  BY DEF Init, Lease!Init, PhaseOf, Phase
<1>2. IInv /\ [Next]_vars => [Lease!Next]_<<PhaseOf, left, departed>>
  <2> SUFFICES ASSUME IInv, [Next]_vars
               PROVE  [Lease!Next]_<<PhaseOf, left, departed>>
    OBVIOUS
  <2>1. ASSUME NEW s \in Sessions, TimeoutFires(s) PROVE Lease!Next
    <3>1. s \in sessions /\ left[s] = 0 /\ sessions' = sessions \ {s}
      BY <2>1, TimeoutFiresStep, ConstantsAssumption DEF IInv, TypeOK, Entries
    <3> QED
      BY <2>1, <3>1, ExpireLeases DEF TimeoutFires
  <2>2. CASE Reap
    <3> DEFINE due == {s \in sessions : left[s] = 0}
    <3>1. sessions' = sessions \ due
      BY <2>2 DEF Reap, Destroy
    <3>2. due \in SUBSET Sessions
      BY DEF IInv, TypeOK
    <3> QED
      BY <2>2, <3>1, <3>2, ExpireLeases DEF Reap
  <2>3. CASE UNCHANGED vars
    <3>1. UNCHANGED PhaseOf
      BY <2>3, StayStep DEF vars, Phase
    <3> QED
      BY <2>3, <3>1 DEF vars
  <2> QED
    BY <2>1, <2>2, <2>3, GetLeases, DisconnectLeases, PostLeases, TickLeases, CrashLeases
       DEF Next
<1> QED
  BY <1>1, <1>2, Invariance, PTL DEF Spec, ImplementsLease, Lease!Spec
=============================================================================
