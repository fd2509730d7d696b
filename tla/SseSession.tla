---------------------------- MODULE SseSession -----------------------------
(***************************************************************************)
(* The HTTP + SSE transport: GET /mcp/sse opens a stream and enters a      *)
(* session in an in-memory map, POST /mcp/messages finds it there, and a   *)
(* sliding timeout, a reaper and the close event of the stream take it     *)
(* out.  A session s is the sessionId of one GET; time is counted in ticks *)
(* that remain, so that the clock needs no bound.                          *)
(***************************************************************************)
EXTENDS Naturals, FiniteSets

CONSTANTS
  Sessions,   \* session ids
  TTL,        \* SESSION_TTL_MS, in ticks
  ReapEvery,  \* SESSION_REAP_INTERVAL_MS, in ticks
  MaxPosts    \* messages a client sends in one session at most

ASSUME ConstantsAssumption ==
  TTL \in Nat \ {0} /\ ReapEvery \in Nat \ {0} /\ MaxPosts \in Nat

VARIABLES
  pc,         \* the GET handler of each session
  stream,     \* sessions whose response is open
  listening,  \* those with a listener for its close event
  sessions,   \* keys of the sessions map
  left,       \* expiresAt - now, 0 once it has passed
  armed,      \* for each session, the ticks left of its armed timeouts
  handle,     \* the ticks left of the one timeoutHandle refers to
  idle,       \* history: ticks since the session was set or last posted to
  departed,   \* history: sessions whose client closed the stream
  posts,      \* messages sent so far
  reap        \* ticks until the reaper's next sweep

perSession == <<left, armed, handle, idle>>
vars == <<pc, stream, listening, sessions, left, armed, handle, idle, departed,
          posts, reap>>

Handler == {"none", "authorizing", "connecting", "starting", "open",
            "refused", "failed", "lost"}

Init ==
  /\ pc = [s \in Sessions |-> "none"]
  /\ stream = {} /\ listening = {} /\ sessions = {} /\ departed = {}
  /\ left = [s \in Sessions |-> 0]
  /\ armed = [s \in Sessions |-> {}]
  /\ handle = [s \in Sessions |-> 0]
  /\ idle = [s \in Sessions |-> 0]
  /\ posts = [s \in Sessions |-> 0]
  /\ reap = ReapEvery

-----------------------------------------------------------------------------
(* Wrong variants of definitions below, no part of Spec.                   *)

(* destroySession gives up when the stream is already closed.              *)
MutDestroy(gone, timers) ==
  /\ sessions' = sessions \ (gone \cap stream)
  /\ armed' = [s \in Sessions |-> IF s \in gone \cap stream
                                 THEN timers[s] \ {handle[s]} ELSE timers[s]]
  /\ stream' = stream \ gone

(* A message re-arms the timeout without clearing the old one.             *)
MutRearm(s) ==
  /\ armed' = [armed EXCEPT ![s] = @ \cup {TTL}]
  /\ handle' = [handle EXCEPT ![s] = TTL]
  /\ left' = [left EXCEPT ![s] = TTL]
  /\ idle' = [idle EXCEPT ![s] = 0]

(* A message pushes expiresAt out and leaves the timeout running.          *)
MutPostRearm(s) ==
  /\ left' = [left EXCEPT ![s] = TTL]
  /\ idle' = [idle EXCEPT ![s] = 0]
  /\ UNCHANGED <<armed, handle>>

(* The deadline is counted from one tick too far.                          *)
MutEnter(s) ==
  /\ sessions' = sessions \cup {s}
  /\ left' = [left EXCEPT ![s] = TTL + 1]
  /\ armed' = [armed EXCEPT ![s] = {TTL}]
  /\ handle' = [handle EXCEPT ![s] = TTL]
  /\ idle' = [idle EXCEPT ![s] = 0]

-----------------------------------------------------------------------------
(* destroySession, for the members of "gone" that are in the map: the      *)
(* entry goes, its timeout is cleared from the armed timers, its transport *)
(* and so its stream are closed.                                           *)
Destroy(gone, timers) ==
  LET dead == gone \cap sessions IN
  /\ sessions' = sessions \ dead
  /\ armed' = [s \in Sessions |-> IF s \in dead THEN timers[s] \ {handle[s]}
                                 ELSE timers[s]]
  /\ stream' = stream \ dead

(* sessions.set: expiresAt and the timeout of scheduleExpiry.              *)
Enter(s) ==
  /\ sessions' = sessions \cup {s}
  /\ left' = [left EXCEPT ![s] = TTL]
  /\ armed' = [armed EXCEPT ![s] = @ \cup {TTL}]
  /\ handle' = [handle EXCEPT ![s] = TTL]
  /\ idle' = [idle EXCEPT ![s] = 0]

(* clearTimeout, expiresAt, scheduleExpiry.                                *)
Rearm(s) ==
  /\ armed' = [armed EXCEPT ![s] = (@ \ {handle[s]}) \cup {TTL}]
  /\ handle' = [handle EXCEPT ![s] = TTL]
  /\ left' = [left EXCEPT ![s] = TTL]
  /\ idle' = [idle EXCEPT ![s] = 0]

-----------------------------------------------------------------------------
(* GET /mcp/sse.                                                           *)

Goto(s, from, to) == pc[s] = from /\ pc' = [pc EXCEPT ![s] = to]

Get(s) ==
  /\ Goto(s, "none", "authorizing")
  /\ stream' = stream \cup {s}
  /\ UNCHANGED <<listening, sessions, perSession, departed, posts, reap>>

Unauthorized(s) ==
  /\ Goto(s, "authorizing", "refused")
  /\ stream' = stream \ {s}
  /\ UNCHANGED <<listening, sessions, perSession, departed, posts, reap>>

(* authorize has returned: server, transport, and only now the listener    *)
(* for "close", which a stream closed meanwhile will not emit again.       *)
Authorized(s) ==
  /\ Goto(s, "authorizing", "connecting")
  /\ listening' = listening \cup {s}
  /\ UNCHANGED <<stream, sessions, perSession, departed, posts, reap>>

(* server.connect has settled: the entry is made, whatever has become of   *)
(* the stream since.                                                       *)
Connected(s) ==
  /\ Goto(s, "connecting", "starting")
  /\ Enter(s)
  /\ UNCHANGED <<stream, listening, departed, posts, reap>>

(* server.connect threw: cleanup finds no entry and leaves all as it is;   *)
(* the 500 ends the response.                                              *)
ConnectFails(s) ==
  /\ Goto(s, "connecting", "failed")
  /\ stream' = stream \ {s}
  /\ UNCHANGED <<listening, sessions, perSession, departed, posts, reap>>

(* transport.start() returned...                                           *)
Started(s) ==
  /\ Goto(s, "starting", "open")
  /\ UNCHANGED <<stream, listening, sessions, perSession, departed, posts, reap>>

(* ... or threw, as the SDK's does when connect has already started the    *)
(* transport: cleanup.                                                     *)
StartFails(s) ==
  /\ Goto(s, "starting", "failed")
  /\ Destroy({s}, armed)
  /\ UNCHANGED <<listening, left, handle, idle, departed, posts, reap>>

(* The client's end of the stream goes away: the listener, if it is there. *)
Disconnect(s) ==
  /\ s \in stream
  /\ IF s \in listening /\ s \in sessions
     THEN Destroy({s}, armed)
     ELSE stream' = stream \ {s} /\ UNCHANGED <<sessions, armed>>
  /\ departed' = departed \cup {s}
  /\ UNCHANGED <<pc, listening, left, handle, idle, posts, reap>>

-----------------------------------------------------------------------------
(* POST /mcp/messages.  One that finds no session (404) changes nothing.   *)
Post(s) ==
  /\ pc[s] \in {"connecting", "starting", "open", "failed"} /\ posts[s] < MaxPosts
  /\ posts' = [posts EXCEPT ![s] = @ + 1]
  /\ \/ s \in sessions /\ Rearm(s)
     \/ s \notin sessions /\ UNCHANGED perSession
  /\ UNCHANGED <<pc, stream, listening, sessions, departed, reap>>

-----------------------------------------------------------------------------
(* Time.                                                                   *)

Less(n) == IF n = 0 THEN 0 ELSE n - 1

(* A timeout that is due may fire late: time goes on without it.           *)
Tick ==
  /\ left' = [s \in Sessions |-> Less(left[s])]
  /\ armed' = [s \in Sessions |-> {Less(d) : d \in armed[s]}]
  /\ handle' = [s \in Sessions |-> Less(handle[s])]
  /\ idle' = [s \in Sessions |-> IF idle[s] < TTL THEN idle[s] + 1 ELSE TTL]
  /\ reap' = Less(reap)
  /\ UNCHANGED <<pc, stream, listening, sessions, departed, posts>>

(* The callback of scheduleExpiry; the timeout is no longer armed.         *)
TimeoutFires(s) ==
  /\ 0 \in armed[s]
  /\ Destroy({s}, [armed EXCEPT ![s] = @ \ {0}])
  /\ UNCHANGED <<pc, listening, left, handle, idle, departed, posts, reap>>

(* A wrong variant: the sweep takes what would be over before the next.    *)
MutReap ==
  /\ reap = 0
  /\ reap' = ReapEvery
  /\ Destroy({s \in sessions : left[s] < ReapEvery}, armed)
  /\ UNCHANGED <<pc, listening, left, handle, idle, departed, posts>>

Reap ==
  /\ reap = 0
  /\ reap' = ReapEvery
  /\ Destroy({s \in sessions : left[s] = 0}, armed)
  /\ UNCHANGED <<pc, listening, left, handle, idle, departed, posts>>

(* The process dies; a new one starts with an empty map.                   *)
Crash ==
  /\ stream # {} \/ sessions # {}
  /\ stream' = {} /\ listening' = {} /\ sessions' = {}
  /\ armed' = [s \in Sessions |-> {}]
  /\ pc' = [s \in Sessions |-> IF pc[s] = "none" THEN "none" ELSE "lost"]
  /\ reap' = ReapEvery
  /\ UNCHANGED <<left, handle, idle, departed, posts>>

-----------------------------------------------------------------------------
GetStep(s) ==
  \/ Unauthorized(s) \/ Authorized(s) \/ Connected(s) \/ ConnectFails(s)
  \/ Started(s) \/ StartFails(s)

Next ==
  \/ \E s \in Sessions :
       \/ Get(s) \/ GetStep(s) \/ Disconnect(s) \/ Post(s) \/ TimeoutFires(s)
  \/ Tick \/ Reap \/ Crash

Spec == Init /\ [][Next]_vars

(* Time passes, and the event loop gets round to what is due.              *)
FairSpec ==
  /\ Spec
  /\ WF_vars(Tick) /\ WF_vars(Reap)
  /\ \A s \in Sessions : WF_vars(GetStep(s)) /\ WF_vars(TimeoutFires(s))

-----------------------------------------------------------------------------
(* Properties.                                                             *)

TypeOK ==
  /\ pc \in [Sessions -> Handler]
  /\ stream \subseteq Sessions /\ listening \subseteq Sessions
  /\ sessions \subseteq Sessions
  /\ left \in [Sessions -> 0..TTL] /\ handle \in [Sessions -> 0..TTL]
  /\ armed \in [Sessions -> SUBSET (0..TTL)]
  /\ idle \in [Sessions -> 0..TTL]
  /\ posts \in [Sessions -> 0..MaxPosts]
  /\ reap \in 0..ReapEvery

(* A session in the map has exactly one armed timeout, the one its handle  *)
(* refers to, due when expiresAt says; a session that is not has none: no  *)
(* timeout is leaked, none can hit a session it was not armed for, and the *)
(* reaper and the timeouts agree.                                          *)
OneTimeout ==
  \A s \in Sessions :
    armed[s] = IF s \in sessions THEN {handle[s]} \cap {left[s]} ELSE {}

(* sse.handler.ts:41, "sliding window - each inbound POST resets the       *)
(* clock": a session whose client is still there leaves the map only when  *)
(* nothing was posted for the whole of its TTL, when its start failed, or  *)
(* with the process.                                                       *)
NoEarlyKill ==
  [][\A s \in sessions \ sessions' :
       idle[s] = TTL \/ s \in departed' \/ pc'[s] \in {"failed", "lost"}]_vars

(* The map, the timers and the reaper let sessions as SessionLease says:   *)
(* whatever the order of awaits, close events, messages and sweeps, a      *)
(* session whose start went well and whose client is there is let for a    *)
(* whole TTL from its last message, once, and ends with that time or with  *)
(* the process.                                                            *)
Phase(s) ==
  IF s \in sessions THEN IF pc[s] = "starting" THEN "opening" ELSE "open"
  ELSE IF pc[s] \in {"none", "authorizing", "connecting"} THEN "new" ELSE "over"

PhaseOf == [s \in Sessions |-> Phase(s)]

Lease == INSTANCE SessionLease WITH state <- PhaseOf, gone <- departed

ImplementsLease == Lease!Spec

(* Whatever the interleaving of disconnects, awaits and failures, every    *)
(* entry leaves the map once nothing more is posted to it, even one whose  *)
(* close event came too early to find it.                                  *)
SessionsEnd == \A s \in Sessions : s \in sessions ~> s \notin sessions

(* sse.handler.ts:84 logs "MCP SSE session established" once the entry is  *)
(* made.  With an SDK whose connect has started the transport already, the *)
(* explicit transport.start() throws and takes the established session of  *)
(* a connected client down again.                                          *)
EstablishedStays ==
  [][\A s \in sessions \ sessions' :
       idle[s] = TTL \/ s \in departed' \/ pc'[s] = "lost"]_vars
=============================================================================
