-------------------------- MODULE RequestPipeline --------------------------
(***************************************************************************)
(* The Express server around the handlers: what every request passes on    *)
(* its way in and out, and the life of the process.                        *)
(*                                                                         *)
(*   - the general rate limiter, before anything is parsed or logged;      *)
(*   - the body parser, which may refuse, and the request logger, which    *)
(*     writes one row of t_request_logs per response that finishes, under  *)
(*     an id that the client may choose;                                   *)
(*   - the limiter of the three login proxies, which counts a request when *)
(*     it comes in and takes it back when it has succeeded;                *)
(*   - SIGTERM, server.close and the ten seconds it is given.              *)
(*                                                                         *)
(* All requests are of one client address: the limiters count each address *)
(* by itself.  Handlers are abstract: a request waits until it is answered *)
(* or its client goes away.  The model is of `npm start`; on Vercel there  *)
(* is no listening process, and only the middleware part applies.          *)
(***************************************************************************)
EXTENDS Naturals, FiniteSets

CONSTANTS
  Reqs,        \* requests
  IdOf,        \* request |-> its id: x-request-id, or a UUID nobody else has
  GeneralMax,  \* requests of a general window (RATE_LIMIT_GENERAL_MAX)
  AuthMax      \* failed logins of a login window (RATE_LIMIT_AUTH_MAX)

ASSUME LimitsAssumption ==
  /\ IsFiniteSet(Reqs)
  /\ GeneralMax \in Nat \ {0} /\ AuthMax \in Nat \ {0}

Ids == {IdOf[r] : r \in Reqs}

VARIABLES
  proc,      \* "up", "closing", or the exit code: "exit0", "exit1"
  pc,        \* where each request is
  kind,      \* "health" (also /.well-known), "login" (a login proxy), "plain"
  status,    \* "none" until set, then "ok" (below 400), "error", "limited"
  general,   \* counter of the general limiter
  auth,      \* counter of the limiter of the login proxies
  stale,     \* its window is over: the next hit begins another
  rows,      \* requests whose log row is being written
  log,       \* t_request_logs: id |-> the request it is a row of
  window,    \* history: login windows begun
  hit,       \* history: the window a request was counted in, 0 if in none
  takenBack  \* history: hits of earlier windows taken off this one

request == <<pc, kind, status>>
limiter == <<general, auth, stale>>
history == <<window, hit, takenBack>>
vars == <<proc, request, limiter, rows, log, history>>

Kinds == {"health", "login", "plain"}
UnderWay == {"passed", "open", "limited"}
Kept == {"refused", "answered"}  \* over, and its connection may be kept
States == {"new", "gone", "cut"} \cup UnderWay \cup Kept

Init ==
  /\ proc = "up"
  /\ pc = [r \in Reqs |-> "new"]
  /\ kind = [r \in Reqs |-> "plain"]
  /\ status = [r \in Reqs |-> "none"]
  /\ general = 0 /\ auth = 0 /\ stale = TRUE
  /\ rows = {} /\ log = <<>>
  /\ window = 0 /\ hit = [r \in Reqs |-> 0] /\ takenBack = 0

Goto(r, from, to) == pc[r] \in from /\ pc' = [pc EXCEPT ![r] = to]

-----------------------------------------------------------------------------
(* A request comes in.                                                     *)

(* The connection is new, or kept (for five seconds) from a request that   *)
(* is over: such a one may bring another when the server listens no more.  *)
Connects ==
  \/ proc = "up"
  \/ proc = "closing" /\ \E r \in Reqs : pc[r] \in Kept

(* Health checks are not counted.  Above the limit: 429 at once, before    *)
(* the logger is there to see it.                                          *)
Arrive(r, k) ==
  /\ Connects
  /\ Goto(r, {"new"}, IF k # "health" /\ general >= GeneralMax THEN "refused" ELSE "passed")
  /\ kind' = [kind EXCEPT ![r] = k]
  /\ general' = IF k = "health" THEN general ELSE general + 1
  /\ UNCHANGED <<proc, status, auth, stale, rows, log, history>>

(* Its body does not parse (400), or its path ends in a slash (301): also  *)
(* before the logger.                                                      *)
TurnedAway(r) ==
  /\ Goto(r, {"passed"}, "refused")
  /\ UNCHANGED <<proc, kind, status, limiter, rows, log, history>>

(* The logger, then the router.                                            *)
Enter(r) ==
  /\ kind[r] # "login"
  /\ Goto(r, {"passed"}, "open")
  /\ UNCHANGED <<proc, kind, status, limiter, rows, log, history>>

(* Login proxies have a limiter of their own.  A hit after the end of a    *)
(* window begins the next.                                                 *)
LoginHits == IF stale THEN 1 ELSE auth + 1

LoginHit(r) ==
  /\ auth' = LoginHits /\ stale' = FALSE
  /\ window' = IF stale THEN window + 1 ELSE window
  /\ takenBack' = IF stale THEN 0 ELSE takenBack
  /\ hit' = [hit EXCEPT ![r] = window']

EnterLogin(r) ==
  /\ kind[r] = "login" /\ LoginHits <= AuthMax
  /\ Goto(r, {"passed"}, "open")
  /\ LoginHit(r)
  /\ UNCHANGED <<proc, kind, status, general, rows, log>>

(* Above the limit: 429, which goes out like any answer.                   *)
LimitLogin(r) ==
  /\ kind[r] = "login" /\ LoginHits > AuthMax
  /\ Goto(r, {"passed"}, "limited")
  /\ LoginHit(r)
  /\ status' = [status EXCEPT ![r] = "limited"]
  /\ UNCHANGED <<proc, kind, general, rows, log>>

-----------------------------------------------------------------------------
(* A request goes out.                                                     *)

(* Wrong variants: the counter may fall below zero; a hit is taken back    *)
(* whatever the answer; it is never taken back; rows at "close".           *)
MutTakeBack(r) ==
  /\ auth' = auth - 1
  /\ takenBack' = IF hit[r] < window THEN takenBack + 1 ELSE takenBack

MutLeave(r) ==
  /\ Goto(r, UnderWay, "gone")
  /\ rows' = rows \cup {r}
  /\ UNCHANGED <<proc, kind, status, limiter, log, history>>

(* skipSuccessfulRequests: a login that succeeded is taken off the counter *)
(* there is, be it that of a later window.                                 *)
TakeBack(r) ==
  /\ auth' = IF auth > 0 THEN auth - 1 ELSE 0
  /\ takenBack' = IF auth > 0 /\ hit[r] < window THEN takenBack + 1 ELSE takenBack

MutAnswerForgives(r, s) ==
  /\ Goto(r, {"open"}, "answered")
  /\ status' = [status EXCEPT ![r] = s]
  /\ rows' = rows \cup {r}
  /\ IF kind[r] = "login" THEN TakeBack(r) ELSE UNCHANGED <<auth, takenBack>>
  /\ UNCHANGED <<proc, kind, general, stale, log, window, hit>>

MutAnswerKeeps(r, s) ==
  /\ Goto(r, {"open"}, "answered")
  /\ status' = [status EXCEPT ![r] = s]
  /\ rows' = rows \cup {r}
  /\ UNCHANGED <<proc, kind, limiter, log, history>>

(* A handler answers (an SSE stream, when its session is destroyed).  The  *)
(* response finishes: its row is sent off and not awaited.                 *)
Answer(r, s) ==
  /\ Goto(r, {"open"}, "answered")
  /\ status' = [status EXCEPT ![r] = s]
  /\ rows' = rows \cup {r}
  /\ IF kind[r] = "login" /\ s = "ok" THEN TakeBack(r) ELSE UNCHANGED <<auth, takenBack>>
  /\ UNCHANGED <<proc, kind, general, stale, log, window, hit>>

AnswerLimited(r) ==
  /\ Goto(r, {"limited"}, "answered")
  /\ rows' = rows \cup {r}
  /\ UNCHANGED <<proc, kind, status, limiter, log, history>>

(* The client goes away before the answer: "finish" is not emitted.        *)
Leave(r) ==
  /\ Goto(r, UnderWay, "gone")
  /\ UNCHANGED <<proc, kind, status, limiter, rows, log, history>>

(* A wrong variant: a row of the same id is written over.                  *)
MutRowWritten(r) ==
  /\ r \in rows
  /\ log' = [i \in {IdOf[r]} \cup DOMAIN log |-> IF i = IdOf[r] THEN r ELSE log[i]]
  /\ rows' = rows \ {r}
  /\ UNCHANGED <<proc, request, limiter, history>>

(* The INSERT: req_id is the primary key.                                  *)
RowWritten(r) ==
  /\ r \in rows /\ IdOf[r] \notin DOMAIN log
  /\ log' = [i \in {IdOf[r]} \cup DOMAIN log |-> IF i = IdOf[r] THEN r ELSE log[i]]
  /\ rows' = rows \ {r}
  /\ UNCHANGED <<proc, request, limiter, history>>

(* Refused by the key, by the column (it holds 36 characters), or by the   *)
(* database; or the process ends before it is sent.                        *)
RowDropped(r) ==
  /\ r \in rows
  /\ rows' = rows \ {r}
  /\ UNCHANGED <<proc, request, limiter, log, history>>

-----------------------------------------------------------------------------
(* The limiters' windows.  What is over may also be forgotten altogether;  *)
(* for a counter that is never taken back it makes no difference.          *)

GeneralWindowEnds ==
  /\ general > 0
  /\ general' = 0
  /\ UNCHANGED <<proc, request, auth, stale, rows, log, history>>

LoginWindowEnds ==
  /\ ~ stale
  /\ stale' = TRUE
  /\ auth' \in {auth, 0}
  /\ UNCHANGED <<proc, request, general, rows, log, history>>

-----------------------------------------------------------------------------
(* The process.                                                            *)

(* SIGTERM or SIGINT: no new connections.  A second signal only adds       *)
(* another deadline, later than the first.                                 *)
Signal ==
  /\ proc = "up"
  /\ proc' = "closing"
  /\ UNCHANGED <<request, limiter, rows, log, history>>

(* What becomes of the requests when the process exits.                    *)
Exits(code) ==
  /\ proc' = code
  /\ pc' = [r \in Reqs |-> IF pc[r] \in UnderWay THEN "cut" ELSE pc[r]]
  /\ UNCHANGED <<kind, status, limiter, rows, log, history>>

(* The callback of server.close: every connection has ended.               *)
Closed ==
  /\ proc = "closing"
  /\ \A r \in Reqs : pc[r] \notin UnderWay
  /\ Exits("exit0")

(* A wrong variant: the deadline waits for what is under way.              *)
MutDeadline ==
  proc = "closing" /\ (\A r \in Reqs : pc[r] \notin UnderWay) /\ Exits("exit1")

(* Ten seconds are over.                                                   *)
Deadline == proc = "closing" /\ Exits("exit1")

(* uncaughtException, unhandledRejection, or killed.                       *)
Crash == proc \in {"up", "closing"} /\ Exits("exit1")

(* The next process: counters afresh, and rows older than thirty days are  *)
(* deleted.  The DELETE is not awaited, but until it is done such a row    *)
(* can do no more than refuse another, and that RowDropped has at any time.*)
Start ==
  /\ proc \in {"exit0", "exit1"}
  /\ proc' = "up"
  /\ general' = 0 /\ auth' = 0 /\ stale' = TRUE
  /\ \E old \in SUBSET DOMAIN log : log' = [i \in DOMAIN log \ old |-> log[i]]
  /\ UNCHANGED <<request, rows, history>>

-----------------------------------------------------------------------------
Statuses == {"ok", "error"}

Handle(r) ==
  \/ TurnedAway(r) \/ Enter(r) \/ EnterLogin(r) \/ LimitLogin(r)
  \/ AnswerLimited(r) \/ \E s \in Statuses : Answer(r, s)

Next ==
  \/ \E r \in Reqs, k \in Kinds : Arrive(r, k)
  \/ \E r \in Reqs : Handle(r) \/ Leave(r) \/ RowWritten(r) \/ RowDropped(r)
  \/ GeneralWindowEnds \/ LoginWindowEnds
  \/ Signal \/ Closed \/ Deadline \/ Crash \/ Start

Spec == Init /\ [][Next]_vars

(* The timer of the deadline fires.  Nothing is assumed of clients and     *)
(* handlers: a stream may stay open for ever.                              *)
FairSpec == Spec /\ WF_vars(Deadline)

-----------------------------------------------------------------------------
(* Properties.                                                             *)

TypeOK ==
  /\ proc \in {"up", "closing", "exit0", "exit1"}
  /\ pc \in [Reqs -> States] /\ kind \in [Reqs -> Kinds]
  /\ status \in [Reqs -> {"none", "limited"} \cup Statuses]
  /\ general \in Nat /\ auth \in Nat /\ stale \in BOOLEAN
  /\ rows \subseteq Reqs /\ DOMAIN log \subseteq Ids
  /\ \A i \in DOMAIN log : log[i] \in Reqs
  /\ window \in Nat /\ hit \in [Reqs -> 0..window] /\ takenBack \in Nat

Counted == {r \in Reqs : hit[r] = window /\ window > 0 /\ status[r] # "ok"}
Tried == {r \in Counted : status[r] # "limited"}

(* However logins overlap, succeed late or are given up: in one window, no *)
(* more of them fail or are under way than the limit, but for those that   *)
(* come in on the credit of a success of an earlier window, answered in    *)
(* this one.                                                               *)
AuthBudget == Cardinality(Tried) <= AuthMax + takenBack

(* A user who logs in without failing is not locked out: a login is only   *)
(* refused when as many others of the window as the limit have failed or   *)
(* been refused, or are under way.                                         *)
RefusedForCause ==
  [][\A r \in Reqs :
       status[r] = "none" /\ status'[r] = "limited" =>
         Cardinality(Counted' \ {r}) >= AuthMax]_vars

(* The log tells the truth: a row is that of a response which went out     *)
(* completely, to a request of that id that the general limiter let in.    *)
(* (It does not tell all of it: repeated and long ids, and what is in      *)
(* flight when the process exits, leave no row.)                           *)
LogTruth ==
  /\ \A i \in DOMAIN log : IdOf[log[i]] = i /\ log[i] \notin rows
  /\ \A r \in rows \cup {log[i] : i \in DOMAIN log} :
       pc[r] = "answered" /\ status[r] # "none"

(* Through restarts, repeated ids and rows in flight, the log is kept as   *)
(* Journal says: one entry at most for each request, and only for a whole  *)
(* answer of a running process; none is ever written over another.         *)
LifeOf == IF proc \in {"exit0", "exit1"} THEN "down" ELSE proc

FateOf ==
  [r \in Reqs |->
     IF pc[r] = "new" THEN "none"
     ELSE IF pc[r] \in UnderWay THEN "inside"
     ELSE IF pc[r] = "answered" THEN "whole" ELSE "short"]

Log == INSTANCE Journal WITH life <- LifeOf, fate <- FateOf, due <- rows, book <- log

ImplementsJournal == Log!Spec

(* A signal stops the process, whoever stays connected.                    *)
ShutdownEnds == proc = "closing" ~> proc \in {"exit0", "exit1"}
=============================================================================
