------------------------------ MODULE ToolCall ------------------------------
(***************************************************************************)
(* One tools/call request, from the name the client sends to the answer it *)
(* gets, and the client's sending it again when the answer is an error.    *)
(* Calls of different clients share nothing here but the registry; what    *)
(* they share through the access token is in McpRequest.                   *)
(*                                                                         *)
(* The handler of a tool sends the sets of backend calls of a plan one     *)
(* after the other.  A call that fails makes the handler throw at once,    *)
(* with the others of its set still in flight (Promise.all), unless the    *)
(* tool passes over failures (Promise.allSettled).  A write whose answer   *)
(* does not come may still take effect, also after the tool's answer.      *)
(*                                                                         *)
(* A row of mcp_tool_logs is written for what executeTool was run for,     *)
(* by a promise nobody awaits.                                             *)
(***************************************************************************)
EXTENDS ToolRegistry, FiniteSets

CONSTANT MaxTries  \* times the client sends one request

ASSUME MaxTriesAssumption == MaxTries \in Nat \ {0}

VARIABLES
  pc,      \* "idle", "received", "running" or "answered"
  name,    \* the tool name of the request
  fit,     \* its input: "misshapen", "refused" or "valid"
  plan,    \* what that input makes the handler send
  at,      \* how many sets of it have been sent
  res,     \* call of this attempt |-> what became of it, "open" if nothing yet
  told,    \* attempt |-> what the client was told
  rows,    \* attempt |-> its row of mcp_tool_logs
  stray,   \* writes that may take effect, whose answer nobody waits for
  landed,  \* writes that took effect, in order
  lost     \* history: an answer to a write was lost on its way

request == <<name, fit, plan>>
handler == <<at, res>>
effects == <<stray, landed, lost>>
callVars == <<pc, request, handler, told, rows, effects>>
vars == <<registryVars, callVars>>

Def == ImportOrder[Get(name)]
Bound == name \in DOMAIN tools  \* registerTools binds list(): no aliases
Names == UNION {NamesOf(ImportOrder[i]) : i \in Positions}
UnknownName == "no_such_tool"

CallsOf(t) == UNION {UNION {p[i] : i \in DOMAIN p} : p \in t.plans}
Writes(S) == {c \in S : IsWrite(c)}
Open == {c \in DOMAIN res : res[c] = "open"}
Attempt == Len(told)
Tell(answer) == told' = [told EXCEPT ![Attempt] = answer]

Init ==
  /\ RegistryInit
  /\ pc = "idle" /\ name = UnknownName /\ fit = "misshapen" /\ plan = <<>>
  /\ at = 0 /\ res = <<>> /\ told = <<>> /\ rows = <<>>
  /\ stray = {} /\ landed = <<>> /\ lost = FALSE

-----------------------------------------------------------------------------
(* The client.                                                             *)

Quiet ==
  /\ Open = {} /\ stray = {}
  /\ \A a \in DOMAIN rows : rows[a] \notin {"success", "error"}

Invoke(n, f, p) ==
  /\ Serving /\ pc = "idle"
  /\ pc' = "received" /\ name' = n /\ fit' = f /\ plan' = p
  /\ told' = <<"none">> /\ rows' = <<"none">>
  /\ UNCHANGED <<registryVars, handler, effects>>

(* Any name, with any input there is for it.                               *)
Ask ==
  /\ pc = "idle" /\ Serving
  /\ \E n \in Names \cup {UnknownName} :
       \/ Invoke(n, "misshapen", <<>>)
       \/ /\ n \in DOMAIN tools
          /\ LET t == ImportOrder[tools[n]]
             IN \/ \E p \in t.plans : Invoke(n, "valid", p)
                \/ (t.refines \/ t.guards) /\ Invoke(n, "refused", <<>>)

(* The same request again, after an error or with no answer at all.        *)
Retry ==
  /\ pc = "answered" /\ told[Attempt] \in {"error", "none"} /\ Attempt < MaxTries
  /\ pc' = "received" /\ at' = 0 /\ res' = <<>>
  /\ told' = Append(told, "none") /\ rows' = Append(rows, "none")
  /\ stray' = stray \cup Writes(Open)
  /\ UNCHANGED <<registryVars, request, landed, lost>>

(* It goes on to something else, when nothing of this is under way.        *)
GoOn ==
  /\ pc = "answered" /\ Quiet
  /\ pc' = "idle" /\ name' = UnknownName /\ fit' = "misshapen" /\ plan' = <<>>
  /\ at' = 0 /\ res' = <<>> /\ told' = <<>> /\ rows' = <<>>
  /\ landed' = <<>> /\ lost' = FALSE
  /\ UNCHANGED <<registryVars, stray>>

-----------------------------------------------------------------------------
(* bindTool and executeTool.                                               *)

(* The answer goes out; the log row is left to a promise.                  *)
Answer(answer) ==
  /\ pc' = "answered" /\ Tell(answer)
  /\ rows' = [rows EXCEPT ![Attempt] = IF answer = "error" THEN "error" ELSE "success"]

(* The SDK has no such tool, or the input does not fit the schema's shape: *)
(* the callback of registerTool is not run.                                *)
SdkRefuses ==
  /\ pc = "received"
  /\ ~ Bound \/ fit = "misshapen"
  /\ pc' = "answered" /\ Tell("error")
  /\ UNCHANGED <<registryVars, request, handler, rows, effects>>

(* VALIDATION of what the shape left unchecked, or a guard of the handler. *)
(* (NOT_FOUND cannot be: a bound name is registered.)                      *)
Refuses ==
  /\ pc = "received" /\ Bound /\ fit = "refused"
  /\ Answer("error")
  /\ UNCHANGED <<registryVars, request, handler, effects>>

(* A wrong variant: every handler is taken to have sent a first set.       *)
MutBegin ==
  /\ pc = "received" /\ Bound /\ fit = "valid"
  /\ pc' = "running" /\ at' = 1
  /\ res' = IF plan = <<>> THEN <<>> ELSE [c \in plan[1] |-> "open"]
  /\ UNCHANGED <<registryVars, request, told, rows, effects>>

(* The handler runs to its first await.                                    *)
Begin ==
  /\ pc = "received" /\ Bound /\ fit = "valid"
  /\ pc' = "running"
  /\ at' = IF plan = <<>> THEN 0 ELSE 1
  /\ res' = IF plan = <<>> THEN <<>> ELSE [c \in plan[1] |-> "open"]
  /\ UNCHANGED <<registryVars, request, told, rows, effects>>

(* A wrong variant: every handler reads the body of every answer.          *)
MutUnreadable(c) ==
  \/ res[c] = "void"
  \/ res[c] = "empty" /\ c.needs = "inner"

(* Code after an await throws when what it reads is not there.             *)
Unreadable(c) ==
  \/ res[c] = "void" /\ c.needs # "nothing"
  \/ res[c] = "empty" /\ c.needs = "inner"

Awaited == pc = "running" /\ Open = {}
Throws == \E c \in DOMAIN res : Unreadable(c)

(* A wrong variant: the error is logged and the promise never settles.     *)
MutHandlerThrows ==
  /\ Awaited /\ Throws
  /\ rows' = [rows EXCEPT ![Attempt] = "error"]
  /\ UNCHANGED <<registryVars, pc, request, handler, told, effects>>

HandlerThrows ==
  /\ Awaited /\ Throws
  /\ Answer("error")
  /\ UNCHANGED <<registryVars, request, handler, effects>>

(* A wrong variant: no await between one set of calls and the next.        *)
MutNextSet ==
  /\ pc = "running" /\ ~ Throws /\ at < Len(plan)
  /\ at' = at + 1
  /\ res' = [c \in plan[at + 1] \cup DOMAIN res |->
               IF c \in plan[at + 1] THEN "open" ELSE res[c]]
  /\ UNCHANGED <<registryVars, pc, request, told, rows, effects>>

NextSet ==
  /\ Awaited /\ ~ Throws /\ at < Len(plan)
  /\ at' = at + 1
  /\ res' = [c \in plan[at + 1] \cup DOMAIN res |->
               IF c \in plan[at + 1] THEN "open" ELSE res[c]]
  /\ UNCHANGED <<registryVars, pc, request, told, rows, effects>>

Success == ~ Def.checks \/ \A c \in DOMAIN res : res[c] # "declined"

(* A wrong variant: the last set is sent and not awaited.                  *)
MutReturn ==
  /\ pc = "running" /\ ~ Throws /\ at = Len(plan)
  /\ Answer(IF Success THEN "success" ELSE "failure")
  /\ UNCHANGED <<registryVars, request, handler, effects>>

Return ==
  /\ Awaited /\ ~ Throws /\ at = Len(plan)
  /\ Answer(IF Success THEN "success" ELSE "failure")
  /\ UNCHANGED <<registryVars, request, handler, effects>>

-----------------------------------------------------------------------------
(* authedPost: what becomes of a call.                                     *)

Becomes(c, what) == c \in Open /\ res' = [res EXCEPT ![c] = what]

(* A 200, with the payload, without it, or with the body null.             *)
Replies(c, body) ==
  /\ Becomes(c, body)
  /\ landed' = IF IsWrite(c) THEN Append(landed, c) ELSE landed
  /\ UNCHANGED <<registryVars, pc, request, at, told, rows, stray, lost>>

(* A 200 whose status is false.                                            *)
Declines(c) ==
  /\ IsWrite(c) /\ Becomes(c, "declined")
  /\ UNCHANGED <<registryVars, pc, request, at, told, rows, effects>>

(* The call rejects: the tool's answer, unless it was given before or the  *)
(* tool passes over it.                                                    *)
Rejects(c) ==
  /\ Becomes(c, "failed")
  /\ IF pc = "running" /\ ~ Def.settles
     THEN Answer("error")
     ELSE UNCHANGED <<pc, told, rows>>

(* 401, 403, another 4xx or a 5xx of a backend that has done nothing.      *)
Fails(c) ==
  /\ Rejects(c)
  /\ UNCHANGED <<registryVars, request, at, effects>>

(* No answer of the backend: 60 seconds, a connection that is gone, or a   *)
(* gateway's 504.  The handlers see a rejection like any other.            *)
Loses(c) ==
  /\ Rejects(c)
  /\ stray' = stray \cup Writes({c})
  /\ lost' = (lost \/ IsWrite(c))
  /\ UNCHANGED <<registryVars, request, at, landed>>

(* The backend works off a write nobody waits for, or never got it.        *)
StrayLands(c) ==
  /\ c \in stray
  /\ stray' = stray \ {c}
  /\ landed' = Append(landed, c)
  /\ UNCHANGED <<registryVars, pc, request, handler, told, rows, lost>>

StrayVanishes(c) ==
  /\ c \in stray
  /\ stray' = stray \ {c}
  /\ UNCHANGED <<registryVars, pc, request, handler, told, rows, landed, lost>>

-----------------------------------------------------------------------------
(* McpToolLogs.record, and the process.                                    *)

RowWritten(a) ==
  /\ rows[a] \in {"success", "error"}
  /\ rows' = [rows EXCEPT ![a] = "written"]
  /\ UNCHANGED <<registryVars, pc, request, handler, told, effects>>

RowFails(a) ==
  /\ rows[a] \in {"success", "error"}
  /\ rows' = [rows EXCEPT ![a] = "dropped"]
  /\ UNCHANGED <<registryVars, pc, request, handler, told, effects>>

(* The process dies; the next one fills its registry with the same tools.  *)
Crash ==
  /\ pc \in {"received", "running"}
  /\ pc' = "answered" /\ res' = <<>>
  /\ stray' = stray \cup Writes(Open)
  /\ lost' = (lost \/ Writes(DOMAIN res) # {})
  /\ rows' = [a \in DOMAIN rows |->
                IF rows[a] \in {"success", "error"} THEN "dropped" ELSE rows[a]]
  /\ UNCHANGED <<registryVars, request, at, told, landed>>

-----------------------------------------------------------------------------
Bodies == {"full", "empty", "void"}

Settles(c) ==
  Fails(c) \/ Loses(c) \/ Declines(c) \/ \E body \in Bodies : Replies(c, body)

Execute == SdkRefuses \/ Refuses \/ Begin \/ HandlerThrows \/ NextSet \/ Return

Next ==
  \/ Boot /\ UNCHANGED callVars
  \/ Ask \/ Retry \/ GoOn \/ Execute \/ Crash
  \/ \E c \in Open : Settles(c)
  \/ \E c \in stray : StrayLands(c) \/ StrayVanishes(c)
  \/ \E a \in DOMAIN rows : RowWritten(a) \/ RowFails(a)

Spec == Init /\ [][Next]_vars

(* An await settles (axios gives up after 60 seconds), the code after it   *)
(* runs, and so do the promises of the log rows.                           *)
FairSpec ==
  /\ Spec
  /\ WF_vars(Execute)
  /\ WF_vars(\E c \in Open : Settles(c))
  /\ WF_vars(\E a \in DOMAIN rows : RowWritten(a) \/ RowFails(a))

-----------------------------------------------------------------------------
(* What a tool must keep to, for the properties to hold of a catalogue.    *)

Creates(c) == c.effect = "creates"

(* A write is never sent together with another call.                       *)
WritesAlone ==
  \A i \in Positions : \A p \in ImportOrder[i].plans : \A k \in DOMAIN p :
    \A c \in Writes(p[k]) : p[k] = {c}

(* The hints of a tool say no less than the calls it makes.                *)
HintsTrue ==
  \A i \in Positions : LET t == ImportOrder[i] IN
    /\ t.readOnly => Writes(CallsOf(t)) = {}
    /\ t.idempotent => \A c \in CallsOf(t) : ~ Creates(c)

(* A row is created by the last call of a handler, and nothing that a 200  *)
(* may lack makes the handler throw after it.  apply_leave is not like     *)
(* that: it reads the answer to its write.                                 *)
CreatesEnd ==
  \A i \in Positions : ImportOrder[i].name # "apply_leave" =>
    \A p \in ImportOrder[i].plans : \A k \in DOMAIN p :
      \A c \in p[k] : Creates(c) => k = Len(p) /\ p[k] = {c} /\ c.needs = "nothing"

-----------------------------------------------------------------------------
(* Properties.                                                             *)

Outcomes == {"open", "full", "empty", "void", "declined", "failed"}
Tellable == {"none", "error", "success", "failure"}
Known == name = UnknownName \/ Has(name)

(* Types; attempts, answers and log rows go together; what is in flight    *)
(* belongs to the plan.                                                    *)
TypeOK ==
  /\ booted \in 0..Dead
  /\ pc \in {"idle", "received", "running", "answered"}
  /\ Known /\ fit \in {"misshapen", "refused", "valid"}
  /\ plan \in Seq(SUBSET CallType) /\ at \in 0..Len(plan)
  /\ DOMAIN res \subseteq CallType /\ \A c \in DOMAIN res : res[c] \in Outcomes
  /\ told \in Seq(Tellable) /\ Len(told) <= MaxTries
  /\ rows \in Seq(Tellable \cup {"written", "dropped"}) /\ Len(rows) = Len(told)
  /\ stray \subseteq Writes(CallType) /\ landed \in Seq(Writes(CallType))
  /\ lost \in BOOLEAN

(* The catalogue has no clash of names: the server comes up with all of    *)
(* it, and each request finds every name and alias leading to its tool.    *)
Loads == pc = "idle" => booted # Dead /\ NamesResolve

Count(c) == Cardinality({i \in DOMAIN landed : landed[i] = c})
Replied(answer) == pc = "answered" /\ told[Attempt] = answer

(* No await is forgotten and no failure is passed off as data: when a tool *)
(* answers, every call of its plan was made and got a 200 the handler      *)
(* could read (a failed one is passed over by Promise.allSettled only),    *)
(* and "success" of a write means that it took effect, or was declined to  *)
(* a tool that does not look at the status.                                *)
AnswersAreWhole ==
  /\ Replied("success") \/ Replied("failure") =>
       \A i \in DOMAIN plan : \A c \in plan[i] :
         /\ c \in DOMAIN res /\ res[c] # "open" /\ ~ Unreadable(c)
         /\ res[c] = "failed" => Def.settles
  /\ Replied("success") =>
       \A i \in DOMAIN plan : \A c \in Writes(plan[i]) :
         \/ \E k \in DOMAIN landed : landed[k] = c
         \/ res[c] = "failed"
         \/ res[c] = "declined" /\ ~ Def.checks

(* What a tool's error answer promises its client: no write of it is still *)
(* on its way, unless the answer to a write was lost.  In particular the   *)
(* second write of update_lead is not, when the first has failed.          *)
NothingLandsLate ==
  stray # {} \/ (pc = "answered" /\ Writes(Open) # {}) => lost

(* Sending a request again is safe as far as the tool's hints say: a tool  *)
(* with readOnlyHint writes nothing, and no row is created twice by a tool *)
(* with idempotentHint, nor by another one unless an answer was lost on    *)
(* its way.  The exception is apply_leave, which throws on a null body     *)
(* after its write.                                                        *)
RetryIsSafe ==
  Bound =>
    /\ Def.readOnly => landed = <<>>
    /\ \A k \in DOMAIN landed :
         Creates(landed[k]) /\ Count(landed[k]) > 1 =>
           ~ Def.idempotent /\ (lost \/ name = "apply_leave")

(* The tools agree on the backend's contracts, which its schemas check     *)
(* strictly: what posts to one endpoint, in whatever tool, sends the same  *)
(* tenant keys and reads the same part of the answer.                      *)
OneContract ==
  pc = "received" /\ fit = "valid" /\ Attempt = 1 =>
    \A c \in CallsOf(Def), i \in Positions : \A d \in CallsOf(ImportOrder[i]) :
      d.endpoint = c.endpoint => d.tenant = c.tenant /\ d.path = c.path

(* Every request that reaches the server is answered, whatever the backend *)
(* does, and every log row is written or given up.                         *)
CallsEnd ==
  /\ pc \in {"received", "running"} ~> pc = "answered"
  /\ \A a \in 1..MaxTries :
       (a \in DOMAIN rows /\ rows[a] \in {"success", "error"}) ~>
         (a \notin DOMAIN rows \/ rows[a] \notin {"success", "error"})
=============================================================================
