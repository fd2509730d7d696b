------------------------- MODULE ToolEffectsProofs --------------------------
(***************************************************************************)
(* Proofs about the writes of a tool, for any catalogue that keeps to what *)
(* ToolCall asks of one: when a write may land after the tool's answer,    *)
(* and what sending a request again may do.                                *)
(***************************************************************************)
EXTENDS ToolCallProofs, FiniteSetTheorems

(* A plan is one of the tool asked for, and nothing is left over from the  *)
(* request before.                                                         *)
PlanInv ==
  /\ pc = "idle" => fit = "misshapen" /\ stray = {} /\ landed = <<>>
  /\ fit = "valid" => Bound /\ plan \in Def.plans
  /\ fit # "valid" => plan = <<>>

(* While the handler runs, what it waits for and what will make it throw   *)
(* are in the set it sent last.                                            *)
Pending(c) == res[c] = "open" \/ Unreadable(c)
Current ==
  pc = "running" => \A c \in DOMAIN res : Pending(c) => at >= 1 /\ c \in plan[at]

LateInv == PlanInv /\ Current /\ NothingLandsLate

LEMMA InitLate == Init => LateInv
BY DEF Init, LateInv, PlanInv, Current, NothingLandsLate, Open, Writes

(* The calls of a plan are those of the tool the client asked for.         *)
LEMMA WhosePlan ==
  ASSUME IInv, PlanInv, NEW k \in DOMAIN plan
  PROVE  \E i \in Positions :
           Def = ImportOrder[i] /\ plan \in ImportOrder[i].plans /\ ImportOrder[i].name = name
<1>1. fit = "valid" /\ Bound /\ plan \in Def.plans
  BY DEF PlanInv
<1>2. pc # "idle" /\ Serving
  BY <1>1 DEF PlanInv, IInv, CallInv, Phases
<1>3. tools[name] \in Positions /\ Def = ImportOrder[tools[name]]
      /\ ImportOrder[tools[name]].name = name
  BY <1>1, <1>2, TypedImports
     DEF Bound, Def, Get, IInv, RegistryInv, Serving, Dead, Positions
<1> QED
  BY <1>1, <1>3

(* A write the handler waits for is all it waits for.                      *)
LEMMA LoneWrite ==
  ASSUME WritesAlone, IInv, PlanInv, Current, pc = "running",
         NEW c \in Open, NEW d \in Open, IsWrite(d)
  PROVE  c = d
<1>1. at >= 1 /\ at \in 0..Len(plan) /\ plan \in Seq(SUBSET CallType)
  BY DEF Current, Pending, Open, IInv, CallInv, TypeOK
<1>2. at \in DOMAIN plan
  BY <1>1
<1>3. c \in plan[at] /\ d \in Writes(plan[at])
  BY DEF Current, Pending, Open, Writes
<1>4. plan[at] = {d}
  BY <1>2, <1>3, WhosePlan DEF WritesAlone
<1> QED
  BY <1>3, <1>4

-----------------------------------------------------------------------------
(* PlanInv: only the client changes what is asked.                         *)

LEMMA FramePlan ==
  ASSUME PlanInv, UNCHANGED registryVars, UNCHANGED <<name, fit, plan>>, pc' # "idle"
  PROVE  PlanInv'
<1>1. Def' = Def /\ Bound' = Bound
  BY DEF registryVars, Def, Get, Bound
<1> QED
  BY <1>1 DEF PlanInv

LEMMA AskPlan ==
  ASSUME IInv, PlanInv, Ask
  PROVE  /\ PlanInv' /\ pc' = "received" /\ res' = <<>> /\ res = <<>>
         /\ stray' = {} /\ landed' = <<>> /\ stray = {} /\ landed = <<>>
<1>1. /\ pc = "idle" /\ res = <<>> /\ stray = {} /\ landed = <<>>
      /\ UNCHANGED registryVars
      /\ UNCHANGED <<at, res, stray, landed, lost>> /\ pc' = "received"
  BY DEF IInv, CallInv, Phases, PlanInv, Ask, Invoke, handler, effects
<1>2. CASE fit' # "valid"
  BY <1>1, <1>2 DEF Ask, Invoke, PlanInv
<1>3. CASE fit' = "valid"
  <2>1. PICK n \in DOMAIN tools : name' = n /\ plan' \in ImportOrder[tools[n]].plans
    BY <1>3 DEF Ask, Invoke
  <2>2. Bound' /\ Def' = ImportOrder[tools[n]]
    BY <1>1, <2>1 DEF registryVars, Bound, Def, Get
  <2> QED
    BY <1>1, <1>3, <2>1, <2>2 DEF PlanInv
<1> QED
  BY <1>1, <1>2, <1>3

-----------------------------------------------------------------------------
(* LateInv, action by action.                                              *)

LEMMA AskLate ==
  ASSUME IInv, LateInv, Ask
  PROVE  LateInv'
BY AskPlan DEF LateInv, Current, NothingLandsLate, Open, Writes

LEMMA RetryLate ==
  ASSUME IInv, LateInv, Retry
  PROVE  LateInv'
<1>1. /\ UNCHANGED registryVars /\ UNCHANGED <<name, fit, plan, landed, lost>>
      /\ pc = "answered" /\ pc' = "received" /\ res' = <<>>
      /\ stray' = stray \cup Writes(Open)
  BY DEF Retry, request
<1>2. PlanInv'
  BY <1>1, FramePlan DEF LateInv
<1>3. (Current /\ NothingLandsLate)'
  BY <1>1 DEF LateInv, Current, NothingLandsLate
<1> QED
  BY <1>2, <1>3 DEF LateInv

LEMMA GoOnLate ==
  ASSUME GoOn
  PROVE  LateInv'
BY DEF GoOn, Quiet, LateInv, PlanInv, Current, NothingLandsLate

(* It is refused with nothing sent.                                        *)
LEMMA RefusalLate ==
  ASSUME IInv, LateInv, SdkRefuses \/ Refuses
  PROVE  LateInv'
<1>1. /\ UNCHANGED registryVars /\ UNCHANGED <<name, fit, plan, at, res, stray, landed, lost>>
      /\ pc' = "answered" /\ res = <<>>
  BY DEF SdkRefuses, Refuses, Answer, request, handler, effects, IInv, CallInv, Phases
<1>2. PlanInv'
  BY <1>1, FramePlan DEF LateInv
<1>3. (Current /\ NothingLandsLate)'
  BY <1>1 DEF LateInv, Current, NothingLandsLate, Open, Writes
<1> QED
  BY <1>2, <1>3 DEF LateInv

LEMMA BeginLate ==
  ASSUME IInv, LateInv, Begin
  PROVE  LateInv'
<1>1. /\ UNCHANGED registryVars /\ UNCHANGED <<name, fit, plan, stray, landed, lost>>
      /\ pc' = "running"
      /\ at' = IF plan = <<>> THEN 0 ELSE 1
      /\ res' = IF plan = <<>> THEN <<>> ELSE [c \in plan[1] |-> "open"]
  BY DEF Begin, request, effects
<1>2. PlanInv'
  BY <1>1, FramePlan DEF LateInv
<1>3. Current'
  BY <1>1 DEF Current
<1>4. NothingLandsLate'
  BY <1>1 DEF LateInv, NothingLandsLate
<1> QED
  BY <1>2, <1>3, <1>4 DEF LateInv

(* The handler ends, with nothing it waits for.                            *)
LEMMA EndLate ==
  ASSUME IInv, LateInv, HandlerThrows \/ Return
  PROVE  LateInv'
<1>1. /\ UNCHANGED registryVars /\ UNCHANGED <<name, fit, plan, at, res, stray, landed, lost>>
      /\ pc' = "answered" /\ Open = {}
  BY DEF HandlerThrows, Return, Awaited, Answer, request, handler, effects
<1>2. PlanInv'
  BY <1>1, FramePlan DEF LateInv
<1>3. (Current /\ NothingLandsLate)'
  BY <1>1 DEF LateInv, Current, NothingLandsLate, Open, Writes
<1> QED
  BY <1>2, <1>3 DEF LateInv

LEMMA NextSetLate ==
  ASSUME IInv, LateInv, NextSet
  PROVE  LateInv'
<1>1. /\ UNCHANGED registryVars
      /\ UNCHANGED <<pc, name, fit, plan, stray, landed, lost>>
      /\ pc = "running" /\ Open = {} /\ ~ Throws /\ at' = at + 1 /\ at \in Nat
      /\ res' = [c \in plan[at + 1] \cup DOMAIN res |->
                   IF c \in plan[at + 1] THEN "open" ELSE res[c]]
  BY DEF NextSet, Awaited, request, effects, IInv, CallInv, TypeOK
<1>2. PlanInv'
  BY <1>1, FramePlan DEF LateInv
<1>3. Current'
  BY <1>1 DEF Current, Pending, Open, Throws, Unreadable
<1>4. NothingLandsLate'
  BY <1>1 DEF LateInv, NothingLandsLate
<1> QED
  BY <1>2, <1>3, <1>4 DEF LateInv

(* A call gives up on its write, or none of the writes is concerned.       *)
GivesUp(c) ==
  \/ stray' = stray /\ lost' = lost
  \/ stray' = stray \cup Writes({c}) /\ lost' = (lost \/ IsWrite(c))

LEMMA GivenUp ==
  ASSUME NEW c, GivesUp(c), stray # {} => lost
  PROVE  stray' # {} => lost'
<1>1. CASE stray' = stray /\ lost' = lost
  BY <1>1
<1>2. CASE stray' = stray \cup Writes({c}) /\ lost' = (lost \/ IsWrite(c))
  <2>1. ASSUME lost PROVE lost'
    BY <1>2, <2>1
  <2>2. ASSUME IsWrite(c) PROVE lost'
    BY <1>2, <2>2
  <2>3. ASSUME ~ IsWrite(c) PROVE stray' = stray
    BY <1>2, <2>3 DEF Writes
  <2> QED
    BY <2>1, <2>2, <2>3
<1> QED
  BY <1>1, <1>2 DEF GivesUp

(* An answer that does not end the handler.                                *)
LEMMA SettledLate ==
  ASSUME IInv, LateInv, NEW c \in Open, NEW what \in Outcomes \ {"open"},
         Becomes(c, what), UNCHANGED registryVars,
         UNCHANGED <<pc, name, fit, plan, at>>, GivesUp(c)
  PROVE  LateInv'
<1>1. /\ c \in DOMAIN res /\ res[c] = "open" /\ DOMAIN res' = DOMAIN res
      /\ res'[c] = what /\ \A d \in DOMAIN res : d # c => res'[d] = res[d]
  BY BecomesStep DEF IInv, CallInv
<1>2. pc # "idle"
  BY <1>1 DEF IInv, CallInv, Phases
<1>3. PlanInv'
  BY <1>2, FramePlan DEF LateInv
<1>4. Current'
  BY <1>1 DEF LateInv, Current, Pending, Unreadable
<1>5. NothingLandsLate'
  <2>1. stray' # {} => lost'
    BY GivenUp DEF LateInv, NothingLandsLate
  <2>2. Writes(Open)' \subseteq Writes(Open)
    BY <1>1 DEF Writes, Open
  <2>3. lost => lost'
    BY DEF GivesUp
  <2> QED
    BY <2>1, <2>2, <2>3 DEF LateInv, NothingLandsLate
<1> QED
  BY <1>3, <1>4, <1>5 DEF LateInv

LEMMA RepliesLate ==
  ASSUME IInv, LateInv, NEW c \in Open, NEW body \in Bodies, Replies(c, body)
  PROVE  LateInv'
<1>1. /\ Becomes(c, body) /\ body \in Outcomes \ {"open"}
      /\ UNCHANGED registryVars /\ UNCHANGED <<pc, name, fit, plan, at>>
      /\ GivesUp(c)
  BY DEF Replies, request, Bodies, Outcomes, GivesUp
<1> QED
  BY <1>1, SettledLate

LEMMA DeclinesLate ==
  ASSUME IInv, LateInv, NEW c \in Open, Declines(c)
  PROVE  LateInv'
<1>1. /\ Becomes(c, "declined") /\ "declined" \in Outcomes \ {"open"}
      /\ UNCHANGED registryVars /\ UNCHANGED <<pc, name, fit, plan, at>>
      /\ GivesUp(c)
  BY DEF Declines, request, effects, Outcomes, GivesUp
<1> QED
  BY <1>1, SettledLate

(* A call that rejects and ends the handler leaves no other write behind:  *)
(* a write is all the handler waits for.                                   *)
LEMMA RejectsLate ==
  ASSUME WritesAlone, IInv, LateInv, NEW c \in Open, Fails(c) \/ Loses(c)
  PROVE  LateInv'
<1>1. /\ Becomes(c, "failed") /\ "failed" \in Outcomes \ {"open"}
      /\ UNCHANGED registryVars /\ UNCHANGED <<name, fit, plan, at>>
      /\ GivesUp(c)
  BY DEF Fails, Loses, Rejects, request, effects, Outcomes, GivesUp
<1>2. CASE pc = "running" /\ ~ Def.settles
  <2>1. pc' = "answered"
    BY <1>2 DEF Fails, Loses, Rejects, Answer
  <2>2. \A d \in Open : IsWrite(d) => d = c
    BY <1>2, LoneWrite DEF LateInv
  <2>3. DOMAIN res' = DOMAIN res /\ res'[c] = "failed"
        /\ \A d \in DOMAIN res : d # c => res'[d] = res[d]
    BY <1>1, BecomesStep DEF IInv, CallInv
  <2>4. Writes(Open)' = {}
    BY <2>2, <2>3 DEF Open, Writes
  <2>5. PlanInv'
    BY <1>1, <2>1, FramePlan DEF LateInv
  <2>6. Current'
    BY <2>1 DEF Current
  <2>7. NothingLandsLate'
    BY <1>1, <2>4, GivenUp DEF LateInv, NothingLandsLate
  <2> QED
    BY <2>5, <2>6, <2>7 DEF LateInv
<1>3. CASE ~ (pc = "running" /\ ~ Def.settles)
  <2>1. pc' = pc
    BY <1>3 DEF Fails, Loses, Rejects
  <2> QED
    BY <1>1, <2>1, SettledLate
<1> QED
  BY <1>2, <1>3

LEMMA StrayLate ==
  ASSUME IInv, LateInv, NEW c \in stray, StrayLands(c) \/ StrayVanishes(c)
  PROVE  LateInv'
<1>1. /\ UNCHANGED registryVars /\ UNCHANGED <<pc, name, fit, plan, at, res, lost>>
      /\ pc # "idle" /\ stray' \subseteq stray
  BY DEF StrayLands, StrayVanishes, request, handler, LateInv, PlanInv
<1>2. PlanInv'
  BY <1>1, FramePlan DEF LateInv
<1>3. (Current /\ NothingLandsLate)'
  BY <1>1 DEF LateInv, Current, Pending, Unreadable, NothingLandsLate, Open
<1> QED
  BY <1>2, <1>3 DEF LateInv

LEMMA CrashLate ==
  ASSUME IInv, LateInv, Crash
  PROVE  LateInv'
<1>1. /\ UNCHANGED registryVars /\ UNCHANGED <<name, fit, plan, at, landed>>
      /\ pc' = "answered" /\ res' = <<>> /\ stray' = stray \cup Writes(Open)
      /\ lost' = (lost \/ Writes(DOMAIN res) # {})
  BY DEF Crash, request
<1>2. PlanInv'
  BY <1>1, FramePlan DEF LateInv
<1>3. Current'
  BY <1>1 DEF Current
<1>4. NothingLandsLate'
  <2>1. lost => lost'
    BY <1>1
  <2>2. Writes(Open) # {} => lost'
    <3>1. Writes(Open) \subseteq Writes(DOMAIN res)
      BY DEF Writes, Open
    <3> QED
      BY <1>1, <3>1
  <2>3. stray' # {} => stray # {} \/ Writes(Open) # {}
    BY <1>1
  <2>4. Writes(Open)' = {}
    BY <1>1 DEF Writes, Open
  <2> QED
    BY <2>1, <2>2, <2>3, <2>4 DEF LateInv, NothingLandsLate
<1> QED
  BY <1>2, <1>3, <1>4 DEF LateInv

(* A step of the registry or of a log row, or none, disturbs nothing here. *)
LEMMA StillLate ==
  ASSUME LateInv, UNCHANGED <<pc, name, fit, plan, at, res, stray, landed, lost>>,
         pc = "idle" \/ UNCHANGED registryVars
  PROVE  LateInv'
<1>1. PlanInv'
  <2>1. CASE pc = "idle"
    BY <2>1 DEF LateInv, PlanInv
  <2>2. CASE UNCHANGED registryVars
    BY <2>2 DEF LateInv, PlanInv, registryVars, Bound, Def, Get
  <2> QED
    BY <2>1, <2>2
<1>2. (Current /\ NothingLandsLate)'
  BY DEF LateInv, Current, Pending, Unreadable, NothingLandsLate, Open
<1> QED
  BY <1>1, <1>2 DEF LateInv

(* The registry changes only before the server listens.                    *)
LEMMA BootIsIdle == IInv /\ Boot => pc = "idle"
BY TypedImports DEF IInv, CallInv, Boot, Register, Positions, Phases, Serving

LEMMA RowFrame ==
  ASSUME NEW a, RowWritten(a) \/ RowFails(a)
  PROVE  /\ UNCHANGED <<pc, name, fit, plan, at, res, told, stray, landed, lost>>
         /\ UNCHANGED registryVars
BY DEF RowWritten, RowFails, request, handler, effects

LEMMA LateNext ==
  ASSUME WritesAlone, IInv, LateInv, [Next]_vars
  PROVE  LateInv'
<1>1. CASE Boot /\ UNCHANGED callVars
  BY <1>1, BootIsIdle, StillLate DEF callVars, request, handler, effects
<1>2. CASE Ask
  BY <1>2, AskLate
<1>3. CASE Retry
  BY <1>3, RetryLate
<1>4. CASE GoOn
  BY <1>4, GoOnLate
<1>5. CASE Execute
  BY <1>5, RefusalLate, BeginLate, EndLate, NextSetLate DEF Execute
<1>6. CASE Crash
  BY <1>6, CrashLate
<1>7. ASSUME NEW c \in Open, Settles(c) PROVE LateInv'
  BY <1>7, RejectsLate, DeclinesLate, RepliesLate DEF Settles
<1>8. ASSUME NEW c \in stray, StrayLands(c) \/ StrayVanishes(c) PROVE LateInv'
  BY <1>8, StrayLate
<1>9. ASSUME NEW a \in DOMAIN rows, RowWritten(a) \/ RowFails(a) PROVE LateInv'
  BY <1>9, RowFrame, StillLate
<1>10. CASE UNCHANGED vars
  BY <1>10, StillLate DEF vars, callVars, request, handler, effects
<1> QED
  BY <1>1, <1>2, <1>3, <1>4, <1>5, <1>6, <1>7, <1>8, <1>9, <1>10 DEF Next

(* In a catalogue whose tools send no write together with another call: an *)
(* error answer, a retry and a crash leave a write on its way only when    *)
(* the answer to a write was lost.  What fails next to it, is not waited   *)
(* for or comes late are reads.                                            *)
THEOREM NothingEverLandsLate ==
  ASSUME WritesAlone
  PROVE  Spec => []NothingLandsLate
<1>1. LateInv /\ IInv /\ [Next]_vars => LateInv'
  BY LateNext
<1>2. LateInv => NothingLandsLate
  BY DEF LateInv
<1> QED
  BY InitLate, Invariance, <1>1, <1>2, PTL DEF Spec

-----------------------------------------------------------------------------
(* What has been created, and by which call.                               *)

PlanCalls == UNION {plan[k] : k \in DOMAIN plan}
Landed == {landed[k] : k \in DOMAIN landed}

(* All that was sent, is on its way or took effect is of the plan.         *)
Mine == DOMAIN res \cup stray \cup Landed \subseteq PlanCalls

Created == \E k \in DOMAIN landed : Creates(landed[k])

(* The handler has nothing more to do but to answer, or has answered.      *)
Over ==
  \/ Awaited /\ ~ Throws /\ at = Len(plan) /\ Writes(DOMAIN res) # {}
  \/ Replied("success") \/ Replied("failure")

OneCreate ==
  ~ lost /\ name # "apply_leave" /\ Created =>
    Over /\ \A j, k \in DOMAIN landed : Creates(landed[j]) /\ Creates(landed[k]) => j = k

EffectInv == Mine /\ OneCreate

LEMMA InitEffect == Init => EffectInv
BY DEF Init, EffectInv, Mine, Landed, OneCreate, Created

LEMMA NothingLanded ==
  ASSUME landed' = <<>>, stray' = {}, res' = <<>>
  PROVE  EffectInv'
BY DEF EffectInv, Mine, Landed, OneCreate, Created

LEMMA OneMore ==
  ASSUME TypeOK, NEW c \in Writes(CallType), landed' = Append(landed, c)
  PROVE  /\ Landed' = Landed \cup {c}
         /\ DOMAIN landed' = DOMAIN landed \cup {Len(landed) + 1}
         /\ landed'[Len(landed) + 1] = c
         /\ \A k \in DOMAIN landed : landed'[k] = landed[k]
<1>1. landed \in Seq(Writes(CallType)) /\ Len(landed) \in Nat
  BY DEF TypeOK
<1>2. /\ DOMAIN landed = 1..Len(landed) /\ DOMAIN landed' = 1..(Len(landed) + 1)
      /\ landed'[Len(landed) + 1] = c /\ \A k \in 1..Len(landed) : landed'[k] = landed[k]
  BY <1>1
<1>3. DOMAIN landed' = DOMAIN landed \cup {Len(landed) + 1}
  BY <1>1, <1>2
<1>4. Landed' = Landed \cup {c}
  BY <1>2, <1>3 DEF Landed
<1> QED
  BY <1>2, <1>3, <1>4

(* A handler that is over waits for nothing.                               *)
LEMMA OverWaitsForNothing == IInv /\ Over => Open = {}
BY DEF IInv, CallInv, Over, Awaited, NothingLeft

(* A row is created by the last call of the plan, before any other row.    *)
LEMMA LastCall ==
  ASSUME CreatesEnd, IInv, LateInv, EffectInv, NEW c \in Open, Creates(c),
         ~ lost, name # "apply_leave"
  PROVE  /\ pc = "running" /\ ~ Created /\ at = Len(plan)
         /\ plan[at] = {c} /\ c.needs = "nothing" /\ IsWrite(c)
<1>1. IsWrite(c) /\ Writes(Open) # {}
  BY DEF Creates, IsWrite, Writes
<1>2. pc = "running"
  <2>1. pc \in {"idle", "received", "running", "answered"}
    BY DEF IInv, CallInv, TypeOK
  <2>2. pc # "idle" /\ pc # "received"
    BY DEF IInv, CallInv, Phases, Open
  <2>3. pc # "answered"
    BY <1>1 DEF LateInv, NothingLandsLate
  <2> QED
    BY <2>1, <2>2, <2>3
<1>3. ~ Created
  BY OverWaitsForNothing DEF EffectInv, OneCreate
<1>4. at >= 1 /\ at \in 0..Len(plan) /\ plan \in Seq(SUBSET CallType) /\ c \in plan[at]
  BY <1>2 DEF LateInv, Current, Pending, Open, IInv, CallInv, TypeOK
<1>5. at \in DOMAIN plan
  BY <1>4
<1>6. at = Len(plan) /\ plan[at] = {c} /\ c.needs = "nothing"
  BY <1>4, <1>5, WhosePlan DEF CreatesEnd, LateInv
<1> QED
  BY <1>1, <1>2, <1>3, <1>6

-----------------------------------------------------------------------------
(* EffectInv, action by action.                                            *)

LEMMA RetryEffect ==
  ASSUME IInv, EffectInv, Retry
  PROVE  EffectInv'
<1>1. /\ UNCHANGED <<name, plan, landed, lost>> /\ pc = "answered" /\ pc' = "received"
      /\ res' = <<>> /\ stray' = stray \cup Writes(Open)
      /\ told[Attempt] \in {"error", "none"}
  BY DEF Retry, request
<1>2. Mine'
  BY <1>1 DEF EffectInv, Mine, Landed, PlanCalls, Writes, Open
<1>3. ~ Over
  BY <1>1 DEF Over, Awaited, Replied
<1>4. OneCreate'
  BY <1>1, <1>3 DEF EffectInv, OneCreate, Created
<1> QED
  BY <1>2, <1>4 DEF EffectInv

LEMMA GoOnEffect ==
  ASSUME GoOn
  PROVE  EffectInv'
BY NothingLanded DEF GoOn, Quiet

LEMMA RefusalEffect ==
  ASSUME EffectInv, SdkRefuses \/ Refuses
  PROVE  EffectInv'
<1>1. /\ UNCHANGED <<name, plan, res, stray, landed, lost>> /\ pc = "received"
  BY DEF SdkRefuses, Refuses, Answer, request, handler, effects
<1>2. Mine'
  BY <1>1 DEF EffectInv, Mine, Landed, PlanCalls
<1>3. ~ Over
  BY <1>1 DEF Over, Awaited, Replied
<1>4. OneCreate'
  BY <1>1, <1>3 DEF EffectInv, OneCreate, Created
<1> QED
  BY <1>2, <1>4 DEF EffectInv

LEMMA BeginEffect ==
  ASSUME IInv, EffectInv, Begin
  PROVE  EffectInv'
<1>1. /\ UNCHANGED <<name, plan, stray, landed, lost>> /\ pc = "received"
      /\ res' = IF plan = <<>> THEN <<>> ELSE [c \in plan[1] |-> "open"]
      /\ plan \in Seq(SUBSET CallType)
  BY DEF Begin, request, effects, IInv, CallInv, TypeOK
<1>2. DOMAIN res' \subseteq PlanCalls
  <2>1. CASE plan = <<>>
    BY <1>1, <2>1
  <2>2. CASE plan # <<>>
    <3>1. 1 \in DOMAIN plan
      BY <1>1, <2>2
    <3> QED
      BY <1>1, <2>2, <3>1 DEF PlanCalls
  <2> QED
    BY <2>1, <2>2
<1>3. Mine'
  BY <1>1, <1>2 DEF EffectInv, Mine, Landed, PlanCalls
<1>4. ~ Over
  BY <1>1 DEF Over, Awaited, Replied
<1>5. OneCreate'
  BY <1>1, <1>4 DEF EffectInv, OneCreate, Created
<1> QED
  BY <1>3, <1>5 DEF EffectInv

LEMMA ThrowsEffect ==
  ASSUME EffectInv, HandlerThrows
  PROVE  EffectInv'
<1>1. UNCHANGED <<name, plan, res, stray, landed, lost>> /\ pc = "running" /\ Throws
  BY DEF HandlerThrows, Awaited, request, handler, effects
<1>2. Mine'
  BY <1>1 DEF EffectInv, Mine, Landed, PlanCalls
<1>3. ~ Over
  BY <1>1 DEF Over, Replied
<1>4. OneCreate'
  BY <1>1, <1>3 DEF EffectInv, OneCreate, Created
<1> QED
  BY <1>2, <1>4 DEF EffectInv

LEMMA NextSetEffect ==
  ASSUME IInv, EffectInv, NextSet
  PROVE  EffectInv'
<1>1. /\ UNCHANGED <<name, plan, stray, landed, lost>> /\ pc = "running"
      /\ at < Len(plan) /\ at \in 0..Len(plan) /\ plan \in Seq(SUBSET CallType)
      /\ DOMAIN res' = plan[at + 1] \cup DOMAIN res
  BY DEF NextSet, Awaited, request, effects, IInv, CallInv, TypeOK
<1>2. at + 1 \in DOMAIN plan
  BY <1>1
<1>3. Mine'
  BY <1>1, <1>2 DEF EffectInv, Mine, Landed, PlanCalls
<1>4. ~ Over
  BY <1>1 DEF Over, Replied
<1>5. OneCreate'
  BY <1>1, <1>4 DEF EffectInv, OneCreate, Created
<1> QED
  BY <1>3, <1>5 DEF EffectInv

LEMMA ReturnEffect ==
  ASSUME IInv, EffectInv, Return
  PROVE  EffectInv'
<1>1. UNCHANGED <<name, plan, res, stray, landed, lost>>
  BY DEF Return, request, handler, effects
<1>2. PICK answer \in {"success", "failure"} : Answer(answer)
  BY DEF Return
<1>3. pc' = "answered" /\ told'[Attempt'] = answer
  BY <1>2, AnswerStep DEF Return, Awaited, IInv, CallInv, Phases
<1>4. Over'
  BY <1>3 DEF Over, Replied
<1>5. (Mine /\ OneCreate)'
  BY <1>1, <1>4 DEF EffectInv, Mine, Landed, PlanCalls, OneCreate, Created
<1> QED
  BY <1>5 DEF EffectInv

LEMMA RepliesEffect ==
  ASSUME CreatesEnd, IInv, LateInv, EffectInv, NEW c \in Open, NEW body \in Bodies,
         Replies(c, body)
  PROVE  EffectInv'
<1>1. /\ UNCHANGED <<pc, name, plan, at, told, stray, lost>>
      /\ Becomes(c, body) /\ body \in Outcomes
      /\ landed' = IF IsWrite(c) THEN Append(landed, c) ELSE landed
      /\ TypeOK /\ Functional
  BY DEF Replies, request, Bodies, Outcomes, IInv, CallInv
<1>2. /\ c \in DOMAIN res /\ c \in CallType
      /\ DOMAIN res' = DOMAIN res /\ res'[c] = body
      /\ \A d \in DOMAIN res : d # c => res'[d] = res[d]
  BY <1>1, BecomesStep
<1>3. IsWrite(c) =>
        /\ Landed' = Landed \cup {c}
        /\ DOMAIN landed' = DOMAIN landed \cup {Len(landed) + 1}
        /\ landed'[Len(landed) + 1] = c
        /\ \A k \in DOMAIN landed : landed'[k] = landed[k]
  BY <1>1, <1>2, OneMore DEF Writes
<1>4. Mine'
  <2>1. Landed' \subseteq Landed \cup {c}
    BY <1>1, <1>3 DEF Landed
  <2> QED
    BY <1>1, <1>2, <2>1 DEF EffectInv, Mine, PlanCalls
<1>5. ASSUME ~ lost, name # "apply_leave", Creates(c)
      PROVE  OneCreate'
  <2>1. /\ pc = "running" /\ ~ Created /\ at = Len(plan)
        /\ plan[at] = {c} /\ c.needs = "nothing" /\ IsWrite(c)
    BY <1>5, LastCall
  <2>2. \A d \in DOMAIN res : d # c => res[d] # "open" /\ ~ Unreadable(d)
    BY <2>1 DEF LateInv, Current, Pending
  <2>3. Open' = {}
    BY <1>2, <2>2 DEF Open, Bodies
  <2>4. ~ Throws'
    BY <1>2, <2>1, <2>2 DEF Throws, Unreadable
  <2>5. Writes(DOMAIN res') # {}
    BY <1>2, <2>1 DEF Writes
  <2>6. Over'
    BY <1>1, <2>1, <2>3, <2>4, <2>5 DEF Over, Awaited
  <2>7. \A k \in DOMAIN landed' : Creates(landed'[k]) => k = Len(landed) + 1
    BY <1>3, <2>1 DEF Created
  <2> QED
    BY <2>6, <2>7 DEF OneCreate
<1>6. ASSUME ~ lost, name # "apply_leave", ~ Creates(c)
      PROVE  ~ Created'
  <2>1. ~ Created
    BY <1>6, OverWaitsForNothing DEF EffectInv, OneCreate
  <2> QED
    BY <1>1, <1>3, <1>6, <2>1 DEF Created
<1>7. OneCreate'
  BY <1>1, <1>5, <1>6 DEF OneCreate
<1> QED
  BY <1>4, <1>7 DEF EffectInv

(* A call that does not take effect.                                       *)
LEMMA SettledEffect ==
  ASSUME IInv, EffectInv, NEW c \in Open, NEW what \in Outcomes, Becomes(c, what),
         UNCHANGED <<name, plan, landed>>, GivesUp(c)
  PROVE  EffectInv'
<1>1. c \in DOMAIN res /\ DOMAIN res' = DOMAIN res
  BY BecomesStep DEF IInv, CallInv
<1>2. Mine'
  BY <1>1 DEF EffectInv, Mine, Landed, PlanCalls, GivesUp, Writes
<1>3. ~ Over
  BY OverWaitsForNothing
<1>4. lost => lost'
  BY DEF GivesUp
<1>5. OneCreate'
  BY <1>3, <1>4 DEF EffectInv, OneCreate, Created
<1> QED
  BY <1>2, <1>5 DEF EffectInv

LEMMA SettlesEffect ==
  ASSUME CreatesEnd, IInv, LateInv, EffectInv, NEW c \in Open, Settles(c)
  PROVE  EffectInv'
<1>1. CASE Fails(c) \/ Loses(c)
  <2>1. /\ Becomes(c, "failed") /\ "failed" \in Outcomes /\ GivesUp(c)
        /\ UNCHANGED <<name, plan, landed>>
    BY <1>1 DEF Fails, Loses, Rejects, request, effects, Outcomes, GivesUp
  <2> QED
    BY <2>1, SettledEffect
<1>2. CASE Declines(c)
  <2>1. /\ Becomes(c, "declined") /\ "declined" \in Outcomes /\ GivesUp(c)
        /\ UNCHANGED <<name, plan, landed>>
    BY <1>2 DEF Declines, request, effects, Outcomes, GivesUp
  <2> QED
    BY <2>1, SettledEffect
<1> QED
  BY <1>1, <1>2, RepliesEffect DEF Settles

LEMMA StrayEffect ==
  ASSUME IInv, LateInv, EffectInv, NEW c \in stray, StrayLands(c) \/ StrayVanishes(c)
  PROVE  EffectInv'
<1>1. /\ UNCHANGED <<name, plan, res, lost>> /\ stray' = stray \ {c}
      /\ landed' = landed \/ landed' = Append(landed, c)
      /\ TypeOK /\ c \in Writes(CallType)
  BY DEF StrayLands, StrayVanishes, request, handler, IInv, CallInv, TypeOK
<1>2. Landed' \subseteq Landed \cup {c}
  BY <1>1, OneMore DEF Landed
<1>3. Mine'
  BY <1>1, <1>2 DEF EffectInv, Mine, PlanCalls
<1>4. lost'
  BY <1>1 DEF LateInv, NothingLandsLate
<1> QED
  BY <1>3, <1>4 DEF EffectInv, OneCreate

LEMMA CrashEffect ==
  ASSUME IInv, EffectInv, Crash
  PROVE  EffectInv'
<1>1. /\ UNCHANGED <<name, plan, landed>> /\ pc \in {"received", "running"} /\ res' = <<>>
      /\ stray' = stray \cup Writes(Open)
      /\ lost' = (lost \/ Writes(DOMAIN res) # {})
  BY DEF Crash, request
<1>2. Mine'
  BY <1>1 DEF EffectInv, Mine, Landed, PlanCalls, Writes, Open
<1>3. ~ lost' => ~ lost /\ ~ Over
  BY <1>1 DEF Over, Replied
<1>4. OneCreate'
  BY <1>1, <1>3 DEF EffectInv, OneCreate, Created
<1> QED
  BY <1>2, <1>4 DEF EffectInv

LEMMA StillEffect ==
  ASSUME EffectInv, UNCHANGED <<pc, name, plan, at, res, told, stray, landed, lost>>
  PROVE  EffectInv'
BY DEF EffectInv, Mine, Landed, PlanCalls, OneCreate, Created, Over, Awaited, Throws,
       Unreadable, Open, Replied, Attempt

LEMMA EffectNext ==
  ASSUME CreatesEnd, IInv, LateInv, EffectInv, [Next]_vars
  PROVE  EffectInv'
<1>1. CASE Boot /\ UNCHANGED callVars
  BY <1>1, StillEffect DEF callVars, request, handler, effects
<1>2. CASE Ask
  BY <1>2, AskPlan, NothingLanded DEF LateInv
<1>3. CASE Retry
  BY <1>3, RetryEffect
<1>4. CASE GoOn
  BY <1>4, GoOnEffect
<1>5. CASE Execute
  BY <1>5, RefusalEffect, BeginEffect, ThrowsEffect, NextSetEffect, ReturnEffect DEF Execute
<1>6. CASE Crash
  BY <1>6, CrashEffect
<1>7. ASSUME NEW c \in Open, Settles(c) PROVE EffectInv'
  BY <1>7, SettlesEffect
<1>8. ASSUME NEW c \in stray, StrayLands(c) \/ StrayVanishes(c) PROVE EffectInv'
  BY <1>8, StrayEffect
<1>9. ASSUME NEW a \in DOMAIN rows, RowWritten(a) \/ RowFails(a) PROVE EffectInv'
  BY <1>9, RowFrame, StillEffect
<1>10. CASE UNCHANGED vars
  BY <1>10, StillEffect DEF vars, callVars, request, handler, effects
<1> QED
  BY <1>1, <1>2, <1>3, <1>4, <1>5, <1>6, <1>7, <1>8, <1>9, <1>10 DEF Next

(* The hints of the tools and the place of their writes make it safe to    *)
(* send a request again.                                                   *)
LEMMA HintsKeepRetrySafe ==
  ASSUME HintsTrue, IInv, LateInv, EffectInv
  PROVE  RetryIsSafe
<1> SUFFICES ASSUME Bound, NEW k \in DOMAIN landed
             PROVE  /\ ~ Def.readOnly
                    /\ Creates(landed[k]) /\ Count(landed[k]) > 1 =>
                         ~ Def.idempotent /\ (lost \/ name = "apply_leave")
  <2>1. landed \in Seq(Writes(CallType))
    BY DEF IInv, CallInv, TypeOK
  <2>2. landed # <<>> => \E k \in DOMAIN landed : TRUE
    BY <2>1
  <2> QED
    BY <2>1, <2>2 DEF RetryIsSafe
<1>1. PICK n \in DOMAIN plan : landed[k] \in plan[n]
  BY DEF EffectInv, Mine, Landed, PlanCalls
<1>2. PICK i \in Positions : Def = ImportOrder[i] /\ plan \in ImportOrder[i].plans
  BY <1>1, WhosePlan DEF LateInv
<1>3. IsWrite(landed[k])
  BY DEF IInv, CallInv, TypeOK, Writes
<1>4. landed[k] \in CallsOf(Def)
  BY <1>1, <1>2 DEF CallsOf
<1>5. ~ Def.readOnly
  BY <1>2, <1>3, <1>4 DEF HintsTrue, Writes
<1>6. Creates(landed[k]) => ~ Def.idempotent
  BY <1>2, <1>4 DEF HintsTrue
<1>7. ASSUME Creates(landed[k]), ~ lost, name # "apply_leave"
      PROVE  ~ (Count(landed[k]) > 1)
  <2>1. {j \in DOMAIN landed : landed[j] = landed[k]} = {k}
    BY <1>7 DEF EffectInv, OneCreate, Created
  <2>2. Cardinality({k}) = 1
    BY FS_Singleton, Zenon
  <2>3. Count(landed[k]) = 1
    BY <2>1, <2>2 DEF Count
  <2> QED
    BY <2>3
<1> QED
  BY <1>5, <1>6, <1>7

(* In a catalogue whose tools send writes alone, give true hints and       *)
(* create rows by the last call they make: a read-only tool writes         *)
(* nothing, and no request, however often it is repeated after errors,     *)
(* refusals, crashes and answers that cannot be read, creates a row twice  *)
(* as long as no answer to a write was lost.                               *)
THEOREM RetriesAreSafe ==
  ASSUME WritesAlone, HintsTrue, CreatesEnd
  PROVE  Spec => []RetryIsSafe
<1> DEFINE EInv == IInv /\ LateInv /\ EffectInv
<1>1. Init => EInv
  BY InitIInv, InitLate, InitEffect
<1>2. EInv /\ [Next]_vars => EInv'
  BY NextStep, LateNext, EffectNext
<1>3. EInv => RetryIsSafe
  BY HintsKeepRetrySafe
<1> QED
  BY <1>1, <1>2, <1>3, PTL DEF Spec
=============================================================================
