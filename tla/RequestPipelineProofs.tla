----------------------- MODULE RequestPipelineProofs ------------------------
(***************************************************************************)
(* Proofs about RequestPipeline, for any finite number of requests, any    *)
(* choice of request ids and any limits.                                   *)
(***************************************************************************)
EXTENDS RequestPipeline, FiniteSetTheorems, TLAPS

(* What a request has on it by where it is: no status before its answer,   *)
(* no hit of the login limiter unless it is a login let through or limited.*)
Progress ==
  \A r \in Reqs :
    /\ pc[r] \in {"new", "passed", "open"} => status[r] = "none"
    /\ pc[r] = "limited" => status[r] = "limited"
    /\ pc[r] \in {"new", "passed"} \/ kind[r] # "login" => hit[r] = 0
    /\ pc[r] = "open" /\ kind[r] = "login" => hit[r] > 0

(* The counter of the login limiter against what it should count.  It may  *)
(* be short by the hits that successes of earlier windows took off it, and *)
(* is never above.                                                         *)
Ledger ==
  ~ stale =>
    /\ window > 0
    /\ auth <= Cardinality(Counted)
    /\ Cardinality(Counted) <= auth + takenBack

IInv == TypeOK /\ Progress /\ LogTruth /\ Ledger /\ AuthBudget

LEMMA CountedIsFinite ==
  /\ IsFiniteSet(Counted) /\ Cardinality(Counted) \in Nat
  /\ IsFiniteSet(Tried) /\ Cardinality(Tried) \in Nat
  /\ Cardinality(Tried) <= Cardinality(Counted)
<1>1. Counted \in SUBSET Reqs /\ Tried \in SUBSET Counted
  BY DEF Counted, Tried
<1>2. IsFiniteSet(Counted) /\ IsFiniteSet(Tried)
      /\ Cardinality(Tried) <= Cardinality(Counted)
  BY <1>1, LimitsAssumption, FS_Subset
<1> QED
  BY <1>2, FS_CardinalityType

LEMMA InitIInv == Init => IInv
<1> SUFFICES ASSUME Init PROVE IInv
  OBVIOUS
<1>1. TypeOK /\ Progress /\ LogTruth /\ Ledger
  BY DEF Init, TypeOK, Progress, LogTruth, Ledger, States, UnderWay, Kept, Kinds, Statuses
<1>2. Tried = {}
  BY DEF Init, Tried, Counted
<1>3. AuthBudget
  BY <1>2, FS_EmptySet, LimitsAssumption DEF AuthBudget, Init
<1> QED
  BY <1>1, <1>3 DEF IInv

-----------------------------------------------------------------------------
(* The pieces the actions are made of.                                     *)

LEMMA GotoStep ==
  ASSUME TypeOK, NEW r \in Reqs, NEW from, NEW to \in States, Goto(r, from, to)
  PROVE  /\ pc[r] \in from
         /\ pc' \in [Reqs -> States]
         /\ pc'[r] = to
         /\ \A q \in Reqs : q # r => pc'[q] = pc[q]
BY DEF TypeOK, Goto

(* A hit: the request is in the window of the counter.                     *)
LEMMA HitStep ==
  ASSUME TypeOK, NEW r \in Reqs, LoginHit(r)
  PROVE  /\ auth' \in Nat /\ stale' = FALSE /\ takenBack' \in Nat
         /\ window' \in Nat /\ window' >= window
         /\ hit' \in [Reqs -> 0..window'] /\ hit'[r] = window'
         /\ \A q \in Reqs : q # r => hit'[q] = hit[q]
BY DEF TypeOK, LoginHit, LoginHits

(* Steps that leave the books of the login limiter alone.                  *)
LEMMA LedgerKept ==
  ASSUME IInv, UNCHANGED <<status, window, hit, takenBack>>,
         UNCHANGED <<auth, stale>> \/ stale' = TRUE
  PROVE  Ledger' /\ AuthBudget'
<1>1. Counted' = Counted /\ Tried' = Tried
  BY DEF Counted, Tried
<1> QED
  BY <1>1 DEF IInv, Ledger, AuthBudget

(* A log row's fate: it becomes an entry of the table, or it does not.     *)
LEMMA RowStep ==
  ASSUME IInv, NEW r \in Reqs, RowWritten(r) \/ RowDropped(r)
  PROVE  IInv'
<1>1. TypeOK' /\ Progress' /\ LogTruth'
  BY DEF IInv, RowWritten, RowDropped, TypeOK, Progress, LogTruth, Ids, request, limiter, history
<1>2. Ledger' /\ AuthBudget'
  BY LedgerKept DEF RowWritten, RowDropped, request, limiter, history
<1> QED
  BY <1>1, <1>2 DEF IInv

-----------------------------------------------------------------------------
(* A request on its way in.                                                *)

LEMMA ArriveStep ==
  ASSUME IInv, NEW r \in Reqs, NEW k \in Kinds, Arrive(r, k)
  PROVE  IInv'
<1> DEFINE to == IF k # "health" /\ general >= GeneralMax THEN "refused" ELSE "passed"
<1>1. /\ pc[r] = "new" /\ pc' \in [Reqs -> States] /\ pc'[r] = to
      /\ \A q \in Reqs : q # r => pc'[q] = pc[q]
  <2>1. to \in States /\ Goto(r, {"new"}, to)
    BY DEF Arrive, States, UnderWay, Kept
  <2> QED
    BY <2>1, GotoStep DEF IInv
<1> HIDE DEF to
<1>2. to \notin {"answered", "open", "limited"}
  BY DEF to
<1>3. TypeOK'
  <2>1. kind' \in [Reqs -> Kinds] /\ general' \in Nat
    BY DEF IInv, TypeOK, Arrive
  <2>2. UNCHANGED <<proc, status, auth, stale, rows, log, window, hit, takenBack>>
    BY DEF Arrive, history
  <2> QED
    BY <1>1, <2>1, <2>2 DEF IInv, TypeOK
<1>4. Progress' /\ LogTruth'
  BY <1>1, <1>2 DEF IInv, TypeOK, Progress, LogTruth, Arrive, history
<1>5. Ledger' /\ AuthBudget'
  BY LedgerKept DEF Arrive, history
<1> QED
  BY <1>3, <1>4, <1>5 DEF IInv

(* Steps of one request that change no more than where it is, to a place   *)
(* where the invariant asks nothing new.                                   *)
LEMMA MoveStep ==
  ASSUME IInv, NEW r \in Reqs, TurnedAway(r) \/ Enter(r) \/ Leave(r)
  PROVE  IInv'
<1>1. /\ pc[r] \in UnderWay /\ pc' \in [Reqs -> States]
      /\ \/ pc'[r] \in {"refused", "gone"}
         \/ pc[r] = "passed" /\ pc'[r] = "open" /\ kind[r] # "login"
      /\ \A q \in Reqs : q # r => pc'[q] = pc[q]
  <2>1. "refused" \in States /\ "open" \in States /\ "gone" \in States /\ "passed" \in UnderWay
    BY DEF States, UnderWay, Kept
  <2>2. CASE TurnedAway(r)
    <3>1. Goto(r, {"passed"}, "refused")
      BY <2>2 DEF TurnedAway
    <3> QED
      BY <2>1, <3>1, GotoStep DEF IInv
  <2>3. CASE Enter(r)
    BY <2>1, <2>3, GotoStep DEF Enter, IInv
  <2>4. CASE Leave(r)
    <3>1. Goto(r, UnderWay, "gone")
      BY <2>4 DEF Leave
    <3> QED
      BY <2>1, <3>1, GotoStep DEF IInv
  <2> QED
    BY <2>2, <2>3, <2>4
<1>2. UNCHANGED <<kind, status, general, auth, stale, rows, log, window, hit, takenBack, proc>>
  BY DEF TurnedAway, Enter, Leave, limiter, history
<1>3. TypeOK' /\ Progress' /\ LogTruth'
  BY <1>1, <1>2 DEF IInv, TypeOK, Progress, LogTruth, UnderWay
<1>4. Ledger' /\ AuthBudget'
  BY <1>2, LedgerKept
<1> QED
  BY <1>3, <1>4 DEF IInv

(* A hit on the login limiter adds the request to those that count, and    *)
(* only that; a hit that begins a window leaves no other.                  *)
LEMMA HitCounts ==
  ASSUME IInv, NEW r \in Reqs, pc[r] = "passed", LoginHit(r),
         status'[r] # "ok", \A q \in Reqs : q # r => status'[q] = status[q]
  PROVE  /\ r \notin Counted
         /\ Counted' = IF stale THEN {r} ELSE Counted \cup {r}
<1>1. hit[r] = 0 /\ (~ stale => window > 0)
  BY DEF IInv, Progress, Ledger
<1>2. window' = IF stale THEN window + 1 ELSE window
  BY DEF LoginHit
<1>3. /\ hit'[r] = window' /\ \A q \in Reqs : q # r => hit'[q] = hit[q]
  BY HitStep DEF IInv
<1>4. window \in Nat /\ hit \in [Reqs -> 0..window]
  BY DEF IInv, TypeOK
<1>5. r \notin Counted
  BY <1>1 DEF Counted
<1>6. Counted' = {q \in Reqs : hit'[q] = window' /\ window' > 0 /\ status'[q] # "ok"}
  BY DEF Counted
<1>7. CASE stale
  <2>1. \A q \in Reqs : q # r => hit'[q] # window'
    BY <1>2, <1>3, <1>4, <1>7
  <2> QED
    BY <1>2, <1>3, <1>4, <1>5, <1>6, <1>7, <2>1
<1>8. CASE ~ stale
  BY <1>1, <1>2, <1>3, <1>4, <1>5, <1>6, <1>8 DEF Counted
<1> QED
  BY <1>7, <1>8

(* So the books stay balanced.                                             *)
LEMMA HitBalances ==
  ASSUME IInv, NEW r \in Reqs, pc[r] = "passed", LoginHit(r),
         status'[r] # "ok", \A q \in Reqs : q # r => status'[q] = status[q]
  PROVE  /\ Ledger'
         /\ Cardinality(Counted') <= auth' + takenBack'
<1>1. /\ r \notin Counted
      /\ Counted' = IF stale THEN {r} ELSE Counted \cup {r}
  BY HitCounts
<1>2. /\ auth' = IF stale THEN 1 ELSE auth + 1
      /\ takenBack' = IF stale THEN 0 ELSE takenBack
      /\ window' = IF stale THEN window + 1 ELSE window
  BY DEF LoginHit, LoginHits
<1>3. Cardinality(Counted') = IF stale THEN 1 ELSE Cardinality(Counted) + 1
  BY <1>1, CountedIsFinite, FS_AddElement, FS_Singleton
<1>4. window \in Nat /\ auth \in Nat /\ takenBack \in Nat /\ Cardinality(Counted) \in Nat
  BY CountedIsFinite DEF IInv, TypeOK
<1> QED
  BY <1>2, <1>3, <1>4 DEF IInv, Ledger

LEMMA EnterLoginStep ==
  ASSUME IInv, NEW r \in Reqs, EnterLogin(r)
  PROVE  IInv'
<1>1. /\ pc[r] = "passed" /\ pc' \in [Reqs -> States] /\ pc'[r] = "open"
      /\ \A q \in Reqs : q # r => pc'[q] = pc[q]
  BY GotoStep DEF EnterLogin, IInv, States, UnderWay, Kept
<1>2. LoginHit(r) /\ kind[r] = "login" /\ LoginHits <= AuthMax
      /\ UNCHANGED <<proc, kind, status, general, rows, log>>
  BY DEF EnterLogin
<1>3. status[r] = "none"
  BY <1>1 DEF IInv, Progress
<1>4. /\ auth' \in Nat /\ stale' = FALSE /\ takenBack' \in Nat
      /\ window' \in Nat /\ hit' \in [Reqs -> 0..window'] /\ hit'[r] = window'
      /\ \A q \in Reqs : q # r => hit'[q] = hit[q]
  BY <1>2, HitStep DEF IInv
<1>5. TypeOK'
  BY <1>1, <1>2, <1>4 DEF IInv, TypeOK
<1>6. window' > 0 /\ auth' <= AuthMax
  BY <1>2 DEF IInv, TypeOK, LoginHit, LoginHits, Ledger
<1>7. Progress' /\ LogTruth'
  <2>1. Progress'
    BY <1>1, <1>2, <1>3, <1>4, <1>6 DEF IInv, Progress
  <2>2. LogTruth'
    BY <1>1, <1>2 DEF IInv, TypeOK, LogTruth
  <2> QED
    BY <2>1, <2>2
<1>8. Ledger' /\ Cardinality(Counted') <= auth' + takenBack'
  BY <1>1, <1>2, <1>3, HitBalances
<1>9. IsFiniteSet(Counted')
  BY LimitsAssumption, FS_Subset DEF Counted
<1>10. Cardinality(Tried') <= Cardinality(Counted')
      /\ Cardinality(Tried') \in Nat /\ Cardinality(Counted') \in Nat
  BY <1>9, FS_Subset, FS_CardinalityType DEF Tried
<1>11. AuthBudget'
  BY <1>4, <1>6, <1>8, <1>10, LimitsAssumption DEF AuthBudget
<1> QED
  BY <1>5, <1>7, <1>8, <1>11 DEF IInv

(* Above the limit nobody joins those who try.                             *)
LEMMA LimitLoginStep ==
  ASSUME IInv, NEW r \in Reqs, LimitLogin(r)
  PROVE  /\ IInv'
         /\ ~ stale /\ auth >= AuthMax /\ Counted' \ {r} = Counted
<1>1. /\ pc[r] = "passed" /\ pc' \in [Reqs -> States] /\ pc'[r] = "limited"
      /\ \A q \in Reqs : q # r => pc'[q] = pc[q]
  BY GotoStep DEF LimitLogin, IInv, States, UnderWay, Kept
<1>2. LoginHit(r) /\ kind[r] = "login" /\ LoginHits > AuthMax
      /\ UNCHANGED <<proc, kind, general, rows, log>>
  BY DEF LimitLogin
<1>3. status' = [status EXCEPT ![r] = "limited"] /\ status \in [Reqs -> {"none", "limited"} \cup Statuses]
  BY DEF LimitLogin, IInv, TypeOK
<1>4. ~ stale /\ auth >= AuthMax /\ window' = window /\ takenBack' = takenBack /\ window > 0
  BY <1>2, LimitsAssumption DEF LoginHits, LoginHit, IInv, TypeOK, Ledger
<1>5. TypeOK'
  BY <1>1, <1>2, <1>3, HitStep DEF IInv, TypeOK
<1>6. Progress' /\ LogTruth'
  <2>1. \A q \in Reqs : q # r => hit'[q] = hit[q] /\ status'[q] = status[q]
    BY <1>2, <1>3, HitStep DEF IInv
  <2>2. Progress'
    BY <1>1, <1>2, <1>3, <2>1 DEF IInv, Progress
  <2>3. LogTruth'
    BY <1>1, <1>2, <1>3, <2>1 DEF IInv, TypeOK, LogTruth
  <2> QED
    BY <2>2, <2>3
<1>7. Ledger'
  BY <1>1, <1>2, <1>3, HitBalances
<1>8. r \notin Counted /\ Counted' = Counted \cup {r}
  BY <1>1, <1>2, <1>3, <1>4, HitCounts
<1>9. Tried' = Tried
  <2>1. Tried' = {q \in Counted' : status'[q] # "limited"}
    BY DEF Tried
  <2>2. Counted \subseteq Reqs
    BY DEF Counted
  <2> QED
    BY <1>3, <1>8, <2>1, <2>2 DEF Tried
<1>10. AuthBudget'
  BY <1>4, <1>9 DEF IInv, AuthBudget
<1> QED
  BY <1>4, <1>5, <1>6, <1>7, <1>8, <1>10 DEF IInv

-----------------------------------------------------------------------------
(* A request on its way out.                                               *)

(* A success is taken off those that count, wherever its hit was.          *)
LEMMA AnswerCounts ==
  ASSUME IInv, NEW r \in Reqs, NEW s \in Statuses, pc[r] = "open",
         status' = [status EXCEPT ![r] = s], UNCHANGED <<window, hit>>
  PROVE  /\ Counted' = IF s = "ok" THEN Counted \ {r} ELSE Counted
         /\ Tried' \subseteq Tried
         /\ r \in Counted => hit[r] = window
         /\ r \notin Counted /\ window > 0 => hit[r] < window
<1>1. status[r] = "none" /\ s # "limited" /\ s # "none"
  BY DEF IInv, Progress, Statuses
<1>2. /\ status'[r] = s /\ \A q \in Reqs : q # r => status'[q] = status[q]
  BY DEF IInv, TypeOK
<1>3. Counted' = IF s = "ok" THEN Counted \ {r} ELSE Counted
  BY <1>1, <1>2 DEF Counted
<1>4. Tried' \subseteq Tried
  <2>1. Tried' = {q \in Counted' : status'[q] # "limited"}
    BY DEF Tried
  <2>2. Counted' \subseteq Counted /\ Counted \subseteq Reqs
    BY <1>3 DEF Counted
  <2> QED
    BY <1>1, <1>2, <2>1, <2>2 DEF Tried
<1>5. hit[r] \in 0..window /\ window \in Nat
  BY DEF IInv, TypeOK
<1> QED
  BY <1>1, <1>3, <1>4, <1>5 DEF Counted

LEMMA AnswerStep ==
  ASSUME IInv, NEW r \in Reqs, NEW s \in Statuses, Answer(r, s)
  PROVE  IInv'
<1>1. /\ pc[r] = "open" /\ pc' \in [Reqs -> States] /\ pc'[r] = "answered"
      /\ \A q \in Reqs : q # r => pc'[q] = pc[q]
  BY GotoStep DEF Answer, IInv, States, UnderWay, Kept
<1>2. /\ status' = [status EXCEPT ![r] = s] /\ rows' = rows \cup {r}
      /\ UNCHANGED <<proc, kind, general, stale, log, window, hit>>
  BY DEF Answer
<1>3. \/ UNCHANGED <<auth, takenBack>> /\ (kind[r] # "login" \/ s = "error")
      \/ TakeBack(r) /\ kind[r] = "login" /\ s = "ok"
  BY DEF Answer, Statuses
<1>4. auth \in Nat /\ takenBack \in Nat /\ auth' \in Nat /\ takenBack' \in Nat
      /\ takenBack' >= takenBack
  BY <1>3 DEF IInv, TypeOK, TakeBack
<1>5. TypeOK'
  BY <1>1, <1>2, <1>4 DEF IInv, TypeOK
<1>6. s \notin {"none", "limited"}
  BY DEF Statuses
<1>7. /\ status'[r] = s /\ \A q \in Reqs : q # r => status'[q] = status[q]
  BY <1>2 DEF IInv, TypeOK
<1>8. Progress'
  BY <1>1, <1>2, <1>7 DEF IInv, Progress
<1>9. LogTruth'
  BY <1>1, <1>2, <1>6, <1>7 DEF IInv, TypeOK, LogTruth
<1>10. /\ Counted' = IF s = "ok" THEN Counted \ {r} ELSE Counted
       /\ Tried' \subseteq Tried
       /\ r \in Counted => hit[r] = window
       /\ r \notin Counted /\ window > 0 => hit[r] < window
  BY <1>1, <1>2, AnswerCounts
<1>11. Ledger'
  <2> SUFFICES ASSUME ~ stale
               PROVE  /\ window > 0
                      /\ auth' <= Cardinality(Counted')
                      /\ Cardinality(Counted') <= auth' + takenBack'
    BY <1>2 DEF Ledger
  <2>1. /\ window > 0 /\ auth <= Cardinality(Counted)
        /\ Cardinality(Counted) <= auth + takenBack
        /\ Cardinality(Counted) \in Nat
    BY CountedIsFinite DEF IInv, Ledger
  <2>2. CASE UNCHANGED <<auth, takenBack>> /\ (kind[r] # "login" \/ s = "error")
    <3>1. kind[r] # "login" => r \notin Counted
      BY <2>1 DEF IInv, Progress, Counted
    <3>2. Counted' = Counted
      BY <1>10, <2>2, <3>1
    <3> QED
      BY <2>1, <2>2, <3>2
  <2>3. CASE TakeBack(r) /\ s = "ok"
    <3>1. Cardinality(Counted') =
            IF r \in Counted THEN Cardinality(Counted) - 1 ELSE Cardinality(Counted)
      BY <1>10, <2>3, CountedIsFinite, FS_RemoveElement
    <3>2. hit[r] \in Nat /\ window \in Nat
      BY DEF IInv, TypeOK
    <3>3. /\ auth' = IF auth > 0 THEN auth - 1 ELSE 0
          /\ takenBack' = IF auth > 0 /\ hit[r] < window THEN takenBack + 1 ELSE takenBack
      BY <2>3 DEF TakeBack
    <3>4. CASE r \in Counted
      <4>1. takenBack' = takenBack /\ Cardinality(Counted') = Cardinality(Counted) - 1
        BY <1>10, <3>1, <3>2, <3>3, <3>4
      <4>2. Cardinality(Counted) > 0
        BY <2>1, <3>4, CountedIsFinite, FS_EmptySet
      <4> QED
        BY <1>4, <2>1, <3>3, <4>1, <4>2
    <3>5. CASE r \notin Counted
      <4>1. hit[r] < window /\ Cardinality(Counted') = Cardinality(Counted)
        BY <1>10, <2>1, <3>1, <3>5
      <4>2. \/ auth' = auth /\ takenBack' = takenBack
            \/ auth' = auth - 1 /\ takenBack' = takenBack + 1
        BY <1>4, <3>3, <4>1
      <4> QED
        BY <1>4, <2>1, <4>1, <4>2
    <3> QED
      BY <3>4, <3>5
  <2> QED
    BY <1>3, <2>2, <2>3
<1>12. AuthBudget'
  <2>1. Cardinality(Tried') <= Cardinality(Tried) /\ Cardinality(Tried') \in Nat
    BY <1>10, CountedIsFinite, FS_Subset, FS_CardinalityType
  <2> QED
    BY <1>4, <2>1, CountedIsFinite, LimitsAssumption DEF IInv, AuthBudget
<1> QED
  BY <1>5, <1>8, <1>9, <1>11, <1>12 DEF IInv

LEMMA AnswerLimitedStep ==
  ASSUME IInv, NEW r \in Reqs, AnswerLimited(r)
  PROVE  IInv'
<1>1. /\ pc[r] = "limited" /\ pc' \in [Reqs -> States] /\ pc'[r] = "answered"
      /\ \A q \in Reqs : q # r => pc'[q] = pc[q]
  BY GotoStep DEF AnswerLimited, IInv, States, UnderWay, Kept
<1>2. /\ rows' = rows \cup {r}
      /\ UNCHANGED <<proc, kind, status, general, auth, stale, log, window, hit, takenBack>>
  BY DEF AnswerLimited, limiter, history
<1>3. TypeOK' /\ Progress' /\ LogTruth'
  BY <1>1, <1>2 DEF IInv, TypeOK, Progress, LogTruth
<1>4. Ledger' /\ AuthBudget'
  BY <1>2, LedgerKept
<1> QED
  BY <1>3, <1>4 DEF IInv

-----------------------------------------------------------------------------
(* The windows and the process.                                            *)

LEMMA WindowStep ==
  ASSUME IInv, GeneralWindowEnds \/ LoginWindowEnds
  PROVE  IInv'
<1>1. /\ UNCHANGED <<proc, pc, kind, status, rows, log, window, hit, takenBack>>
      /\ UNCHANGED <<auth, stale>> \/ stale' = TRUE
  BY DEF GeneralWindowEnds, LoginWindowEnds, request, history
<1>2. general' \in Nat /\ auth' \in Nat /\ stale' \in BOOLEAN
  <2>1. CASE GeneralWindowEnds
    BY <2>1 DEF GeneralWindowEnds, IInv, TypeOK
  <2>2. CASE LoginWindowEnds
    BY <2>2 DEF LoginWindowEnds, IInv, TypeOK
  <2> QED
    BY <2>1, <2>2
<1>3. TypeOK' /\ Progress' /\ LogTruth'
  BY <1>1, <1>2 DEF IInv, TypeOK, Progress, LogTruth
<1>4. Ledger' /\ AuthBudget'
  BY <1>1, LedgerKept
<1> QED
  BY <1>3, <1>4 DEF IInv

LEMMA ExitStep ==
  ASSUME IInv, Closed \/ Deadline \/ Crash
  PROVE  IInv'
<1>1. /\ proc' \in {"exit0", "exit1"}
      /\ pc' = [r \in Reqs |-> IF pc[r] \in UnderWay THEN "cut" ELSE pc[r]]
      /\ UNCHANGED <<kind, status, general, auth, stale, rows, log, window, hit, takenBack>>
  BY DEF Closed, Deadline, Crash, Exits, limiter, history
<1>2. /\ pc' \in [Reqs -> States]
      /\ \A r \in Reqs : pc'[r] = "cut" \/ pc'[r] = pc[r]
      /\ \A r \in Reqs : pc[r] = "answered" => pc'[r] = "answered"
  BY <1>1 DEF IInv, TypeOK, States, UnderWay
<1>3. TypeOK' /\ Progress' /\ LogTruth'
  BY <1>1, <1>2 DEF IInv, TypeOK, Progress, LogTruth
<1>4. Ledger' /\ AuthBudget'
  BY <1>1, LedgerKept
<1> QED
  BY <1>3, <1>4 DEF IInv

LEMMA StartStep ==
  ASSUME IInv, Signal \/ Start
  PROVE  IInv'
<1>1. /\ UNCHANGED <<pc, kind, status, rows, window, hit, takenBack>>
      /\ UNCHANGED <<auth, stale>> \/ stale' = TRUE
  BY DEF Signal, Start, request, limiter, history
<1>2. /\ proc' \in {"up", "closing", "exit0", "exit1"} /\ general' \in Nat
      /\ auth' \in Nat /\ stale' \in BOOLEAN
  <2>1. CASE Signal
    BY <2>1 DEF Signal, limiter, IInv, TypeOK
  <2>2. CASE Start
    BY <2>2 DEF Start, IInv, TypeOK
  <2> QED
    BY <2>1, <2>2
<1>3. DOMAIN log' \subseteq DOMAIN log /\ \A i \in DOMAIN log' : log'[i] = log[i]
  BY DEF Signal, Start
<1>4. TypeOK' /\ Progress' /\ LogTruth'
  BY <1>1, <1>2, <1>3 DEF IInv, TypeOK, Progress, LogTruth
<1>5. Ledger' /\ AuthBudget'
  BY <1>1, LedgerKept
<1> QED
  BY <1>4, <1>5 DEF IInv

-----------------------------------------------------------------------------
LEMMA NextStep == IInv /\ [Next]_vars => IInv'
<1> SUFFICES ASSUME IInv, [Next]_vars PROVE IInv'
  OBVIOUS
<1>1. ASSUME NEW r \in Reqs, Handle(r) PROVE IInv'
  BY <1>1, MoveStep, EnterLoginStep, LimitLoginStep, AnswerStep, AnswerLimitedStep
     DEF Handle
<1>2. CASE UNCHANGED vars
  <2>1. UNCHANGED <<proc, pc, kind, status, general, auth, stale, rows, log, window, hit, takenBack>>
    BY <1>2 DEF vars, request, limiter, history
  <2>2. TypeOK' /\ Progress' /\ LogTruth'
    BY <2>1 DEF IInv, TypeOK, Progress, LogTruth
  <2> QED
    BY <2>1, <2>2, LedgerKept DEF IInv
<1> QED
  BY <1>1, <1>2, ArriveStep, MoveStep, RowStep, WindowStep, ExitStep, StartStep DEF Next

THEOREM Invariance == Spec => []IInv
BY InitIInv, NextStep, PTL DEF Spec

(* Type correctness; in particular the login counter is never negative.    *)
THEOREM TypeCorrect == Spec => []TypeOK
<1>1. IInv => TypeOK
  BY DEF IInv
<1> QED
  BY <1>1, Invariance, PTL

(* The request log holds responses that went out, each under its own id.   *)
THEOREM TheLogIsTrue == Spec => []LogTruth
<1>1. IInv => LogTruth
  BY DEF IInv
<1> QED
  BY <1>1, Invariance, PTL

(* The budget of the login proxies holds for any overlap of logins.        *)
THEOREM TheBudgetHolds == Spec => []AuthBudget
<1>1. IInv => AuthBudget
  BY DEF IInv
<1> QED
  BY <1>1, Invariance, PTL

(* No login is refused while fewer others than the limit count.            *)
THEOREM RefusalsHaveCause == Spec => RefusedForCause
<1> DEFINE Cause(r) == status[r] = "none" /\ status'[r] = "limited" =>
                         Cardinality(Counted' \ {r}) >= AuthMax
<1>1. IInv /\ [Next]_vars => [\A r \in Reqs : Cause(r)]_vars
  <2> SUFFICES ASSUME IInv, Next, NEW r \in Reqs,
                      status[r] = "none", status'[r] = "limited"
               PROVE  Cardinality(Counted' \ {r}) >= AuthMax
    OBVIOUS
  <2>1. PICK q \in Reqs : LimitLogin(q) \/ \E s \in Statuses : Answer(q, s)
    BY DEF Next, Handle, Arrive, TurnedAway, Enter, EnterLogin, AnswerLimited, Leave,
           RowWritten, RowDropped, GeneralWindowEnds, LoginWindowEnds, Signal, Closed,
           Deadline, Crash, Exits, Start, request
  <2>2. LimitLogin(q) /\ q = r
    BY <2>1 DEF LimitLogin, Answer, Statuses, IInv, TypeOK
  <2>3. ~ stale /\ auth >= AuthMax /\ Counted' \ {r} = Counted
    BY <2>2, LimitLoginStep
  <2>4. Cardinality(Counted' \ {r}) = Cardinality(Counted)
    BY <2>3
  <2>5. auth <= Cardinality(Counted) /\ auth \in Nat /\ Cardinality(Counted) \in Nat
    BY <2>3, CountedIsFinite DEF IInv, TypeOK, Ledger
  <2> QED
    BY <2>3, <2>4, <2>5, LimitsAssumption
<1> QED
  BY <1>1, Invariance, PTL DEF Spec, RefusedForCause

-----------------------------------------------------------------------------
(* The refinement of Journal.                                              *)

(* A process that has ended has nobody inside.                             *)
Quiet == proc \in {"exit0", "exit1"} => \A r \in Reqs : pc[r] \notin UnderWay

LEMMA QuietStep == IInv /\ Quiet /\ [Next]_vars => Quiet'
<1> SUFFICES ASSUME IInv, Quiet, [Next]_vars PROVE Quiet'
  OBVIOUS
<1>1. CASE UNCHANGED <<proc, pc>>
  BY <1>1 DEF Quiet
<1>2. ASSUME NEW r \in Reqs, NEW k \in Kinds, Arrive(r, k) PROVE Quiet'
  BY <1>2 DEF Arrive, Connects, Quiet
<1>3. ASSUME NEW r \in Reqs, Handle(r) \/ Leave(r) PROVE Quiet'
  BY <1>3 DEF Handle, TurnedAway, Enter, EnterLogin, LimitLogin, AnswerLimited, Answer, Leave,
     Goto, UnderWay, Quiet
<1>4. CASE Closed \/ Deadline \/ Crash
  BY <1>4 DEF Closed, Deadline, Crash, Exits, UnderWay, Quiet
<1>5. CASE Signal \/ Start
  BY <1>5 DEF Signal, Start, Quiet
<1>6. ASSUME NEW r \in Reqs, RowWritten(r) \/ RowDropped(r) PROVE UNCHANGED <<proc, pc>>
  BY <1>6 DEF RowWritten, RowDropped, request
<1>7. CASE GeneralWindowEnds \/ LoginWindowEnds
  BY <1>1, <1>7 DEF GeneralWindowEnds, LoginWindowEnds, request
<1>8. CASE UNCHANGED vars
  BY <1>1, <1>8 DEF vars, request
<1> QED
  BY <1>1, <1>2, <1>3, <1>4, <1>5, <1>6, <1>7, <1>8 DEF Next

(* The fate of a request follows from where it is.                         *)
Fate(p) == IF p = "new" THEN "none"
           ELSE IF p \in UnderWay THEN "inside"
           ELSE IF p = "answered" THEN "whole" ELSE "short"

LEMMA TurnStep ==
  ASSUME TypeOK, NEW r \in Reqs, NEW from, NEW to, Goto(r, from, to)
  PROVE  /\ pc[r] \in from
         /\ FateOf[r] = Fate(pc[r])
         /\ FateOf' = [FateOf EXCEPT ![r] = Fate(to)]
         /\ Fate(to) = Fate(pc[r]) => FateOf' = FateOf
<1>1. /\ pc[r] \in from /\ pc'[r] = to
      /\ \A q \in Reqs : q # r => pc'[q] = pc[q]
  BY DEF TypeOK, Goto
<1>2. /\ FateOf = [q \in Reqs |-> Fate(pc[q])]
      /\ FateOf' = [q \in Reqs |-> Fate(pc'[q])]
  BY DEF FateOf, Fate
<1> QED
  BY <1>1, <1>2

LEMMA ArriveJournal ==
  ASSUME IInv, NEW r \in Reqs, NEW k \in Kinds, Arrive(r, k)
  PROVE  Log!Come(r)
<1> DEFINE to == IF k # "health" /\ general >= GeneralMax THEN "refused" ELSE "passed"
<1>1. Goto(r, {"new"}, to) /\ proc \in {"up", "closing"}
      /\ UNCHANGED <<proc, rows, log>>
  BY DEF Arrive, Connects
<1>2. /\ FateOf[r] = "none"
      /\ FateOf' = [FateOf EXCEPT ![r] = "inside"] \/ FateOf' = [FateOf EXCEPT ![r] = "short"]
  BY <1>1, TurnStep DEF IInv, Fate, UnderWay
<1> QED
  BY <1>1, <1>2 DEF Log!Come, Log!Running, Log!Turns, LifeOf

LEMMA HandleJournal ==
  ASSUME IInv, Quiet, NEW r \in Reqs, Handle(r) \/ Leave(r)
  PROVE  Log!Finish(r) \/ Log!GiveUp(r) \/ UNCHANGED <<LifeOf, FateOf, rows, log>>
<1>1. pc[r] \in UnderWay /\ UNCHANGED <<proc, log>>
  BY DEF Handle, TurnedAway, Enter, EnterLogin, LimitLogin, AnswerLimited, Answer, Leave,
     Goto, UnderWay
<1>2. proc \in {"up", "closing"} /\ UNCHANGED LifeOf /\ LifeOf = proc
  BY <1>1 DEF IInv, TypeOK, Quiet, LifeOf
<1>3. CASE TurnedAway(r) \/ Leave(r)
  <2>1. UNCHANGED rows /\ \E to \in {"refused", "gone"} : Goto(r, UnderWay, to)
    BY <1>3 DEF TurnedAway, Leave, Goto, UnderWay
  <2>2. FateOf[r] = "inside" /\ FateOf' = [FateOf EXCEPT ![r] = "short"]
    BY <1>1, <2>1, TurnStep DEF IInv, Fate, UnderWay
  <2> QED
    BY <1>1, <1>2, <2>1, <2>2 DEF Log!GiveUp, Log!Running, Log!Turns
<1>4. CASE Enter(r) \/ EnterLogin(r) \/ LimitLogin(r)
  <2>1. UNCHANGED rows /\ \E to \in {"open", "limited"} : Goto(r, {"passed"}, to)
    BY <1>4 DEF Enter, EnterLogin, LimitLogin
  <2>2. UNCHANGED FateOf
    BY <2>1, TurnStep DEF IInv, Fate, UnderWay
  <2> QED
    BY <1>1, <1>2, <2>1, <2>2
<1>5. CASE AnswerLimited(r) \/ \E s \in Statuses : Answer(r, s)
  <2>1. rows' = rows \cup {r} /\ Goto(r, UnderWay, "answered")
    BY <1>5 DEF AnswerLimited, Answer, Goto, UnderWay
  <2>2. FateOf[r] = "inside" /\ FateOf' = [FateOf EXCEPT ![r] = "whole"]
    BY <1>1, <2>1, TurnStep DEF IInv, Fate, UnderWay
  <2> QED
    BY <1>1, <1>2, <2>1, <2>2 DEF Log!Finish, Log!Running, Log!Turns
<1> QED
  BY <1>3, <1>4, <1>5 DEF Handle

LEMMA RowJournal ==
  ASSUME NEW r \in Reqs, RowWritten(r) \/ RowDropped(r)
  PROVE  Log!File(r) \/ Log!Lose(r)
<1>1. UNCHANGED <<LifeOf, FateOf>>
  BY DEF RowWritten, RowDropped, request, LifeOf, FateOf
<1> QED
  BY <1>1 DEF RowWritten, RowDropped, Log!File, Log!Lose

LEMMA ProcessJournal ==
  ASSUME IInv, Signal \/ Closed \/ Deadline \/ Crash \/ Start
  PROVE  Log!Signal \/ Log!Stop \/ Log!Start
<1>1. CASE Signal
  <2>1. LifeOf = "up" /\ LifeOf' = "closing" /\ UNCHANGED <<FateOf, rows, log>>
    BY <1>1 DEF Signal, request, LifeOf, FateOf
  <2> QED
    BY <2>1 DEF Log!Signal
<1>2. CASE Closed \/ Deadline \/ Crash
  <2>1. /\ proc \in {"up", "closing"} /\ proc' \in {"exit0", "exit1"}
        /\ pc' = [r \in Reqs |-> IF pc[r] \in UnderWay THEN "cut" ELSE pc[r]]
        /\ UNCHANGED <<rows, log>>
    BY <1>2 DEF Closed, Deadline, Crash, Exits
  <2>2. FateOf' = [r \in Reqs |-> IF FateOf[r] = "inside" THEN "short" ELSE FateOf[r]]
    BY <2>1 DEF FateOf, UnderWay
  <2>3. LifeOf \in {"up", "closing"} /\ LifeOf' = "down"
    BY <2>1 DEF LifeOf
  <2> QED
    BY <2>1, <2>2, <2>3 DEF Log!Stop, Log!Running
<1>3. CASE Start
  <2>1. LifeOf = "down" /\ LifeOf' = "up" /\ UNCHANGED <<FateOf, rows>>
    BY <1>3 DEF Start, request, LifeOf, FateOf
  <2> QED
    BY <1>3, <2>1 DEF Start, Log!Start
<1> QED
  BY <1>1, <1>2, <1>3

LEMMA StepJournal ==
  IInv /\ Quiet /\ [Next]_vars => [Log!Next]_<<LifeOf, FateOf, rows, log>>
<1> SUFFICES ASSUME IInv, Quiet, [Next]_vars
             PROVE  [Log!Next]_<<LifeOf, FateOf, rows, log>>
  OBVIOUS
<1>1. ASSUME NEW r \in Reqs, NEW k \in Kinds, Arrive(r, k) PROVE Log!Next
  BY <1>1, ArriveJournal DEF Log!Next
<1>2. ASSUME NEW r \in Reqs, Handle(r) \/ Leave(r)
      PROVE  Log!Next \/ UNCHANGED <<LifeOf, FateOf, rows, log>>
  BY <1>2, HandleJournal DEF Log!Next
<1>3. ASSUME NEW r \in Reqs, RowWritten(r) \/ RowDropped(r) PROVE Log!Next
  BY <1>3, RowJournal DEF Log!Next
<1>4. CASE Signal \/ Closed \/ Deadline \/ Crash \/ Start
  BY <1>4, ProcessJournal DEF Log!Next
<1>5. CASE GeneralWindowEnds \/ LoginWindowEnds \/ UNCHANGED vars
  BY <1>5 DEF GeneralWindowEnds, LoginWindowEnds, vars, request, LifeOf, FateOf
<1> QED
  BY <1>1, <1>2, <1>3, <1>4, <1>5 DEF Next

(* The server keeps its log as Journal says, for any requests and any ids: *)
(* an answer is entered once at most, and never over another one.          *)
THEOREM TheLogIsAJournal == Spec => ImplementsJournal
<1>1. Init => Quiet /\ Log!Init
  BY DEF Init, Quiet, Log!Init, LifeOf, FateOf
<1> QED
  BY <1>1, InitIInv, NextStep, QuietStep, StepJournal, PTL DEF Spec, ImplementsJournal, Log!Spec
=============================================================================
