--------------------------- MODULE ToolCallProofs ---------------------------
(***************************************************************************)
(* Proofs about ToolRegistry and ToolCall, for any catalogue of tools and  *)
(* any number of tries.                                                    *)
(***************************************************************************)
EXTENDS ToolCall, TLAPS

(* What is registered is what was imported so far, each definition under   *)
(* its names.                                                              *)
RegistryInv ==
  /\ booted \in 0..Dead
  /\ booted # Dead =>
       /\ DOMAIN tools \cup DOMAIN aliasOf = UNION {NamesOf(ImportOrder[i]) : i \in 1..booted}
       /\ \A a \in DOMAIN aliasOf : aliasOf[a] \in DOMAIN tools
       /\ \A n \in DOMAIN tools : tools[n] \in 1..booted /\ ImportOrder[tools[n]].name = n
       /\ NamesResolve

LEMMA TypedImports ==
  /\ Len(ImportOrder) \in Nat
  /\ \A i \in Positions : ImportOrder[i] \in ToolType
BY ImportOrderAssumption DEF Positions

LEMMA RegistryInitInv == RegistryInit => RegistryInv
BY TypedImports DEF RegistryInit, RegistryInv, NamesResolve, Dead

LEMMA RegisterStep ==
  ASSUME RegistryInv, NEW i \in Positions, Register(i)
  PROVE  RegistryInv'
<1> DEFINE t == ImportOrder[i]
           Clash == \E n \in NamesOf(t) : Has(n)
<1>1. booted = i - 1 /\ booted # Dead /\ i \in 1..Len(ImportOrder) /\ Len(ImportOrder) \in Nat
  BY TypedImports DEF Register, Positions, Dead
<1>2. CASE Clash
  BY <1>1, <1>2 DEF RegistryInv, Register, Dead
<1>3. CASE ~ Clash
  <2>1. /\ booted' = i
        /\ tools' = [n \in {t.name} \cup DOMAIN tools |-> IF n = t.name THEN i ELSE tools[n]]
        /\ aliasOf' = [a \in t.aliases \cup DOMAIN aliasOf |->
                         IF a \in t.aliases THEN t.name ELSE aliasOf[a]]
    BY <1>3 DEF Register
  <2>2. \A n \in NamesOf(t) : n \notin DOMAIN tools /\ n \notin DOMAIN aliasOf
    BY <1>3 DEF Has
  <2>3. 1..i = 1..booted \cup {i}
    BY <1>1
  <2>4. DOMAIN tools' \cup DOMAIN aliasOf' =
          UNION {NamesOf(ImportOrder[j]) : j \in 1..booted'}
    BY <1>1, <2>1, <2>3 DEF RegistryInv, NamesOf
  <2>5. \A a \in DOMAIN aliasOf' : aliasOf'[a] \in DOMAIN tools'
    BY <1>1, <2>1 DEF RegistryInv
  <2>6. \A n \in DOMAIN tools' : tools'[n] \in 1..booted' /\ ImportOrder[tools'[n]].name = n
    BY <1>1, <2>1 DEF RegistryInv
  <2>7. ASSUME NEW n \in NamesOf(t) PROVE Get(n)' = i
    BY <1>1, <2>1, <2>2, <2>7 DEF Get, NamesOf
  <2>8. ASSUME NEW j \in 1..booted, NEW n \in NamesOf(ImportOrder[j]) PROVE Get(n)' = j
    <3>1. Get(n) = j /\ n \in DOMAIN tools \cup DOMAIN aliasOf
      BY <1>1 DEF RegistryInv, NamesResolve
    <3>2. n \notin NamesOf(t) /\ t.name \notin DOMAIN tools
      BY <3>1, <2>2 DEF NamesOf
    <3>3. n \in DOMAIN tools => Get(n)' = Get(n)
      BY <3>2, <2>1 DEF Get, NamesOf
    <3>4. n \notin DOMAIN tools => Get(n)' = Get(n)
      BY <1>1, <3>1, <3>2, <2>1 DEF Get, NamesOf, RegistryInv
    <3> QED
      BY <3>1, <3>3, <3>4
  <2>9. NamesResolve'
    BY <1>1, <2>1, <2>3, <2>7, <2>8 DEF NamesResolve
  <2> QED
    BY <1>1, <2>1, <2>4, <2>5, <2>6, <2>9 DEF RegistryInv, Dead
<1> QED
  BY <1>2, <1>3

LEMMA NoClashNoThrow ==
  ASSUME NoClash, RegistryInv, NEW i \in Positions, Register(i)
  PROVE  booted' # Dead
<1>1. booted = i - 1 /\ booted # Dead /\ i \in 1..Len(ImportOrder) /\ Len(ImportOrder) \in Nat
  BY TypedImports DEF Register, Positions, Dead
<1>2. ASSUME NEW n \in NamesOf(ImportOrder[i]), Has(n) PROVE FALSE
  <2>1. PICK j \in 1..booted : n \in NamesOf(ImportOrder[j])
    BY <1>1, <1>2 DEF RegistryInv, Has
  <2>2. j \in Positions /\ j # i
    BY <1>1 DEF Positions
  <2> QED
    BY <2>1, <2>2, <1>2 DEF NoClash
<1> QED
  BY <1>1, <1>2 DEF Register, Dead

-----------------------------------------------------------------------------
(* A step of ToolCall is one of the registry's or leaves it alone.         *)

LEMMA CallStep == [Next]_vars => Boot \/ UNCHANGED registryVars
BY DEF Next, Ask, Invoke, Retry, GoOn, Execute, SdkRefuses, Refuses, Begin, HandlerThrows,
       NextSet, Return, Crash, Settles, Replies, Declines, Fails, Loses, StrayLands,
       StrayVanishes, RowWritten, RowFails, vars

LEMMA RegistryNext == RegistryInv /\ [Next]_vars => RegistryInv'
<1> SUFFICES ASSUME RegistryInv, [Next]_vars PROVE RegistryInv'
  OBVIOUS
<1>1. CASE Boot
  BY <1>1, RegisterStep DEF Boot
<1>2. CASE UNCHANGED registryVars
  BY <1>2 DEF registryVars, RegistryInv, NamesResolve, Get
<1> QED
  BY <1>1, <1>2, CallStep

(* Whatever the catalogue: a name or alias that was registered leads to    *)
(* its definition for good, through register and requests alike.           *)
THEOREM NamesAlwaysResolve == Spec => []NamesResolve
<1>1. Init => RegistryInv
  BY RegistryInitInv DEF Init
<1>2. RegistryInv => NamesResolve
  BY DEF RegistryInv, NamesResolve
<1> QED
  BY <1>1, <1>2, RegistryNext, PTL DEF Spec

(* A catalogue in which no two definitions have a name or alias in common  *)
(* never keeps the server from coming up.                                  *)
THEOREM DisjointNamesLoad ==
  ASSUME NoClash
  PROVE  Spec => []Loads
<1> DEFINE LInv == RegistryInv /\ booted # Dead
<1>1. Init => LInv
  BY RegistryInitInv, TypedImports DEF Init, RegistryInit, Dead
<1>2. LInv /\ [Next]_vars => LInv'
  <2> SUFFICES ASSUME LInv, [Next]_vars PROVE LInv'
    OBVIOUS
  <2>1. RegistryInv'
    BY RegistryNext
  <2>2. CASE Boot
    BY <2>1, <2>2, NoClashNoThrow DEF Boot
  <2>3. CASE UNCHANGED registryVars
    BY <2>1, <2>3 DEF registryVars, Dead
  <2> QED
    BY <2>2, <2>3, CallStep
<1>3. LInv => Loads
  BY DEF RegistryInv, Loads
<1> QED
  BY <1>1, <1>2, <1>3, PTL DEF Spec

-----------------------------------------------------------------------------
(* The invariant of a call.                                                *)

Holds(c) == \E k \in DOMAIN landed : landed[k] = c

Functional == res = [c \in DOMAIN res |-> res[c]]

Phases ==
  /\ pc = "idle" => name = UnknownName /\ at = 0 /\ res = <<>> /\ told = <<>>
  /\ pc # "idle" => Serving /\ Attempt >= 1
  /\ pc = "received" => at = 0 /\ res = <<>>
  /\ pc \in {"received", "running"} => told[Attempt] = "none"

(* While the handler runs: all that was to be sent was, and a write with   *)
(* a good answer took effect.                                              *)
InFlight ==
  pc = "running" =>
    /\ \A i \in 1..at : plan[i] \subseteq DOMAIN res
    /\ \A c \in DOMAIN res : res[c] = "failed" => Def.settles
    /\ \A c \in DOMAIN res : IsWrite(c) /\ res[c] \in Bodies => Holds(c)

(* A tool that has answered otherwise than by an error waits for nothing.  *)
NothingLeft == Replied("success") \/ Replied("failure") => Open = {}

CallInv ==
  TypeOK /\ Functional /\ Phases /\ InFlight /\ NothingLeft /\ AnswersAreWhole

IInv == RegistryInv /\ CallInv

LEMMA InitIInv == Init => IInv
<1> SUFFICES ASSUME Init PROVE IInv
  OBVIOUS
<1>1. RegistryInv
  BY RegistryInitInv DEF Init
<1>2. TypeOK
  <2>1. /\ plan \in Seq(SUBSET CallType) /\ told \in Seq(Tellable)
        /\ rows \in Seq(Tellable \cup {"written", "dropped"})
        /\ landed \in Seq(Writes(CallType))
    BY DEF Init
  <2>2. DOMAIN res = {} /\ Len(plan) = 0 /\ Len(told) = 0 /\ Len(rows) = 0
    BY DEF Init
  <2>3. /\ booted \in 0..Dead /\ at \in 0..Len(plan) /\ Known
        /\ Len(told) <= MaxTries
    BY <1>1, <2>2, MaxTriesAssumption DEF Init, RegistryInv, Known
  <2>4. stray \subseteq Writes(CallType)
    BY DEF Init
  <2> QED
    BY <2>1, <2>2, <2>3, <2>4 DEF Init, TypeOK
<1>3. Functional /\ Phases /\ InFlight /\ NothingLeft /\ AnswersAreWhole
  BY DEF Init, Functional, Phases, InFlight, NothingLeft, AnswersAreWhole, Replied
<1> QED
  BY <1>1, <1>2, <1>3 DEF IInv, CallInv

(* The tool asked for stays the same while the registry does.              *)
LEMMA SameDef ==
  ASSUME UNCHANGED registryVars, name' = name
  PROVE  /\ Def' = Def /\ Serving' = Serving /\ Dead' = Dead /\ booted' = booted
         /\ Known' = Known
BY DEF registryVars, Def, Get, Has, Serving, Dead, Known

LEMMA SameHolds == landed' = landed => \A c : Holds(c)' = Holds(c)
BY DEF Holds

LEMMA MoreHolds ==
  ASSUME TypeOK, NEW d \in Writes(CallType), landed' = Append(landed, d)
  PROVE  /\ landed' \in Seq(Writes(CallType))
         /\ Holds(d)' /\ \A c : Holds(c) => Holds(c)'
<1>1. landed \in Seq(Writes(CallType))
  BY DEF TypeOK
<1>2. /\ landed' \in Seq(Writes(CallType)) /\ Len(landed') = Len(landed) + 1
      /\ landed'[Len(landed) + 1] = d /\ \A k \in 1..Len(landed) : landed'[k] = landed[k]
  BY <1>1
<1>3. DOMAIN landed = 1..Len(landed) /\ DOMAIN landed' = 1..(Len(landed) + 1)
  BY <1>1, <1>2
<1>4. Len(landed) \in Nat
  BY <1>1
<1> QED
  BY <1>2, <1>3, <1>4 DEF Holds

(* A call that has not answered yet, or has answered with an error, owes   *)
(* nothing.                                                                *)
LEMMA NothingSaid ==
  ASSUME pc # "answered" \/ told[Attempt] \in {"none", "error"}
  PROVE  NothingLeft /\ AnswersAreWhole
BY DEF NothingLeft, AnswersAreWhole, Replied

LEMMA AnswerStep ==
  ASSUME TypeOK, Attempt >= 1, NEW answer \in {"error", "success", "failure"}, Answer(answer)
  PROVE  /\ pc' = "answered" /\ told' \in Seq(Tellable)
         /\ rows' \in Seq(Tellable \cup {"written", "dropped"})
         /\ Len(told') = Len(told) /\ Len(rows') = Len(told)
         /\ told'[Attempt'] = answer
BY DEF TypeOK, Answer, Tell, Attempt, Tellable

LEMMA BecomesStep ==
  ASSUME TypeOK, Functional, NEW c, NEW what \in Outcomes, Becomes(c, what)
  PROVE  /\ c \in DOMAIN res /\ c \in CallType /\ res[c] = "open" /\ Open # {}
         /\ DOMAIN res' = DOMAIN res /\ res'[c] = what /\ Functional'
         /\ \A d \in DOMAIN res : d # c => res'[d] = res[d]
         /\ \A d \in DOMAIN res : res'[d] \in Outcomes
BY DEF TypeOK, Functional, Becomes, Open

-----------------------------------------------------------------------------
(* The client.                                                             *)

LEMMA AskStep ==
  ASSUME IInv, Ask
  PROVE  CallInv'
<1>1. TypeOK /\ Serving /\ pc = "idle" /\ at = 0 /\ res = <<>> /\ Functional
  BY DEF IInv, CallInv, Phases, Ask
<1>2. PICK n \in Names \cup {UnknownName}, f \in {"misshapen", "refused", "valid"},
           p \in Seq(SUBSET CallType) : Invoke(n, f, p)
  <2>1. <<>> \in Seq(SUBSET CallType)
    OBVIOUS
  <2>2. ASSUME NEW n \in DOMAIN tools, NEW p \in ImportOrder[tools[n]].plans
        PROVE  p \in Seq(SUBSET CallType)
    <3>1. tools[n] \in Positions
      BY <1>1, TypedImports DEF IInv, RegistryInv, Serving, Dead, Positions
    <3> QED
      BY <3>1, TypedImports DEF ToolType
  <2> QED
    BY <2>1, <2>2 DEF Ask
<1>3. UNCHANGED registryVars /\ UNCHANGED <<at, res, stray, landed, lost>>
  BY <1>2 DEF Invoke, handler, effects
<1>4. Serving' /\ booted' = booted /\ Dead' = Dead
  BY <1>1, <1>3 DEF Serving, Dead, registryVars
<1>5. /\ told' = <<"none">> /\ rows' = <<"none">> /\ pc' = "received"
      /\ name' = n /\ fit' = f /\ plan' = p
  BY <1>2 DEF Invoke
<1>6. /\ told' \in Seq(Tellable) /\ rows' \in Seq(Tellable \cup {"written", "dropped"})
      /\ Len(told') = 1 /\ Len(rows') = 1 /\ told'[1] = "none" /\ Len(plan') \in Nat
      /\ MaxTries \in Nat \ {0}
  BY <1>5, MaxTriesAssumption DEF Tellable
<1>7. Known'
  <2>1. booted = Len(ImportOrder) /\ booted # Dead /\ Len(ImportOrder) \in Nat
    BY <1>1, TypedImports DEF Serving, Dead
  <2>2. n = UnknownName \/ Has(n)
    BY <2>1 DEF IInv, RegistryInv, Names, Positions, Has
  <2> QED
    BY <2>2, <1>3, <1>5 DEF Known, Has, registryVars
<1>8. TypeOK'
  BY <1>1, <1>3, <1>4, <1>5, <1>6, <1>7 DEF TypeOK
<1>9. (Functional /\ Phases /\ InFlight /\ NothingLeft /\ AnswersAreWhole)'
  BY <1>1, <1>3, <1>4, <1>5, <1>6
     DEF Functional, Phases, InFlight, NothingLeft, AnswersAreWhole, Replied, Attempt
<1> QED
  BY <1>8, <1>9 DEF CallInv

LEMMA RetryStep ==
  ASSUME IInv, Retry
  PROVE  CallInv'
<1>1. TypeOK /\ Phases /\ pc = "answered" /\ Attempt < MaxTries
  BY DEF IInv, CallInv, Retry
<1>2. UNCHANGED registryVars /\ UNCHANGED <<name, fit, plan, landed, lost>>
  BY DEF Retry, request
<1>3. Serving' /\ booted' = booted /\ Dead' = Dead /\ Known' = Known
  BY <1>1, <1>2, SameDef DEF Phases
<1>4. /\ told' = Append(told, "none") /\ rows' = Append(rows, "none") /\ pc' = "received"
      /\ at' = 0 /\ res' = <<>> /\ stray' = stray \cup Writes(Open)
  BY DEF Retry
<1>5. /\ told' \in Seq(Tellable) /\ rows' \in Seq(Tellable \cup {"written", "dropped"})
      /\ Len(told') = Len(told) + 1 /\ Len(rows') = Len(told) + 1
      /\ told'[Len(told')] = "none" /\ Len(plan') \in Nat /\ Len(told) \in Nat
      /\ MaxTries \in Nat \ {0}
  BY <1>1, <1>2, <1>4, MaxTriesAssumption DEF Tellable, TypeOK
<1>6. Writes(Open) \subseteq Writes(CallType)
  BY <1>1 DEF TypeOK, Writes, Open
<1>7. DOMAIN res' = {}
  BY <1>4
<1>8. TypeOK'
  BY <1>1, <1>2, <1>3, <1>4, <1>5, <1>6, <1>7 DEF TypeOK, Attempt
<1>9. (Functional /\ Phases /\ InFlight /\ NothingLeft /\ AnswersAreWhole)'
  BY <1>3, <1>4, <1>5, <1>7
     DEF Functional, Phases, InFlight, NothingLeft, AnswersAreWhole, Replied, Attempt
<1> QED
  BY <1>8, <1>9 DEF CallInv

LEMMA GoOnStep ==
  ASSUME IInv, GoOn
  PROVE  CallInv'
<1>1. TypeOK
  BY DEF IInv, CallInv
<1>2. /\ UNCHANGED registryVars /\ stray' = stray /\ pc' = "idle" /\ name' = UnknownName
      /\ fit' = "misshapen" /\ plan' = <<>> /\ at' = 0 /\ res' = <<>> /\ told' = <<>>
      /\ rows' = <<>> /\ landed' = <<>> /\ lost' = FALSE
  BY DEF GoOn
<1>3. /\ plan' \in Seq(SUBSET CallType) /\ told' \in Seq(Tellable)
      /\ rows' \in Seq(Tellable \cup {"written", "dropped"})
      /\ landed' \in Seq(Writes(CallType))
  BY <1>2
<1>4. DOMAIN res' = {} /\ Len(told') <= MaxTries /\ Len(rows') = Len(told')
  BY <1>2, MaxTriesAssumption
<1>5. booted' \in 0..Dead' /\ at' \in 0..Len(plan') /\ Known'
  BY <1>1, <1>2 DEF registryVars, Dead, TypeOK, Known
<1>6. TypeOK'
  BY <1>1, <1>2, <1>3, <1>4, <1>5 DEF TypeOK
<1>7. (Functional /\ Phases /\ InFlight /\ NothingLeft /\ AnswersAreWhole)'
  BY <1>2, <1>4
     DEF Functional, Phases, InFlight, NothingLeft, AnswersAreWhole, Replied
<1> QED
  BY <1>6, <1>7 DEF CallInv

-----------------------------------------------------------------------------
(* bindTool and executeTool.                                               *)

LEMMA SdkRefusesStep ==
  ASSUME IInv, SdkRefuses
  PROVE  CallInv'
<1>1. TypeOK /\ Functional /\ Phases /\ Attempt >= 1 /\ Serving
  BY DEF IInv, CallInv, SdkRefuses, Phases
<1>2. /\ UNCHANGED registryVars /\ pc' = "answered"
      /\ told' = [told EXCEPT ![Attempt] = "error"]
      /\ UNCHANGED <<name, fit, plan, at, res, rows, stray, landed, lost>>
  BY DEF SdkRefuses, Tell, request, handler, effects
<1>3. Serving' /\ booted' = booted /\ Dead' = Dead /\ Known' = Known
  BY <1>1, <1>2, SameDef
<1>4. told' \in Seq(Tellable) /\ Len(told') = Len(told) /\ told'[Len(told')] = "error"
  BY <1>1, <1>2 DEF TypeOK, Attempt, Tellable
<1>5. TypeOK'
  BY <1>1, <1>2, <1>3, <1>4 DEF TypeOK
<1>6. (Functional /\ Phases /\ InFlight)'
  BY <1>1, <1>2, <1>3, <1>4 DEF Functional, Phases, InFlight, Attempt
<1>7. (NothingLeft /\ AnswersAreWhole)'
  BY <1>2, <1>4 DEF NothingLeft, AnswersAreWhole, Replied, Attempt
<1> QED
  BY <1>5, <1>6, <1>7 DEF CallInv

LEMMA RefusesStep ==
  ASSUME IInv, Refuses
  PROVE  CallInv'
<1>1. TypeOK /\ Functional /\ Phases /\ Attempt >= 1 /\ Serving
  BY DEF IInv, CallInv, Refuses, Phases
<1>2. /\ UNCHANGED registryVars /\ Answer("error")
      /\ UNCHANGED <<name, fit, plan, at, res, stray, landed, lost>>
  BY DEF Refuses, request, handler, effects
<1>3. Serving' /\ booted' = booted /\ Dead' = Dead /\ Known' = Known
  BY <1>1, <1>2, SameDef
<1>4. /\ pc' = "answered" /\ told' \in Seq(Tellable)
      /\ rows' \in Seq(Tellable \cup {"written", "dropped"})
      /\ Len(told') = Len(told) /\ Len(rows') = Len(told)
      /\ told'[Attempt'] = "error"
  BY <1>1, <1>2, AnswerStep
<1>5. TypeOK'
  BY <1>1, <1>2, <1>3, <1>4 DEF TypeOK
<1>6. (Functional /\ Phases /\ InFlight)'
  BY <1>1, <1>2, <1>3, <1>4 DEF Functional, Phases, InFlight, Attempt
<1>7. (NothingLeft /\ AnswersAreWhole)'
  BY <1>4 DEF NothingLeft, AnswersAreWhole, Replied
<1> QED
  BY <1>5, <1>6, <1>7 DEF CallInv

LEMMA BeginStep ==
  ASSUME IInv, Begin
  PROVE  CallInv'
<1>1. TypeOK /\ Phases /\ Attempt >= 1 /\ Serving /\ told[Attempt] = "none"
  BY DEF IInv, CallInv, Begin, Phases
<1>2. /\ UNCHANGED registryVars /\ pc' = "running"
      /\ UNCHANGED <<name, fit, plan, told, rows, stray, landed, lost>>
  BY DEF Begin, request, effects
<1>3. Serving' /\ booted' = booted /\ Dead' = Dead /\ Def' = Def /\ Known' = Known
  BY <1>1, <1>2, SameDef
<1>4. plan \in Seq(SUBSET CallType) /\ Len(plan) \in Nat
  BY <1>1 DEF TypeOK
<1>5. /\ at' \in 0..Len(plan) /\ DOMAIN res' \subseteq CallType /\ Functional'
      /\ \A c \in DOMAIN res' : res'[c] = "open"
      /\ \A i \in 1..at' : plan[i] \subseteq DOMAIN res'
  <2>1. CASE plan = <<>>
    <3>1. at' = 0 /\ res' = <<>> /\ DOMAIN res' = {}
      BY <2>1 DEF Begin
    <3> QED
      BY <3>1, <1>4 DEF Functional
  <2>2. CASE plan # <<>>
    <3>1. at' = 1 /\ res' = [c \in plan[1] |-> "open"] /\ Len(plan) >= 1
      BY <1>4, <2>2 DEF Begin
    <3>2. plan[1] \subseteq CallType
      BY <1>4, <3>1
    <3> QED
      BY <1>4, <3>1, <3>2 DEF Functional
  <2> QED
    BY <2>1, <2>2
<1>6. TypeOK'
  BY <1>1, <1>2, <1>3, <1>5 DEF TypeOK, Outcomes
<1>7. (Phases /\ InFlight)'
  BY <1>1, <1>2, <1>3, <1>5 DEF Phases, InFlight, Attempt, Bodies
<1>8. (NothingLeft /\ AnswersAreWhole)'
  BY <1>2 DEF NothingLeft, AnswersAreWhole, Replied
<1> QED
  BY <1>5, <1>6, <1>7, <1>8 DEF CallInv

LEMMA HandlerThrowsStep ==
  ASSUME IInv, HandlerThrows
  PROVE  CallInv'
<1>1. TypeOK /\ Functional /\ Phases /\ Attempt >= 1 /\ Serving
  BY DEF IInv, CallInv, HandlerThrows, Phases, Awaited
<1>2. /\ UNCHANGED registryVars /\ Answer("error")
      /\ UNCHANGED <<name, fit, plan, at, res, stray, landed, lost>>
  BY DEF HandlerThrows, request, handler, effects
<1>3. Serving' /\ booted' = booted /\ Dead' = Dead /\ Known' = Known
  BY <1>1, <1>2, SameDef
<1>4. /\ pc' = "answered" /\ told' \in Seq(Tellable)
      /\ rows' \in Seq(Tellable \cup {"written", "dropped"})
      /\ Len(told') = Len(told) /\ Len(rows') = Len(told)
      /\ told'[Attempt'] = "error"
  BY <1>1, <1>2, AnswerStep
<1>5. TypeOK'
  BY <1>1, <1>2, <1>3, <1>4 DEF TypeOK
<1>6. (Functional /\ Phases /\ InFlight)'
  BY <1>1, <1>2, <1>3, <1>4 DEF Functional, Phases, InFlight, Attempt
<1>7. (NothingLeft /\ AnswersAreWhole)'
  BY <1>4 DEF NothingLeft, AnswersAreWhole, Replied
<1> QED
  BY <1>5, <1>6, <1>7 DEF CallInv

LEMMA NextSetStep ==
  ASSUME IInv, NextSet
  PROVE  CallInv'
<1>1. /\ TypeOK /\ Phases /\ InFlight /\ Attempt >= 1 /\ Serving /\ told[Attempt] = "none"
      /\ pc = "running" /\ at < Len(plan)
  BY DEF IInv, CallInv, NextSet, Awaited, Phases
<1>2. /\ UNCHANGED registryVars
      /\ UNCHANGED <<pc, name, fit, plan, told, rows, stray, landed, lost>>
  BY DEF NextSet, request, effects
<1>3. Serving' /\ booted' = booted /\ Dead' = Dead /\ Def' = Def /\ Known' = Known
  BY <1>1, <1>2, SameDef
<1>4. plan \in Seq(SUBSET CallType) /\ Len(plan) \in Nat /\ at \in 0..Len(plan)
  BY <1>1 DEF TypeOK
<1>5. /\ at' = at + 1 /\ DOMAIN res' = plan[at + 1] \cup DOMAIN res /\ Functional'
      /\ \A c \in DOMAIN res' : res'[c] = IF c \in plan[at + 1] THEN "open" ELSE res[c]
  BY DEF NextSet, Functional
<1>6. plan[at + 1] \subseteq CallType
  BY <1>1, <1>4
<1>7. TypeOK'
  BY <1>1, <1>2, <1>3, <1>4, <1>5, <1>6 DEF TypeOK, Outcomes
<1>8. Phases'
  BY <1>1, <1>2, <1>3 DEF Phases, Attempt
<1>9. \A i \in 1..at' : plan[i] \subseteq DOMAIN res'
  BY <1>1, <1>4, <1>5 DEF InFlight
<1>10. InFlight'
  BY <1>1, <1>2, <1>3, <1>5, <1>9, SameHolds DEF InFlight, Bodies
<1>11. (NothingLeft /\ AnswersAreWhole)'
  BY <1>1, <1>2 DEF NothingLeft, AnswersAreWhole, Replied
<1> QED
  BY <1>5, <1>7, <1>8, <1>10, <1>11 DEF CallInv

LEMMA ReturnStep ==
  ASSUME IInv, Return
  PROVE  CallInv'
<1>1. /\ TypeOK /\ Functional /\ Phases /\ InFlight /\ Attempt >= 1 /\ Serving
      /\ pc = "running" /\ at = Len(plan) /\ Open = {} /\ ~ Throws
  BY DEF IInv, CallInv, Return, Awaited, Phases
<1>2. PICK answer \in {"success", "failure"} :
        Answer(answer) /\ (answer = "success" => Success)
  BY DEF Return
<1>3. /\ UNCHANGED registryVars
      /\ UNCHANGED <<name, fit, plan, at, res, stray, landed, lost>>
  BY DEF Return, request, handler, effects
<1>4. Serving' /\ booted' = booted /\ Dead' = Dead /\ Def' = Def /\ Known' = Known
  BY <1>1, <1>3, SameDef
<1>5. /\ pc' = "answered" /\ told' \in Seq(Tellable)
      /\ rows' \in Seq(Tellable \cup {"written", "dropped"})
      /\ Len(told') = Len(told) /\ Len(rows') = Len(told)
      /\ told'[Attempt'] = answer
  BY <1>1, <1>2, AnswerStep
<1>6. TypeOK'
  BY <1>1, <1>3, <1>4, <1>5 DEF TypeOK
<1>7. (Functional /\ Phases /\ InFlight)'
  BY <1>1, <1>3, <1>4, <1>5 DEF Functional, Phases, InFlight, Attempt
<1>8. NothingLeft'
  BY <1>1, <1>3 DEF NothingLeft, Open
<1>9. ASSUME NEW i \in DOMAIN plan, NEW c \in plan[i]
      PROVE  /\ c \in DOMAIN res /\ res[c] # "open" /\ ~ Unreadable(c)
             /\ res[c] = "failed" => Def.settles
             /\ IsWrite(c) /\ res[c] \in Bodies => Holds(c)
  <2>1. i \in 1..at
    BY <1>1 DEF TypeOK
  <2>2. c \in DOMAIN res
    BY <1>1, <2>1 DEF InFlight
  <2> QED
    BY <1>1, <2>2 DEF InFlight, Open, Throws
<1>10. ASSUME answer = "success", NEW i \in DOMAIN plan, NEW c \in Writes(plan[i])
       PROVE  \/ Holds(c)
              \/ res[c] = "failed"
              \/ res[c] = "declined" /\ ~ Def.checks
  <2>1. c \in plan[i] /\ IsWrite(c)
    BY DEF Writes
  <2>2. c \in DOMAIN res /\ res[c] \in Outcomes \ {"open"}
    BY <1>1, <1>9, <2>1 DEF TypeOK
  <2>3. res[c] = "declined" => ~ Def.checks
    BY <1>2, <1>10, <2>2 DEF Success
  <2> QED
    BY <1>9, <2>1, <2>2, <2>3 DEF Outcomes, Bodies
<1>11. AnswersAreWhole'
  <2>1. ASSUME NEW i \in DOMAIN plan', NEW c \in plan'[i]
        PROVE  /\ c \in DOMAIN res' /\ res'[c] # "open" /\ ~ Unreadable(c)'
               /\ res'[c] = "failed" => Def'.settles
    BY <1>3, <1>4, <1>9 DEF Unreadable
  <2>2. ASSUME Replied("success")', NEW i \in DOMAIN plan', NEW c \in Writes(plan'[i])
        PROVE  \/ \E k \in DOMAIN landed' : landed'[k] = c
               \/ res'[c] = "failed"
               \/ res'[c] = "declined" /\ ~ Def'.checks
    BY <1>3, <1>4, <1>5, <1>10, <2>2 DEF Replied, Holds
  <2> QED
    BY <2>1, <2>2 DEF AnswersAreWhole, Writes
<1> QED
  BY <1>6, <1>7, <1>8, <1>11 DEF CallInv

-----------------------------------------------------------------------------
(* authedPost.                                                             *)

LEMMA RepliesStep ==
  ASSUME IInv, NEW c \in Open, NEW body \in Bodies, Replies(c, body)
  PROVE  CallInv'
<1>1. TypeOK /\ Functional /\ Phases /\ InFlight /\ NothingLeft
  BY DEF IInv, CallInv
<1>2. /\ UNCHANGED registryVars /\ body \in Outcomes /\ Becomes(c, body)
      /\ UNCHANGED <<pc, name, fit, plan, at, told, rows, stray, lost>>
      /\ landed' = IF IsWrite(c) THEN Append(landed, c) ELSE landed
  BY DEF Replies, request, Bodies, Outcomes
<1>3. /\ c \in DOMAIN res /\ c \in CallType /\ res[c] = "open" /\ Open # {}
      /\ DOMAIN res' = DOMAIN res /\ res'[c] = body /\ Functional'
      /\ \A d \in DOMAIN res : d # c => res'[d] = res[d]
      /\ \A d \in DOMAIN res : res'[d] \in Outcomes
  BY <1>1, <1>2, BecomesStep
<1>4. Serving' = Serving /\ booted' = booted /\ Dead' = Dead /\ Def' = Def /\ Known' = Known
  BY <1>2, SameDef
<1>5. /\ landed' \in Seq(Writes(CallType)) /\ \A d : Holds(d) => Holds(d)'
      /\ IsWrite(c) => Holds(c)'
  <2>1. CASE IsWrite(c)
    BY <1>1, <1>2, <1>3, <2>1, MoreHolds DEF Writes
  <2>2. CASE ~ IsWrite(c)
    BY <1>1, <1>2, <2>2, SameHolds DEF TypeOK
  <2> QED
    BY <2>1, <2>2
<1>6. TypeOK'
  BY <1>1, <1>2, <1>3, <1>4, <1>5 DEF TypeOK
<1>7. Phases'
  BY <1>1, <1>2, <1>3, <1>4 DEF Phases, Attempt
<1>8. InFlight'
  BY <1>1, <1>2, <1>3, <1>4, <1>5 DEF InFlight, Bodies
<1>9. (NothingLeft /\ AnswersAreWhole)'
  BY <1>1, <1>2, <1>3 DEF NothingLeft, AnswersAreWhole, Replied, Attempt
<1> QED
  BY <1>3, <1>6, <1>7, <1>8, <1>9 DEF CallInv

LEMMA DeclinesStep ==
  ASSUME IInv, NEW c \in Open, Declines(c)
  PROVE  CallInv'
<1>1. TypeOK /\ Functional /\ Phases /\ InFlight /\ NothingLeft
  BY DEF IInv, CallInv
<1>2. /\ UNCHANGED registryVars /\ "declined" \in Outcomes /\ Becomes(c, "declined")
      /\ UNCHANGED <<pc, name, fit, plan, at, told, rows, stray, landed, lost>>
  BY DEF Declines, request, effects, Outcomes
<1>3. /\ c \in DOMAIN res /\ c \in CallType /\ res[c] = "open" /\ Open # {}
      /\ DOMAIN res' = DOMAIN res /\ res'[c] = "declined" /\ Functional'
      /\ \A d \in DOMAIN res : d # c => res'[d] = res[d]
      /\ \A d \in DOMAIN res : res'[d] \in Outcomes
  BY <1>1, <1>2, BecomesStep
<1>4. Serving' = Serving /\ booted' = booted /\ Dead' = Dead /\ Def' = Def /\ Known' = Known
  BY <1>2, SameDef
<1>5. TypeOK'
  BY <1>1, <1>2, <1>3, <1>4 DEF TypeOK
<1>6. Phases'
  BY <1>1, <1>2, <1>3, <1>4 DEF Phases, Attempt
<1>7. InFlight'
  BY <1>1, <1>2, <1>3, <1>4, SameHolds DEF InFlight, Bodies
<1>8. (NothingLeft /\ AnswersAreWhole)'
  BY <1>1, <1>2, <1>3 DEF NothingLeft, AnswersAreWhole, Replied, Attempt
<1> QED
  BY <1>3, <1>5, <1>6, <1>7, <1>8 DEF CallInv

(* A call that rejects ends the tool, unless it passes over failures.      *)
LEMMA RejectsStep ==
  ASSUME IInv, NEW c \in Open, Rejects(c),
         UNCHANGED registryVars, UNCHANGED <<name, fit, plan, at, landed>>,
         stray' \subseteq Writes(CallType), lost' \in BOOLEAN
  PROVE  CallInv'
<1>1. TypeOK /\ Functional /\ Phases /\ InFlight /\ NothingLeft
  BY DEF IInv, CallInv
<1>2. "failed" \in Outcomes /\ Becomes(c, "failed")
  BY DEF Rejects, Outcomes
<1>3. /\ c \in DOMAIN res /\ c \in CallType /\ res[c] = "open" /\ Open # {}
      /\ DOMAIN res' = DOMAIN res /\ res'[c] = "failed" /\ Functional'
      /\ \A d \in DOMAIN res : d # c => res'[d] = res[d]
      /\ \A d \in DOMAIN res : res'[d] \in Outcomes
  BY <1>1, <1>2, BecomesStep
<1>4. Serving' = Serving /\ booted' = booted /\ Dead' = Dead /\ Def' = Def /\ Known' = Known
  BY SameDef
<1>5. CASE pc = "running" /\ ~ Def.settles
  <2>1. Answer("error") /\ Attempt >= 1 /\ Serving
    BY <1>1, <1>5 DEF Rejects, Phases
  <2>2. /\ pc' = "answered" /\ told' \in Seq(Tellable)
        /\ rows' \in Seq(Tellable \cup {"written", "dropped"})
        /\ Len(told') = Len(told) /\ Len(rows') = Len(told)
        /\ told'[Attempt'] = "error"
    BY <1>1, <2>1, AnswerStep
  <2>3. TypeOK'
    BY <1>1, <1>3, <1>4, <2>2 DEF TypeOK
  <2>4. (Phases /\ InFlight)'
    BY <1>4, <2>1, <2>2 DEF Phases, InFlight, Attempt
  <2>5. (NothingLeft /\ AnswersAreWhole)'
    BY <2>2 DEF NothingLeft, AnswersAreWhole, Replied
  <2> QED
    BY <1>3, <2>3, <2>4, <2>5 DEF CallInv
<1>6. CASE ~ (pc = "running" /\ ~ Def.settles)
  <2>1. UNCHANGED <<pc, told, rows>>
    BY <1>6 DEF Rejects
  <2>2. TypeOK'
    BY <1>1, <1>3, <1>4, <2>1 DEF TypeOK
  <2>3. Phases'
    BY <1>1, <1>3, <1>4, <2>1 DEF Phases, Attempt
  <2>4. InFlight'
    BY <1>1, <1>3, <1>4, <1>6, <2>1, SameHolds DEF InFlight, Bodies
  <2>5. (NothingLeft /\ AnswersAreWhole)'
    BY <1>1, <1>3, <2>1 DEF NothingLeft, AnswersAreWhole, Replied, Attempt
  <2> QED
    BY <1>3, <2>2, <2>3, <2>4, <2>5 DEF CallInv
<1> QED
  BY <1>5, <1>6

LEMMA FailsStep ==
  ASSUME IInv, NEW c \in Open, Fails(c)
  PROVE  CallInv'
<1>1. /\ Rejects(c) /\ UNCHANGED registryVars /\ UNCHANGED <<name, fit, plan, at, landed>>
      /\ stray' = stray /\ lost' = lost
  BY DEF Fails, request, effects
<1>2. stray' \subseteq Writes(CallType) /\ lost' \in BOOLEAN
  BY <1>1 DEF IInv, CallInv, TypeOK
<1> QED
  BY <1>1, <1>2, RejectsStep

LEMMA LosesStep ==
  ASSUME IInv, NEW c \in Open, Loses(c)
  PROVE  CallInv'
<1>1. /\ Rejects(c) /\ UNCHANGED registryVars /\ UNCHANGED <<name, fit, plan, at, landed>>
      /\ stray' = stray \cup Writes({c}) /\ lost' = (lost \/ IsWrite(c))
  BY DEF Loses, request
<1>2. TypeOK /\ c \in CallType
  BY DEF IInv, CallInv, TypeOK, Open
<1>3. stray' \subseteq Writes(CallType)
  BY <1>1, <1>2 DEF TypeOK, Writes
<1>4. lost' \in BOOLEAN
  BY <1>1, <1>2 DEF TypeOK, IsWrite
<1> QED
  BY <1>1, <1>3, <1>4, RejectsStep

LEMMA StrayStep ==
  ASSUME IInv, NEW c \in stray, StrayLands(c) \/ StrayVanishes(c)
  PROVE  CallInv'
<1>1. TypeOK /\ Functional /\ Phases /\ InFlight /\ NothingLeft /\ AnswersAreWhole
  BY DEF IInv, CallInv
<1>2. /\ UNCHANGED registryVars /\ stray' = stray \ {c}
      /\ UNCHANGED <<pc, name, fit, plan, at, res, told, rows, lost>>
  BY DEF StrayLands, StrayVanishes, request, handler
<1>3. Serving' = Serving /\ booted' = booted /\ Dead' = Dead /\ Def' = Def /\ Known' = Known
  BY <1>2, SameDef
<1>4. landed' \in Seq(Writes(CallType)) /\ \A d : Holds(d) => Holds(d)'
  <2>1. CASE StrayLands(c)
    BY <1>1, <2>1, MoreHolds DEF StrayLands, TypeOK
  <2>2. CASE StrayVanishes(c)
    BY <1>1, <2>2, SameHolds DEF StrayVanishes, TypeOK
  <2> QED
    BY <2>1, <2>2
<1>5. TypeOK'
  BY <1>1, <1>2, <1>3, <1>4 DEF TypeOK
<1>6. (Functional /\ Phases)'
  BY <1>1, <1>2, <1>3 DEF Functional, Phases, Attempt
<1>7. InFlight'
  BY <1>1, <1>2, <1>3, <1>4 DEF InFlight
<1>8. (NothingLeft /\ AnswersAreWhole)'
  BY <1>1, <1>2, <1>3, <1>4
     DEF NothingLeft, AnswersAreWhole, Replied, Attempt, Open, Unreadable, Holds
<1> QED
  BY <1>5, <1>6, <1>7, <1>8 DEF CallInv

-----------------------------------------------------------------------------
(* The log rows and the process.                                           *)

LEMMA RowStep ==
  ASSUME IInv, NEW a \in DOMAIN rows, RowWritten(a) \/ RowFails(a)
  PROVE  CallInv'
<1>1. TypeOK /\ Functional /\ Phases /\ InFlight /\ NothingLeft /\ AnswersAreWhole
  BY DEF IInv, CallInv
<1>2. /\ UNCHANGED registryVars
      /\ UNCHANGED <<pc, name, fit, plan, at, res, told, stray, landed, lost>>
      /\ \E r \in {"written", "dropped"} : rows' = [rows EXCEPT ![a] = r]
  BY DEF RowWritten, RowFails, request, handler, effects
<1>3. Serving' = Serving /\ booted' = booted /\ Dead' = Dead /\ Def' = Def /\ Known' = Known
  BY <1>2, SameDef
<1>4. rows' \in Seq(Tellable \cup {"written", "dropped"}) /\ Len(rows') = Len(rows)
  BY <1>1, <1>2 DEF TypeOK
<1>5. TypeOK'
  BY <1>1, <1>2, <1>3, <1>4 DEF TypeOK
<1>6. (Functional /\ Phases)'
  BY <1>1, <1>2, <1>3 DEF Functional, Phases, Attempt
<1>7. InFlight'
  BY <1>1, <1>2, <1>3, SameHolds DEF InFlight
<1>8. (NothingLeft /\ AnswersAreWhole)'
  BY <1>1, <1>2, <1>3
     DEF NothingLeft, AnswersAreWhole, Replied, Attempt, Open, Unreadable
<1> QED
  BY <1>5, <1>6, <1>7, <1>8 DEF CallInv

LEMMA CrashStep ==
  ASSUME IInv, Crash
  PROVE  CallInv'
<1>1. TypeOK /\ Phases /\ Attempt >= 1 /\ Serving /\ told[Attempt] = "none"
  BY DEF IInv, CallInv, Crash, Phases
<1>2. /\ UNCHANGED registryVars /\ pc' = "answered" /\ res' = <<>>
      /\ UNCHANGED <<name, fit, plan, at, told, landed>>
      /\ stray' = stray \cup Writes(Open) /\ lost' = (lost \/ Writes(DOMAIN res) # {})
      /\ rows' = [a \in DOMAIN rows |->
                    IF rows[a] \in {"success", "error"} THEN "dropped" ELSE rows[a]]
  BY DEF Crash, request
<1>3. Serving' /\ booted' = booted /\ Dead' = Dead /\ Known' = Known
  BY <1>1, <1>2, SameDef
<1>4. rows' \in Seq(Tellable \cup {"written", "dropped"}) /\ Len(rows') = Len(rows)
  <2> DEFINE S == Tellable \cup {"written", "dropped"}
  <2>1. rows \in Seq(S) /\ DOMAIN rows = 1..Len(rows) /\ Len(rows) \in Nat
    BY <1>1 DEF TypeOK
  <2>2. \A a \in 1..Len(rows) : rows[a] \in S
    BY <2>1
  <2>3. rows' \in [1..Len(rows) -> S]
    BY <1>2, <2>1, <2>2
  <2> QED
    BY <2>1, <2>3
<1>5. DOMAIN res' = {} /\ Writes(Open) \subseteq Writes(CallType)
  BY <1>1, <1>2 DEF TypeOK, Writes, Open
<1>6. TypeOK'
  BY <1>1, <1>2, <1>3, <1>4, <1>5 DEF TypeOK
<1>7. (Functional /\ Phases /\ InFlight)'
  BY <1>1, <1>2, <1>3, <1>5 DEF Functional, Phases, InFlight, Attempt
<1>8. (NothingLeft /\ AnswersAreWhole)'
  BY <1>1, <1>2 DEF NothingLeft, AnswersAreWhole, Replied, Attempt
<1> QED
  BY <1>6, <1>7, <1>8 DEF CallInv

LEMMA BootStep ==
  ASSUME IInv, Boot, UNCHANGED callVars, RegistryInv'
  PROVE  CallInv'
<1>1. TypeOK /\ Functional /\ Phases
  BY DEF IInv, CallInv
<1>2. UNCHANGED <<pc, name, fit, plan, at, res, told, rows, stray, landed, lost>>
  BY DEF callVars, request, handler, effects
<1>3. pc = "idle"
  BY <1>1, TypedImports DEF Boot, Register, Positions, Phases, Serving
<1>4. Dead' = Dead /\ booted' \in 0..Dead /\ Known'
  BY <1>1, <1>2, <1>3 DEF RegistryInv, Dead, Known, Phases
<1>5. TypeOK'
  BY <1>1, <1>2, <1>4 DEF TypeOK
<1>6. (Functional /\ Phases /\ InFlight)'
  BY <1>1, <1>2, <1>3 DEF Functional, Phases, InFlight
<1>7. (NothingLeft /\ AnswersAreWhole)'
  BY <1>2, <1>3 DEF NothingLeft, AnswersAreWhole, Replied
<1> QED
  BY <1>5, <1>6, <1>7 DEF CallInv

-----------------------------------------------------------------------------

LEMMA NextStep ==
  ASSUME IInv, [Next]_vars
  PROVE  IInv'
<1>1. RegistryInv'
  BY RegistryNext DEF IInv
<1>2. CallInv'
  <2>1. CASE Boot /\ UNCHANGED callVars
    BY <1>1, <2>1, BootStep
  <2>2. CASE Ask
    BY <2>2, AskStep
  <2>3. CASE Retry
    BY <2>3, RetryStep
  <2>4. CASE GoOn
    BY <2>4, GoOnStep
  <2>5. CASE Execute
    BY <2>5, SdkRefusesStep, RefusesStep, BeginStep, HandlerThrowsStep, NextSetStep, ReturnStep
       DEF Execute
  <2>6. CASE Crash
    BY <2>6, CrashStep
  <2>7. ASSUME NEW c \in Open, Settles(c) PROVE CallInv'
    BY <2>7, FailsStep, LosesStep, DeclinesStep, RepliesStep DEF Settles
  <2>8. ASSUME NEW c \in stray, StrayLands(c) \/ StrayVanishes(c) PROVE CallInv'
    BY <2>8, StrayStep
  <2>9. ASSUME NEW a \in DOMAIN rows, RowWritten(a) \/ RowFails(a) PROVE CallInv'
    BY <2>9, RowStep
  <2>10. CASE UNCHANGED vars
    <3>1. /\ UNCHANGED registryVars
          /\ UNCHANGED <<pc, name, fit, plan, at, res, told, rows, stray, landed, lost>>
      BY <2>10 DEF vars, callVars, request, handler, effects
    <3>2. Def' = Def /\ Serving' = Serving /\ Dead' = Dead /\ booted' = booted /\ Known' = Known
      BY <3>1, SameDef
    <3>3. (TypeOK /\ Functional /\ Phases /\ InFlight)'
      BY <3>1, <3>2, SameHolds DEF IInv, CallInv, TypeOK, Functional, Phases, InFlight, Attempt
    <3>4. (NothingLeft /\ AnswersAreWhole)'
      BY <3>1, <3>2
         DEF IInv, CallInv, NothingLeft, AnswersAreWhole, Replied, Attempt, Open, Unreadable
    <3> QED
      BY <3>3, <3>4 DEF CallInv
  <2> QED
    BY <2>1, <2>2, <2>3, <2>4, <2>5, <2>6, <2>7, <2>8, <2>9, <2>10 DEF Next
<1> QED
  BY <1>1, <1>2 DEF IInv

(* The invariant holds in every state of every behaviour.                  *)
THEOREM Invariance == Spec => []IInv
BY InitIInv, NextStep, PTL DEF Spec

(* Whatever the catalogue, the variables of bindTool, executeTool and the  *)
(* backend calls keep their types; what is in flight belongs to the plan.  *)
THEOREM TypeCorrect == Spec => []TypeOK
<1>1. IInv => TypeOK
  BY DEF IInv, CallInv
<1> QED
  BY <1>1, Invariance, PTL

(* Whatever the catalogue: a tool answers other than by an error only when *)
(* every call its handler was to make has been made and has come back, and *)
(* a write it reports took effect.                                         *)
THEOREM TheAnswersAreWhole == Spec => []AnswersAreWhole
<1>1. IInv => AnswersAreWhole
  BY DEF IInv, CallInv
<1> QED
  BY <1>1, Invariance, PTL

=============================================================================
