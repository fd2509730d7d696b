---------------------------- MODULE OAuthProofs ----------------------------
(***************************************************************************)
(* Proofs about OAuth, for any number of codes, tokens, requests, clients  *)
(* and users.                                                              *)
(***************************************************************************)
EXTENDS OAuthInv, TLAPS

-----------------------------------------------------------------------------
(* Tables.                                                                 *)

(* An INSERT of a well-typed row keeps a table well typed, adds the key    *)
(* and disturbs no other row.                                              *)
LEMMA PutTable ==
  ASSUME NEW K, NEW V, NEW f, IsTable(f, K, V), NEW k \in K, NEW v \in V
  PROVE  /\ IsTable(Put(f, k, v), K, V)
         /\ DOMAIN Put(f, k, v) = DOMAIN f \cup {k}
         /\ Put(f, k, v)[k] = v
         /\ \A x \in DOMAIN f : x # k => Put(f, k, v)[x] = f[x]
BY DEF IsTable, Put

LEMMA EmptyTable == ASSUME NEW K, NEW V PROVE IsTable(Empty, K, V)
BY DEF IsTable, Empty

(* The UPDATE of markAuthCodeUsed.                                         *)
Burned(c) == [codes EXCEPT ![c].used = TRUE]

LEMMA BurnTable ==
  ASSUME IsTable(codes, Codes, CodeRow), NEW c
  PROVE  /\ IsTable(Burned(c), Codes, CodeRow)
         /\ DOMAIN Burned(c) = DOMAIN codes
         /\ c \in DOMAIN codes => Burned(c)[c].used
         /\ \A x \in DOMAIN codes :
              /\ codes[x].used => Burned(c)[x].used
              /\ Burned(c)[x].user = codes[x].user
              /\ Burned(c)[x].type = codes[x].type
              /\ Burned(c)[x].client = codes[x].client
              /\ Burned(c)[x].challenge = codes[x].challenge
              /\ Burned(c)[x].expires = codes[x].expires
BY DEF IsTable, Burned, CodeRow

(* A handler's locals are assigned in order.                               *)
LEMMA Nested ==
  ASSUME IInv
  PROVE  /\ DOMAIN minted \subseteq DOMAIN creds
         /\ DOMAIN creds \subseteq DOMAIN slug
         /\ DOMAIN slug \subseteq DOMAIN row
         /\ DOMAIN row \subseteq DOMAIN posted
         /\ DOMAIN posted \subseteq Reqs
BY DEF IInv, Minted, Resolved, Verified, Held, Snapshots, TypeOK, IsTable

-----------------------------------------------------------------------------
(* The initial state.                                                      *)

LEMMA InitIInv == Init => IInv
<1> SUFFICES ASSUME Init PROVE IInv
  OBVIOUS
<1>1. TypeOK
  BY EmptyTable, TTLAssumption DEF Init, TypeOK
<1>2. Control /\ Snapshots /\ LateIsDead /\ Verified /\ Resolved /\ Minted
  BY DEF Init, Empty, Control, Snapshots, LateIsDead, Verified, Resolved,
         Minted
<1>3. BurnNeedsProof
  BY DEF Init, Empty, BurnNeedsProof, IsUsed
<1> QED
  BY <1>1, <1>2, <1>3 DEF IInv

-----------------------------------------------------------------------------
(* The steps that write the table of clients or of codes, and the clock.   *)

LEMMA RegisterStep ==
  ASSUME IInv, NEW cl \in ClientIds, NEW s \in Slugs, Register(cl, s)
  PROVE  IInv'
<1> DEFINE new == Put(clients, cl, s)
<1>1. /\ clients' = new
      /\ UNCHANGED <<codes, tokens, now, pc, posted, row, slug, creds, minted>>
  BY DEF Register, locals
<1>2. IsTable(new, ClientIds, SlugValues) /\ DOMAIN clients \subseteq DOMAIN new
  <2>1. IsTable(clients, ClientIds, SlugValues) /\ s \in SlugValues
    BY DEF IInv, TypeOK, SlugValues
  <2>2. IsTable(Put(clients, cl, s), ClientIds, SlugValues)
    BY <2>1, PutTable
  <2>3. DOMAIN Put(clients, cl, s) = DOMAIN clients \cup {cl}
    BY DEF Put
  <2> QED
    BY <2>2, <2>3
<1> HIDE DEF new
<1>3. TypeOK'
  BY <1>1, <1>2 DEF IInv, TypeOK
<1>4. Control' /\ Snapshots' /\ LateIsDead' /\ Minted'
  BY <1>1 DEF IInv, Control, Snapshots, LateIsDead, IsDead, Minted
<1>5. Verified' /\ BurnNeedsProof'
  BY <1>1 DEF IInv, Verified, Held, Proves, IsUsed, BurnNeedsProof
<1>6. Resolved'
  BY <1>1, <1>2 DEF IInv, Resolved
<1> QED
  BY <1>3, <1>4, <1>5, <1>6 DEF IInv

LEMMA CallbackStep ==
  ASSUME IInv, NEW c \in Codes, NEW u \in Users, NEW ty \in Types,
         NEW cl \in ClientRefs, NEW ch \in Challenges,
         Callback(c, u, ty, cl, ch)
  PROVE  IInv'
<1> DEFINE new == [user |-> u, type |-> ty, client |-> cl, challenge |-> ch,
                   expires |-> now + CodeTTL, used |-> FALSE]
<1>1. /\ codes' = Put(codes, c, new)
      /\ c \notin DOMAIN codes
      /\ UNCHANGED <<clients, tokens, now, pc, posted, row, slug, creds, minted>>
  BY DEF Callback, locals
<1>2. new \in CodeRow /\ new.used = FALSE
  BY TTLAssumption DEF CodeRow, IInv, TypeOK
<1> HIDE DEF new
<1>3. /\ IsTable(Put(codes, c, new), Codes, CodeRow)
      /\ DOMAIN Put(codes, c, new) = DOMAIN codes \cup {c}
      /\ Put(codes, c, new)[c] = new
      /\ \A x \in DOMAIN codes : x # c => Put(codes, c, new)[x] = codes[x]
  BY <1>2, PutTable DEF IInv, TypeOK
<1>4. /\ DOMAIN codes' = DOMAIN codes \cup {c}
      /\ \A x \in DOMAIN codes : codes'[x] = codes[x]
      /\ ~ codes'[c].used
  BY <1>1, <1>2, <1>3
<1>5. TypeOK'
  BY <1>1, <1>3 DEF IInv, TypeOK
<1>6. Control' /\ Resolved' /\ Minted'
  BY <1>1 DEF IInv, Control, Resolved, Minted
<1>7. Snapshots' /\ LateIsDead'
  BY <1>1, <1>4 DEF IInv, Snapshots, LateIsDead, IsDead
<1>8. Verified'
  BY <1>1, <1>4 DEF IInv, Verified, Held, Proves, IsUsed
<1>9. BurnNeedsProof'
  BY <1>1, <1>4 DEF IInv, BurnNeedsProof, Proves, IsUsed
<1> QED
  BY <1>5, <1>6, <1>7, <1>8, <1>9 DEF IInv

LEMMA TickStep ==
  ASSUME IInv, Tick
  PROVE  IInv'
<1> USE DEF IInv, Tick, tables, locals
<1>1. TypeOK'
  BY TTLAssumption DEF TypeOK
<1>2. LateIsDead'
  BY TTLAssumption DEF LateIsDead, IsDead, TypeOK, IsTable, CodeRow, Snapshots
<1>3. (Control /\ Snapshots /\ Verified /\ Resolved /\ Minted)'
  BY DEF Control, Snapshots, Verified, Held, Proves, IsUsed, Resolved, Minted
<1>4. BurnNeedsProof'
  BY DEF BurnNeedsProof, Proves, IsUsed
<1> QED
  BY <1>1, <1>2, <1>3, <1>4
-----------------------------------------------------------------------------
(* The steps of a /token handler.  Most of them move one handler and       *)
(* assign one of its locals.                                               *)

(* Where the handlers are after handler r moved.                           *)
LEMMA GotoStep ==
  ASSUME TypeOK, NEW r \in Reqs, NEW from, NEW to, Goto(r, from, to),
         to \in {"idle"} \cup InFlight \cup Ended
  PROVE  /\ pc[r] = from
         /\ pc' \in [Reqs -> {"idle"} \cup InFlight \cup Ended]
         /\ pc'[r] = to
         /\ \A q \in Reqs : q # r => pc'[q] = pc[q]
BY DEF TypeOK, Goto

(* Steps that only move handlers, from where they hold nothing they should *)
(* not: refusals, failures, answers and crashes.                           *)
LEMMA QuietStep ==
  ASSUME IInv,
         pc' \in [Reqs -> {"idle"} \cup InFlight \cup Ended],
         UNCHANGED <<clients, codes, tokens, now, posted, row, slug, creds,
                     minted>>,
         \A q \in Reqs :
           \/ pc'[q] = pc[q]
           \/ pc'[q] = "refused" /\ pc[q] \in {"idle", "posted", "read"}
           \/ pc'[q] = "checked" /\ pc[q] = "read" /\ Acceptable(q)
           \/ pc'[q] = "badGateway" /\ pc[q] = "named" 
           \/ pc'[q] = "granted" /\ pc[q] = "stored"
           \/ pc'[q] \in {"failed", "lost"} /\ pc[q] \in InFlight
           \/ pc'[q] = "failed" /\ pc[q] = "idle"
  PROVE  IInv'
<1>1. TypeOK'
  BY DEF IInv, TypeOK
<1>2. Control'
  BY DEF IInv, Control, InFlight
<1>3. Snapshots' /\ LateIsDead' /\ Resolved' /\ Minted'
  BY DEF IInv, Snapshots, LateIsDead, IsDead, Resolved, Minted
<1>4. Verified'
  <2> SUFFICES ASSUME NEW q \in Reqs, pc'[q] = "checked", pc[q] = "read",
                      Acceptable(q)
               PROVE  Held(q)
    BY DEF IInv, Verified, Held, Proves, IsUsed, InFlight
  <2> QED
    BY DEF IInv, Control, Acceptable, Held, Proves, Snapshots, LateIsDead
<1>5. BurnNeedsProof'
  BY DEF IInv, BurnNeedsProof, Proves, IsUsed, InFlight, TypeOK, IsTable
<1> QED
  BY <1>1, <1>2, <1>3, <1>4, <1>5 DEF IInv

LEMMA PostMalformedStep ==
  ASSUME IInv, NEW r \in Reqs, PostMalformed(r)
  PROVE  IInv'
<1>1. \A q \in Reqs : pc'[q] = pc[q] \/ (pc[q] = "idle" /\ pc'[q] \in {"refused", "failed"})
  BY GotoStep DEF PostMalformed, Ended, IInv
<1>2. pc' \in [Reqs -> {"idle"} \cup InFlight \cup Ended]
  BY GotoStep DEF PostMalformed, Ended, IInv
<1> QED
  BY <1>1, <1>2, QuietStep DEF PostMalformed, tables, locals

LEMMA CheckCodeStep ==
  ASSUME IInv, NEW r \in Reqs, CheckCode(r)
  PROVE  IInv'
<1>1. PICK end \in IF Acceptable(r) THEN {"checked"} ELSE {"refused", "failed"} :
             pc[r] = "read" /\ Goto(r, "read", end)
  BY DEF CheckCode
<1>2. /\ pc[r] = "read" /\ pc'[r] = end
      /\ pc' \in [Reqs -> {"idle"} \cup InFlight \cup Ended]
      /\ \A q \in Reqs : q # r => pc'[q] = pc[q]
  BY <1>1, GotoStep DEF Ended, InFlight, IInv
<1> QED
  BY <1>1, <1>2, QuietStep DEF CheckCode, tables, locals, InFlight

LEMMA QuietHandlerStep ==
  ASSUME IInv, NEW r \in Reqs, ResolveFails(r) \/ Respond(r) \/ DbFails(r)
  PROVE  IInv'
<1>1. CASE ResolveFails(r)
  <2>1. \A q \in Reqs :
          pc'[q] = pc[q] \/ (pc[q] = "named" /\ pc'[q] = "badGateway")
    BY <1>1, GotoStep DEF ResolveFails, Ended, IInv
  <2>2. pc' \in [Reqs -> {"idle"} \cup InFlight \cup Ended]
    BY <1>1, GotoStep DEF ResolveFails, Ended, IInv
  <2> QED
    BY <1>1, <2>1, <2>2, QuietStep DEF ResolveFails, tables, locals
<1>2. CASE Respond(r)
  <2>1. \A q \in Reqs :
          pc'[q] = pc[q] \/ (pc[q] = "stored" /\ pc'[q] = "granted")
    BY <1>2, GotoStep DEF Respond, Ended, IInv
  <2>2. pc' \in [Reqs -> {"idle"} \cup InFlight \cup Ended]
    BY <1>2, GotoStep DEF Respond, Ended, IInv
  <2> QED
    BY <1>2, <2>1, <2>2, QuietStep DEF Respond, tables, locals
<1>3. CASE DbFails(r)
  <2>1. \A q \in Reqs :
          pc'[q] = pc[q] \/ (pc[q] \in InFlight /\ pc'[q] = "failed")
    BY <1>3 DEF DbFails, InFlight, IInv, TypeOK
  <2>2. pc' \in [Reqs -> {"idle"} \cup InFlight \cup Ended]
    BY <1>3 DEF DbFails, Ended, IInv, TypeOK
  <2> QED
    BY <1>3, <2>1, <2>2, QuietStep DEF DbFails, tables, locals
<1> QED
  BY <1>1, <1>2, <1>3

LEMMA CrashStep ==
  ASSUME IInv, Crash
  PROVE  IInv'
<1>1. \A q \in Reqs :
        pc'[q] = pc[q] \/ (pc[q] \in InFlight /\ pc'[q] = "lost")
  BY DEF Crash
<1>2. pc' \in [Reqs -> {"idle"} \cup InFlight \cup Ended]
  BY DEF Crash, Ended, IInv, TypeOK
<1> QED
  BY <1>1, <1>2, QuietStep DEF Crash, tables, locals

(* A request arrives: the only step that binds posted[r].                  *)
LEMMA PostTokenStep ==
  ASSUME IInv, NEW r \in Reqs, NEW c \in Codes \cup {UnknownCode},
         NEW v \in Verifiers, PostToken(r, c, v)
  PROVE  IInv'
<1> DEFINE body == [code |-> c, verifier |-> v, late |-> IsDead(c)]
<1>1. /\ posted' = Put(posted, r, body)
      /\ UNCHANGED <<clients, codes, tokens, now, row, slug, creds, minted>>
  BY DEF PostToken, tables
<1>2. /\ pc[r] = "idle" /\ pc'[r] = "posted"
      /\ pc' \in [Reqs -> {"idle"} \cup InFlight \cup Ended]
      /\ \A q \in Reqs : q # r => pc'[q] = pc[q]
  BY GotoStep DEF PostToken, InFlight, IInv
<1>3. body \in Body
  BY DEF Body, IsDead, IInv, TypeOK, IsTable, CodeRow
<1>4. body.code = c /\ (body.late => IsDead(c))
  OBVIOUS
<1> HIDE DEF body
<1>5. IsTable(Put(posted, r, body), Reqs, Body)
  BY <1>3, PutTable DEF IInv, TypeOK
<1>6. /\ DOMAIN posted' = DOMAIN posted \cup {r}
      /\ posted'[r] = body
      /\ \A x \in DOMAIN posted : x # r => posted'[x] = posted[x]
  BY <1>1 DEF Put
<1>7. /\ r \notin DOMAIN posted /\ r \notin DOMAIN row /\ r \notin DOMAIN slug
      /\ r \notin DOMAIN creds /\ r \notin DOMAIN minted
  BY <1>2 DEF IInv, Control
<1>8. TypeOK'
  BY <1>1, <1>2, <1>5 DEF IInv, TypeOK
<1>9. Control'
  BY <1>1, <1>2, <1>6, <1>7 DEF IInv, Control
<1>10. Snapshots' /\ LateIsDead'
  BY <1>1, <1>4, <1>6, <1>7 DEF IInv, Snapshots, LateIsDead, IsDead
<1>11. Verified'
  BY <1>1, <1>2, <1>6, <1>7 DEF IInv, Verified, Held, Proves, IsUsed
<1>12. Resolved' /\ Minted'
  BY <1>1 DEF IInv, Resolved, Minted
<1>13. BurnNeedsProof'
  <2> SUFFICES ASSUME NEW d \in Codes, IsUsed(d)
               PROVE  \E q \in DOMAIN row' :
                        /\ Proves(q, d)' /\ ~ row'[q].used
                        /\ pc'[q] \in {"burned", "named", "resolved", "stored",
                                       "badGateway", "granted", "failed", "lost"}
    BY <1>1 DEF BurnNeedsProof, IsUsed
  <2>1. PICK q \in DOMAIN row :
          /\ Proves(q, d) /\ ~ row[q].used
          /\ pc[q] \in {"burned", "named", "resolved", "stored",
                        "badGateway", "granted", "failed", "lost"}
    BY DEF IInv, BurnNeedsProof
  <2>2. q # r /\ q \in Reqs
    BY <1>7 DEF IInv, TypeOK, IsTable
  <2> QED
    BY <1>1, <1>2, <1>6, <2>1, <2>2 DEF Proves
<1> QED
  BY <1>8, <1>9, <1>10, <1>11, <1>12, <1>13 DEF IInv
(* The SELECT: a row copied, or a refusal.                                 *)
LEMMA ReadCodeStep ==
  ASSUME IInv, NEW r \in Reqs, ReadCode(r)
  PROVE  IInv'
<1> DEFINE c == posted[r].code
<1>1. /\ pc[r] = "posted"
      /\ UNCHANGED <<clients, codes, tokens, now, posted, slug, creds, minted>>
  BY DEF ReadCode, tables
<1>2. /\ r \in DOMAIN posted /\ r \notin DOMAIN row /\ r \notin DOMAIN slug
      /\ r \notin DOMAIN creds /\ r \notin DOMAIN minted
  BY <1>1 DEF IInv, Control
<1>3. CASE c \notin DOMAIN codes
  <2>1. Goto(r, "posted", "refused") /\ UNCHANGED row
    BY <1>3 DEF ReadCode
  <2>2. \A q \in Reqs : pc'[q] = pc[q] \/ (pc[q] = "posted" /\ pc'[q] = "refused")
    BY <2>1, GotoStep DEF Ended, IInv
  <2>3. pc' \in [Reqs -> {"idle"} \cup InFlight \cup Ended]
    BY <2>1, GotoStep DEF Ended, IInv
  <2> QED
    BY <1>1, <2>1, <2>2, <2>3, QuietStep
<1>4. CASE c \in DOMAIN codes
  <2>1. Goto(r, "posted", "read") /\ row' = Put(row, r, codes[c])
    BY <1>4 DEF ReadCode
  <2>2. /\ pc'[r] = "read"
        /\ pc' \in [Reqs -> {"idle"} \cup InFlight \cup Ended]
        /\ \A q \in Reqs : q # r => pc'[q] = pc[q]
    BY <2>1, GotoStep DEF InFlight, IInv
  <2>3. codes[c] \in CodeRow
    BY <1>4 DEF IInv, TypeOK, IsTable
  <2>4. IsTable(Put(row, r, codes[c]), Reqs, CodeRow)
    BY <2>3, PutTable DEF IInv, TypeOK
  <2>5. /\ DOMAIN row' = DOMAIN row \cup {r}
        /\ row'[r] = codes[c]
        /\ \A x \in DOMAIN row : x # r => row'[x] = row[x]
    BY <2>1 DEF Put
  <2>6. TypeOK'
    BY <1>1, <2>1, <2>2, <2>4 DEF IInv, TypeOK
  <2>7. Control'
    BY <1>1, <1>2, <2>2, <2>5 DEF IInv, Control
  <2>8. Snapshots' /\ LateIsDead'
    BY <1>1, <1>2, <1>4, <2>5 DEF IInv, Snapshots, LateIsDead, IsDead
  <2>9. Verified'
    BY <1>1, <1>2, <2>2, <2>5 DEF IInv, Verified, Held, Proves, IsUsed
  <2>10. Resolved'
    BY <1>1, <1>2, <2>5, Nested DEF IInv, Resolved
  <2>11. Minted'
    <3>1. \A q \in DOMAIN minted : row'[q] = row[q]
      BY <1>2, <2>5, Nested
    <3> QED
      BY <1>1, <3>1 DEF IInv, Minted
  <2>12. BurnNeedsProof'
    BY <1>1, <1>2, <2>2, <2>5
    DEF IInv, BurnNeedsProof, Proves, IsUsed, TypeOK, IsTable
  <2> QED
    BY <2>6, <2>7, <2>8, <2>9, <2>10, <2>11, <2>12 DEF IInv
<1> QED
  BY <1>3, <1>4

(* The UPDATE that burns the code, acknowledged or not.                    *)
LEMMA BurnStep ==
  ASSUME IInv, NEW r \in Reqs, NEW to \in {"burned", "failed"},
         Goto(r, "checked", to), codes' = Burned(posted[r].code),
         UNCHANGED <<clients, tokens, now, posted, row, slug, creds, minted>>
  PROVE  IInv'
<1> DEFINE c == posted[r].code
<1>1. /\ pc[r] = "checked" /\ pc'[r] = to
      /\ pc' \in [Reqs -> {"idle"} \cup InFlight \cup Ended]
      /\ \A q \in Reqs : q # r => pc'[q] = pc[q]
  BY GotoStep DEF InFlight, Ended, IInv
<1>2. Held(r) /\ c \in DOMAIN codes
  BY <1>1 DEF IInv, Verified, Held, Proves
<1>3. IsTable(Burned(c), Codes, CodeRow)
  BY BurnTable DEF IInv, TypeOK
<1>4. /\ DOMAIN codes' = DOMAIN codes
      /\ codes'[c].used
      /\ \A x \in DOMAIN codes :
           /\ x # c => codes'[x] = codes[x]
           /\ codes[x].used => codes'[x].used
           /\ codes'[x].user = codes[x].user
           /\ codes'[x].type = codes[x].type
           /\ codes'[x].client = codes[x].client
           /\ codes'[x].challenge = codes[x].challenge
           /\ codes'[x].expires = codes[x].expires
  BY <1>2 DEF Burned, IInv, TypeOK, IsTable, CodeRow
<1>5. TypeOK'
  BY <1>1, <1>3 DEF IInv, TypeOK
<1>6. Control'
  BY <1>1 DEF IInv, Control
<1>7. Snapshots' /\ LateIsDead'
  BY <1>4 DEF IInv, Snapshots, LateIsDead, IsDead
<1>8. Verified'
  BY <1>1, <1>2, <1>4 DEF IInv, Verified, Held, Proves, IsUsed
<1>9. Resolved' /\ Minted'
  BY DEF IInv, Resolved, Minted
<1>10. BurnNeedsProof'
  <2> SUFFICES ASSUME NEW d \in Codes, IsUsed(d)'
               PROVE  \E q \in DOMAIN row :
                        /\ Proves(q, d)' /\ ~ row[q].used
                        /\ pc'[q] \in {"burned", "named", "resolved", "stored",
                                       "badGateway", "granted", "failed", "lost"}
    BY DEF BurnNeedsProof
  <2>1. CASE d = c
    BY <1>1, <1>2, <1>4, <2>1 DEF Held, Proves
  <2>2. CASE d # c
    BY <1>1, <1>4, <2>2 DEF IInv, BurnNeedsProof, IsUsed, Proves, TypeOK, IsTable
  <2> QED
    BY <2>1, <2>2
<1> QED
  BY <1>5, <1>6, <1>7, <1>8, <1>9, <1>10 DEF IInv
LEMMA FindClientStep ==
  ASSUME IInv, NEW r \in Reqs, FindClient(r)
  PROVE  IInv'
<1> DEFINE cl == row[r].client
           name == IF cl \in DOMAIN clients THEN clients[cl] ELSE DefaultSlug
<1>1. /\ slug' = Put(slug, r, name)
      /\ UNCHANGED <<clients, codes, tokens, now, posted, row, creds, minted>>
  BY DEF FindClient, tables
<1>2. /\ pc[r] = "burned" /\ pc'[r] = "named"
      /\ pc' \in [Reqs -> {"idle"} \cup InFlight \cup Ended]
      /\ \A q \in Reqs : q # r => pc'[q] = pc[q]
  BY GotoStep DEF FindClient, InFlight, IInv
<1>3. name \in SlugValues /\ (name # DefaultSlug => cl \in DOMAIN clients)
  BY DEF IInv, TypeOK, IsTable, SlugValues
<1> HIDE DEF name
<1>4. /\ r \in DOMAIN row /\ r \notin DOMAIN slug
      /\ r \notin DOMAIN creds /\ r \notin DOMAIN minted
      /\ Held(r) /\ IsUsed(posted[r].code)
  BY <1>2 DEF IInv, Control, Verified
<1>5. IsTable(Put(slug, r, name), Reqs, SlugValues)
  BY <1>3, PutTable DEF IInv, TypeOK
<1>6. /\ DOMAIN slug' = DOMAIN slug \cup {r} /\ slug'[r] = name
      /\ \A x \in DOMAIN slug : slug'[x] = slug[x]
  BY <1>1, <1>4 DEF Put
<1>7. TypeOK'
  BY <1>1, <1>2, <1>5 DEF IInv, TypeOK
<1>8. Control'
  BY <1>1, <1>2, <1>4, <1>6 DEF IInv, Control
<1>9. Snapshots' /\ LateIsDead'
  BY <1>1 DEF IInv, Snapshots, LateIsDead, IsDead
<1>10. Verified'
  BY <1>1, <1>2, <1>4, <1>6 DEF IInv, Verified, Held, Proves, IsUsed
<1>11. Resolved'
  BY <1>1, <1>3, <1>4, <1>6 DEF IInv, Resolved
<1>12. Minted'
  <2>1. \A q \in DOMAIN minted : slug'[q] = slug[q]
    BY <1>6, Nested
  <2> QED
    BY <1>1, <2>1 DEF IInv, Minted
<1>13. BurnNeedsProof'
  BY <1>1, <1>2 DEF IInv, BurnNeedsProof, Proves, IsUsed, TypeOK, IsTable
<1> QED
  BY <1>7, <1>8, <1>9, <1>10, <1>11, <1>12, <1>13 DEF IInv

LEMMA ResolveStep ==
  ASSUME IInv, NEW r \in Reqs, Resolve(r)
  PROVE  IInv'
<1> DEFINE cr == [user |-> row[r].user, slug |-> slug[r]]
<1>1. /\ creds' = Put(creds, r, cr)
      /\ UNCHANGED <<clients, codes, tokens, now, posted, row, slug, minted>>
  BY DEF Resolve, tables
<1>2. /\ pc[r] = "named" /\ pc'[r] = "resolved"
      /\ pc' \in [Reqs -> {"idle"} \cup InFlight \cup Ended]
      /\ \A q \in Reqs : q # r => pc'[q] = pc[q]
  BY GotoStep DEF Resolve, InFlight, IInv
<1>3. /\ r \in DOMAIN row /\ r \in DOMAIN slug
      /\ r \notin DOMAIN creds /\ r \notin DOMAIN minted
  BY <1>2, Nested DEF IInv, Control
<1>4. cr \in Credential
  BY <1>3 DEF Credential, IInv, TypeOK, IsTable, CodeRow
<1>5. IsTable(Put(creds, r, cr), Reqs, Credential)
  <2> HIDE DEF cr
  <2> QED
    BY <1>4, PutTable DEF IInv, TypeOK
<1>6. /\ DOMAIN creds' = DOMAIN creds \cup {r} /\ creds'[r] = cr
      /\ \A x \in DOMAIN creds : creds'[x] = creds[x]
  BY <1>1, <1>3 DEF Put
<1>7. TypeOK'
  BY <1>1, <1>2, <1>5 DEF IInv, TypeOK
<1>8. Control'
  BY <1>1, <1>2, <1>3, <1>6 DEF IInv, Control
<1>9. Snapshots' /\ LateIsDead'
  BY <1>1 DEF IInv, Snapshots, LateIsDead, IsDead
<1>10. Verified'
  BY <1>1, <1>2, <1>3 DEF IInv, Verified, Held, Proves, IsUsed
<1>11. Resolved'
  BY <1>1, <1>3, <1>6 DEF IInv, Resolved
<1>12. Minted'
  <2>1. \A q \in DOMAIN minted : creds'[q] = creds[q] /\ q \in DOMAIN creds'
    BY <1>6, Nested
  <2> QED
    BY <1>1, <2>1 DEF IInv, Minted
<1>13. BurnNeedsProof'
  BY <1>1, <1>2 DEF IInv, BurnNeedsProof, Proves, IsUsed, TypeOK, IsTable
<1> QED
  BY <1>7, <1>8, <1>9, <1>10, <1>11, <1>12, <1>13 DEF IInv
(* The INSERT of the token, acknowledged or not.                           *)
LEMMA InsertStep ==
  ASSUME IInv, NEW r \in Reqs, NEW t \in Tokens, NEW to \in {"stored", "failed"},
         Goto(r, "resolved", to), InsertRow(r, t)
  PROVE  IInv'
<1> DEFINE new == [user |-> row[r].user, type |-> row[r].type,
                   client |-> row[r].client, slug |-> slug[r],
                   jwt |-> creds[r]]
<1>1. /\ t \notin DOMAIN tokens /\ row[r].type \in TokenTypes
      /\ minted' = Put(minted, r, t) /\ tokens' = Put(tokens, t, new)
      /\ UNCHANGED <<clients, codes, now, posted, row, slug, creds>>
  BY DEF InsertRow
<1>2. /\ pc[r] = "resolved" /\ pc'[r] = to
      /\ pc' \in [Reqs -> {"idle"} \cup InFlight \cup Ended]
      /\ \A q \in Reqs : q # r => pc'[q] = pc[q]
  BY GotoStep DEF InFlight, Ended, IInv
<1>3. /\ r \in DOMAIN row /\ r \in DOMAIN slug
      /\ r \in DOMAIN creds /\ r \notin DOMAIN minted
  BY <1>2, Nested DEF IInv, Control
<1>4. new \in TokenRow
  BY <1>1, <1>3 DEF TokenRow, IInv, TypeOK, IsTable, CodeRow
<1>5. /\ IsTable(Put(tokens, t, new), Tokens, TokenRow)
      /\ IsTable(Put(minted, r, t), Reqs, Tokens)
  <2> HIDE DEF new
  <2>1. IsTable(Put(tokens, t, new), Tokens, TokenRow)
    BY <1>4, PutTable DEF IInv, TypeOK
  <2>2. IsTable(Put(minted, r, t), Reqs, Tokens)
    BY PutTable DEF IInv, TypeOK
  <2> QED
    BY <2>1, <2>2
<1>6. /\ DOMAIN tokens' = DOMAIN tokens \cup {t} /\ tokens'[t] = new
      /\ \A x \in DOMAIN tokens : tokens'[x] = tokens[x]
  BY <1>1 DEF Put
<1>7. /\ DOMAIN minted' = DOMAIN minted \cup {r} /\ minted'[r] = t
      /\ \A x \in DOMAIN minted : minted'[x] = minted[x]
  BY <1>1, <1>3 DEF Put
<1>8. TypeOK'
  BY <1>1, <1>2, <1>5 DEF IInv, TypeOK
<1>9. Control'
  BY <1>1, <1>2, <1>3, <1>7 DEF IInv, Control
<1>10. Snapshots' /\ LateIsDead'
  BY <1>1 DEF IInv, Snapshots, LateIsDead, IsDead
<1>11. Verified'
  BY <1>1, <1>2, <1>3 DEF IInv, Verified, Held, Proves, IsUsed
<1>12. Resolved'
  BY <1>1 DEF IInv, Resolved
<1>13. Minted'
  <2> HIDE DEF new
  <2>1. \A q \in DOMAIN minted : minted[q] \in DOMAIN tokens /\ minted[q] # t
    BY <1>1 DEF IInv, Minted
  <2>2. tokens'[t] =
          [user |-> row'[r].user, type |-> row'[r].type,
           client |-> row'[r].client, slug |-> slug'[r], jwt |-> creds'[r]]
    BY <1>1, <1>6 DEF new
  <2>3. \A q \in DOMAIN minted' :
          /\ q \in DOMAIN creds' /\ minted'[q] \in DOMAIN tokens'
          /\ tokens'[minted'[q]] =
               [user |-> row'[q].user, type |-> row'[q].type,
                client |-> row'[q].client, slug |-> slug'[q], jwt |-> creds'[q]]
    BY <1>1, <1>3, <1>6, <1>7, <2>1, <2>2 DEF IInv, Minted
  <2>4. \A q, p \in DOMAIN minted' : minted'[p] = minted'[q] => p = q
    BY <1>7, <2>1 DEF IInv, Minted
  <2>5. \A x \in DOMAIN tokens' : \E q \in DOMAIN minted' : minted'[q] = x
    BY <1>6, <1>7 DEF IInv, Minted
  <2> QED
    BY <2>3, <2>4, <2>5 DEF Minted
<1>14. BurnNeedsProof'
  BY <1>1, <1>2 DEF IInv, BurnNeedsProof, Proves, IsUsed, TypeOK, IsTable
<1> QED
  BY <1>8, <1>9, <1>10, <1>11, <1>12, <1>13, <1>14 DEF IInv

-----------------------------------------------------------------------------
(* Every step of the specification.                                        *)

LEMMA StutterStep == IInv /\ UNCHANGED vars => IInv'
<1> SUFFICES ASSUME IInv, UNCHANGED vars PROVE IInv'
  OBVIOUS
<1>1. pc' \in [Reqs -> {"idle"} \cup InFlight \cup Ended]
  BY DEF vars, IInv, TypeOK
<1> QED
  BY <1>1, QuietStep DEF vars

LEMMA HandlerStep ==
  ASSUME IInv, NEW r \in Reqs, Handler(r)
  PROVE  IInv'
<1>1. CASE ReadCode(r)
  BY <1>1, ReadCodeStep
<1>2. CASE CheckCode(r)
  BY <1>2, CheckCodeStep
<1>3. CASE BurnCode(r)
  BY <1>3, BurnStep DEF BurnCode, Burned, locals
<1>4. CASE FindClient(r)
  BY <1>4, FindClientStep
<1>5. CASE Resolve(r)
  BY <1>5, ResolveStep
<1>6. CASE ResolveFails(r) \/ Respond(r) \/ DbFails(r)
  BY <1>6, QuietHandlerStep
<1>7. CASE \E t \in Tokens : InsertToken(r, t)
  BY <1>7, InsertStep DEF InsertToken
<1>8. CASE BurnUnacknowledged(r)
  BY <1>8, BurnStep DEF BurnUnacknowledged, Burned, locals
<1>9. CASE \E t \in Tokens : InsertUnacknowledged(r, t)
  BY <1>9, InsertStep DEF InsertUnacknowledged
<1> QED
  BY <1>1, <1>2, <1>3, <1>4, <1>5, <1>6, <1>7, <1>8, <1>9 DEF Handler

LEMMA NextStep == IInv /\ [Next]_vars => IInv'
<1> SUFFICES ASSUME IInv, [Next]_vars PROVE IInv'
  OBVIOUS
<1>1. CASE Arrival
  <2>1. CASE \E cl \in ClientIds, s \in Slugs : Register(cl, s)
    BY <2>1, RegisterStep
  <2>2. CASE \E c \in Codes, u \in Users, ty \in Types, ch \in Challenges :
               \E cl \in DOMAIN clients \cup {UnknownClient} :
                 Callback(c, u, ty, cl, ch)
    <3>1. DOMAIN clients \cup {UnknownClient} \subseteq ClientRefs
      BY DEF IInv, TypeOK, IsTable, ClientRefs
    <3> QED
      BY <2>2, <3>1, CallbackStep
  <2>3. CASE \E r \in Reqs : PostMalformed(r)
    BY <2>3, PostMalformedStep
  <2>4. CASE \E r \in Reqs, v \in Verifiers :
               \E c \in DOMAIN codes \cup {UnknownCode} : PostToken(r, c, v)
    <3>1. DOMAIN codes \subseteq Codes
      BY DEF IInv, TypeOK, IsTable
    <3> QED
      BY <2>4, <3>1, PostTokenStep
  <2> QED
    BY <1>1, <2>1, <2>2, <2>3, <2>4 DEF Arrival
<1>2. CASE \E r \in Reqs : Handler(r)
  BY <1>2, HandlerStep
<1>3. CASE Crash
  BY <1>3, CrashStep
<1>4. CASE Tick
  BY <1>4, TickStep
<1>5. CASE UNCHANGED vars
  BY <1>5, StutterStep
<1> QED
  BY <1>1, <1>2, <1>3, <1>4, <1>5 DEF Next

(* IInv is an invariant of the exchange.                                   *)
THEOREM Invariance == Spec => []IInv
BY InitIInv, NextStep, PTL DEF Spec
-----------------------------------------------------------------------------
(* What follows from it.                                                   *)

(* Type correctness: in particular no token row holds a company type that  *)
(* McpAccessTokens would have refused.                                     *)
THEOREM TypeCorrect == Spec => []TypeOK
<1>1. IInv => TypeOK
  BY DEF IInv
<1> QED
  BY <1>1, Invariance, PTL

(* markAuthCodeUsed runs only for a live code and the right verifier.      *)
THEOREM BurnIsProved == Spec => []BurnNeedsProof
<1>1. IInv => BurnNeedsProof
  BY DEF IInv
<1> QED
  BY <1>1, Invariance, PTL

(* A request sent after its code was burned or expired ends without a      *)
(* write and without credentials.                                          *)
THEOREM LateIsRefused == Spec => []LateRefused
<1>1. IInv => LateRefused
  <2> SUFFICES ASSUME IInv, NEW r \in DOMAIN posted, posted[r].late
               PROVE  /\ pc[r] \in {"posted", "read", "refused", "failed", "lost"}
                      /\ r \notin DOMAIN creds
    BY DEF LateRefused
  <2>1. r \in Reqs
    BY DEF IInv, TypeOK, IsTable
  <2>2. ~ Held(r)
    BY DEF Held
  <2>3. r \notin DOMAIN slug /\ pc[r] \notin {"checked", "burned"}
    BY <2>1, <2>2 DEF IInv, Verified
  <2>4. r \notin DOMAIN creds /\ r \notin DOMAIN minted
    BY <2>3, Nested
  <2>5. pc[r] \in {"idle"} \cup InFlight \cup Ended
    BY <2>1 DEF IInv, TypeOK
  <2> QED
    BY <2>1, <2>3, <2>4, <2>5 DEF IInv, Control, InFlight, Ended
<1> QED
  BY <1>1, Invariance, PTL

(* resolveUserAuth is reached only after the code is burned.               *)
THEOREM CredsComeAfterBurn == Spec => []CredsAfterBurn
<1>1. IInv => CredsAfterBurn
  <2> SUFFICES ASSUME IInv, NEW r \in DOMAIN creds
               PROVE  IsUsed(posted[r].code)
    BY DEF CredsAfterBurn
  <2>1. r \in DOMAIN slug /\ r \in Reqs
    BY Nested
  <2> QED
    BY <2>1 DEF IInv, Verified
<1> QED
  BY <1>1, Invariance, PTL

(* A 200 is never sent for a token that is not in the table.               *)
THEOREM GrantsAreDurable == Spec => []GrantIsDurable
<1>1. IInv => GrantIsDurable
  BY DEF IInv, Control, Minted, GrantIsDurable
<1> QED
  BY <1>1, Invariance, PTL

(* Every token row is the work of one exchange that proved possession of   *)
(* the verifier of a burned code, and carries that code's identity.        *)
THEOREM TokensHaveProvenance == Spec => []TokenProvenance
<1>1. IInv => TokenProvenance
  <2> SUFFICES ASSUME IInv, NEW t \in DOMAIN tokens
               PROVE  \E r \in DOMAIN minted :
                        /\ minted[r] = t
                        /\ \A q \in DOMAIN minted : minted[q] = t => q = r
                        /\ LET c == posted[r].code IN
                           /\ Proves(r, c) /\ IsUsed(c)
                           /\ tokens[t].user = codes[c].user
                           /\ tokens[t].type = codes[c].type
                           /\ tokens[t].client = codes[c].client
                           /\ tokens[t].jwt = [user |-> codes[c].user,
                                               slug |-> tokens[t].slug]
                           /\ tokens[t].slug # DefaultSlug =>
                                tokens[t].client \in DOMAIN clients
    BY DEF TokenProvenance
  <2>1. PICK r \in DOMAIN minted : minted[r] = t
    BY DEF IInv, Minted
  <2>2. /\ r \in DOMAIN creds /\ r \in DOMAIN slug /\ r \in DOMAIN row
        /\ r \in Reqs
    BY Nested
  <2>3. Held(r) /\ IsUsed(posted[r].code)
    BY <2>2 DEF IInv, Verified
  <2>4. /\ tokens[t].user = row[r].user /\ tokens[t].type = row[r].type
        /\ tokens[t].client = row[r].client /\ tokens[t].slug = slug[r]
        /\ tokens[t].jwt = [user |-> row[r].user, slug |-> slug[r]]
    <3>1. tokens[t] = [user |-> row[r].user, type |-> row[r].type,
                       client |-> row[r].client, slug |-> slug[r],
                       jwt |-> creds[r]]
      BY <2>1 DEF IInv, Minted
    <3>2. creds[r] = [user |-> row[r].user, slug |-> slug[r]]
      BY <2>2 DEF IInv, Resolved
    <3> QED
      BY <3>1, <3>2
  <2>5. slug[r] # DefaultSlug => row[r].client \in DOMAIN clients
    BY <2>2 DEF IInv, Resolved
  <2>6. /\ row[r].user = codes[posted[r].code].user
        /\ row[r].type = codes[posted[r].code].type
        /\ row[r].client = codes[posted[r].code].client
    BY <2>2 DEF IInv, Snapshots
  <2>7. \A q \in DOMAIN minted : minted[q] = t => q = r
    BY <2>1 DEF IInv, Minted
  <2> QED
    BY <2>1, <2>3, <2>4, <2>5, <2>6, <2>7 DEF Held
<1> QED
  BY <1>1, Invariance, PTL

-----------------------------------------------------------------------------
(* Refinement.                                                             *)

GrantOf == [c \in DOMAIN codes |-> [owner |-> codes[c].user,
                                    spent |-> codes[c].used]]
SessionOf == [t \in DOMAIN tokens |-> tokens[t].user]

LEMMA BurnSpends ==
  ASSUME IInv, NEW r \in Reqs, pc[r] = "checked",
         codes' = Burned(posted[r].code), UNCHANGED tokens
  PROVE  Grants!Next
<1>1. PICK c \in Codes : c = posted[r].code /\ c \in DOMAIN codes
  BY DEF IInv, Verified, Held, Proves, TypeOK, IsTable
<1>2. GrantOf' = [GrantOf EXCEPT ![c].spent = TRUE]
  BY <1>1 DEF GrantOf, Burned, IInv, TypeOK, IsTable, CodeRow
<1>3. Grants!Spend(c)
  BY <1>1, <1>2 DEF Grants!Spend, GrantOf
<1> QED
  BY <1>3 DEF Grants!Next

LEMMA InsertOpensSession ==
  ASSUME IInv, NEW r \in Reqs, NEW t \in Tokens, pc[r] = "resolved",
         InsertRow(r, t)
  PROVE  Grants!Next
<1>1. r \in DOMAIN creds /\ r \in DOMAIN slug /\ r \in DOMAIN row
  BY Nested DEF IInv, Control
<1>2. PICK c \in Codes :
        c = posted[r].code /\ IsUsed(c) /\ row[r].user = codes[c].user
  BY <1>1 DEF IInv, Verified, Snapshots, IsUsed, TypeOK, IsTable
<1>3. SessionOf' = [x \in DOMAIN SessionOf \cup {t} |->
                      IF x = t THEN GrantOf[c].owner ELSE SessionOf[x]]
  BY <1>2 DEF InsertRow, Put, SessionOf, GrantOf, IsUsed
<1>4. Grants!OpenSession(t, c)
  BY <1>2, <1>3 DEF Grants!OpenSession, InsertRow, SessionOf, GrantOf, IsUsed
<1> QED
  BY <1>4 DEF Grants!Next

(* The exchange implements LoginGrants: a grant is spent once and for all, *)
(* and sessions are opened only from spent grants, for their owners.       *)
THEOREM Refinement == Spec => ImplementsGrants
<1>1. Init => Grants!Init
  BY DEF Init, Empty, Grants!Init
<1>2. IInv /\ [Next]_vars => [Grants!Next]_<<GrantOf, SessionOf>>
  <2> SUFFICES ASSUME IInv, [Next]_vars, ~ UNCHANGED <<codes, tokens>>
               PROVE  Grants!Next
    BY DEF GrantOf, SessionOf
  <2>1. CASE \E c \in Codes, u \in Users, ty \in Types, ch \in Challenges :
               \E cl \in DOMAIN clients \cup {UnknownClient} :
                 Callback(c, u, ty, cl, ch)
    <3>1. PICK c \in Codes, u \in Users, ty \in Types, ch \in Challenges :
            \E cl \in DOMAIN clients \cup {UnknownClient} :
              Callback(c, u, ty, cl, ch)
      BY <2>1
    <3>2. PICK row1 : /\ codes' = Put(codes, c, row1) /\ c \notin DOMAIN codes
                      /\ row1.user = u /\ row1.used = FALSE
                      /\ UNCHANGED tokens
      BY <3>1 DEF Callback
    <3>3. GrantOf' = [x \in DOMAIN GrantOf \cup {c} |->
                        IF x = c THEN [owner |-> u, spent |-> FALSE]
                        ELSE GrantOf[x]]
      BY <3>2 DEF Put, GrantOf
    <3>4. Grants!Open(c, u)
      BY <3>2, <3>3 DEF Grants!Open, GrantOf
    <3> QED
      BY <3>4 DEF Grants!Next
  <2>2. CASE \E r \in Reqs : BurnCode(r) \/ BurnUnacknowledged(r)
    BY <2>2, BurnSpends DEF BurnCode, BurnUnacknowledged, Goto, Burned
  <2>3. CASE \E r \in Reqs, t \in Tokens :
               InsertToken(r, t) \/ InsertUnacknowledged(r, t)
    BY <2>3, InsertOpensSession DEF InsertToken, InsertUnacknowledged
  <2> QED
    BY <2>1, <2>2, <2>3
    DEF Next, Arrival, Handler, vars, tables, locals, Register, PostMalformed,
        PostToken, ReadCode, CheckCode, FindClient, Resolve, ResolveFails,
        Respond, DbFails, Crash, Tick
<1> QED
  BY <1>1, <1>2, Invariance, PTL
  DEF Spec, ImplementsGrants, Grants!Spec, GrantOf, SessionOf

=============================================================================
