----------------------------- MODULE OAuthInv ------------------------------
(***************************************************************************)
(* The inductive invariant of OAuth: what the properties need to know of   *)
(* the handlers' control states and locals to be preserved by every step.  *)
(***************************************************************************)
EXTENDS OAuth

(* Locals are assigned in order, and each at its own point of the handler. *)
Control ==
  \A r \in Reqs :
    /\ r \in DOMAIN posted => pc[r] # "idle"
    /\ r \in DOMAIN row => pc[r] \notin {"idle", "posted"}
    /\ r \in DOMAIN slug =>
         pc[r] \notin {"idle", "posted", "read", "checked", "burned"}
    /\ r \in DOMAIN creds =>
         pc[r] \in {"resolved", "stored", "granted", "failed", "lost"}
    /\ r \in DOMAIN minted => pc[r] \in {"stored", "granted", "failed", "lost"}
    /\ pc[r] = "posted" => r \in DOMAIN posted
    /\ pc[r] \in {"read", "checked", "burned"} => r \in DOMAIN row
    /\ pc[r] \in {"named", "badGateway"} => r \in DOMAIN slug
    /\ pc[r] = "resolved" => r \in DOMAIN creds
    /\ pc[r] \in {"stored", "granted"} => r \in DOMAIN minted

(* What a handler read from a code's row still describes that row, except  *)
(* that the code may have been burned since.                               *)
Snapshots ==
  \A r \in DOMAIN row :
    LET c == posted[r].code IN
    /\ r \in DOMAIN posted /\ c \in DOMAIN codes
    /\ row[r].user = codes[c].user /\ row[r].type = codes[c].type
    /\ row[r].client = codes[c].client
    /\ row[r].challenge = codes[c].challenge
    /\ row[r].expires = codes[c].expires
    /\ row[r].used => codes[c].used

(* A code that was dead when a request for it arrived is dead for good.    *)
LateIsDead ==
  \A r \in DOMAIN posted : posted[r].late =>
    /\ IsDead(posted[r].code)
    /\ r \in DOMAIN row => row[r].used \/ now > row[r].expires

(* Past the checks, r held a live row and the right verifier.              *)
Held(r) ==
  /\ r \in DOMAIN row /\ Proves(r, posted[r].code)
  /\ ~ row[r].used /\ ~ posted[r].late

Verified ==
  \A r \in Reqs :
    /\ pc[r] \in {"checked", "burned"} \/ r \in DOMAIN slug => Held(r)
    /\ pc[r] = "burned" \/ r \in DOMAIN slug => IsUsed(posted[r].code)

(* The name and the credentials belong to the row that was read.           *)
Resolved ==
  /\ \A r \in DOMAIN slug :
       slug[r] # DefaultSlug => row[r].client \in DOMAIN clients
  /\ \A r \in DOMAIN creds :
       /\ r \in DOMAIN slug
       /\ creds[r] = [user |-> row[r].user, slug |-> slug[r]]

(* Stored tokens and the handlers that minted them correspond.             *)
Minted ==
  /\ \A r \in DOMAIN minted :
       /\ r \in DOMAIN creds /\ minted[r] \in DOMAIN tokens
       /\ tokens[minted[r]] =
            [user |-> row[r].user, type |-> row[r].type,
             client |-> row[r].client, slug |-> slug[r], jwt |-> creds[r]]
       /\ \A q \in DOMAIN minted : minted[q] = minted[r] => q = r
  /\ \A t \in DOMAIN tokens : \E r \in DOMAIN minted : minted[r] = t

(* The inductive invariant of the exchange: BurnNeedsProof is inductive    *)
(* together with it; the other safety properties follow from it.           *)
IInv ==
  /\ TypeOK /\ Control /\ Snapshots /\ LateIsDead /\ Verified /\ Resolved
  /\ Minted /\ BurnNeedsProof
=============================================================================
