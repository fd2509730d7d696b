------------------------------- MODULE OAuth -------------------------------
(***************************************************************************)
(* The authorization-code half of the server: client registration, the     *)
(* callback that writes an authorization code, and the /token exchange     *)
(* that turns a code into an access token.                                 *)
(*                                                                         *)
(* The three tables of the database (mcp_oauth_clients, mcp_auth_codes and *)
(* mcp_access_tokens) are partial functions from a primary key to a row;   *)
(* they survive a crash of the process.  Every other variable but "now" is *)
(* the local state of a /token handler, one per request r, and each await  *)
(* of the handler is a boundary between two of its steps.  The locals of a *)
(* handler that has ended are kept, as history the properties refer to.    *)
(***************************************************************************)
EXTENDS Naturals, FiniteSets

CONSTANTS
  Codes,       \* values of randomBytes(32) an authorization code may take
  Tokens,      \* values of randomBytes(48) an access token may take
  ClientIds,   \* client ids /register may generate
  Slugs,       \* client_name_slug values
  Users,       \* e-mail addresses
  Types,       \* values of the company_type query parameter
  Verifiers,   \* PKCE code verifiers
  S256,        \* S256[v]: base64url(sha256(v))
  Reqs,        \* POST /token requests
  CodeTTL,     \* lifetime of a code, in ticks (15 minutes in the code)
  MaxNow       \* bound on the clock, for TLC

ASSUME TTLAssumption == CodeTTL \in Nat /\ MaxNow \in Nat

DefaultSlug == "mcp-client"
UnknownClient == "unknown"
UnknownCode == "no-such-code"
TokenTypes == {"Primary", "Secondary"}   \* isIn of McpAccessTokens only

Challenges == {S256[v] : v \in Verifiers}
SlugValues == Slugs \cup {DefaultSlug}
ClientRefs == ClientIds \cup {UnknownClient}

VARIABLES
  clients,  \* mcp_oauth_clients: client_id -> client_name_slug
  codes,    \* mcp_auth_codes: code -> row
  tokens,   \* mcp_access_tokens: token -> row
  now,      \* Date.now()
  pc,       \* where each /token handler is
  posted,   \* its request body (and whether the code was already dead then)
  row,      \* its authCode: the row as it was when it was read
  slug,     \* its clientNameSlug
  creds,    \* its cachedJwt and cachedSignature
  minted    \* the token value it generated

tables == <<clients, codes, tokens>>
locals == <<posted, row, slug, creds, minted>>
vars == <<clients, codes, tokens, now, pc, posted, row, slug, creds, minted>>

CodeRow == [user: Users, type: Types, client: ClientRefs,
            challenge: Challenges, expires: 0..(MaxNow + CodeTTL),
            used: BOOLEAN]
Credential == [user: Users, slug: SlugValues]
TokenRow == [user: Users, type: TokenTypes, client: ClientRefs,
             slug: SlugValues, jwt: Credential]
Body == [code: Codes \cup {UnknownCode}, verifier: Verifiers,
         late: BOOLEAN]

Ended == {"refused", "failed", "badGateway", "granted", "lost"}
InFlight == {"posted", "read", "checked", "burned", "named", "resolved",
             "stored"}

(* f with key k bound to v: an INSERT, or an assignment to a local.        *)
Put(f, k, v) == [x \in DOMAIN f \cup {k} |-> IF x = k THEN v ELSE f[x]]

(* f is a table (or a local of the handlers) from keys to values.          *)
IsTable(f, keys, values) ==
  /\ DOMAIN f \subseteq keys
  /\ f = [x \in DOMAIN f |-> f[x]]
  /\ \A x \in DOMAIN f : f[x] \in values

IsUsed(c) == c \in DOMAIN codes /\ codes[c].used
IsDead(c) ==
  c \in DOMAIN codes /\ (codes[c].used \/ now > codes[c].expires)

Empty == [x \in {} |-> x]

Init ==
  /\ clients = Empty /\ codes = Empty /\ tokens = Empty
  /\ now = 0
  /\ pc = [r \in Reqs |-> "idle"]
  /\ posted = Empty /\ row = Empty /\ slug = Empty /\ creds = Empty
  /\ minted = Empty

Goto(r, from, to) == pc[r] = from /\ pc' = [pc EXCEPT ![r] = to]

-----------------------------------------------------------------------------
(* Wrong variants of definitions below, no part of Spec: each shows what   *)
(* bug one of the properties catches.                                      *)

(* The expiry is not looked at.                                            *)
MutAcceptable(r) ==
  ~ row[r].used /\ S256[posted[r].verifier] = row[r].challenge

(* The code is burned before PKCE is verified.                             *)
MutCheckCode(r) ==
  LET ok == S256[posted[r].verifier] = row[r].challenge IN
  /\ pc[r] = "read"
  /\ Goto(r, "read", IF ok THEN "checked" ELSE "refused")
  /\ codes' = [codes EXCEPT ![posted[r].code].used = TRUE]
  /\ UNCHANGED <<clients, tokens, now, locals>>

(* The handler goes on although the UPDATE matched no row.                 *)
MutBurnCode(r) == Goto(r, "checked", "burned") /\ UNCHANGED <<tables, now, locals>>

(* Credentials are cached under the client name.                           *)
MutResolve(r) ==
  LET hits == {q \in DOMAIN creds : creds[q].slug = slug[r]} IN
  /\ pc[r] = "named"
  /\ Goto(r, "named", "resolved")
  /\ creds' = Put(creds, r, IF hits = {} THEN [user |-> row[r].user, slug |-> slug[r]]
                            ELSE creds[CHOOSE q \in hits : TRUE])
  /\ UNCHANGED <<tables, now, posted, row, slug, minted>>

(* The token model does not validate the company type.                     *)
MutInsertRow(r, t) ==
  /\ t \notin DOMAIN tokens
  /\ minted' = Put(minted, r, t)
  /\ tokens' = Put(tokens, t, [user |-> row[r].user, type |-> row[r].type,
                               client |-> row[r].client, slug |-> slug[r],
                               jwt |-> creds[r]])
  /\ UNCHANGED <<clients, codes, now, posted, row, slug, creds>>

(* The rejection of the INSERT is logged, and the token returned.          *)
MutInsertLost(r, t) ==
  /\ minted' = Put(minted, r, t)
  /\ UNCHANGED <<tables, now, posted, row, slug, creds>>

(* The rejection of createAccessToken is swallowed.                        *)
MutDbFails(r) ==
  /\ pc[r] \in {"posted", "checked", "burned"}
  /\ pc' = [pc EXCEPT ![r] = "failed"]
  /\ UNCHANGED <<tables, now, locals>>

(* A code value may be generated twice and the row is upserted.            *)
MutCallback(c, u, ty, cl, ch) ==
  /\ codes' = Put(codes, c, [user |-> u, type |-> ty, client |-> cl,
                             challenge |-> ch, expires |-> now + CodeTTL,
                             used |-> FALSE])
  /\ UNCHANGED <<clients, tokens, now, pc, locals>>

-----------------------------------------------------------------------------
(* The environment's requests that write a row and are done.               *)

(* POST /register.  A failed INSERT (500) changes nothing here.            *)
Register(cl, s) ==
  /\ cl \notin DOMAIN clients
  /\ clients' = Put(clients, cl, s)
  /\ UNCHANGED <<codes, tokens, now, pc, locals>>

(* GET /callback with all its parameters: createAuthCode.  Whether the     *)
(* redirect that follows is reached (the redirect_uri may not parse, the   *)
(* connection may be gone) decides only whether a client learns the code:  *)
(* a code no request ever posts is one nobody learned.                     *)
Callback(c, u, ty, cl, ch) ==
  /\ c \notin DOMAIN codes
  /\ codes' = Put(codes, c, [user |-> u, type |-> ty, client |-> cl,
                             challenge |-> ch, expires |-> now + CodeTTL,
                             used |-> FALSE])
  /\ UNCHANGED <<clients, tokens, now, pc, locals>>

-----------------------------------------------------------------------------
(* POST /token, one action per stretch between two awaits.                 *)

(* A body without a code, a verifier or the right grant_type: 400.  No     *)
(* body at all cannot be destructured: 500.                                *)
PostMalformed(r) ==
  /\ \E end \in {"refused", "failed"} : Goto(r, "idle", end)
  /\ UNCHANGED <<tables, now, locals>>

(* The code is assumed to be one string, as in RFC 6749: the handler looks *)
(* only whether there is one.                                              *)
PostToken(r, c, v) ==
  /\ Goto(r, "idle", "posted")
  /\ posted' = Put(posted, r, [code |-> c, verifier |-> v,
                               late |-> IsDead(c)])
  /\ UNCHANGED <<tables, now, row, slug, creds, minted>>

(* getAuthCode: the SELECT is evaluated; no row is a 400.                  *)
ReadCode(r) ==
  LET c == posted[r].code IN
  /\ pc[r] = "posted"
  /\ \/ /\ c \notin DOMAIN codes
        /\ Goto(r, "posted", "refused")
        /\ UNCHANGED row
     \/ /\ c \in DOMAIN codes
        /\ Goto(r, "posted", "read")
        /\ row' = Put(row, r, codes[c])
  /\ UNCHANGED <<tables, now, posted, slug, creds, minted>>

Acceptable(r) ==
  /\ ~ row[r].used
  /\ ~ (now > row[r].expires)
  /\ S256[posted[r].verifier] = row[r].challenge

(* The handler resumes with the row it was given and judges it: the used   *)
(* flag as of the read, the expiry as of now, then PKCE.  The hash throws  *)
(* on a verifier that is no string: 500 instead of 400.                    *)
CheckCode(r) ==
  /\ pc[r] = "read"
  /\ \E end \in IF Acceptable(r) THEN {"checked"} ELSE {"refused", "failed"} :
       /\ end = "failed" => ~ row[r].used /\ ~ (now > row[r].expires)
       /\ Goto(r, "read", end)
  /\ UNCHANGED <<tables, now, locals>>

(* markAuthCodeUsed: UPDATE ... SET used WHERE code, whatever "used" was.  *)
BurnCode(r) ==
  /\ Goto(r, "checked", "burned")
  /\ codes' = [codes EXCEPT ![posted[r].code].used = TRUE]
  /\ UNCHANGED <<clients, tokens, now, locals>>

(* findClientById(...)?.client_name_slug ?? "mcp-client"                   *)
FindClient(r) ==
  /\ pc[r] = "burned"
  /\ Goto(r, "burned", "named")
  /\ slug' = Put(slug, r, IF row[r].client \in DOMAIN clients
                          THEN clients[row[r].client] ELSE DefaultSlug)
  /\ UNCHANGED <<tables, now, posted, row, creds, minted>>

(* resolveUserAuth: the user service answers with credentials for the      *)
(* e-mail it was sent, or it fails and the handler answers 502.            *)
Resolve(r) ==
  /\ pc[r] = "named"
  /\ Goto(r, "named", "resolved")
  /\ creds' = Put(creds, r, [user |-> row[r].user, slug |-> slug[r]])
  /\ UNCHANGED <<tables, now, posted, row, slug, minted>>

ResolveFails(r) ==
  /\ Goto(r, "named", "badGateway")
  /\ UNCHANGED <<tables, now, locals>>

(* createAccessToken: a fresh random value; the model refuses a company    *)
(* type that is neither Primary nor Secondary before any INSERT.           *)
InsertRow(r, t) ==
  /\ row[r].type \in TokenTypes
  /\ t \notin DOMAIN tokens
  /\ minted' = Put(minted, r, t)
  /\ tokens' = Put(tokens, t, [user |-> row[r].user, type |-> row[r].type,
                               client |-> row[r].client, slug |-> slug[r],
                               jwt |-> creds[r]])
  /\ UNCHANGED <<clients, codes, now, posted, row, slug, creds>>

InsertToken(r, t) ==
  /\ pc[r] = "resolved"
  /\ Goto(r, "resolved", "stored")
  /\ InsertRow(r, t)

Respond(r) ==
  /\ Goto(r, "stored", "granted")
  /\ UNCHANGED <<tables, now, locals>>

-----------------------------------------------------------------------------
(* Failures.                                                               *)

(* A statement the database did not carry out, or one the model's          *)
(* validation refused: the await throws and the request ends in a 500.     *)
DbFails(r) ==
  /\ pc[r] \in {"posted", "checked", "burned", "resolved"}
  /\ pc' = [pc EXCEPT ![r] = "failed"]
  /\ UNCHANGED <<tables, now, locals>>

(* A write that took effect but whose acknowledgement was lost.            *)
BurnUnacknowledged(r) ==
  /\ Goto(r, "checked", "failed")
  /\ codes' = [codes EXCEPT ![posted[r].code].used = TRUE]
  /\ UNCHANGED <<clients, tokens, now, locals>>

InsertUnacknowledged(r, t) ==
  /\ pc[r] = "resolved"
  /\ Goto(r, "resolved", "failed")
  /\ InsertRow(r, t)

(* The process dies: every handler in flight is gone, the tables stay.     *)
Crash ==
  /\ pc' = [r \in Reqs |-> IF pc[r] \in InFlight THEN "lost" ELSE pc[r]]
  /\ UNCHANGED <<tables, now, locals>>

Tick ==
  /\ now < MaxNow
  /\ now' = now + 1
  /\ UNCHANGED <<tables, pc, locals>>

-----------------------------------------------------------------------------
Handler(r) ==
  \/ ReadCode(r) \/ CheckCode(r) \/ BurnCode(r) \/ FindClient(r)
  \/ Resolve(r) \/ ResolveFails(r) \/ Respond(r)
  \/ \E t \in Tokens : InsertToken(r, t)
  \/ DbFails(r) \/ BurnUnacknowledged(r)
  \/ \E t \in Tokens : InsertUnacknowledged(r, t)

Arrival ==
  \/ \E cl \in ClientIds, s \in Slugs : Register(cl, s)
  \/ \E c \in Codes, u \in Users, ty \in Types, ch \in Challenges :
       \E cl \in DOMAIN clients \cup {UnknownClient} : Callback(c, u, ty, cl, ch)
  \/ \E r \in Reqs : PostMalformed(r)
  \/ \E r \in Reqs, v \in Verifiers :
       \E c \in DOMAIN codes \cup {UnknownCode} : PostToken(r, c, v)

Next == Arrival \/ (\E r \in Reqs : Handler(r)) \/ Crash \/ Tick

Spec == Init /\ [][Next]_vars

(* Every await of the handler settles: the database answers or the driver  *)
(* gives up, and axios gives up on the user service after 60 seconds.      *)
FairSpec == Spec /\ \A r \in Reqs : WF_vars(Handler(r))
-----------------------------------------------------------------------------
(* Properties.                                                             *)

(* The variables keep to their types: a stored token's company type is one *)
(* the token model accepts although the code's may be anything.            *)
TypeOK ==
  /\ IsTable(clients, ClientIds, SlugValues)
  /\ IsTable(codes, Codes, CodeRow)
  /\ IsTable(tokens, Tokens, TokenRow)
  /\ now \in 0..MaxNow
  /\ pc \in [Reqs -> {"idle"} \cup InFlight \cup Ended]
  /\ IsTable(posted, Reqs, Body)
  /\ IsTable(row, Reqs, CodeRow)
  /\ IsTable(slug, Reqs, SlugValues)
  /\ IsTable(creds, Reqs, Credential)
  /\ IsTable(minted, Reqs, Tokens)

Proves(r, c) ==
  /\ r \in DOMAIN posted /\ c \in DOMAIN codes
  /\ posted[r].code = c
  /\ S256[posted[r].verifier] = codes[c].challenge

(* Where an access token comes from: every token in the table was minted   *)
(* by exactly one exchange, that exchange proved possession of the code's  *)
(* verifier, the code is burned, and the row carries the code's identity   *)
(* with backend credentials resolved for that same identity and a client   *)
(* name that is the registered one or the default.                         *)
TokenProvenance ==
  \A t \in DOMAIN tokens :
    \E r \in DOMAIN minted :
      /\ minted[r] = t
      /\ \A q \in DOMAIN minted : minted[q] = t => q = r
      /\ LET c == posted[r].code IN
         /\ Proves(r, c) /\ IsUsed(c)
         /\ tokens[t].user = codes[c].user
         /\ tokens[t].type = codes[c].type
         /\ tokens[t].client = codes[c].client
         /\ tokens[t].jwt = [user |-> codes[c].user, slug |-> tokens[t].slug]
         /\ tokens[t].slug # DefaultSlug =>
              tokens[t].client \in DOMAIN clients

(* A code is burned only by a request that proved possession of the        *)
(* verifier and read the code while it was live: a wrong verifier or an    *)
(* unknown code never costs the user the login.                            *)
BurnNeedsProof ==
  \A c \in Codes : IsUsed(c) =>
    \E r \in DOMAIN row :
      /\ Proves(r, c) /\ ~ row[r].used
      /\ pc[r] \in {"burned", "named", "resolved", "stored",
                    "badGateway", "granted", "failed", "lost"}

(* A request sent after its code was burned, or had expired, is never      *)
(* accepted, whatever became of the exchange that burned it: it ends       *)
(* without a write and without backend credentials.  (Two requests sent    *)
(* before the burn are another matter: see LoginRace.)                     *)
LateRefused ==
  \A r \in DOMAIN posted : posted[r].late =>
    /\ pc[r] \in {"posted", "read", "refused", "failed", "lost"}
    /\ r \notin DOMAIN creds

(* Backend credentials are fetched only for a code that is already burned, *)
(* so a crash or a failure after that point cannot leave both credentials  *)
(* in flight and a code that still buys another set.                       *)
CredsAfterBurn == \A r \in DOMAIN creds : IsUsed(posted[r].code)

(* A client that was answered 200 holds a token that is in the table.      *)
GrantIsDurable ==
  \A r \in Reqs : pc[r] = "granted" =>
    r \in DOMAIN minted /\ minted[r] \in DOMAIN tokens

(* Every request is answered, unless a crash cuts it off.                  *)
ExchangeEnds == \A r \in Reqs : pc[r] = "posted" ~> pc[r] \in Ended

(* What the tables promise, whatever the handlers do.                      *)
Grants == INSTANCE LoginGrants WITH
  Owners <- Users,
  grant <- [c \in DOMAIN codes |-> [owner |-> codes[c].user,
                                    spent |-> codes[c].used]],
  session <- [t \in DOMAIN tokens |-> tokens[t].user]

ImplementsGrants == Grants!Spec

-----------------------------------------------------------------------------
(* Statements of the repository that the code does not keep.               *)

(* routes.ts:277: "resolveUserAuth is called EXACTLY ONCE per login".      *)
(* Two requests that both read the code before either burned it both pass. *)
LoginRace ==
  \A c \in Codes :
    \A r, q \in {x \in DOMAIN creds : posted[x].code = c} : r = q
=============================================================================
