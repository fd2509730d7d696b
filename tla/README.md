# ai-services: a TLA+ model

`ai-services` is one Node process (Express 5, Sequelize on Postgres) that puts an
MCP server in front of the HTTP services of a CRM. A user logs in once through an
OAuth 2.1 + PKCE flow; the server keeps the backend credentials of that login in
the row of the access token it hands out, and every MCP tool call is a handful of
POST requests to the CRM's API gateway made with them. The repository has no tests.

This directory holds TLA+ modules for the parts of it whose correctness depends on
order, concurrency and failure, TLC configurations that check them on small
instances, and TLAPS proofs of their safety properties for instances of any size.
Paths below are relative to the repository.

## The system

| Part | State it keeps | Operations | Talks to |
|---|---|---|---|
| Registration, callback, exchange (`src/routes/oauth/routes.ts`, `src/services/oauthStore.service.ts`, `src/repositories/oauth.repository.ts`) | tables `mcp_oauth_clients`, `mcp_auth_codes`, `mcp_access_tokens` | `POST /register`, `GET /callback`, `POST /token` | database; user service (`resolveUserAuth`) |
| Token use (`src/mcp/handlers/auth.util.ts`, `streamable.handler.ts`, `src/helpers/authed-axios.ts`, `api.client.ts`) | column `revoked`; the `SessionAuth` of each request | `authorize`, `authedPost`, `revokeAccessToken` | database; API gateway |
| HTTP + SSE transport (`src/mcp/handlers/sse.handler.ts`) | the in-memory map `sessions`, one timeout per entry | `GET /mcp/sse`, `POST /mcp/messages`, timeout, reaper, close event | token use; MCP SDK |
| Tool registry and pipeline (`src/tools/registry.ts`, `executor.ts`, `src/mcp/tools/index.ts`) | maps `tools`, `aliasOf` (filled at start); table of tool logs | `register`, `get`, `list`, `executeTool`, `bindTool` | tool definitions; tool log table |
| 92 tools and `ping` (`src/tools/definitions/**`) | none between calls | one handler each | `apiPost` |
| Request pipeline (`src/index.ts`, `src/config/rateLimit.ts`, `src/middlewares/request-logger.middleware.ts`, `src/utils/error-handler.ts`) | limiter counters; table `t_request_logs` | middleware in order, log on `finish`, 30-day retention at start | every route |
| Login page (`src/routes/oauth/public/authorize.html`) and proxies | the page's variables and screens | login, verify OTP, resend, redirect | user service; `/callback` |
| Lifecycle (`src/index.ts`) | the process | start, SIGTERM/SIGINT with a ten-second deadline, exit on uncaught errors | all of the above |
| Pure helpers (`src/helpers/*.helper.ts`) | none | name ranking, phone and slug normal forms, time windows, error parsing | tools, routes |

How they interact: the login page obtains a verified identity from the user service
through the proxies and sends the browser to `/callback`, which writes a code row;
the MCP client exchanges the code at `/token`, which burns it, asks the user service
for backend credentials and writes a token row; each `/mcp` request reads that row
(`authorize`), runs one tool, and a 401 of the backend changes the row back
(`revoked`). The three tables are the only state the parts share and the only state
that outlives the process; the SSE map is lost with it.

### What is hard

The server is one event loop, so code runs atomically between two awaits, and every
await is a place where other requests run, a call may fail, or the process may stop.

- **State read before an await and used after it.** `/token` judges the copy of a
  code row that it read; `authorize` reads a token row once per request; SSE
  messages use the `SessionAuth` of the GET that opened the session; the login page's
  handlers share two variables and five fields across their awaits; the login limiter takes a hit
  back when its request ends, in whatever window that is.
- **Several writes, no transaction.** `/token` burns a code three awaits before the
  token exists. `update_lead` makes two backend writes. A write of any tool may take effect
  without its answer coming back, and is then sent again.
- **Work nobody awaits.** The revocation of a token, the tool log row, the request
  log row.
- **Failure.** A database statement that fails, or takes effect and loses its
  acknowledgement; a backend that answers 401, 403, 5xx or not at all (axios gives
  up after 60 s); a restart (pm2 restarts the process; on Vercel an instance may be
  frozen at any time).
- **Events against timers.** An SSE session is ended by its close event, a sliding
  timeout, a reaper and a failed start, in any order.

### What makes each part correct

- *Exchange*: a code is spent only by who holds its verifier, and never again once it
  is known to be spent or expired; a token carries the identity of its own code and
  credentials resolved for that identity; what the client was told is in the tables.
- *Token use*: only a token the backend has given up is revoked; a revoked one
  runs no tool that is authorized with it, and gets no data over an SSE session either; a dead one does not keep answering "log in again" without the
  login page ever opening; every request and every call it started ends.
- *SSE*: an entry has one timeout, due when `expiresAt` says; nobody's session is
  ended before its time; every entry goes away in the end.
- *Registry*: a name leads to the definition that registered it. *Tools*: an answer that is not an
  error is backed by every call it rests on; an error leaves nothing under way; sending a
  request again creates nothing twice; tools that share an endpoint agree about it.
- *Request pipeline*: the request log tells the truth; the login limiter bounds failed attempts,
  and nobody else is limited. *Lifecycle*: a signal stops the process.
- *Login page*: only a verified account is connected, and it is connected; what is verified
  belongs to an account whose login was answered by a 2xx; a login ends.

## Modules

| Module | What it is |
|---|---|
| `OAuth` | registration, callback and exchange, with failures and crashes |
| `LoginGrants` | the abstract specification of `OAuth`: grants, spent once, and the sessions they pay for |
| `OAuthInv` | the inductive invariant of `OAuth` |
| `OAuthProofs` | theorems about `OAuth`, including the refinement of `LoginGrants` |
| `McpRequest`, `McpRequestProofs` | one `/mcp` request, its backend calls, revocation; theorems |
| `TokenLife`, `TokenLifeProofs` | `OAuth` and `McpRequest` composed over one token table and one process; theorems |
| `TokenAccess` | the abstract specification of `McpRequest`: what a token stands for, and when its holder is sent to the login page |
| `SseSession`, `SseSessionProofs` | the SSE session map and its timers; theorems |
| `SessionLease` | the abstract specification of `SseSession`: a lease that messages renew |
| `ToolKinds` | what a tool and a backend call are, as data |
| `LeadTools`, `CallLogTools`, `StaffTools`, `WorkTools`, `ToolCatalog` | the 93 definitions, and the order they are imported in |
| `ToolRegistry` | the registry and the start-up that fills it, for any catalogue |
| `ToolCall`, `ToolCallProofs` | one `tools/call` request with its backend calls and its retry, over `ToolRegistry`, for any catalogue; theorems about the registry and the answers |
| `ToolEffectsProofs` | theorems about the writes of a tool and about sending a request again |
| `RequestPipeline`, `RequestPipelineProofs` | limiters, request log, shutdown; theorems |
| `Journal` | the abstract specification of `RequestPipeline`: a log of whole answers, kept through restarts |
| `LoginPage`, `LoginPageProofs` | the page of `/authorize` and the proxies; theorems |
| `TwoFactor` | the abstract specification of `LoginPage`: let in, sent a one-time password, proved, promised, connected |
| `MCOAuth`, `MCMcpRequest`, `MCTokenLife`, `MCSseSession`, `MCToolCall`, `MCRequestPipeline`, `MCLoginPage` | instances for TLC; `MCToolCall` puts the catalogue into `ToolCall`, and has TLC evaluate what the theorems assume of it |

The operators named `Mut...` are not part of any
`Spec`: each is a wrong version of the definition it is named after (a guard
dropped, a reset forgotten, an await missing), kept to show that the property listed
with it in `PROJECT.json` really depends on that part of the code.

### OAuth

The tables are partial functions from primary key to row. The locals of the `/token`
handler of request `r` are `posted[r]` (body), `row[r]` (`authCode`), `slug[r]`
(`clientNameSlug`), `creds[r]` (`cachedJwt`, `cachedSignature`) and `minted[r]` (the
token value); `pc[r]` says which await it is at. They are kept after the handler ends,
as history.

| Action | Code |
|---|---|
| `Register`, `Callback` | the two routes; each has one INSERT, after which nothing that matters here can happen. A failed INSERT changes nothing |
| `PostMalformed`, `PostToken` | arrival at `/token`; without a body the destructuring throws: 500 |
| `ReadCode` | `await getAuthCode` |
| `CheckCode` | the `used`, expiry and PKCE tests, on the row as read and the clock as it is now; a verifier that is no string makes the hash throw: 500 |
| `BurnCode` | `await markAuthCodeUsed`: an UPDATE with no condition on `used` |
| `FindClient`, `Resolve`, `ResolveFails` | the client name, then the backend credentials, or the 502 |
| `InsertToken`, `Respond` | `await createAccessToken`, then the 200 |
| `DbFails` | any of these statements, or the token model's validation, throws: 500 |
| `BurnUnacknowledged`, `InsertUnacknowledged` | the write took effect, its acknowledgement was lost: 500 |
| `Crash` | the process stops; handlers are gone, tables stay |

A hash is a function `S256`; a code or token value is a model value, fresh when it is
generated (32 and 48 random bytes); the company type of a callback is anything
(`Types` has a value the token model refuses, since `/callback` and `mcp_auth_codes` do
not validate it and `mcp_access_tokens` does). The response that follows a callback's INSERT is
not an action: whether a client learns a code decides only whether anyone posts it.

### McpRequest

A request is a slot: `pc`, `tok` (its Bearer token) and the numbers of backend calls
started (`calls`), unanswered (`open`) and answered by a 401 that is not yet handled (`denied`).
Tools call the backend in sequence or under `Promise.all` and some swallow failures,
so a tool is any pattern of at most `MaxCalls` calls, and a rejected call (`Rejects`)
ends the request or is not heard of. Calls outlive a tool that another call made fail. `alive` is the
backend's view: sessions it still accepts. `revoking` holds the UPDATEs nobody awaits;
each lands, fails or is lost with the process.
`stored` is the token table as far as this part sees it: which tokens have a row. `Issue` adds one, and nothing takes
one away; a request whose token has none is refused. `late` and `told` are history. A 401 has two outcomes:
`Revoke401`, and `Unreadable401` for a body in which no message can be found.

A request comes by either transport: `Arrive` and `Authorize` for a stateless one. A stream is authorized when its GET
comes (`AuthorizeStream`), and only when `connect` has settled are its token and credentials in `sessions` (`OpenSession`), or
the GET has failed (`ConnectFails`); the token may have been revoked between the two. Each `Message` of a session begins
authorized, whatever has become of the token. `CloseSession` is every way in which `SseSession` ends one.

### TokenLife

The token table `OAuth` fills is the one `McpRequest` reads: `stored` is `DOMAIN tokens`. A step is one of the exchange
(`OAuth`'s actions, with the requests to `/mcp` where they are), one of a request to `/mcp` (`McpRequest`'s actions but for `Issue`, which is what
the INSERT of an exchange is to it), or a crash, which is one for both as there is one process. The backend may end
a session at any time after `resolveUserAuth`, before the row is there as well. A request carries a token that a 200 of `/token` gave out, or one that no exchange ever
made (`UnknownToken`): tokens are 48 random bytes, and are told to nobody else.

### SseSession

Time is counted in ticks *remaining* (`left` for `expiresAt`, `armed` for the timers the
event loop holds, `handle` for the one `timeoutHandle` refers to), so the clock needs
no bound. `connect` is taken to yield: with an SDK whose `connect` settles in the same
turn that only removes interleavings. A timer that is due may fire any number of ticks
late. `idle` and `departed` are history. The SDK's transport is external: `connect`
settles or rejects, `start` returns (`Started`) or throws (`StartFails`), `close`
ends the response.

### The tool catalogue and ToolCall

A tool is a record: its name and aliases, its hints, and its `plans`. A plan is what one input makes the handler send:
a sequence of sets of calls, each set sent at once (`Promise.all`) when the one before has been answered.
`list_report_comments` has one plan for each number of comments with replies; `update_lead` one for each subset of its two
writes. A call has its endpoint, the tenant keys of its body (put there by `apiPost` or by the
handler), where in the answer the handler looks and what makes it throw there, and whether the
backend adds a row, sets a value or only reads. Whether a write adds or sets is the backend's: it is taken from
the endpoint's name and the tool's description.

| Action | Code |
|---|---|
| `Register` | import of a definition: `toolRegistry.register`; a clash throws, and the process does not come up |
| `Ask`, `Retry`, `GoOn` | the client: any name, any input; the same again after an error or no answer |
| `SdkRefuses` | a name `registerTools` did not bind (aliases are none), or an input that does not fit the schema's shape |
| `Refuses` | `executeTool`'s `VALIDATION`, for what the shape has lost, and the guards of handlers |
| `Begin`, `NextSet`, `HandlerThrows`, `Return` | the handler between two awaits, and its end |
| `Replies`, `Declines`, `Fails`, `Loses` | what becomes of a call: a 200 with, without or with a null body; a 200 with status false; an error of a backend that did nothing; no answer of the backend (60 s, a lost connection, a gateway's 504), which tells nothing of the write |
| `StrayLands`, `StrayVanishes` | a write nobody waits for any more takes effect, or never got there |
| `RowWritten`, `RowFails` | `McpToolLogs.record`, not awaited |
| `Crash` | the process; its log rows in flight are dropped, its writes may still take effect |

What the model does not have, because no MCP client can reach it: aliases and their
defaults (`registerTools` binds `list()`, which has names only), `NOT_FOUND`, and the
`[AUTH_ERROR]` guards (every context has a `SessionAuth`). How a 401 changes the token is in `McpRequest`,
of whose "any pattern of calls" the plans here are instances.

### RequestPipeline

A request is `new`, then turned away before the logger sees it (general limiter, body parser, redirect of a trailing
slash), or in a handler (`open`), or being refused by the login limiter (`limited`), and in the end
`answered`, `gone` (its client left) or `cut` (the process ended). `rows` are the log rows in flight, `log` the table by
its primary key, the request id, which a client may choose and repeat. `Answer` is the
whole of "finish": the status, the row that is sent off, and the hit taken back. `stale` says that the login
window is over; the store may forget it before the next hit or at it. `window`, `hit` and
`takenBack` are history. `Signal`, `Closed`, `Deadline`, `Crash` and `Start` are the process's life.

The model shows what the log does not have: what is turned away before it, what is cut
off, a repeated or over-long id, and rows in flight when `process.exit` is called.

### LoginPage

The page's variables, fields and buttons; `call` has the fetches in flight. Each handler is two
actions, up to its `await fetch` and after it (`HandleLogin`/`LoginAnswered`,
`HandleVerifyOtp`/`VerifyAnswered`, `HandleResend`/`ResendAnswered`), and nothing keeps a second one from starting in between:
Enter does not look at the button. `timers` has the redirects that are due in 700 ms, `visited` the
accounts `/callback` was requested for. `Issues`, `Verifies` and `Refuses` are the
proxies with the user service and the limiter behind them. An answer is `ok`, `unsuccessful` (a 2xx whose body says that it is
no success; the proxies pass the status on), `refused` (another status) or `broken`
(no HTTP answer, or one that is not JSON), and what was done may not be heard of. `handleLogin` looks at `res.ok` only
(`authorize.html:807`), so `unsuccessful` opens the OTP screen as `ok` does, for an account whose login was refused and that may have been sent
nothing; `handleVerifyOtp` tells the two apart. `letIn` is therefore the history of the 2xx (`Accepting`), and not of what the user service accepted.

## Runs

| Run | Instance | Shows |
|---|---|---|
| `oauth_safe` | 2 codes, 2 users, 2 verifiers, 2 requests, 2 tokens, 2 company types, 1 client, a code that expires at once | five invariants and the refinement `ImplementsGrants`; 2.3 million states |
| `token_life` | 1 code with 2 exchanges, 2 tokens, 1 verifier, 2 company types; one `/mcp` request at a time with 1 call | `GrantedIsAccepted`, `DataIsEarned`, and `ExchangeEnds` under `FairLife`; 442,988 states |
| `mcp_request` | 2 tokens (one from before the credentials migration), 2 requests of either transport with 2 calls each | four invariants, the refinement `ImplementsAccess`, and `NoEndlessDenial`, `RequestsEnd` under `FairSpec`; 308,834 states |
| `sse_session` | 2 sessions, TTL 3, reaper every 2, 2 messages each | `OneTimeout`, `NoEarlyKill`, the refinement `ImplementsLease`, and `SessionsEnd` under `FairSpec` |
| `tool_call` | all 93 tools in import order, every plan of each (2 comments with replies), one request at a time, sent at most twice | the six invariants of `ToolCall` and `CallsEnd` under `FairSpec`, and that the catalogue is of the kind the theorems speak of (`CatalogueAssumption`); 34,788 states |
| `request_pipeline` | 3 requests, two under one id, one failed login a window, two requests a general window | `AuthBudget`, `LogTruth`, `RefusedForCause`, the refinement `ImplementsJournal`, and `ShutdownEnds` under `FairSpec`; 1.7 million states |
| `login_page` | 2 accounts, 2 calls in flight, 2 one-time passwords | `RedirectIsVerified`, `UserIsLetIn`, the refinement `ImplementsTwoFactor`, and `LoginSettles`, `VerifiedConnects` under `FairSpec`; 476,297 states |
| `oauth_login_race`, `mcp_next_request`, `mcp_every_denial`, `sse_established`, `tool_call_null_todo` | small, and `tool_call`'s for the last | counterexamples, see *Findings* |

**Why the bounds are enough.** A race in the exchange needs two requests; mixing up identities
needs two users with a code each; `CodeTTL` 0 with a clock of two values
lets a code expire before, between and after any two steps. In `mcp_request` two requests
share a token or not, and two calls let one outlive the failure of the other. In `token_life` two exchanges of one code give
two tokens, so that a request may come with the one while the other is not yet in the table, and each request slot is
used again and again. In
`sse_session` the TTL is longer than the reaper's period and no multiple of it, so that sweeps
fall before, at and after a deadline, and a second message finds a re-armed timeout.
Sessions share only the reaper. In `tool_call` the catalogue is complete, requests share nothing, and the
second try is what a retry needs; a third adds nothing a property speaks of. In `request_pipeline` a limit of one with three
requests gives the race for the budget, a success that ends in a later window and a refusal, and two
rows compete for a key. In `login_page` two calls in flight are the least that can overtake each other, two accounts the least
that can be mixed up, and the second password replaces the first. Symmetry is used in `oauth_safe` only, over
codes, tokens and requests; a run with a liveness property uses none. The runs of OAuth and of the
login page do not check for deadlock: with finitely many requests and ticks, or once the page is left, their behaviours end.
The others do (`request_pipeline` can always end a process and start the next).

**Bounds by name.** `MaxNow` caps the clock of `OAuth`; `MaxCalls` the calls of one
tool; `MaxPosts` the messages of one SSE session; `FanOut` the comments with replies on a page;
`MaxTries` the times a client sends one request; `MaxOtps` the one-time passwords issued; the sizes of `Reqs`, `Codes`,
`Tokens`, `Sessions` cap how many of each there are.

**Fairness.** `OAuth`: each handler goes on, since every await settles (the driver
reports or gives up, axios gives up after 60 s), and so it does in `TokenLife` (`FairLife`), whatever the requests to `/mcp` do. `McpRequest`: the same for
`authorize`, for backend answers and for their handling, and a tool goes on to its next call or
returns. Revocations get strong fairness: this is an assumption about the
database, that of revocations sent again and again one gets through; without it
`NoEndlessDenial` is false, as the failure is only logged. `SseSession`: time passes,
handlers go on, and due timers and the reaper get their turn. `ToolCall`: a handler goes on and a call
settles (axios, 60 s), and so do the log rows. `RequestPipeline`: only the timer of the deadline. `LoginPage`: the
proxies answer (they give up after 60 s), continuations run, timers fire, and a page that navigates is left. No
fairness is assumed of clients, of `Crash`, or of the backend's choice of answer.

### Properties worth a word

- `LateRefused` speaks of requests *sent* after a code was burned or had expired. For requests sent before
  the burn it would be false: that is `LoginRace`.
- `TokenProvenance` ties a token row to one exchange, that exchange to a verifier, the
  code's row, credentials resolved for the same user and a client name that is registered or
  the default.
- `ImplementsGrants`: a grant opens once, is spent for good, and a session is opened only
  from a spent grant for its owner. Crashes, retries and lost acknowledgements are stutters or ordinary steps of it.
- `ImplementsAccess`: a token stands for a session of the backend. Data goes only to who asks during the session, the
  login page is shown only to who asks with a token whose session is over (or that never was one), a token is revoked only after its session,
  and none comes back; requests, their concurrent calls, both transports and the revocation nobody awaits are hidden behind that.
- `GrantedIsAccepted`: who was told 200 by `/token` is never answered 401 with the way to the login page before the backend has ended
  the session: no crash, lost acknowledgement or race of exchanges, and no revocation of another token, takes it away. It relates the 200 of one part to the 401 of the other.
- `DataIsEarned`: data of the backend goes only to a request whose token came from an exchange that proved the verifier, burned the
  code and was answered 200, and it is data of that code's user.
- `ImplementsLease`: an SSE session is let once, for a TTL that every message renews, and nothing renews it once it is
  over. Handlers, the event loop's timers, the reaper and the close event are hidden behind it; a client that leaves while it connects
  may leave a session behind, which then runs out.
- `ImplementsJournal`: only a whole answer of a running process is owed an entry, once; an entry may be lost or come late, even under the next
  process, but is never written over another, and stays until a start. Limiters, middleware, signals and the deadline are hidden behind it.
- `ImplementsTwoFactor`: an account is let in and sent a one-time password, then verified, then promised, then connected, and a promised
  redirect is taken back by nothing but the page going away with another. It does not say that the user service accepted the login:
  the page does not look. What stands between a login that was refused and a connection is the one-time password alone.
- `UserIsLetIn`: the page's user, and whoever is verified or resent to, is of a login that was answered by a 2xx, never
  what is being typed while an answer is on its way.
- `NoEndlessDenial`: a client is not told `[AUTH_REQUIRED]` for one token forever. It needs
  revocation, validation of the row and the database assumption together.
- `OneTimeout` is why `destroySession` may clear a single handle.
- `RevokedGetsNothing` is what is left of revocation for SSE messages, which are not authorized again: they reach the backend,
  but only tokens the backend has given up are revoked.
- `AnswersAreWhole` has no exception but `Promise.allSettled`: no `await` is missing in 93 handlers, no failure is
  passed off as data, and "success" of a write means that it took effect (or was declined to a tool that
  does not look at the envelope's status).
- `NothingLandsLate`: it would fail for a tool with two writes in parallel. `RetryIsSafe` compares what
  `readOnlyHint` and `idempotentHint` promise with what the plans do to the backend over two tries;
  `apply_leave` is the one exception: it throws on a null body after its write.
- `OneContract` relates every pair of tools: what one sends to an endpoint and reads of its answer is what
  all others do.
- `AuthBudget` and `RefusedForCause` are the two halves of the login limiter: it lets in too many only on the credit of
  a success that ends in a later window (`takenBack`, which the model showed to be possible), and it
  refuses only with a cause.
- `VerifiedConnects` holds although the button is enabled again while the redirect is
  due: nothing cancels the timer, and the URL was built from the answer.

### Findings

1. `LoginRace` (`routes.ts:277`, "resolveUserAuth is called EXACTLY ONCE per login"): two
   requests with one code that both read it before either burns it both get credentials
   and tokens.
2. `NextRequestRefused` (`authed-axios.ts:8-9`): the request after `[AUTH_REQUIRED]` may
   be authorized, the revocation being sent and not awaited.
3. `EveryDenialRevokes` (`authed-axios.ts:40-41`): a 401 whose body's `message` is null, `[]` or an object without
   a message makes `backendMessage.includes` throw; nothing is revoked. (A message that is missing
   altogether is handled.)
4. `EstablishedStays` (`sse.handler.ts:86`): the explicit `transport.start()` after
   `server.connect` throws with the SDK in `package.json`, and the handler destroys the session it has just
   logged as established. The model allows both a `start` that returns and one that throws, so the rest of what is
   said of SSE sessions holds either way.
5. `NullTodoIsUnknown` (`getTodoById.tool.ts:174-175`, "Returns `todo: null` if the ID is unknown or the todo has been
   soft-deleted"): a fetch that failed, even with `[AUTH_REQUIRED]`, gives the same successful
   answer; only the comments have a warning.

Seen on the way, without a run of their own: codes live fifteen minutes (`oauthStore.service.ts:31-32`)
where the migration's comment says ten; a resend is reported sent whatever its HTTP status (`authorize.html:901-906`);
a login's 200 that is no success opens the OTP screen, which says that a code has been sent (`authorize.html:807`, `542-543`), where
a verification looks at `data.success` too (`:848`); the
schema default of `scope` hides the alias defaults of `list_calendar_events` (`:166`), which no MCP client can reach;
descriptions name tools that do not exist (`get_comment_replies`, `list_todo_comments`, `update_leave_status`);
with a stream open, an orderly shutdown ends by its deadline with exit code 1.

## Proofs

Every theorem is about `Spec` (`LifeSpec` of `TokenLife`), for any values of the constants that satisfy the module's
named assumptions (naturals for bounds, a TTL and limits above zero, `Legacy` a subset of `Tokens`, an unknown token that is
none of `Tokens`, a catalogue that is a sequence of tools), and, where its statement says so, for any catalogue of a given kind. Only `RequestPipeline` assumes finiteness, of its requests, because its properties count them.

- **OAuth.** `Invariance: Spec => []IInv`. The safety properties are not inductive: that an accepted request proved
  possession of the verifier is known only from the row the handler read, and a code row may
  have changed since. `IInv` (in `OAuthInv`) therefore says what each handler knows at each
  `pc`: which locals it has; that the row it read differs from the table's at most in `used`; that past the
  check it was live and the challenge matched; that past the burn the code is used;
  that what it minted agrees with what it read. Callbacks preserve it
  because codes are fresh, burns because they only set `used`. `TypeCorrect`, `BurnIsProved`,
  `LateIsRefused`, `CredsComeAfterBurn`, `GrantsAreDurable` and `TokensHaveProvenance` follow from it, and `Refinement` maps
  each step to a step of `LoginGrants` or a stutter, using `IInv` for the one fact that needs
  it: when a token is inserted, its code is spent and owned by the token's user.
- **McpRequest.** `OnlyDeadRevoked` needs to know that a 401 on its way belongs to a dead
  session, and that streams and revocations are of tokens that have a row (`Standing`), and the type invariant that calls in flight are calls that were
  started: a call may be denied after its tool has ended. Then `OnlyTheDeadAreRevoked`, `TheRevokedAreRefused` and
  `TheRevokedGetNothing`. `TokensStandForSessions` is the refinement of `TokenAccess`: a crash is one abstract step
  for all requests, a 401 that is handled is `SendToLogin` because `Standing` says whose it is, and the invariant that nothing
  live is revoked makes `LifeOf` well-behaved (`live`, `ended`, `revoked`, in that order).
- **TokenLife.** What is proved of the parts is carried over, not proved again. `LoginsAreExchanges`: a step of the composition is a
  step of `OAuth` or none, since requests to `/mcp` write nothing the exchange reads. `UsesAreRequests`: it is a step of `McpRequest` or none; that needs
  `OAuth`'s invariant, by which an exchange does nothing to the table but add the row of a new token (`Issue`), and a token given out has its row.
  So both invariants hold in the composition (`LifeInvariance`). What neither part can say is `Carried`: requests and streams have tokens that a 200 gave out, or none that
  exists. `GrantsAreAccepted` then follows the token: a 401 at `authorize` means that it has no row (but it was given out), or is revoked
  (but only the dead are), and `[AUTH_REQUIRED]` that its session is dead. `DataIsPaidFor` goes from the data back to the 200, and from there by `OAuth`'s invariant to the
  row, the verifier and the code.
- **SseSession.** `TimeoutsAreExact` (one timer, in step with `expiresAt`) and the action property
  `TheWindowSlides`, whose invariant adds that the deadline and the idle time add up to the TTL
  while an entry exists. `TheLeaseHolds` is the refinement of `SessionLease`: a due timer and a sweep of the reaper are both
  `Expire`, the first because `OneTimeout` puts the timer in step with `left`.
- **ToolCall, the registry.** For any catalogue: what is registered is what was imported, each under its names
  (`RegistryInv`), so `NamesAlwaysResolve`; and a catalogue without a clash of names (`NoClash`) always comes up
  (`DisjointNamesLoad`).
- **ToolCall, one call.** `TheAnswersAreWhole` needs that while a handler runs all sets up to
  `at` were sent, a failed call is one the tool passes over, and a write with a good answer took effect (`InFlight`), and that an
  answer that is not an error leaves no call open (`NothingLeft`).
- **ToolCall, its writes** (`ToolEffectsProofs`). Whether a write may land late, or twice, depends on the catalogue, and the
  theorems say on what: `WritesAlone`, no plan sends another call together with a write; `HintsTrue`, what is
  called read-only has no writes and what is called idempotent creates nothing; `CreatesEnd`, a row is created by
  the last call of a plan, and nothing is read of its answer that a 200 may lack (`apply_leave` excepted). `tool_call` evaluates all three, and `NoClash`, on the 93 definitions
  (`CatalogueAssumption`), so the theorems hold for any number of tries, and for any other catalogue that keeps to them.
  `NothingEverLandsLate` needs that the plan is one of the tool asked for (`PlanInv`) and that what a handler waits for, or will throw on, is in the
  set it sent last (`Current`): so an open write is all that is open, and an error finds none beside it. `RetriesAreSafe` needs that everything that
  landed or may land is a call of the plan (`Mine`), and that as long as no answer was lost a created row is the only one and the handler is past its plan
  (`OneCreate`): it answers next, not with an error, so there is no second try.
- **RequestPipeline.** `TheLogIsTrue` needs that a row in flight belongs to an answered request and that an id is
  written once. `TheBudgetHolds` and `RefusalsHaveCause` need the ledger of the counter: within a window it is at most the number
  of requests counted in it that have not succeeded, and at least that number less what was taken
  off for earlier windows (`Ledger`), which relates a number to a cardinality under every answer and every end of a window.
  `TheLogIsAJournal` is the refinement of `Journal`. It adds to the invariant that a process that has ended has nobody inside (`Quiet`), so that what is
  answered or let in is so by a running process.
- **LoginPage.** `RedirectsAreVerified` and `UsersAreLetIn` need that an answer on its way tells the truth
  (`CallsAreTrue`): an `ok` of a verification was preceded by it at the user service, a 2xx of a login is in `letIn`. `PromisesAreOwed` is the part of
  `LoginSettles` and `VerifiedConnects` that needs no fairness: a disabled login button waits for a login that is under way, whoever was
  told "Verified!" has a redirect due or asked for, and a page that is left waits for nothing. With it, `ThePageIsTwoFactor` is
  the refinement of `TwoFactor`; that a code which is verified has four digits (`CallsAreTrue`) makes it one that was sent.

TLAPS does not reach liveness under fairness; `ExchangeEnds`, `NoEndlessDenial`,
`RequestsEnd`, `SessionsEnd`, `CallsEnd`, `ShutdownEnds`, `LoginSettles` and `VerifiedConnects` are model-checked only.
So is `OneContract`: it compares the 93 records of this catalogue with each other, and a theorem for any
catalogue could only repeat it as its hypothesis.

## Not modelled

- Discovery documents, `/health`, static page layout, CORS, Helmet, logger: no state.
- Message texts and JSON layout, except where a test on them decides control (the permission
  sentinel, the unreadable 401).
- The MCP SDK, axios, Sequelize and the backend, beyond what the code here relies on.
- The expiry of access tokens: `expires_at` is a column that is never written, and
  `isExpired` is never called on a token.
- `src/tools/definitions/leadsService/_shared/enrichment.ts`, `fuzzy-name.helper.ts`, `time-range.helper.ts`, `heavyLimiter` and the
  OpenAI and Anthropic adapters: nothing in the repository uses them.
- What tools make of an answer (mapping, labels, pagination, sorting): it is layout, without state.
- Bodies of `/token` whose code is not one string: the handler looks only whether there is a code (`routes.ts:214`, `231`). That it
  is a string, as RFC 6749 has it, is assumed of the input.
- The normal forms of phone numbers and slugs: character by character, and without state.
- The bodies of backend calls beyond their tenant keys, and what the backend does with them.

## Plan

What the plan had and is not done, in this order:

1. `SseSession` in `TokenLife`. Today it is tied to `McpRequest` by hand: `OpenSession` is its `connect` settling, and `CloseSession` is every end it
   allows, at any time, so what is proved of requests over SSE holds for more streams than there can be. Joining them would add that a stream of a revoked
   token ends with its lease.
2. That each plan of `ToolCall` is a tool of `McpRequest` (calls started, unanswered and denied), as a refinement of one
   specification of a tool that both implement. Today `McpRequest` allows any pattern of at most `MaxCalls` calls, for any `MaxCalls`.
