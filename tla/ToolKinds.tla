----------------------------- MODULE ToolKinds ------------------------------
(***************************************************************************)
(* What the tool catalogue is written in: a call of the backend, and a     *)
(* tool as the program sees it.                                            *)
(*                                                                         *)
(* A call has                                                              *)
(*   endpoint  the service and the path that are posted to,                *)
(*   tenant    the tenant keys of the body: "snake" (company_id) or        *)
(*             "camel" (companyId) put there by apiPost, "own" put there   *)
(*             by the handler, "none",                                     *)
(*   path      where in the body of a 200 the handler looks for what it    *)
(*             wants; it is absent ("empty") or the whole body is null     *)
(*             ("void") when the backend says so,                          *)
(*   needs     the part without which the handler throws: "nothing" (the   *)
(*             code writes res?.), "body" (a null body throws), "inner"    *)
(*             (an absent payload throws as well),                         *)
(*   effect    "none" for a query, "creates" for a row more each time,     *)
(*             "overwrites" for a value set,                               *)
(*   nth       to tell apart calls of one endpoint sent together.          *)
(*                                                                         *)
(* A plan is what one input makes the handler send: a sequence of sets of  *)
(* calls, each set sent at once when the one before has been answered.     *)
(***************************************************************************)
EXTENDS Naturals, Sequences

CallType ==
  [endpoint : STRING, tenant : {"snake", "camel", "own", "none"},
   path : STRING, needs : {"nothing", "body", "inner"},
   effect : {"none", "creates", "overwrites"}, nth : Nat]

ToolType ==
  [name : STRING, aliases : SUBSET STRING, plans : SUBSET Seq(SUBSET CallType),
   readOnly : BOOLEAN, idempotent : BOOLEAN,
   settles : BOOLEAN,  \* Promise.allSettled: a call that fails is passed over
   checks : BOOLEAN,   \* the answer's "success" is the envelope's status
   guards : BOOLEAN,   \* the handler may throw before its first call
   refines : BOOLEAN]  \* the schema has a refinement, lost in its .shape

Post(e, tenant, path, needs) ==
  [endpoint |-> e, tenant |-> tenant, path |-> path, needs |-> needs,
   effect |-> "none", nth |-> 1]
Create(e, tenant, path, needs) ==
  [Post(e, tenant, path, needs) EXCEPT !.effect = "creates"]
Overwrite(e, tenant, path, needs) ==
  [Post(e, tenant, path, needs) EXCEPT !.effect = "overwrites"]

IsWrite(c) == c.effect # "none"

Tool(name, plans) ==
  [name |-> name, aliases |-> {}, plans |-> plans,
   readOnly |-> TRUE, idempotent |-> TRUE,
   settles |-> FALSE, checks |-> FALSE, guards |-> FALSE, refines |-> FALSE]

(* The usual tool awaits one call.                                         *)
Reader(name, c) == Tool(name, {<<{c}>>})
Writer(name, c) ==
  [Reader(name, c) EXCEPT !.readOnly = FALSE, !.idempotent = FALSE]

(* It returns success: first.status !== false.                             *)
Checked(t) == [t EXCEPT !.checks = TRUE]
=============================================================================
