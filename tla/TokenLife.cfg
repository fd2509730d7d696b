\* One code, two exchanges, one request to /mcp at a time.
CONSTANTS
  c1 = c1  t1 = t1  t2 = t2  r1 = r1  r2 = r2  m1 = m1
  v1 = v1
  Codes = {c1}
  Tokens = {t1, t2}
  ClientIds = {}
  Slugs = {}
  Users = {"ann"}
  Types = {"Primary", "Agency"}
  Verifiers = {v1}
  S256 <- MCS256
  Reqs = {r1, r2}
  CodeTTL = 0
  MaxNow = 0
  McpReqs = {m1}
  MaxCalls = 1
SPECIFICATION FairLife
INVARIANTS
  GrantedIsAccepted
  DataIsEarned
PROPERTIES
  ExchangeEnds
CHECK_DEADLOCK FALSE
