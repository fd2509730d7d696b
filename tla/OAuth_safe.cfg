\* Two logins of two users, two requests, a client that may register.
CONSTANTS
  c1 = c1  c2 = c2  t1 = t1  t2 = t2  r1 = r1  r2 = r2
  k1 = k1  v1 = v1  v2 = v2
  Codes = {c1, c2}
  Tokens = {t1, t2}
  ClientIds = {k1}
  Slugs = {"claude"}
  Users = {"ann", "bob"}
  Types = {"Primary", "Agency"}
  Verifiers = {v1, v2}
  S256 <- MCS256
  Reqs = {r1, r2}
  CodeTTL = 0
  MaxNow = 1
SPECIFICATION Spec
SYMMETRY Symmetry
INVARIANTS
  TypeOK
  LateRefused
  BurnNeedsProof
  CredsAfterBurn
  TokenProvenance
PROPERTY ImplementsGrants
CHECK_DEADLOCK FALSE
