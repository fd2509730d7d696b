CONSTANTS
  c1 = c1  c2 = c2  t1 = t1  t2 = t2  r1 = r1  r2 = r2
  k1 = k1  v1 = v1  v2 = v2
  Codes = {c1}
  Tokens = {t1, t2}
  ClientIds = {k1}
  Slugs = {"claude"}
  Users = {"ann"}
  Types = {"Primary"}
  Verifiers = {v1}
  S256 <- MCS256
  Reqs = {r1, r2}
  CodeTTL = 3
  MaxNow = 4
SPECIFICATION Spec
INVARIANT LoginRace
CHECK_DEADLOCK FALSE
