\* One token, one request at a time.
CONSTANTS
  t1 = t1  t2 = t2  r1 = r1  r2 = r2
  Tokens = {t1}
  Legacy = {}
  Reqs = {r1}
  MaxCalls = 1
SPECIFICATION Spec
PROPERTY NextRequestRefused
