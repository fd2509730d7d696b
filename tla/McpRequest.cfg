\* Two tokens, one of them a pre-migration row; two requests at a time.
CONSTANTS
  t1 = t1  t2 = t2  r1 = r1  r2 = r2
  Tokens = {t1, t2}
  Legacy = {t2}
  Reqs = {r1, r2}
  MaxCalls = 2
SPECIFICATION FairSpec
INVARIANTS
  TypeOK
  OnlyDeadRevoked
  RevokedIsRefused
  RevokedGetsNothing
PROPERTIES
  ImplementsAccess
  NoEndlessDenial
  RequestsEnd
