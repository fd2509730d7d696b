\* Two sessions with up to two messages each; a TTL of three ticks.
CONSTANTS
  s1 = s1  s2 = s2
  Sessions = {s1, s2}
  TTL = 3
  ReapEvery = 2
  MaxPosts = 2
SPECIFICATION FairSpec
INVARIANTS
  TypeOK
  OneTimeout
PROPERTIES
  NoEarlyKill
  ImplementsLease
  SessionsEnd
