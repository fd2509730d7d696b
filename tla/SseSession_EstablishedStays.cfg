\* One session.
CONSTANTS
  s1 = s1  s2 = s2
  Sessions = {s1}
  TTL = 2
  ReapEvery = 1
  MaxPosts = 1
SPECIFICATION Spec
PROPERTY EstablishedStays
