\* Three requests of one client, one login failure per window, two in general.
CONSTANTS
  r1 = r1  r2 = r2  r3 = r3
  Reqs = {r1, r2, r3}
  IdOf <- MCIdOf
  GeneralMax = 2
  AuthMax = 1
SPECIFICATION FairSpec
INVARIANTS
  TypeOK
  AuthBudget
  LogTruth
PROPERTIES
  RefusedForCause
  ShutdownEnds
  ImplementsJournal
