\* Two accounts, two calls in flight, two one-time passwords.
CONSTANTS
  s1 = s1  s2 = s2
  Accounts = {"ann", "bob"}
  Calls = {s1, s2}
  MaxOtps = 2
SPECIFICATION FairSpec
INVARIANTS
  TypeOK
  RedirectIsVerified
  UserIsLetIn
PROPERTIES
  ImplementsTwoFactor
  LoginSettles
  VerifiedConnects
CHECK_DEADLOCK FALSE
