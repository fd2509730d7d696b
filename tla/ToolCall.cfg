\* The 92 tools of the catalogue, one request at a time, sent twice at most.
CONSTANTS
  ImportOrder <- Imports
  FanOut = 2
  MaxTries = 2
SPECIFICATION FairSpec
INVARIANTS
  TypeOK
  Loads
  AnswersAreWhole
  NothingLandsLate
  RetryIsSafe
  OneContract
PROPERTIES
  CallsEnd
