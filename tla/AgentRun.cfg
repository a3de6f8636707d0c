CONSTANTS
  MaxTurns = 2
  MaxAttempts = 3
  MaxCorrections = 1
  Retry408 = TRUE
  MaxCrashes = 2
SPECIFICATION FairSpec
INVARIANTS
  NoBlindRegeneration
  PostsAreAccounted
  CompletedIsBacked
  AmbiguityIsReported
  OneOutcome
  KeysAreUnspent
PROPERTIES
  RunEnds
