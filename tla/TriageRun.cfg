CONSTANTS
  MaxTurns = 2
  MaxAttempts = 2
  MaxCrashes = 1
  MaxDelays = 1
SPECIFICATION Spec
INVARIANTS
  TypeOK
  NoBlindRepeat
  TurnsAreShared
  CompletedIsCharged
  OneVerdict
PROPERTIES
  ImplementsJob
