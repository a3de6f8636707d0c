CONSTANTS
  Plans = {1, 2}
  Callers = {c1, c2}
  Waves <- WavesOf
  Nobody = Nobody
  Versions = {1, 2}
  Lanes = {1, 2}
  LaneOf <- LaneEach
  BatchSize = 1
  a = a
  b = b
  d = d
  Endings = {"completed", "failed", "human"}
  MaxClock = 1
  MaxSeconds = 1
  MaxCrashes = 1
SPECIFICATION Spec
INVARIANT NoOvertaking
SYMMETRY AllSymmetry
