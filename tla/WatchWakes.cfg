CONSTANTS
  Requests = {r1, r2}
  Pollers = {p1, p2}
  Limit <- TwoPolls
  MaxHeirs = 1
  MaxVersions = 2
  Sizes = {2}
  Owners = {r1}
  Runners = {n1, n2}
  Scope <- OneScope
  Parent <- OneParent
  MaxChildren = 2
  MaxActive = 1
  MaxTurns = 2
  r1 = r1
SPECIFICATION Spec
INVARIANTS
  AnnouncedOnce
  AllowanceIsConserved
  DeliveredIsBound
  JudgedOnce
CONSTRAINT Staged
SYMMETRY Symmetry
CHECK_DEADLOCK FALSE
