SPECIFICATION Spec
CONSTANTS
  Orders = {o1, o2}
  Cancels = {c1}
  Workers = {w1, w2}
  Versions = {v1}
  VersionOf <- OneVersion
  MaxKills = 1
  NoJob = NoJob
  NoOrder = NoOrder
  w1 = w1
  w2 = w2
  v1 = v1
  v2 = v2
SYMMETRY OrdersAndWorkers
CONSTRAINTS
  QuietAccount
  PlainReplacement
INVARIANTS
  GateOpenMeansSettled
  OneInDoubt
  AtMostOneAttempt
  OnlyApprovedReachProvider
  ReplacementWaits
  CanceledOnlyOnRequest
  RecordNeverAhead
PROPERTIES
  RecordNeverRegresses
  ImplementsOutbox
  ClearedOnlyAfterFreshReconciliation
