SPECIFICATION GapsSpec
CONSTANTS
  Orders = {o1}
  Cancels = {}
  Workers = {w1, w2}
  Versions = {v1}
  VersionOf <- OneVersion
  MaxKills = 0
  NoJob = NoJob
  NoOrder = NoOrder
  w1 = w1
  w2 = w2
  v1 = v1
  v2 = v2
INVARIANTS
  GapsFailClosed
