SPECIFICATION FairSpec
CONSTANTS
  Orders = {o1}
  Cancels = {c1}
  Workers = {w1, w2}
  Versions = {v1, v2}
  VersionOf <- TwoVersions
  MaxKills = 0
  NoJob = NoJob
  NoOrder = NoOrder
  w1 = w1
  w2 = w2
  v1 = v1
  v2 = v2
PROPERTIES
  ClaimsAreResolved
  OnlyBoundProviderActs
