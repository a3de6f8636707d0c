SPECIFICATION Spec
CONSTANTS
  Keys = {k1, k2, k3}
  Scopes = {s1, s2}
  Groups = {g1}
  Members = {a, b}
  Plans <- DeepPlan
  Workers = {w1, w2}
  Estimates = {1}
  Costs = {0, 3}
  MaxRequests = 5
  PriorRequests = 1
  MaxCost = 6
  ScopeLimit <- TwoStages
  PriorSpend <- TwoPriors
  None = None
  a = a
  b = b
  s1 = s1
  s2 = s2
SYMMETRY BothSymmetries
INVARIANTS
  WithinBudget
  FundedArmsAreServed
  AtMostOnePermit
PROPERTIES
  ImplementsLedger
