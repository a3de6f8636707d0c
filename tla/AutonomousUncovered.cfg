CONSTANTS
  Orders = {r, i}
  Increases = {i}
  r = r
  i = i
  Instrument <- Apart
  DailyLimit = 2
  Nobody = Nobody
  OperatorReasons = {"coverage"}
  MaxViews = 1
  MaxFaults = 1
  MaxCrashes = 1
SPECIFICATION Spec
PROPERTIES
  UncoveredBlocksIncrease
CHECK_DEADLOCK FALSE
