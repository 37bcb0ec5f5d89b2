SPECIFICATION Spec
CONSTANTS
  o1 = o1  o2 = o2  i1 = i1  i2 = i2  p1 = p1  p2 = p2  c1 = c1  c2 = c2
  None = None
  Orders <- MCOrders1
  Intents <- MCIntents1
  Sales <- MCSales1
  MaxSessions = 1
  Calls <- MCCalls1
  MaxCrashes = 0
  Targets = {"PENDING"}
  Totals = {1}
INVARIANT NeverDoubleCharged
