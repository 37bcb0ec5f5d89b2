SPECIFICATION BoundedSpec
CONSTANTS
  o1 = o1  o2 = o2  i1 = i1  i2 = i2  p1 = p1  p2 = p2  c1 = c1  c2 = c2
  None = None
  Orders <- MCOrders2
  Intents <- MCIntents1
  Sales <- MCSales2
  MaxSessions = 2
  Calls <- MCCalls2
  MaxCrashes = 1
  Targets = {"PENDING"}
  Totals = {1, 2}
SYMMETRY Interchangeable
INVARIANTS TypeOK ClosedSessionBalanced
PROPERTY SaleIsSound
