SPECIFICATION FewRowsSpec
CONSTANTS
  t1 = t1  t2 = t2  r1 = r1  r2 = r2  c1 = c1  c2 = c2
  None = None
  Tables <- MCTables1
  Reservations <- MCReservations2
  Calls <- MCCalls2
  MaxOrders = 2
  Targets = {"PENDING"}
SYMMETRY Interchangeable
INVARIANTS HoldHasReservation UnpaidKeepsTable
PROPERTIES StatusFollowsMachine TerminalIsFinal BookKept
