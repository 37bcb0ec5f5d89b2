SPECIFICATION Spec
CONSTANTS
  t1 = t1  t2 = t2  r1 = r1  r2 = r2  c1 = c1  c2 = c2
  None = None
  Tables <- MCTables2
  Reservations <- MCReservations0
  Calls <- MCCalls1
  MaxOrders = 3
  Targets = {"PENDING", "CONFIRMED", "PREPARING", "READY", "COMPLETED", "CANCELLED"}
PROPERTY TicketBookSpec
