SPECIFICATION FocusedSpec
CONSTANTS
  t1 = t1  r1 = r1  r2 = r2  r3 = r3  c1 = c1  c2 = c2
  Null = Null  Unsent = Unsent
  StockItems <- MCRows2
  StockDishes <- MCOther
  SaleLines <- MCSaleLines
  Deltas = {2}
  Counts = {1}
  StockCalls <- MCCalls
  MaxAdjustments = 2
  Categories <- MCOther
  Dishes <- MCOther
  Groups <- MCOther
  Options <- MCRows2
  OptionDeltas = {1}
  MinSelects = {2}
  MaxSelects = {1, 2}
  Flags = {TRUE, FALSE}
  Selections <- MCSelections
  MenuCalls <- MCCalls
  MaxLines = 1
  Users <- MCRows2
  SessionIds <- MCRows3
  AccessCalls <- MCCalls
  Subs <- MCRows2
  Customer <- MCCustomer
  SubStatuses = {"trialing"}
  MaxEvents = 3
  Deliveries <- MCCalls
  Screens <- MCOther
  Accounts <- MCAccounts
  LiveTables <- MCTables
  LiveOrders <- MCOther
  RestaurantOf <- MCRestaurantOf
  CustomerOf <- MCCustomerOf
  ShownTotals = {0, 1}
  ShownStatuses = {"PENDING", "CONFIRMED", "CANCELLED"}
  Emitters <- MCCalls
  Tickets <- MCRows2
  Receipts <- MCOther
  Amounts = {1, 2}
  Methods = {"CASH", "STRIPE"}
  DayLength = 2
  Days = 2
  TicketTargets = {"PENDING", "CONFIRMED", "PREPARING", "READY", "COMPLETED", "CANCELLED"}
  TicketCalls <- MCCalls
SYMMETRY Interchangeable
INVARIANTS
  BackOfficeTypeOK QuantityIsLogged SaleTakenOnce
  DishOrderable OrderedDishStays LiveWithinLogins InSyncInOrder CreationHasRow
  ScreensCurrent ScreensOnlyOwn RangeAgreesWithDays
PROPERTIES LineRespectsMenu SettledDayIsFinal
CHECK_DEADLOCK FALSE
