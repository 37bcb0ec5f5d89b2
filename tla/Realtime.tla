------------------------------ MODULE Realtime ------------------------------
(***************************************************************************)
(* The websocket gateway (src/realtime) and the handlers that tell it what *)
(* they wrote (src/orders, src/payments, src/reservations).                *)
(*                                                                         *)
(* A handler writes a row, and in a later step emits what it wrote to the  *)
(* rooms of those concerned; other requests run in between, and an         *)
(* emission that fails is only logged.  socket.io (external) delivers an   *)
(* emission once to the sockets that are in its room.  A screen (external) *)
(* loads the rows it may read when it has joined and then follows the      *)
(* events.  Which status follows which for a table is in Floor, how totals *)
(* come about in OrderTotals; here they are only written.                  *)
(*                                                                         *)
(* History: behindTimes holds the subjects of which the last emission was  *)
(* lost, or told what was no longer in the row, and the orders whose last  *)
(* change of status had no event.                                          *)
(***************************************************************************)
EXTENDS Naturals, FiniteSets, OrderStatus, Sql

CONSTANTS Screens,          \* sockets
          Accounts,         \* who they belong to: [role, userId, restaurantId], from the token
          LiveTables, LiveOrders,
          RestaurantOf,     \* table or order -> its restaurant
          CustomerOf,       \* order -> its customer, or Null
          ShownTotals,      \* values that stand for an order's four amounts
          ShownStatuses,    \* bound: order statuses asked for
          Emitters          \* slots for handlers that have something to emit

VARIABLES shown,       \* subject -> what its row holds
          screens,     \* screen -> [account, rooms], or NoSocket
          knows,       \* screen -> subject -> what it shows (external)
          emitters,    \* slot -> [subject, value] written and not yet emitted
          behindTimes

realtimeVars == <<shown, screens, knows, emitters, behindTimes>>

TableSubject(t) == [event |-> "table.status_changed", id |-> t]
StatusSubject(o) == [event |-> "order.status_changed", id |-> o]
TotalsSubject(o) == [event |-> "order.totals_changed", id |-> o]
OrderSubjects == {StatusSubject(o) : o \in LiveOrders} \cup {TotalsSubject(o) : o \in LiveOrders}
Subjects == {TableSubject(t) : t \in LiveTables} \cup OrderSubjects

\* POST /orders: an order is of the restaurant of whoever placed it.
ASSUME RealtimeAssumption ==
  /\ ShownTotals \subseteq Nat /\ ShownStatuses \subseteq OrderStatuses
  /\ LiveTables \cap LiveOrders = {} /\ Null \notin Accounts \cup Subjects
  /\ \A account \in Accounts : account.userId # Null
  /\ \A o \in LiveOrders, account \in Accounts :
       account.userId = CustomerOf[o] => account.restaurantId = RestaurantOf[o]

NoSocket == [account |-> Null, rooms |-> {}]
NothingToEmit == [subject |-> Null, value |-> Null]
Unknown == [subject \in Subjects |-> Null]

RealtimeInit ==
  /\ shown = [x \in Subjects |-> CASE x.event = "table.status_changed" -> "AVAILABLE"
                                   [] x.event = "order.status_changed" -> "DRAFT"
                                   [] OTHER -> 0]
  /\ screens = [s \in Screens |-> NoSocket]
  /\ knows = [s \in Screens |-> Unknown]
  /\ emitters = [c \in Emitters |-> NothingToEmit]
  /\ behindTimes = {}

STAFF_ROLES == {"ADMIN", "WAITER", "CASHIER", "MANAGER", "STAFF", "KITCHEN"}

staffRoom(restaurantId) == <<"staff", restaurantId>>
customerRoom(customerId) == <<"customer", customerId>>

\* What an account may read over HTTP: the staff what is their restaurant's, a
\* customer their own orders there.
MayRead(account, x) ==
  /\ RestaurantOf[x.id] = account.restaurantId
  /\ \/ account.role \in STAFF_ROLES
     \/ account.role = "CUSTOMER" /\ x \in OrderSubjects /\ CustomerOf[x.id] = account.userId

-----------------------------------------------------------------------------
\* Sockets.

\* A role that is neither joins no room.
joinRooms(account) ==
  IF account.role \in STAFF_ROLES THEN {staffRoom(account.restaurantId)}
  ELSE IF account.role = "CUSTOMER" THEN {customerRoom(account.userId)} ELSE {}

handleConnection(s, account) ==
  /\ screens[s] = NoSocket
  /\ screens' = [screens EXCEPT ![s] = [account |-> account, rooms |-> joinRooms(account)]]
  /\ knows' = [knows EXCEPT ![s] =
       [x \in Subjects |-> IF joinRooms(account) # {} /\ MayRead(account, x) THEN shown[x] ELSE Null]]
  /\ UNCHANGED <<shown, emitters, behindTimes>>

\* A socket without a valid token is never more than that.
Disconnect(s) ==
  /\ screens[s] # NoSocket
  /\ screens' = [screens EXCEPT ![s] = NoSocket]
  /\ knows' = [knows EXCEPT ![s] = Unknown]
  /\ UNCHANGED <<shown, emitters, behindTimes>>

-----------------------------------------------------------------------------
\* Handlers.

WriteAndEmit(c, x, value) ==
  /\ emitters[c] = NothingToEmit
  /\ shown' = [shown EXCEPT ![x] = value]
  /\ emitters' = [emitters EXCEPT ![c] = [subject |-> x, value |-> value]]
  /\ UNCHANGED <<screens, knows, behindTimes>>

\* An order opened at the table, a checkout, a confirmed deposit, a party seated
\* or a reservation ended.
SetTable(c, t) ==
  \E status \in {"AVAILABLE", "RESERVED", "OCCUPIED"} : WriteAndEmit(c, TableSubject(t), status)

\* PATCH /orders/:id/status.
SetStatus(c, o) ==
  \E next \in ShownStatuses :
    /\ canTransition(shown[StatusSubject(o)], next)
    /\ WriteAndEmit(c, StatusSubject(o), next)

\* confirmOrder, markConfirmed and POS checkout emit no order event.
ConfirmWithoutEvent(o) ==
  \E next \in {"PENDING", "CONFIRMED"} :
    /\ canTransition(shown[StatusSubject(o)], next)
    /\ shown' = [shown EXCEPT ![StatusSubject(o)] = next]
    /\ behindTimes' = behindTimes \cup {StatusSubject(o)}
    /\ UNCHANGED <<screens, knows, emitters>>

\* recalculateTotals, at the end of every edit of lines or discount.
SetTotals(c, o) ==
  \E amounts \in ShownTotals : WriteAndEmit(c, TotalsSubject(o), amounts)

\* Mutants: all staff share a room; the order's customer is forgotten.
RoomsForAnyStaff(x) ==
  {staffRoom(account.restaurantId) : account \in Accounts} \cup
    {customerRoom(CustomerOf[o]) : o \in {y \in LiveOrders : x.id = y /\ CustomerOf[y] # Null}}
RoomsForStaffOnly(x) == {staffRoom(RestaurantOf[x.id])}

\* A table event goes to the staff; an order event also to the order's customer,
\* if it has one.
RoomsFor(x) ==
  {staffRoom(RestaurantOf[x.id])} \cup
    {customerRoom(CustomerOf[o]) : o \in {y \in LiveOrders : x.id = y /\ CustomerOf[y] # Null}}

Emit(c) ==
  LET x == emitters[c].subject
      value == emitters[c].value
  IN /\ emitters[c] # NothingToEmit
     /\ knows' = [s \in Screens |->
          IF screens[s] # NoSocket /\ screens[s].rooms \cap RoomsFor(x) # {}
          THEN [knows[s] EXCEPT ![x] = value] ELSE knows[s]]
     /\ behindTimes' = IF value = shown[x] THEN behindTimes \ {x} ELSE behindTimes \cup {x}
     /\ emitters' = [emitters EXCEPT ![c] = NothingToEmit]
     /\ UNCHANGED <<shown, screens>>

\* The gateway's lookup fails and is logged, or the process dies.
LoseEmission(c) ==
  /\ emitters[c] # NothingToEmit
  /\ behindTimes' = behindTimes \cup {emitters[c].subject}
  /\ emitters' = [emitters EXCEPT ![c] = NothingToEmit]
  /\ UNCHANGED <<shown, screens, knows>>

-----------------------------------------------------------------------------
RealtimeNext ==
  \/ \E s \in Screens : Disconnect(s) \/ \E account \in Accounts : handleConnection(s, account)
  \/ \E c \in Emitters :
       \/ \E t \in LiveTables : SetTable(c, t)
       \/ \E o \in LiveOrders : SetStatus(c, o) \/ SetTotals(c, o)
       \/ Emit(c)
       \/ LoseEmission(c)
  \/ \E o \in LiveOrders : ConfirmWithoutEvent(o)

RealtimeSpec == RealtimeInit /\ [][RealtimeNext]_realtimeVars

-----------------------------------------------------------------------------
\* A socket is in one room at most.
RealtimeTypeOK ==
  /\ \A s \in Screens : screens[s] # NoSocket =>
       screens[s].account \in Accounts /\ Cardinality(screens[s].rooms) <= 1
  /\ \A c \in Emitters : emitters[c] # NothingToEmit => emitters[c].subject \in Subjects
  /\ behindTimes \subseteq Subjects

Quiet == \A c \in Emitters : emitters[c] = NothingToEmit

UpToDate(x) ==
  \A s \in Screens :
    screens[s] # NoSocket /\ joinRooms(screens[s].account) # {} /\ MayRead(screens[s].account, x)
      => knows[s][x] = shown[x]

\* When no handler has anything left to emit, every screen shows what the rows
\* of its tables and orders hold, whenever it joined and whoever wrote; unless
\* the last emission was lost or came out of order, or there was none.
ScreensCurrent == Quiet => \A x \in Subjects \ behindTimes : UpToDate(x)

\* No screen is told of another restaurant's tables and orders, nor a customer's
\* screen of another customer's order.
ScreensOnlyOwn ==
  \A s \in Screens : \A x \in Subjects :
    knows[s][x] # Null => screens[s] # NoSocket /\ MayRead(screens[s].account, x)
=============================================================================
