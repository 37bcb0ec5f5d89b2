------------------------------- MODULE Floor -------------------------------
(***************************************************************************)
(* The dining-room floor: tables, orders and reservations, and the HTTP    *)
(* requests that change them (src/orders, src/reservations, src/tables and *)
(* the table side of src/payments).                                        *)
(*                                                                         *)
(* The API is stateless, so the database rows are the shared state and a   *)
(* request in flight is a process.  Every await of a handler is a          *)
(* scheduling point: an action reads or commits exactly what one statement *)
(* or one transaction does, and what a handler remembers across an await   *)
(* is kept in its slot of calls.  Postgres runs at its default, READ       *)
(* COMMITTED; nothing in the code locks or re-checks a row, so a slot's    *)
(* memory may be stale by the time it is used.  A transaction that only    *)
(* writes is one step.  Rejected requests, database errors and process     *)
(* crashes all end a request between two statements: Abandon.              *)
(*                                                                         *)
(* Prices, lines and payments live in OrderTotals and Checkout.            *)
(***************************************************************************)
EXTENDS Naturals, FiniteSets, OrderStatus

CONSTANTS Tables,         \* ids a table row may get
          Reservations,   \* ids a reservation row may get
          Calls,          \* slots for concurrent requests
          MaxOrders,      \* bound: orders ever created
          Targets,        \* bound: statuses that requests ask for
          None            \* SQL NULL

ASSUME FloorAssumption ==
  /\ MaxOrders \in Nat
  /\ Targets \subseteq OrderStatuses
  /\ None \notin Tables \cup Reservations \cup Nat

VARIABLES tables,         \* table id -> status, or whether the row exists
          orders,         \* order id -> [status, table]; ids grow with createdAt
          reservations,   \* reservation id -> [status, type, table, order]
          calls           \* request slot -> the handler's position and memory

vars == <<tables, orders, reservations, calls>>

Orders == 1..MaxOrders

TableStatuses == {"AVAILABLE", "RESERVED", "OCCUPIED"}
ReservationTypes == {"WITH_PREORDER", "DEPOSIT_ONLY", "INFORMAL"}
PAID_TYPES == {"WITH_PREORDER", "DEPOSIT_ONLY"}
ReservationStatuses == {"PENDING", "CONFIRMED", "SEATED", "NO_SHOW", "CANCELLED"}
TERMINAL_STATUSES == {"SEATED", "NO_SHOW", "CANCELLED"}

\* Mutant: a seated party can still be cancelled.
TerminableOrSeated == {"PENDING", "CONFIRMED", "SEATED"}
TERMINABLE_STATUSES == {"PENDING", "CONFIRMED"}

\* A row that was never inserted is ABSENT, a deleted table GONE (a new row
\* gets a new id).
TableRow(t) == tables[t] \in TableStatuses
OrderRow(o) == orders[o].status # "ABSENT"
ReservationRow(r) == reservations[r].status # "ABSENT"

\* Mutants: the query forgets the table, or counts DRAFT orders only.
ActiveAnywhere(t) == {o \in Orders : orders[o].status \in ACTIVE_ORDER_STATUSES}
DraftOrders(t) == {o \in Orders : orders[o].table = t /\ orders[o].status = "DRAFT"}
\* Orders that count as active on table t.
ActiveOrders(t) ==
  {o \in Orders : orders[o].table = t /\ orders[o].status \in ACTIVE_ORDER_STATUSES}

\* The id the next order gets.
FreshOrder ==
  {o \in Orders : ~OrderRow(o) /\ \A p \in Orders : p < o => OrderRow(p)}

Idle == [at |-> "idle", order |-> None, table |-> None, res |-> None, next |-> "none"]

Request == [at : {"idle", "open", "lookup", "insert", "link", "preorder", "reserve",
                  "confirm", "seatPreorder", "terminate", "release", "close",
                  "status", "pay", "remove"},
            order : Orders \cup {None},
            table : Tables \cup {None},
            res : Reservations \cup {None},
            next : {"none", "reply", "link"} \cup ReservationTypes
                     \cup {"NO_SHOW", "CANCELLED"} \cup OrderStatuses]

Init ==
  /\ tables = [t \in Tables |-> "ABSENT"]
  /\ orders = [o \in Orders |-> [status |-> "ABSENT", table |-> None]]
  /\ reservations = [r \in Reservations |->
       [status |-> "ABSENT", type |-> "INFORMAL", table |-> None, order |-> None]]
  /\ calls = [c \in Calls |-> Idle]

-----------------------------------------------------------------------------
\* Steps of a request.

At(c, pc) == calls[c].at = pc

\* An idle slot takes a new request whose first statement is at pc.
Accept(c, pc, order, table, res, next) ==
  /\ calls[c] = Idle
  /\ calls' = [calls EXCEPT ![c] =
       [at |-> pc, order |-> order, table |-> table, res |-> res, next |-> next]]

Goto(c, pc) == calls' = [calls EXCEPT ![c].at = pc]

Finish(c) == calls' = [calls EXCEPT ![c] = Idle]

\* A request ends early: a guard rejected it, a statement failed and rolled
\* back, or the process died.  Whatever it committed before stays.
Abandon(c) ==
  /\ calls[c] # Idle
  /\ Finish(c)
  /\ UNCHANGED <<tables, orders, reservations>>

-----------------------------------------------------------------------------
\* OrdersService.create, called by POST /orders (next = "reply") and by the
\* two reservation seatings that open a table (next = "link").

\* A dine-in order names a table; takeaway and delivery read none.
PostOrder(c, t) ==
  /\ Accept(c, IF t = None THEN "insert" ELSE "open", None, t, None, "reply")
  /\ UNCHANGED <<tables, orders, reservations>>

\* Mutant: an order is always inserted.
OpenTableAnew(c) ==
  /\ At(c, "open")
  /\ TableRow(calls[c].table)
  /\ Goto(c, "insert")
  /\ UNCHANGED <<tables, orders, reservations>>

\* Only an OCCUPIED table is searched for an order to reuse.
OpenTable(c) ==
  /\ At(c, "open")
  /\ TableRow(calls[c].table)
  /\ Goto(c, IF tables[calls[c].table] = "OCCUPIED" THEN "lookup" ELSE "insert")
  /\ UNCHANGED <<tables, orders, reservations>>

\* create() hands order o to its caller: the response, or the seating.
Answer(c, o) ==
  IF calls[c].next = "reply"
    THEN Finish(c)
    ELSE calls' = [calls EXCEPT ![c].at = "link", ![c].order = o]

Newest(S) == {o \in S : \A p \in S : p <= o}

ReuseActiveOrder(c) ==
  /\ At(c, "lookup")
  /\ \E o \in Newest(ActiveOrders(calls[c].table)) : Answer(c, o)
  /\ UNCHANGED <<tables, orders, reservations>>

NoActiveOrder(c) ==
  /\ At(c, "lookup")
  /\ ActiveOrders(calls[c].table) = {}
  /\ Goto(c, "insert")
  /\ UNCHANGED <<tables, orders, reservations>>

\* The transaction inserts the DRAFT order and marks its table OCCUPIED; the
\* foreign key and the update both need the table row to exist still.
InsertOrder(c) ==
  LET t == calls[c].table
  IN /\ At(c, "insert")
     /\ t # None => TableRow(t)
     /\ tables' = [u \in Tables |-> IF u = t THEN "OCCUPIED" ELSE tables[u]]
     /\ \E o \in FreshOrder :
          /\ orders' = [orders EXCEPT ![o] = [status |-> "DRAFT", table |-> t]]
          /\ Answer(c, o)
     /\ UNCHANGED reservations

-----------------------------------------------------------------------------
\* Order status changes: read the status, check the transition, then write
\* the new status in a later statement without looking again.

RequestStatus(c, o, next) ==
  /\ OrderRow(o)
  /\ next \in Targets
  /\ canTransition(orders[o].status, next)
  /\ Accept(c, "status", o, None, None, next)
  /\ UNCHANGED <<tables, orders, reservations>>

\* PATCH /orders/:id/status reaches every status of the machine.
UpdateStatus(c, o) == \E next \in OrderStatuses : RequestStatus(c, o, next)

\* POST /orders/:id/confirm (its test for at least one item is OrderTotals').
ConfirmOrder(c, o) == RequestStatus(c, o, "PENDING")

\* The Stripe webhook, after it marked the payment succeeded.
MarkConfirmed(c, o) == RequestStatus(c, o, "CONFIRMED")

WriteStatus(c) ==
  /\ At(c, "status")
  /\ orders' = [orders EXCEPT ![calls[c].order].status = calls[c].next]
  /\ Finish(c)
  /\ UNCHANGED <<tables, reservations>>

\* Mutant: the status test is dropped.
RequestAnyCheckout(c, o) ==
  /\ OrderRow(o)
  /\ Accept(c, "pay", o, orders[o].table, None, "none")
  /\ UNCHANGED <<tables, orders, reservations>>

\* POST /payments/checkout, as far as the floor sees it: a PENDING order is
\* read, and one transaction confirms it and frees the table it was read with.
RequestCheckout(c, o) ==
  /\ orders[o].status = "PENDING"
  /\ Accept(c, "pay", o, orders[o].table, None, "none")
  /\ UNCHANGED <<tables, orders, reservations>>

CommitCheckout(c) ==
  LET t == calls[c].table
  IN /\ At(c, "pay")
     /\ t # None => TableRow(t)
     /\ orders' = [orders EXCEPT ![calls[c].order].status = "CONFIRMED"]
     /\ tables' = [u \in Tables |-> IF u = t THEN "AVAILABLE" ELSE tables[u]]
     /\ Finish(c)
     /\ UNCHANGED reservations

-----------------------------------------------------------------------------
\* ReservationsService.

\* POST /reservations.  INFORMAL names no table.
PostInformal(c) ==
  /\ Accept(c, "reserve", None, None, None, "INFORMAL")
  /\ UNCHANGED <<tables, orders, reservations>>

\* The paid types name a table that is AVAILABLE now; it stays AVAILABLE.
PostReservation(c, type, t) ==
  /\ tables[t] = "AVAILABLE"
  /\ Accept(c, IF type = "WITH_PREORDER" THEN "preorder" ELSE "reserve",
            None, t, None, type)
  /\ UNCHANGED <<tables, orders, reservations>>

\* The pre-order is a TAKEAWAY order: no table is committed by it.
InsertPreorder(c) ==
  /\ At(c, "preorder")
  /\ \E o \in FreshOrder :
       /\ orders' = [orders EXCEPT ![o] = [status |-> "DRAFT", table |-> None]]
       /\ calls' = [calls EXCEPT ![c].at = "reserve", ![c].order = o]
  /\ UNCHANGED <<tables, reservations>>

InsertReservation(c) ==
  /\ At(c, "reserve")
  /\ calls[c].table # None => TableRow(calls[c].table)
  /\ \E r \in Reservations :
       /\ ~ReservationRow(r)
       /\ reservations' = [reservations EXCEPT ![r] =
            [status |-> "PENDING", type |-> calls[c].next,
             table |-> calls[c].table, order |-> calls[c].order]]
  /\ Finish(c)
  /\ UNCHANGED <<tables, orders>>

\* POST /reservations/:id/confirm.  Only the paid types commit a table.
RequestConfirm(c, r) ==
  /\ reservations[r].status = "PENDING"
  /\ Accept(c, "confirm", None,
            IF reservations[r].type \in PAID_TYPES THEN reservations[r].table ELSE None,
            r, "none")
  /\ UNCHANGED <<tables, orders, reservations>>

\* The table becomes RESERVED whatever its status is by now.
CommitConfirm(c) ==
  LET t == calls[c].table
  IN /\ At(c, "confirm")
     /\ t # None => TableRow(t)
     /\ tables' = [u \in Tables |-> IF u = t THEN "RESERVED" ELSE tables[u]]
     /\ reservations' = [reservations EXCEPT ![calls[c].res].status = "CONFIRMED"]
     /\ Finish(c)
     /\ UNCHANGED orders

\* Mutant: staff may seat a pre-order at a table other than the reserved one.
RequestSeatPreorderAnywhere(c, r) ==
  /\ reservations[r].status = "CONFIRMED"
  /\ reservations[r].type = "WITH_PREORDER"
  /\ reservations[r].order # None
  /\ \E t \in Tables : Accept(c, "seatPreorder", reservations[r].order, t, r, "none")
  /\ UNCHANGED <<tables, orders, reservations>>

\* POST /reservations/:id/seat, one action per reservation type.
RequestSeatPreorder(c, r) ==
  /\ reservations[r].status = "CONFIRMED"
  /\ reservations[r].type = "WITH_PREORDER"
  /\ reservations[r].order # None /\ reservations[r].table # None
  /\ Accept(c, "seatPreorder", reservations[r].order, reservations[r].table, r, "none")
  /\ UNCHANGED <<tables, orders, reservations>>

\* Mutant: the order is not moved to the table.
CommitSeatWithoutOrder(c) ==
  /\ At(c, "seatPreorder")
  /\ TableRow(calls[c].table)
  /\ tables' = [tables EXCEPT ![calls[c].table] = "OCCUPIED"]
  /\ reservations' = [reservations EXCEPT ![calls[c].res].status = "SEATED"]
  /\ Finish(c)
  /\ UNCHANGED orders

\* One batch transaction: table OCCUPIED, reservation SEATED, order moved in.
CommitSeatPreorder(c) ==
  LET t == calls[c].table
  IN /\ At(c, "seatPreorder")
     /\ TableRow(t)
     /\ tables' = [tables EXCEPT ![t] = "OCCUPIED"]
     /\ reservations' = [reservations EXCEPT ![calls[c].res].status = "SEATED"]
     /\ orders' = [orders EXCEPT ![calls[c].order].table = t]
     /\ Finish(c)

\* The other two types open the table through OrdersService.create.
RequestSeatDeposit(c, r) ==
  /\ reservations[r].status = "CONFIRMED"
  /\ reservations[r].type = "DEPOSIT_ONLY"
  /\ reservations[r].table # None
  /\ Accept(c, "open", None, reservations[r].table, r, "link")
  /\ UNCHANGED <<tables, orders, reservations>>

\* Staff name the table when an INFORMAL party arrives.
RequestSeatInformal(c, r, t) ==
  /\ reservations[r].status = "CONFIRMED"
  /\ reservations[r].type = "INFORMAL"
  /\ Accept(c, "open", None, t, r, "link")
  /\ UNCHANGED <<tables, orders, reservations>>

\* Reservation.orderId is unique.
OrderTaken(o, r) == \E q \in Reservations \ {r} : reservations[q].order = o

\* The reservation is SEATED with the order create() answered; an INFORMAL
\* one also gets the table staff named, which must still exist.
LinkReservation(c) ==
  LET r == calls[c].res
      informal == reservations[r].type = "INFORMAL"
  IN /\ At(c, "link")
     /\ ~OrderTaken(calls[c].order, r)
     /\ informal => TableRow(calls[c].table)
     /\ reservations' = [reservations EXCEPT ![r] =
          [@ EXCEPT !.status = "SEATED", !.order = calls[c].order,
                    !.table = IF informal THEN calls[c].table
                               ELSE reservations[r].table]]
     /\ Finish(c)
     /\ UNCHANGED <<tables, orders>>

\* POST /reservations/:id/no-show and /cancel.
RequestTerminate(c, r, next) ==
  /\ reservations[r].status \in TERMINABLE_STATUSES
  /\ Accept(c, IF reservations[r].table = None THEN "close" ELSE "terminate",
            None, reservations[r].table, r, next)
  /\ UNCHANGED <<tables, orders, reservations>>

\* Mutant: a held table is never released.
KeepHeldTable(c) ==
  /\ At(c, "terminate")
  /\ Goto(c, "close")
  /\ UNCHANGED <<tables, orders, reservations>>

\* Inside the transaction the table is read before it is freed: the decision
\* is carried over another await.
ReadHeldTable(c) ==
  /\ At(c, "terminate")
  /\ Goto(c, IF tables[calls[c].table] = "RESERVED" THEN "release" ELSE "close")
  /\ UNCHANGED <<tables, orders, reservations>>

CommitTerminate(c) ==
  LET t == calls[c].table
  IN /\ calls[c].at \in {"release", "close"}
     /\ IF At(c, "release")
          THEN TableRow(t) /\ tables' = [tables EXCEPT ![t] = "AVAILABLE"]
          ELSE UNCHANGED tables
     /\ reservations' = [reservations EXCEPT ![calls[c].res].status = calls[c].next]
     /\ Finish(c)
     /\ UNCHANGED orders

-----------------------------------------------------------------------------
\* TablesService.

CreateTable(t) ==
  /\ tables[t] = "ABSENT"
  /\ tables' = [tables EXCEPT ![t] = "AVAILABLE"]
  /\ UNCHANGED <<orders, reservations, calls>>

\* DELETE /tables/:id is accepted for an AVAILABLE table ...
RequestRemove(c, t) ==
  /\ tables[t] = "AVAILABLE"
  /\ Accept(c, "remove", None, t, None, "none")
  /\ UNCHANGED <<tables, orders, reservations>>

\* ... and deletes whatever the row is by then.  Both foreign keys to tables
\* are ON DELETE SET NULL (mutant: no referential action).
DetachNothing(S, t) == S
Detach(S, t) == [i \in DOMAIN S |->
                   IF S[i].table = t THEN [S[i] EXCEPT !.table = None] ELSE S[i]]

DeleteTable(c) ==
  LET t == calls[c].table
  IN /\ At(c, "remove")
     /\ TableRow(t)
     /\ tables' = [tables EXCEPT ![t] = "GONE"]
     /\ orders' = Detach(orders, t)
     /\ reservations' = Detach(reservations, t)
     /\ Finish(c)

-----------------------------------------------------------------------------
OrderStep(c) ==
  \/ \E t \in Tables \cup {None} : PostOrder(c, t)
  \/ OpenTable(c)
  \/ ReuseActiveOrder(c)
  \/ NoActiveOrder(c)
  \/ InsertOrder(c)
  \/ \E o \in Orders : UpdateStatus(c, o)
  \/ \E o \in Orders : ConfirmOrder(c, o)
  \/ \E o \in Orders : MarkConfirmed(c, o)
  \/ WriteStatus(c)
  \/ \E o \in Orders : RequestCheckout(c, o)
  \/ CommitCheckout(c)

ReservationStep(c) ==
  \/ PostInformal(c)
  \/ \E type \in PAID_TYPES, t \in Tables : PostReservation(c, type, t)
  \/ InsertPreorder(c)
  \/ InsertReservation(c)
  \/ \E r \in Reservations : RequestConfirm(c, r)
  \/ CommitConfirm(c)
  \/ \E r \in Reservations : RequestSeatPreorder(c, r)
  \/ CommitSeatPreorder(c)
  \/ \E r \in Reservations : RequestSeatDeposit(c, r)
  \/ \E r \in Reservations, t \in Tables : RequestSeatInformal(c, r, t)
  \/ LinkReservation(c)
  \/ \E r \in Reservations, next \in {"NO_SHOW", "CANCELLED"} : RequestTerminate(c, r, next)
  \/ ReadHeldTable(c)
  \/ CommitTerminate(c)

TableStep(c) ==
  \/ \E t \in Tables : RequestRemove(c, t)
  \/ DeleteTable(c)

Next ==
  \/ \E c \in Calls : OrderStep(c) \/ ReservationStep(c) \/ TableStep(c) \/ Abandon(c)
  \/ \E t \in Tables : CreateTable(t)

Spec == Init /\ [][Next]_vars

-----------------------------------------------------------------------------
\* Properties that hold however requests interleave and fail.

\* Rows have their columns' types, and every foreign key names a row: deleting
\* a table detaches it, a reservation's order exists.
TypeOK ==
  /\ tables \in [Tables -> TableStatuses \cup {"ABSENT", "GONE"}]
  /\ orders \in [Orders -> [status : OrderStatuses \cup {"ABSENT"},
                            table : Tables \cup {None}]]
  /\ reservations \in [Reservations -> [status : ReservationStatuses \cup {"ABSENT"},
                                        type : ReservationTypes,
                                        table : Tables \cup {None},
                                        order : Orders \cup {None}]]
  /\ calls \in [Calls -> Request]
  /\ \A o \in Orders : orders[o].table # None => TableRow(orders[o].table)
  /\ \A r \in Reservations :
       /\ reservations[r].table # None => TableRow(reservations[r].table)
       /\ reservations[r].order # None => OrderRow(reservations[r].order)

\* A seated party has an order, and that order is on the party's table (or
\* both lost it when the table was deleted).  The two are written by different
\* statements of seat(), with other requests between them.
SeatedOnItsTable ==
  \A r \in Reservations : reservations[r].status = "SEATED" =>
    /\ reservations[r].order # None
    /\ orders[reservations[r].order].table = reservations[r].table

\* An OCCUPIED table was occupied by some order that still names it: no
\* interleaving of seating, checkout, deletion or release leaves the status
\* without any order.
OccupiedHasOrder ==
  \A t \in Tables : tables[t] = "OCCUPIED" => \E o \in Orders : orders[o].table = t

\* An order never moves from one table to another: seating a pre-order gives a
\* table to an order without one, deleting a table takes it away.
OrderKeepsItsTable ==
  [][\A o \in Orders : orders[o].table # None =>
        orders'[o].table \in {orders[o].table, None}]_vars

-----------------------------------------------------------------------------
\* Walk-in service: no reservations, requests handled one at a time (a single
\* slot), each of them possibly cut short by a failure.

\* An order that is on a table and not yet paid.
Unpaid(o) == orders[o].status \in EDITABLE_STATUSES /\ orders[o].table # None

\* The unpaid orders of each table and the orders that ended or were paid: walk-in
\* service keeps the book of TicketBook with them.
ticket == [t \in Tables |-> {o \in Orders : Unpaid(o) /\ orders[o].table = t}]
settled == {o \in Orders : orders[o].status \in OrderStatuses \ EDITABLE_STATUSES}

Book == INSTANCE TicketBook WITH Tickets <- Orders
TicketBookSpec == Book!Spec

-----------------------------------------------------------------------------
\* What the repository says and the code does not keep; each is the property
\* of a run that finds the counterexample.

\* README.md: opening an order on an occupied table returns the existing order
\* instead of duplicating it.  Two terminals that open the same table at the
\* same time both pass the test for OCCUPIED.
OneUnpaidOrderPerTable == \A t \in Tables : Cardinality(ticket[t]) <= 1

\* Reservation design: a paid deposit holds its table.  From the confirmation
\* on, the table stays RESERVED until the party is being seated (a request for
\* its reservation is in flight) or the reservation ends.
DepositHoldsTable ==
  \A r \in Reservations :
    reservations[r].status = "CONFIRMED" /\ reservations[r].table # None =>
      \/ tables[reservations[r].table] = "RESERVED"
      \/ \E c \in Calls : calls[c].res = r
=============================================================================
