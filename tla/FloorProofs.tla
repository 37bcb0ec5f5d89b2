---------------------------- MODULE FloorProofs ----------------------------
(***************************************************************************)
(* Proofs about Floor and FloorRaces, for any number of tables,            *)
(* reservations, orders and concurrent requests.                           *)
(*                                                                         *)
(* First what no interleaving breaks.  IInv is the inductive invariant:    *)
(* the properties of Floor, and for every request in flight what its       *)
(* memory still says about the rows by the time it is used.                *)
(*                                                                         *)
(* Then what only an overtaken request can break (RaceInv): a request that *)
(* was not overtaken finds what it read when it writes (Holds, Serves).    *)
(* The last part shows that walk-in tables keep the book of TicketBook.    *)
(***************************************************************************)
EXTENDS FloorRaces, TLAPS

\* A row that does not exist refers to nothing.
AbsentRowsEmpty ==
  /\ \A o \in Orders : ~OrderRow(o) => orders[o].table = None
  /\ \A r \in Reservations :
       ~ReservationRow(r) => reservations[r].order = None /\ reservations[r].table = None

\* reservations.orderId is unique.
UniqueOrder ==
  \A q, r \in Reservations :
    reservations[q].order # None /\ reservations[q].order = reservations[r].order => q = r

\* A pre-order is on no table or on the one its reservation names.
PreorderOnItsTable ==
  \A r \in Reservations :
    reservations[r].type = "WITH_PREORDER" /\ reservations[r].order # None =>
      orders[reservations[r].order].table \in {None, reservations[r].table}

\* The table a request remembers for reservation r is r's, or was deleted.
Remembers(r, t) ==
  \/ reservations[r].table = t
  \/ tables[t] = "GONE" /\ reservations[r].table = None

\* A request seats reservation r, not a pre-order, at table t.
Seating(r, t) ==
  /\ r \in Reservations /\ ReservationRow(r) /\ t \in Tables
  /\ reservations[r].type # "WITH_PREORDER"
  /\ reservations[r].type = "DEPOSIT_ONLY" => Remembers(r, t)

\* Order o answered by create() for table t is on t, or t was deleted, or it
\* belongs to a pre-order and cannot be linked.
AnsweredFor(o, t) ==
  /\ o \in Orders /\ OrderRow(o)
  /\ \/ orders[o].table = t
     \/ tables[t] = "GONE" /\ orders[o].table = None
     \/ \E r \in Reservations :
          reservations[r].type = "WITH_PREORDER" /\ reservations[r].order = o

\* Order o was inserted for a reservation that is not inserted yet.
Fresh(o) ==
  /\ o \in Orders /\ OrderRow(o)
  /\ orders[o].table = None
  /\ \A r \in Reservations : reservations[r].order # o

\* What the memory k of a request in flight is still good for.
Sane(k) ==
  /\ k.at \in {"open", "lookup"} => k.table \in Tables
  /\ k.at \in {"open", "lookup", "insert"} => k.next \in {"reply", "link"}
  /\ k.at \in {"open", "lookup", "insert", "link"} /\ k.next = "link" => Seating(k.res, k.table)
  /\ k.at = "link" => k.next = "link" /\ AnsweredFor(k.order, k.table)
  /\ k.at = "preorder" => k.next = "WITH_PREORDER" /\ k.order = None
  /\ k.at = "reserve" => /\ k.next \in ReservationTypes
                         /\ k.next # "WITH_PREORDER" => k.order = None
                         /\ k.order # None => Fresh(k.order)
  /\ k.at \in {"confirm", "terminate", "release", "close"} => k.res \in Reservations
  /\ k.at \in {"terminate", "release", "remove"} => k.table \in Tables
  /\ k.at \in {"terminate", "release", "close"} => k.next \in {"NO_SHOW", "CANCELLED"}
  /\ k.at = "seatPreorder" => /\ k.res \in Reservations /\ k.table \in Tables
                              /\ reservations[k.res].type = "WITH_PREORDER"
                              /\ reservations[k.res].order = k.order
                              /\ k.order \in Orders
                              /\ Remembers(k.res, k.table)
  /\ k.at \in {"status", "pay"} => k.order \in Orders /\ OrderRow(k.order)
  /\ k.at = "status" => k.next \in OrderStatuses

CallsSane == \A c \in Calls : Sane(calls[c])

\* Nobody else knows the order of a reservation about to be inserted.
Private ==
  \A c, d \in Calls :
    c # d /\ At(c, "reserve") /\ calls[c].order # None /\ calls[d].at \in {"reserve", "link"} =>
      calls[d].order # calls[c].order

IInv ==
  /\ TypeOK
  /\ AbsentRowsEmpty
  /\ UniqueOrder
  /\ PreorderOnItsTable
  /\ SeatedOnItsTable
  /\ OccupiedHasOrder
  /\ CallsSane
  /\ Private

-----------------------------------------------------------------------------
\* NULL is no order id.
LEMMA NoneIsNoOrder == None \notin Orders
BY FloorAssumption DEF Orders

\* The initial state satisfies the invariant: there are no rows and no calls.
LEMMA InitInv == Init => IInv
<1> SUFFICES ASSUME Init PROVE IInv
  OBVIOUS
<1> USE FloorAssumption DEF Init
<1>1. TypeOK
  BY DEF TypeOK, Idle, Request, Orders, OrderStatuses, ReservationTypes, ReservationStatuses
<1>2. AbsentRowsEmpty /\ UniqueOrder /\ PreorderOnItsTable
  BY DEF AbsentRowsEmpty, UniqueOrder, PreorderOnItsTable, Orders
<1>3. SeatedOnItsTable /\ OccupiedHasOrder
  BY DEF SeatedOnItsTable, OccupiedHasOrder
<1>4. CallsSane
  BY DEF CallsSane, Sane, Idle
<1>5. Private
  BY DEF Private, Idle, At
<1> QED
  BY <1>1, <1>2, <1>3, <1>4, <1>5 DEF IInv

\* A step that only moves request c to a memory k that is sane now, and knows
\* no order another request is about to give to its own reservation, keeps the
\* invariant.
LEMMA ReadStep ==
  ASSUME IInv, UNCHANGED <<tables, orders, reservations>>,
         NEW c \in Calls, NEW k \in Request, calls' = [calls EXCEPT ![c] = k], Sane(k),
         \A d \in Calls \ {c} :
           /\ k.at = "reserve" /\ k.order # None /\ calls[d].at \in {"reserve", "link"} =>
                calls[d].order # k.order
           /\ k.at \in {"reserve", "link"} /\ calls[d].at = "reserve" /\ calls[d].order # None =>
                calls[d].order # k.order
  PROVE  IInv'
<1>1. TypeOK'
  BY DEF IInv, TypeOK, TableRow, OrderRow
<1>2. AbsentRowsEmpty' /\ UniqueOrder' /\ PreorderOnItsTable'
  BY DEF IInv, AbsentRowsEmpty, UniqueOrder, PreorderOnItsTable, OrderRow,
          ReservationRow
<1>3. SeatedOnItsTable' /\ OccupiedHasOrder'
  BY DEF IInv, SeatedOnItsTable, OccupiedHasOrder
<1>4. CallsSane'
  <2> SUFFICES ASSUME NEW d \in Calls PROVE Sane(calls[d])'
    BY DEF CallsSane
  <2>1. calls'[d] = IF d = c THEN k ELSE calls[d]
    BY DEF IInv, TypeOK
  <2>2. Sane(calls'[d])
    BY <2>1 DEF IInv, CallsSane
  <2> QED
    BY <2>2 DEF Sane, Seating, Remembers, AnsweredFor, Fresh, OrderRow, ReservationRow
<1>5. Private'
  <2> SUFFICES ASSUME NEW b \in Calls, NEW d \in Calls, b # d, At(b, "reserve")',
                      calls'[b].order # None, calls'[d].at \in {"reserve", "link"}
               PROVE  calls'[d].order # calls'[b].order
    BY DEF Private
  <2>1. calls'[b] = (IF b = c THEN k ELSE calls[b]) /\ calls'[d] = (IF d = c THEN k ELSE calls[d])
    BY DEF IInv, TypeOK
  <2> QED
    BY <2>1 DEF IInv, Private, At
<1> QED
  BY <1>1, <1>2, <1>3, <1>4, <1>5 DEF IInv

\* A request that ends without a write.
LEMMA IdleStep ==
  ASSUME IInv, UNCHANGED <<tables, orders, reservations>>, NEW c \in Calls, Finish(c)
  PROVE  IInv'
<1>1. Idle \in Request
  BY DEF Idle, Request
<1>2. Sane(Idle)
  BY DEF Sane, Idle
<1>3. calls' = [calls EXCEPT ![c] = Idle] /\ Idle.at = "idle"
  BY DEF Finish, Idle
<1> HIDE DEF Idle
<1> QED
  BY <1>1, <1>2, <1>3, ReadStep

\* The memory a step moves to is about no order, or not about to use it.
LEMMA PlainStep ==
  ASSUME IInv, UNCHANGED <<tables, orders, reservations>>,
         NEW c \in Calls, NEW k \in Request, calls' = [calls EXCEPT ![c] = k], Sane(k),
         k.at # "link", k.at = "reserve" => k.order = None
  PROVE  IInv'
BY ReadStep

\* The steps of a status change, a checkout or a new order that write no row.
LEMMA OrderReads ==
  ASSUME IInv, NEW c \in Calls
  PROVE  /\ \A t \in Tables \cup {None} : PostOrder(c, t) => IInv'
         /\ OpenTable(c) => IInv'
         /\ ReuseActiveOrder(c) => IInv'
         /\ NoActiveOrder(c) => IInv'
         /\ \A o \in Orders, next \in OrderStatuses : RequestStatus(c, o, next) => IInv'
         /\ \A o \in Orders : RequestCheckout(c, o) => IInv'
<1>0. calls[c] \in Request /\ Sane(calls[c]) /\ TypeOK
  BY DEF IInv, TypeOK, CallsSane
<1>1. ASSUME NEW t \in Tables \cup {None}, PostOrder(c, t) PROVE IInv'
  <2> DEFINE k == [at |-> IF t = None THEN "insert" ELSE "open", order |-> None, table |-> t,
                   res |-> None, next |-> "reply"]
  <2>1. k \in Request /\ Sane(k) /\ k.at \notin {"link", "reserve"}
    BY DEF Request, Sane
  <2>2. calls' = [calls EXCEPT ![c] = k] /\ UNCHANGED <<tables, orders, reservations>>
    BY <1>1 DEF PostOrder, Accept
  <2> HIDE DEF k
  <2> QED
    BY <2>1, <2>2, PlainStep
<1>2. ASSUME OpenTable(c) PROVE IInv'
  <2> DEFINE k == [calls[c] EXCEPT !.at = IF tables[calls[c].table] = "OCCUPIED"
                                            THEN "lookup" ELSE "insert"]
  <2>1. k \in Request /\ Sane(k) /\ k.at \notin {"link", "reserve"}
    BY <1>0, <1>2 DEF Request, Sane, OpenTable, At
  <2>2. calls' = [calls EXCEPT ![c] = k] /\ UNCHANGED <<tables, orders, reservations>>
    BY <1>0, <1>2 DEF OpenTable, Goto, TypeOK, Request
  <2> HIDE DEF k
  <2> QED
    BY <2>1, <2>2, PlainStep
<1>3. ASSUME ReuseActiveOrder(c) PROVE IInv'
  <2>1. PICK o \in Newest(ActiveOrders(calls[c].table)) : Answer(c, o)
    BY <1>3 DEF ReuseActiveOrder
  <2>2. /\ calls[c].table \in Tables /\ calls[c].at = "lookup"
        /\ o \in Orders /\ OrderRow(o) /\ orders[o].table = calls[c].table
    BY <1>0, <1>3, FloorAssumption
    DEF Sane, ReuseActiveOrder, At, Newest, ActiveOrders, ACTIVE_ORDER_STATUSES,
        OrderStatuses, OrderRow
  <2>3. CASE calls[c].next = "reply"
    BY <1>3, <2>1, <2>3, IdleStep DEF Answer, ReuseActiveOrder
  <2>4. CASE calls[c].next = "link"
    <3> DEFINE k == [calls[c] EXCEPT !.at = "link", !.order = o]
    <3>1. k \in Request /\ k.at = "link" /\ k.order = o
      BY <1>0, <2>2 DEF Request
    <3>2. Sane(k)
      BY <1>0, <2>2, <2>4 DEF Sane, AnsweredFor, Request
    <3>3. calls' = [calls EXCEPT ![c] = k] /\ UNCHANGED <<tables, orders, reservations>>
      BY <1>0, <1>3, <2>1, <2>4 DEF Answer, ReuseActiveOrder, TypeOK, Request
    <3>4. \A d \in Calls : calls[d].at = "reserve" /\ calls[d].order # None => calls[d].order # o
      BY <2>2, FloorAssumption DEF IInv, CallsSane, Sane, Fresh
    <3> HIDE DEF k
    <3> QED
      BY <3>1, <3>2, <3>3, <3>4, ReadStep
  <2> QED
    BY <1>0, <2>2, <2>3, <2>4 DEF Sane
<1>4. ASSUME NoActiveOrder(c) PROVE IInv'
  <2> DEFINE k == [calls[c] EXCEPT !.at = "insert"]
  <2>1. k \in Request /\ Sane(k) /\ k.at \notin {"link", "reserve"}
    BY <1>0, <1>4 DEF Request, Sane, NoActiveOrder, At
  <2>2. calls' = [calls EXCEPT ![c] = k] /\ UNCHANGED <<tables, orders, reservations>>
    BY <1>0, <1>4 DEF NoActiveOrder, Goto, TypeOK, Request
  <2> HIDE DEF k
  <2> QED
    BY <2>1, <2>2, PlainStep
<1>5. ASSUME NEW o \in Orders, NEW next \in OrderStatuses, RequestStatus(c, o, next)
      PROVE  IInv'
  <2> DEFINE k == [at |-> "status", order |-> o, table |-> None, res |-> None, next |-> next]
  <2>1. k \in Request /\ Sane(k) /\ k.at \notin {"link", "reserve"}
    BY <1>5 DEF Request, Sane, RequestStatus
  <2>2. calls' = [calls EXCEPT ![c] = k] /\ UNCHANGED <<tables, orders, reservations>>
    BY <1>5 DEF RequestStatus, Accept
  <2> HIDE DEF k
  <2> QED
    BY <2>1, <2>2, PlainStep
<1>6. ASSUME NEW o \in Orders, RequestCheckout(c, o) PROVE IInv'
  <2> DEFINE k == [at |-> "pay", order |-> o, table |-> orders[o].table, res |-> None,
                   next |-> "none"]
  <2>1. k \in Request /\ Sane(k) /\ k.at \notin {"link", "reserve"}
    BY <1>0, <1>6 DEF Request, Sane, RequestCheckout, TypeOK, OrderRow
  <2>2. calls' = [calls EXCEPT ![c] = k] /\ UNCHANGED <<tables, orders, reservations>>
    BY <1>6 DEF RequestCheckout, Accept
  <2> HIDE DEF k
  <2> QED
    BY <2>1, <2>2, PlainStep
<1> QED
  BY <1>1, <1>2, <1>3, <1>4, <1>5, <1>6

\* The steps of the reservation and table requests that write no row.
LEMMA ReservationReads ==
  ASSUME IInv, NEW c \in Calls
  PROVE  /\ PostInformal(c) => IInv'
         /\ \A type \in PAID_TYPES, t \in Tables : PostReservation(c, type, t) => IInv'
         /\ \A r \in Reservations : RequestConfirm(c, r) => IInv'
         /\ \A r \in Reservations : RequestSeatPreorder(c, r) => IInv'
         /\ \A r \in Reservations : RequestSeatDeposit(c, r) => IInv'
         /\ \A r \in Reservations, t \in Tables : RequestSeatInformal(c, r, t) => IInv'
         /\ \A r \in Reservations, next \in {"NO_SHOW", "CANCELLED"} :
              RequestTerminate(c, r, next) => IInv'
         /\ ReadHeldTable(c) => IInv'
         /\ \A t \in Tables : RequestRemove(c, t) => IInv'
         /\ Abandon(c) => IInv'
<1>0. calls[c] \in Request /\ Sane(calls[c]) /\ TypeOK
  BY DEF IInv, TypeOK, CallsSane
<1>1. ASSUME PostInformal(c) PROVE IInv'
  <2> DEFINE k == [at |-> "reserve", order |-> None, table |-> None, res |-> None,
                   next |-> "INFORMAL"]
  <2>1. k \in Request /\ Sane(k) /\ k.at # "link" /\ (k.at = "reserve" => k.order = None)
    BY <1>0, <1>1, NoneIsNoOrder DEF Request, Sane, ReservationTypes
  <2>2. calls' = [calls EXCEPT ![c] = k] /\ UNCHANGED <<tables, orders, reservations>>
    BY <1>0, <1>1 DEF PostInformal, Accept
  <2> HIDE DEF k
  <2> QED
    BY <2>1, <2>2, PlainStep
<1>2. ASSUME NEW type \in PAID_TYPES, NEW t \in Tables,
             PostReservation(c, type, t) PROVE IInv'
  <2> DEFINE k == [at |-> IF type = "WITH_PREORDER" THEN "preorder" ELSE "reserve",
                   order |-> None, table |-> t, res |-> None, next |-> type]
  <2>1. k \in Request /\ Sane(k) /\ k.at # "link" /\ (k.at = "reserve" => k.order = None)
    BY <1>0, <1>2, NoneIsNoOrder DEF Request, Sane, ReservationTypes, PAID_TYPES
  <2>2. calls' = [calls EXCEPT ![c] = k] /\ UNCHANGED <<tables, orders, reservations>>
    BY <1>0, <1>2 DEF PostReservation, Accept
  <2> HIDE DEF k
  <2> QED
    BY <2>1, <2>2, PlainStep
<1>3. ASSUME NEW r \in Reservations, RequestConfirm(c, r) PROVE IInv'
  <2> DEFINE k == [at |-> "confirm", order |-> None,
                   table |-> IF reservations[r].type \in PAID_TYPES
                               THEN reservations[r].table ELSE None,
                   res |-> r, next |-> "none"]
  <2>1. k \in Request /\ Sane(k) /\ k.at # "link" /\ (k.at = "reserve" => k.order = None)
    BY <1>0, <1>3, NoneIsNoOrder DEF Request, Sane, TypeOK
  <2>2. calls' = [calls EXCEPT ![c] = k] /\ UNCHANGED <<tables, orders, reservations>>
    BY <1>0, <1>3 DEF RequestConfirm, Accept
  <2> HIDE DEF k
  <2> QED
    BY <2>1, <2>2, PlainStep
<1>4. ASSUME NEW r \in Reservations, RequestSeatPreorder(c, r) PROVE IInv'
  <2> DEFINE k == [at |-> "seatPreorder", order |-> reservations[r].order,
                   table |-> reservations[r].table, res |-> r, next |-> "none"]
  <2>1. k \in Request /\ Sane(k) /\ k.at # "link" /\ (k.at = "reserve" => k.order = None)
    BY <1>0, <1>4, NoneIsNoOrder DEF Request, Sane, TypeOK, RequestSeatPreorder, Remembers
  <2>2. calls' = [calls EXCEPT ![c] = k] /\ UNCHANGED <<tables, orders, reservations>>
    BY <1>0, <1>4 DEF RequestSeatPreorder, Accept
  <2> HIDE DEF k
  <2> QED
    BY <2>1, <2>2, PlainStep
<1>5. ASSUME NEW r \in Reservations, RequestSeatDeposit(c, r) PROVE IInv'
  <2> DEFINE k == [at |-> "open", order |-> None, table |-> reservations[r].table, res |-> r,
                   next |-> "link"]
  <2>1. k \in Request /\ Sane(k) /\ k.at # "link" /\ (k.at = "reserve" => k.order = None)
    BY <1>0, <1>5, NoneIsNoOrder DEF Request, Sane, TypeOK, RequestSeatDeposit, Seating, Remembers, ReservationRow
  <2>2. calls' = [calls EXCEPT ![c] = k] /\ UNCHANGED <<tables, orders, reservations>>
    BY <1>0, <1>5 DEF RequestSeatDeposit, Accept
  <2> HIDE DEF k
  <2> QED
    BY <2>1, <2>2, PlainStep
<1>6. ASSUME NEW r \in Reservations, NEW t \in Tables,
             RequestSeatInformal(c, r, t) PROVE IInv'
  <2> DEFINE k == [at |-> "open", order |-> None, table |-> t, res |-> r, next |-> "link"]
  <2>1. k \in Request /\ Sane(k) /\ k.at # "link" /\ (k.at = "reserve" => k.order = None)
    BY <1>0, <1>6, NoneIsNoOrder DEF Request, Sane, RequestSeatInformal, Seating, ReservationRow
  <2>2. calls' = [calls EXCEPT ![c] = k] /\ UNCHANGED <<tables, orders, reservations>>
    BY <1>0, <1>6 DEF RequestSeatInformal, Accept
  <2> HIDE DEF k
  <2> QED
    BY <2>1, <2>2, PlainStep
<1>7. ASSUME NEW r \in Reservations, NEW next \in {"NO_SHOW", "CANCELLED"},
             RequestTerminate(c, r, next) PROVE IInv'
  <2> DEFINE k == [at |-> IF reservations[r].table = None THEN "close" ELSE "terminate",
                   order |-> None, table |-> reservations[r].table, res |-> r, next |-> next]
  <2>1. k \in Request /\ Sane(k) /\ k.at # "link" /\ (k.at = "reserve" => k.order = None)
    BY <1>0, <1>7, NoneIsNoOrder DEF Request, Sane, TypeOK
  <2>2. calls' = [calls EXCEPT ![c] = k] /\ UNCHANGED <<tables, orders, reservations>>
    BY <1>0, <1>7 DEF RequestTerminate, Accept
  <2> HIDE DEF k
  <2> QED
    BY <2>1, <2>2, PlainStep
<1>8. ASSUME ReadHeldTable(c) PROVE IInv'
  <2> DEFINE k == [calls[c] EXCEPT !.at = IF tables[calls[c].table] = "RESERVED"
                                            THEN "release" ELSE "close"]
  <2>1. k \in Request /\ Sane(k) /\ k.at # "link" /\ (k.at = "reserve" => k.order = None)
    BY <1>0, <1>8, NoneIsNoOrder DEF Request, Sane, ReadHeldTable, At
  <2>2. calls' = [calls EXCEPT ![c] = k] /\ UNCHANGED <<tables, orders, reservations>>
    BY <1>0, <1>8 DEF ReadHeldTable, Goto, TypeOK, Request
  <2> HIDE DEF k
  <2> QED
    BY <2>1, <2>2, PlainStep
<1>9. ASSUME NEW t \in Tables, RequestRemove(c, t) PROVE IInv'
  <2> DEFINE k == [at |-> "remove", order |-> None, table |-> t, res |-> None, next |-> "none"]
  <2>1. k \in Request /\ Sane(k) /\ k.at # "link" /\ (k.at = "reserve" => k.order = None)
    BY <1>0, <1>9, NoneIsNoOrder DEF Request, Sane, RequestRemove
  <2>2. calls' = [calls EXCEPT ![c] = k] /\ UNCHANGED <<tables, orders, reservations>>
    BY <1>0, <1>9 DEF RequestRemove, Accept
  <2> HIDE DEF k
  <2> QED
    BY <2>1, <2>2, PlainStep
<1>10. ASSUME Abandon(c) PROVE IInv'
  BY <1>10, IdleStep DEF Abandon
<1> QED
  BY <1>1, <1>2, <1>3, <1>4, <1>5, <1>6, <1>7, <1>8, <1>9, <1>10
-----------------------------------------------------------------------------
\* What every step that writes rows keeps: tables stay deleted, rows stay, a
\* reservation keeps its type, a pre-order its order, and a table named by an
\* order or a paid reservation is only lost by its deletion; only the order of
\* a pre-order moves to a table.
Evolves ==
  /\ \A t \in Tables : tables[t] = "GONE" => tables'[t] = "GONE"
  /\ \A o \in Orders : OrderRow(o) =>
       /\ OrderRow(o)'
       /\ \/ orders'[o].table = orders[o].table
          \/ tables'[orders[o].table] = "GONE" /\ orders'[o].table = None
          \/ \E r \in Reservations :
               reservations[r].type = "WITH_PREORDER" /\ reservations[r].order = o
  /\ \A r \in Reservations : ReservationRow(r) =>
       /\ ReservationRow(r)'
       /\ reservations'[r].type = reservations[r].type
       /\ reservations[r].type = "WITH_PREORDER" =>
            reservations'[r].order = reservations[r].order
       /\ reservations[r].type # "INFORMAL" =>
            \/ reservations'[r].table = reservations[r].table
            \/ tables'[reservations[r].table] = "GONE" /\ reservations'[r].table = None

\* A memory that was sane before such a step is sane after it, if an order it
\* keeps for a new reservation is still fresh.
LEMMA SaneStable ==
  ASSUME IInv, Evolves, NEW k \in Request, Sane(k),
         k.at = "reserve" /\ k.order # None => Fresh(k.order)'
  PROVE  Sane(k)'
<1>0. AbsentRowsEmpty /\ TypeOK
  BY DEF IInv
<1>1. ASSUME NEW r \in Reservations, NEW t \in Tables, ReservationRow(r), Remembers(r, t),
             reservations[r].type # "INFORMAL"
      PROVE  Remembers(r, t)'
  BY <1>1 DEF Evolves, Remembers
<1>2. ASSUME Seating(k.res, k.table) PROVE Seating(k.res, k.table)'
  BY <1>1, <1>2 DEF Seating, Evolves
<1>3. ASSUME AnsweredFor(k.order, k.table), k.table \in Tables
      PROVE  AnsweredFor(k.order, k.table)'
  <2>1. ASSUME NEW r \in Reservations, reservations[r].type = "WITH_PREORDER",
               reservations[r].order = k.order
        PROVE  reservations'[r].type = "WITH_PREORDER" /\ reservations'[r].order = k.order
    BY <1>0, <1>3, <2>1, NoneIsNoOrder DEF Evolves, AbsentRowsEmpty, AnsweredFor
  <2> QED
    BY <1>3, <2>1 DEF AnsweredFor, Evolves
<1>4. ASSUME k.at = "seatPreorder"
      PROVE  /\ reservations'[k.res].type = "WITH_PREORDER"
             /\ reservations'[k.res].order = k.order
             /\ Remembers(k.res, k.table)'
  BY <1>0, <1>1, <1>4, NoneIsNoOrder DEF Sane, Evolves, AbsentRowsEmpty
<1>5. k.at = "link" => k.table \in Tables
  BY DEF Sane, Seating
<1>6. ASSUME k.order \in Orders, OrderRow(k.order) PROVE OrderRow(k.order)'
  BY <1>6 DEF Evolves
<1> QED
  BY <1>2, <1>3, <1>4, <1>5, <1>6 DEF Sane

\* So all requests stay sane if the one that wrote moves to a sane memory.
LEMMA CallsStaySane ==
  ASSUME IInv, Evolves, NEW c \in Calls, NEW k, calls' = [calls EXCEPT ![c] = k], Sane(k)',
         \A d \in Calls \ {c}, o \in Orders :
           calls[d].at = "reserve" /\ calls[d].order = o => Fresh(o)'
  PROVE  CallsSane'
<1> SUFFICES ASSUME NEW d \in Calls PROVE Sane(calls[d])'
  BY DEF CallsSane
<1>1. calls'[d] = IF d = c THEN k ELSE calls[d]
  BY DEF IInv, TypeOK
<1>2. CASE d = c
  BY <1>1, <1>2 DEF Sane, Seating, Remembers, AnsweredFor, Fresh, OrderRow, ReservationRow
<1>3. CASE d # c
  <2>1. PICK k2 \in Request : k2 = calls[d]
    BY DEF IInv, TypeOK
  <2>2. Sane(k2) /\ (k2.at = "reserve" /\ k2.order # None => Fresh(k2.order)')
    BY <1>3, <2>1 DEF IInv, CallsSane, Request
  <2>3. Sane(k2)'
    BY <2>2, SaneStable
  <2>4. calls'[d] = k2
    BY <1>1, <1>3, <2>1
  <2> QED
    BY <2>3, <2>4 DEF Sane, Seating, Remembers, AnsweredFor, Fresh, OrderRow, ReservationRow
<1> QED
  BY <1>2, <1>3

\* The requests after a write: the writer moves to memory k.
LEMMA WriterCalls ==
  ASSUME IInv, Evolves, NEW c \in Calls, NEW k \in Request,
         calls' = [calls EXCEPT ![c] = k], Sane(k)',
         k.at # "reserve",
         \A d \in Calls \ {c}, o \in Orders :
           calls[d].at = "reserve" /\ calls[d].order = o => Fresh(o)',
         \A d \in Calls \ {c} : k.at = "link" /\ calls[d].at = "reserve" => calls[d].order # k.order
  PROVE  CallsSane' /\ Private' /\ calls' \in [Calls -> Request]
<1>1. CallsSane'
  BY CallsStaySane
<1>2. \A d \in Calls : calls'[d] = IF d = c THEN k ELSE calls[d]
  BY DEF IInv, TypeOK
<1>3. calls' \in [Calls -> Request]
  BY DEF IInv, TypeOK
<1>4. Private'
  <2> SUFFICES ASSUME NEW b \in Calls, NEW d \in Calls, b # d, At(b, "reserve")',
                      calls'[b].order # None, calls'[d].at \in {"reserve", "link"}
               PROVE  calls'[d].order # calls'[b].order
    BY DEF Private
  <2>1. calls'[b] = (IF b = c THEN k ELSE calls[b]) /\ calls'[d] = (IF d = c THEN k ELSE calls[d])
    BY <1>2
  <2>2. calls'[b].order \in Orders
    BY <1>3 DEF Request
  <2> QED
    BY <2>1, <2>2 DEF IInv, Private, At
<1> QED
  BY <1>1, <1>3, <1>4

\* When the writer ends, the other requests stay sane and private.
LEMMA FinishCalls ==
  ASSUME IInv, Evolves, NEW c \in Calls, Finish(c),
         \A d \in Calls \ {c}, o \in Orders :
           calls[d].at = "reserve" /\ calls[d].order = o => Fresh(o)'
  PROVE  CallsSane' /\ Private' /\ calls' \in [Calls -> Request]
<1>1. PICK k \in Request : k = Idle
  BY DEF Idle, Request
<1>2. k.at = "idle" /\ calls' = [calls EXCEPT ![c] = k]
  BY <1>1 DEF Idle, Finish
<1>3. Sane(k)'
  BY <1>2 DEF Sane
<1>4. k.at # "reserve" /\ k.at # "link"
  BY <1>2
<1> QED
  BY <1>2, <1>3, <1>4, WriterCalls

\* Writing the status of an existing table, or of none.
LEMMA TableWrites ==
  ASSUME TypeOK, NEW t \in Tables \cup {None}, NEW s \in TableStatuses,
         t # None => TableRow(t),
         tables' = [u \in Tables |-> IF u = t THEN s ELSE tables[u]]
  PROVE  /\ tables' \in [Tables -> TableStatuses \cup {"ABSENT", "GONE"}]
         /\ \A u \in Tables : /\ tables'[u] = IF u = t THEN s ELSE tables[u]
                              /\ TableRow(u) => TableRow(u)'
                              /\ tables[u] = "GONE" => tables'[u] = "GONE"
<1>1. \A u \in Tables : tables'[u] = IF u = t THEN s ELSE tables[u]
  OBVIOUS
<1>2. tables' \in [Tables -> TableStatuses \cup {"ABSENT", "GONE"}]
  <2>1. \A u \in Tables :
          (IF u = t THEN s ELSE tables[u]) \in TableStatuses \cup {"ABSENT", "GONE"}
    BY DEF TypeOK
  <2> QED
    BY <2>1
<1>3. "GONE" \notin TableStatuses
  BY DEF TableStatuses
<1>4. ASSUME NEW u \in Tables
      PROVE  /\ TableRow(u) => TableRow(u)'
             /\ tables[u] = "GONE" => tables'[u] = "GONE"
  <2>1. CASE u = t
    <3>1. TableRow(t) /\ tables'[u] = s
      BY <1>1, <2>1, FloorAssumption
    <3> QED
      BY <1>3, <2>1, <3>1 DEF TableRow
  <2>2. CASE u # t
    BY <1>1, <2>2 DEF TableRow
  <2> QED
    BY <2>1, <2>2
<1> QED
  BY <1>1, <1>2, <1>4

\* A step that leaves the tables alone, frees one or holds one.
LEMMA TableFreed ==
  ASSUME TypeOK,
         \/ UNCHANGED tables
         \/ \E t \in Tables \cup {None}, s \in {"AVAILABLE", "RESERVED"} :
              /\ t # None => TableRow(t)
              /\ tables' = [u \in Tables |-> IF u = t THEN s ELSE tables[u]]
  PROVE  /\ tables' \in [Tables -> TableStatuses \cup {"ABSENT", "GONE"}]
         /\ \A t \in Tables : /\ TableRow(t) => TableRow(t)'
                              /\ tables[t] = "GONE" => tables'[t] = "GONE"
                              /\ tables'[t] = "OCCUPIED" => tables[t] = "OCCUPIED"
<1>1. CASE UNCHANGED tables
  BY <1>1 DEF TypeOK, TableRow
<1>2. ASSUME NEW t \in Tables \cup {None}, NEW s \in {"AVAILABLE", "RESERVED"},
             t # None => TableRow(t),
             tables' = [u \in Tables |-> IF u = t THEN s ELSE tables[u]]
      PROVE  /\ tables' \in [Tables -> TableStatuses \cup {"ABSENT", "GONE"}]
             /\ \A u \in Tables : /\ TableRow(u) => TableRow(u)'
                                  /\ tables[u] = "GONE" => tables'[u] = "GONE"
                                  /\ tables'[u] = "OCCUPIED" => tables[u] = "OCCUPIED"
  <2>1. s \in TableStatuses /\ s # "OCCUPIED"
    BY DEF TableStatuses
  <2> QED
    BY <1>2, <2>1, TableWrites
<1> QED
  BY <1>1, <1>2

\* Writing an order's status, alone or with the table of a checkout.
LEMMA StatusWrites ==
  ASSUME IInv, NEW c \in Calls, NEW o \in Orders, NEW s \in OrderStatuses, OrderRow(o),
         orders' = [orders EXCEPT ![o].status = s],
         UNCHANGED reservations, Finish(c),
         \/ UNCHANGED tables
         \/ \E t \in Tables \cup {None} :
              /\ t # None => TableRow(t)
              /\ tables' = [u \in Tables |-> IF u = t THEN "AVAILABLE" ELSE tables[u]]
  PROVE  IInv'
<1>0. TypeOK /\ s # "ABSENT"
  BY DEF IInv, OrderStatuses
<1>1. /\ tables' \in [Tables -> TableStatuses \cup {"ABSENT", "GONE"}]
      /\ \A t \in Tables : /\ TableRow(t) => TableRow(t)'
                           /\ tables[t] = "GONE" => tables'[t] = "GONE"
                           /\ tables'[t] = "OCCUPIED" => tables[t] = "OCCUPIED"
  BY <1>0, TableFreed
<1>2. /\ orders' \in [Orders -> [status : OrderStatuses \cup {"ABSENT"}, table : Tables \cup {None}]]
      /\ \A p \in Orders : /\ orders'[p].table = orders[p].table
                           /\ OrderRow(p) => OrderRow(p)'
                           /\ OrderRow(p)' => OrderRow(p)
  BY <1>0 DEF TypeOK, OrderRow
<1>3. Evolves
  BY <1>1, <1>2 DEF Evolves, ReservationRow
<1>4. \A d \in Calls \ {c}, p \in Orders :
        calls[d].at = "reserve" /\ calls[d].order = p => Fresh(p)'
  BY <1>2, NoneIsNoOrder DEF IInv, CallsSane, Sane, Fresh
<1>5. CallsSane' /\ Private' /\ calls' \in [Calls -> Request]
  BY <1>3, <1>4, FinishCalls
<1>6. TypeOK'
  <2>1. ASSUME NEW p \in Orders, orders'[p].table # None PROVE TableRow(orders[p].table)'
    <3>1. PICK t \in Tables : t = orders[p].table /\ TableRow(t)
      BY <1>0, <1>2, <2>1 DEF TypeOK
    <3> QED
      BY <1>1, <1>2, <3>1 DEF TableRow
  <2>2. ASSUME NEW r \in Reservations, reservations'[r].table # None
        PROVE  TableRow(reservations[r].table)'
    <3>1. PICK t \in Tables : t = reservations[r].table /\ TableRow(t)
      BY <1>0, <2>2 DEF TypeOK
    <3> QED
      BY <1>1, <3>1 DEF TableRow
  <2>3. ASSUME NEW r \in Reservations, reservations'[r].order # None
        PROVE  OrderRow(reservations[r].order)'
    <3>1. PICK p \in Orders : p = reservations[r].order /\ OrderRow(p)
      BY <1>0, <2>3 DEF TypeOK
    <3> QED
      BY <1>2, <3>1 DEF OrderRow
  <2> QED
    BY <1>0, <1>1, <1>2, <1>5, <2>1, <2>2, <2>3 DEF TypeOK
<1>7. AbsentRowsEmpty' /\ UniqueOrder'
  BY <1>2 DEF IInv, AbsentRowsEmpty, UniqueOrder, ReservationRow
<1>8. PreorderOnItsTable' /\ SeatedOnItsTable'
  BY <1>0, <1>2 DEF IInv, TypeOK, PreorderOnItsTable, SeatedOnItsTable
<1>9. OccupiedHasOrder'
  BY <1>1, <1>2 DEF IInv, OccupiedHasOrder
<1> QED
  BY <1>5, <1>6, <1>7, <1>8, <1>9 DEF IInv

\* The commits of a status change and of a checkout.
LEMMA OrderStatusCommits ==
  ASSUME IInv, NEW c \in Calls
  PROVE  /\ WriteStatus(c) => IInv'
         /\ CommitCheckout(c) => IInv'
<1>0. calls[c] \in Request /\ Sane(calls[c])
  BY DEF IInv, TypeOK, CallsSane
<1>1. ASSUME WriteStatus(c) PROVE IInv'
  <2>1. calls[c].order \in Orders /\ OrderRow(calls[c].order) /\ calls[c].next \in OrderStatuses
    BY <1>0, <1>1 DEF WriteStatus, At, Sane
  <2> QED
    BY <1>1, <2>1, StatusWrites DEF WriteStatus
<1>2. ASSUME CommitCheckout(c) PROVE IInv'
  <2>1. /\ calls[c].order \in Orders /\ OrderRow(calls[c].order)
        /\ calls[c].table \in Tables \cup {None}
    BY <1>0, <1>2 DEF CommitCheckout, At, Sane, Request
  <2>2. "CONFIRMED" \in OrderStatuses
    BY DEF OrderStatuses
  <2> QED
    BY <1>2, <2>1, <2>2, StatusWrites DEF CommitCheckout
<1> QED
  BY <1>1, <1>2

\* The commits of a confirmation, a cancellation and a no-show: the status of
\* a reservation, and its table held or freed.
LEMMA ReservationStatusCommits ==
  ASSUME IInv, NEW c \in Calls, CommitConfirm(c) \/ CommitTerminate(c)
  PROVE  IInv'
<1>0. TypeOK /\ calls[c] \in Request /\ Sane(calls[c])
  BY DEF IInv, TypeOK, CallsSane
<1>1. PICK r \in Reservations, s \in {"CONFIRMED", "NO_SHOW", "CANCELLED"} :
        reservations' = [reservations EXCEPT ![r].status = s]
  <2>1. CASE CommitConfirm(c)
    BY <1>0, <2>1 DEF CommitConfirm, At, Sane
  <2>2. CASE CommitTerminate(c)
    BY <1>0, <2>2 DEF CommitTerminate, At, Sane
  <2> QED
    BY <2>1, <2>2
<1>2. Finish(c) /\ UNCHANGED orders
  BY DEF CommitConfirm, CommitTerminate
<1>3. \/ UNCHANGED tables
      \/ \E t \in Tables \cup {None}, s2 \in {"AVAILABLE", "RESERVED"} :
           /\ t # None => TableRow(t)
           /\ tables' = [u \in Tables |-> IF u = t THEN s2 ELSE tables[u]]
  <2>1. CASE CommitConfirm(c)
    BY <1>0, <2>1 DEF CommitConfirm, Request
  <2>2. CASE CommitTerminate(c) /\ At(c, "release")
    BY <1>0, <2>2 DEF CommitTerminate, At, Sane, TypeOK
  <2>3. CASE CommitTerminate(c) /\ ~At(c, "release")
    BY <2>3 DEF CommitTerminate
  <2> QED
    BY <2>1, <2>2, <2>3
<1>4. /\ tables' \in [Tables -> TableStatuses \cup {"ABSENT", "GONE"}]
      /\ \A t \in Tables : /\ TableRow(t) => TableRow(t)'
                           /\ tables[t] = "GONE" => tables'[t] = "GONE"
                           /\ tables'[t] = "OCCUPIED" => tables[t] = "OCCUPIED"
  BY <1>0, <1>3, TableFreed
<1>5. /\ reservations' \in [Reservations -> [status : ReservationStatuses \cup {"ABSENT"},
                                             type : ReservationTypes,
                                             table : Tables \cup {None},
                                             order : Orders \cup {None}]]
      /\ \A q \in Reservations :
           /\ reservations'[q].type = reservations[q].type
           /\ reservations'[q].table = reservations[q].table
           /\ reservations'[q].order = reservations[q].order
           /\ ReservationRow(q) => ReservationRow(q)'
           /\ reservations'[q].status = "SEATED" => reservations[q].status = "SEATED"
  BY <1>0, <1>1 DEF TypeOK, ReservationStatuses, ReservationRow
<1>6. Evolves
  BY <1>2, <1>4, <1>5 DEF Evolves, OrderRow
<1>7. \A d \in Calls \ {c}, p \in Orders :
        calls[d].at = "reserve" /\ calls[d].order = p => Fresh(p)'
  BY <1>2, <1>5, NoneIsNoOrder DEF IInv, CallsSane, Sane, Fresh, OrderRow
<1>8. CallsSane' /\ Private' /\ calls' \in [Calls -> Request]
  BY <1>2, <1>6, <1>7, FinishCalls
<1>9. TypeOK'
  <2>1. ASSUME NEW p \in Orders, orders'[p].table # None PROVE TableRow(orders[p].table)'
    BY <1>0, <1>2, <1>4, <2>1 DEF TypeOK, TableRow
  <2>2. ASSUME NEW q \in Reservations, reservations'[q].table # None
        PROVE  TableRow(reservations[q].table)'
    BY <1>0, <1>4, <1>5, <2>2 DEF TypeOK, TableRow
  <2>3. ASSUME NEW q \in Reservations, reservations'[q].order # None
        PROVE  OrderRow(reservations[q].order)'
    BY <1>0, <1>2, <1>5, <2>3 DEF TypeOK, OrderRow
  <2> QED
    BY <1>0, <1>2, <1>4, <1>5, <1>8, <2>1, <2>2, <2>3 DEF TypeOK
<1>10. AbsentRowsEmpty' /\ UniqueOrder'
  BY <1>2, <1>5 DEF IInv, AbsentRowsEmpty, UniqueOrder, OrderRow
<1>11. PreorderOnItsTable' /\ SeatedOnItsTable'
  BY <1>2, <1>5 DEF IInv, PreorderOnItsTable, SeatedOnItsTable
<1>12. OccupiedHasOrder'
  BY <1>2, <1>4 DEF IInv, OccupiedHasOrder
<1> QED
  BY <1>8, <1>9, <1>10, <1>11, <1>12 DEF IInv

\* Inserting an order, for table t or for none.
LEMMA OrderInsert ==
  ASSUME IInv, NEW o \in Orders, ~OrderRow(o), NEW t \in Tables \cup {None},
         t # None => TableRow(t),
         tables' = [u \in Tables |-> IF u = t THEN "OCCUPIED" ELSE tables[u]],
         orders' = [orders EXCEPT ![o] = [status |-> "DRAFT", table |-> t]],
         UNCHANGED reservations, calls' \in [Calls -> Request]
  PROVE  /\ Evolves
         /\ \A c \in Calls, p \in Orders :
              calls[c].at = "reserve" /\ calls[c].order = p => p # o /\ Fresh(p)'
         /\ TypeOK' /\ AbsentRowsEmpty' /\ UniqueOrder'
         /\ PreorderOnItsTable' /\ SeatedOnItsTable' /\ OccupiedHasOrder'
<1>0. TypeOK /\ orders[o].table = None
  BY DEF IInv, AbsentRowsEmpty
<1>1. /\ tables' \in [Tables -> TableStatuses \cup {"ABSENT", "GONE"}]
      /\ \A u \in Tables : /\ tables'[u] = IF u = t THEN "OCCUPIED" ELSE tables[u]
                           /\ TableRow(u) => TableRow(u)'
                           /\ tables[u] = "GONE" => tables'[u] = "GONE"
  <2>1. "OCCUPIED" \in TableStatuses
    BY DEF TableStatuses
  <2> QED
    BY <1>0, <2>1, TableWrites
<1>2. /\ orders' \in [Orders -> [status : OrderStatuses \cup {"ABSENT"}, table : Tables \cup {None}]]
      /\ orders'[o] = [status |-> "DRAFT", table |-> t] /\ OrderRow(o)'
      /\ \A p \in Orders \ {o} : /\ orders'[p] = orders[p]
                                 /\ OrderRow(p) => OrderRow(p)'
                                 /\ OrderRow(p)' => OrderRow(p)
  BY <1>0 DEF TypeOK, OrderRow, OrderStatuses
<1>3. \A r \in Reservations : reservations[r].order # o
  BY <1>0, NoneIsNoOrder DEF TypeOK
<1>4. Evolves
  BY <1>1, <1>2 DEF Evolves, ReservationRow
<1>5. ASSUME NEW c \in Calls, NEW p \in Orders, calls[c].at = "reserve", calls[c].order = p
      PROVE  p # o /\ Fresh(p)'
  <2>1. Fresh(p)
    BY <1>5, NoneIsNoOrder DEF IInv, CallsSane, Sane
  <2> QED
    BY <1>2, <2>1 DEF Fresh
<1>6. TypeOK'
  <2>1. ASSUME NEW p \in Orders, orders'[p].table # None PROVE TableRow(orders[p].table)'
    <3>1. CASE p = o
      BY <1>1, <1>2, <2>1, <3>1 DEF TableRow
    <3>2. CASE p # o
      BY <1>0, <1>1, <1>2, <2>1, <3>2 DEF TypeOK, TableRow
    <3> QED
      BY <3>1, <3>2
  <2>2. ASSUME NEW r \in Reservations, reservations'[r].table # None
        PROVE  TableRow(reservations[r].table)'
    BY <1>0, <1>1, <2>2 DEF TypeOK, TableRow
  <2>3. ASSUME NEW r \in Reservations, reservations'[r].order # None
        PROVE  OrderRow(reservations[r].order)'
    BY <1>0, <1>2, <1>3, <2>3 DEF TypeOK, OrderRow
  <2> QED
    BY <1>0, <1>1, <1>2, <2>1, <2>2, <2>3 DEF TypeOK
<1>7. AbsentRowsEmpty' /\ UniqueOrder'
  BY <1>2 DEF IInv, AbsentRowsEmpty, UniqueOrder, ReservationRow
<1>8. PreorderOnItsTable' /\ SeatedOnItsTable'
  BY <1>0, <1>2, <1>3 DEF IInv, TypeOK, PreorderOnItsTable, SeatedOnItsTable
<1>9. OccupiedHasOrder'
  <2> SUFFICES ASSUME NEW u \in Tables, tables'[u] = "OCCUPIED"
               PROVE  \E p \in Orders : orders'[p].table = u
    BY DEF OccupiedHasOrder
  <2>1. CASE u = t
    BY <1>2, <2>1
  <2>2. CASE u # t
    <3>1. PICK p \in Orders : orders[p].table = u
      BY <1>1, <2>2 DEF IInv, OccupiedHasOrder
    <3> QED
      BY <1>0, <1>2, <3>1, FloorAssumption
  <2> QED
    BY <2>1, <2>2
<1> QED
  BY <1>4, <1>5, <1>6, <1>7, <1>8, <1>9

\* The insertion of an order by POST /orders and by a seating.
LEMMA InsertOrderInv ==
  ASSUME IInv, NEW c \in Calls, InsertOrder(c)
  PROVE  IInv'
<1>0. TypeOK /\ calls[c] \in Request /\ Sane(calls[c]) /\ At(c, "insert")
  BY DEF IInv, TypeOK, CallsSane, InsertOrder
<1>1. PICK t \in Tables \cup {None} : t = calls[c].table
  BY <1>0 DEF Request
<1>2. PICK o \in FreshOrder :
        /\ orders' = [orders EXCEPT ![o] = [status |-> "DRAFT", table |-> t]]
        /\ Answer(c, o)
  BY <1>1 DEF InsertOrder
<1>3. o \in Orders /\ ~OrderRow(o)
  BY DEF FreshOrder
<1>4. /\ t # None => TableRow(t)
      /\ tables' = [u \in Tables |-> IF u = t THEN "OCCUPIED" ELSE tables[u]]
      /\ UNCHANGED reservations
  BY <1>1 DEF InsertOrder
<1>5. CASE calls[c].next = "reply"
  <2>1. Finish(c) /\ calls' \in [Calls -> Request]
    BY <1>0, <1>2, <1>5 DEF Answer, Finish, Idle, Request, TypeOK
  <2>2. /\ Evolves
        /\ TypeOK' /\ AbsentRowsEmpty' /\ UniqueOrder'
        /\ PreorderOnItsTable' /\ SeatedOnItsTable' /\ OccupiedHasOrder'
        /\ \A d \in Calls \ {c}, p \in Orders :
             calls[d].at = "reserve" /\ calls[d].order = p => Fresh(p)'
    BY <1>2, <1>3, <1>4, <2>1, OrderInsert
  <2> QED
    BY <2>1, <2>2, FinishCalls DEF IInv
<1>6. CASE calls[c].next = "link"
  <2>1. PICK k \in Request : k = [calls[c] EXCEPT !.at = "link", !.order = o]
    BY <1>0, <1>3 DEF Request
  <2>2. k.at = "link" /\ k.order = o /\ k.next = "link" /\ k.table = t /\ k.res = calls[c].res
    BY <1>0, <1>1, <1>6, <2>1 DEF Request
  <2>3. calls' = [calls EXCEPT ![c] = k]
    BY <1>0, <1>2, <1>6, <2>1 DEF Answer, Request, TypeOK
  <2>4. calls' \in [Calls -> Request]
    BY <1>0, <2>3 DEF TypeOK
  <2>5. /\ Evolves
        /\ TypeOK' /\ AbsentRowsEmpty' /\ UniqueOrder'
        /\ PreorderOnItsTable' /\ SeatedOnItsTable' /\ OccupiedHasOrder'
        /\ \A d \in Calls \ {c}, p \in Orders :
             calls[d].at = "reserve" /\ calls[d].order = p => Fresh(p)'
        /\ \A d \in Calls \ {c} : calls[d].at = "reserve" => calls[d].order # o
    BY <1>2, <1>3, <1>4, <2>4, OrderInsert
  <2>6. Sane(k)'
    <3>1. PICK k0 \in Request : k0 = calls[c]
      BY <1>0
    <3>2. Sane(k0) /\ k0.at = "insert" /\ k0.next = "link"
      BY <1>0, <1>6, <3>1 DEF At
    <3>3. Sane(k0)'
      BY <2>5, <3>2, SaneStable
    <3>4. Seating(k.res, k.table)'
      BY <1>1, <2>2, <3>1, <3>2, <3>3 DEF Sane
    <3>5. orders'[o].table = t /\ OrderRow(o)'
      BY <1>0, <1>2, <1>3 DEF TypeOK, OrderRow
    <3> QED
      BY <1>3, <2>2, <3>4, <3>5 DEF Sane, AnsweredFor
  <2> QED
    BY <2>2, <2>3, <2>5, <2>6, WriterCalls DEF IInv
<1> QED
  BY <1>0, <1>5, <1>6 DEF Sane, At

\* The insertion of the order of a pre-order reservation: on no table.
LEMMA InsertPreorderInv ==
  ASSUME IInv, NEW c \in Calls, InsertPreorder(c)
  PROVE  IInv'
<1>0. TypeOK /\ calls[c] \in Request /\ Sane(calls[c]) /\ calls[c].at = "preorder"
  BY DEF IInv, TypeOK, CallsSane, InsertPreorder, At
<1>1. PICK o \in FreshOrder :
        /\ orders' = [orders EXCEPT ![o] = [status |-> "DRAFT", table |-> None]]
        /\ calls' = [calls EXCEPT ![c].at = "reserve", ![c].order = o]
  BY DEF InsertPreorder
<1>2. o \in Orders /\ ~OrderRow(o)
  BY DEF FreshOrder
<1>3. PICK k \in Request : k = [calls[c] EXCEPT !.at = "reserve", !.order = o]
  BY <1>0, <1>2 DEF Request
<1>4. k.at = "reserve" /\ k.order = o /\ k.next = "WITH_PREORDER"
  BY <1>0, <1>3 DEF Request, Sane
<1>5. calls' = [calls EXCEPT ![c] = k]
  BY <1>0, <1>1, <1>3 DEF Request, TypeOK
<1>6. calls' \in [Calls -> Request] /\ \A d \in Calls : calls'[d] = IF d = c THEN k ELSE calls[d]
  BY <1>0, <1>5 DEF TypeOK
<1>7. tables' = [u \in Tables |-> IF u = None THEN "OCCUPIED" ELSE tables[u]]
  BY <1>0, FloorAssumption DEF InsertPreorder, TypeOK
<1>8. UNCHANGED reservations
  BY DEF InsertPreorder
<1>9. /\ Evolves
      /\ TypeOK' /\ AbsentRowsEmpty' /\ UniqueOrder'
      /\ PreorderOnItsTable' /\ SeatedOnItsTable' /\ OccupiedHasOrder'
      /\ \A d \in Calls, p \in Orders :
           calls[d].at = "reserve" /\ calls[d].order = p => Fresh(p)'
      /\ \A d \in Calls : calls[d].at = "reserve" => calls[d].order # o
  <2>1. PICK t \in Tables \cup {None} : t = None
    OBVIOUS
  <2>2. /\ t # None => TableRow(t)
        /\ tables' = [u \in Tables |-> IF u = t THEN "OCCUPIED" ELSE tables[u]]
        /\ orders' = [orders EXCEPT ![o] = [status |-> "DRAFT", table |-> t]]
    BY <1>1, <1>7, <2>1
  <2> QED
    BY <1>2, <1>6, <1>8, <2>2, OrderInsert
<1>10. Fresh(o)'
  BY <1>0, <1>1, <1>2, <1>8, NoneIsNoOrder DEF TypeOK, Fresh, OrderRow
<1>11. Sane(k)'
  BY <1>2, <1>4, <1>10 DEF Sane, ReservationTypes
<1>12. CallsSane'
  BY <1>5, <1>9, <1>11, CallsStaySane
<1>13. \A d \in Calls : calls[d].at = "link" => calls[d].order # o
  BY <1>2 DEF IInv, CallsSane, Sane, AnsweredFor
<1>14. Private'
  <2> SUFFICES ASSUME NEW b \in Calls, NEW d \in Calls, b # d, At(b, "reserve")',
                      calls'[b].order # None, calls'[d].at \in {"reserve", "link"}
               PROVE  calls'[d].order # calls'[b].order
    BY DEF Private
  <2>1. CASE b = c
    BY <1>4, <1>6, <1>9, <1>13, <2>1
  <2>2. CASE b # c
    BY <1>4, <1>6, <1>9, <2>2 DEF IInv, Private, At
  <2> QED
    BY <2>1, <2>2
<1> QED
  BY <1>9, <1>12, <1>14 DEF IInv

\* The insertion of a reservation: the order it names, if any, is its own.
LEMMA InsertReservationInv ==
  ASSUME IInv, NEW c \in Calls, InsertReservation(c)
  PROVE  IInv'
<1>0. TypeOK /\ calls[c] \in Request /\ Sane(calls[c]) /\ calls[c].at = "reserve"
  BY DEF IInv, TypeOK, CallsSane, InsertReservation, At
<1>1. PICK r \in Reservations :
        /\ ~ReservationRow(r)
        /\ reservations' = [reservations EXCEPT ![r] =
             [status |-> "PENDING", type |-> calls[c].next,
              table |-> calls[c].table, order |-> calls[c].order]]
  BY DEF InsertReservation
<1>2. /\ calls[c].next \in ReservationTypes
      /\ calls[c].table \in Tables \cup {None}
      /\ calls[c].table # None => TableRow(calls[c].table)
      /\ calls[c].order \in Orders \cup {None}
      /\ calls[c].order # None => Fresh(calls[c].order)
  BY <1>0 DEF Sane, Request, InsertReservation
<1>3. Finish(c) /\ UNCHANGED <<tables, orders>>
  BY DEF InsertReservation
<1>4. /\ reservations' \in [Reservations -> [status : ReservationStatuses \cup {"ABSENT"},
                                             type : ReservationTypes,
                                             table : Tables \cup {None},
                                             order : Orders \cup {None}]]
      /\ reservations'[r] = [status |-> "PENDING", type |-> calls[c].next,
                             table |-> calls[c].table, order |-> calls[c].order]
      /\ \A q \in Reservations \ {r} : reservations'[q] = reservations[q]
  BY <1>0, <1>1, <1>2 DEF TypeOK, ReservationStatuses
<1>5. Evolves
  BY <1>1, <1>3, <1>4 DEF Evolves, ReservationRow, OrderRow
<1>6. ASSUME NEW d \in Calls \ {c}, NEW p \in Orders, calls[d].at = "reserve", calls[d].order = p
      PROVE  Fresh(p)'
  <2>1. Fresh(p) /\ calls[c].order # p
    BY <1>0, <1>6, NoneIsNoOrder DEF IInv, CallsSane, Sane, Private, At
  <2> QED
    BY <1>3, <1>4, <2>1 DEF Fresh, OrderRow
<1>7. CallsSane' /\ Private' /\ calls' \in [Calls -> Request]
  BY <1>3, <1>5, <1>6, FinishCalls
<1>8. TypeOK'
  <2>1. ASSUME NEW p \in Orders, orders'[p].table # None PROVE TableRow(orders[p].table)'
    BY <1>0, <1>3, <2>1 DEF TypeOK, TableRow
  <2>2. ASSUME NEW q \in Reservations, reservations'[q].table # None
        PROVE  TableRow(reservations[q].table)'
    <3>1. CASE q = r
      BY <1>2, <1>3, <1>4, <2>2, <3>1 DEF TableRow
    <3>2. CASE q # r
      BY <1>0, <1>3, <1>4, <2>2, <3>2 DEF TypeOK, TableRow
    <3> QED
      BY <3>1, <3>2
  <2>3. ASSUME NEW q \in Reservations, reservations'[q].order # None
        PROVE  OrderRow(reservations[q].order)'
    <3>1. CASE q = r
      BY <1>2, <1>3, <1>4, <2>3, <3>1 DEF Fresh, OrderRow
    <3>2. CASE q # r
      BY <1>0, <1>3, <1>4, <2>3, <3>2 DEF TypeOK, OrderRow
    <3> QED
      BY <3>1, <3>2
  <2> QED
    BY <1>0, <1>3, <1>4, <1>7, <2>1, <2>2, <2>3 DEF TypeOK
<1>9. AbsentRowsEmpty'
  BY <1>3, <1>4 DEF IInv, AbsentRowsEmpty, OrderRow, ReservationRow
<1>10. UniqueOrder'
  BY <1>2, <1>4 DEF IInv, UniqueOrder, Fresh
<1>11. PreorderOnItsTable'
  BY <1>2, <1>3, <1>4 DEF IInv, PreorderOnItsTable, Fresh
<1>12. SeatedOnItsTable' /\ OccupiedHasOrder'
  BY <1>3, <1>4 DEF IInv, SeatedOnItsTable, OccupiedHasOrder
<1> QED
  BY <1>7, <1>8, <1>9, <1>10, <1>11, <1>12 DEF IInv

\* Seating a pre-order: its order moves to the table its reservation names.
LEMMA CommitSeatPreorderInv ==
  ASSUME IInv, NEW c \in Calls, CommitSeatPreorder(c)
  PROVE  IInv'
<1>0. TypeOK /\ calls[c] \in Request /\ Sane(calls[c]) /\ calls[c].at = "seatPreorder"
  BY DEF IInv, TypeOK, CallsSane, CommitSeatPreorder, At
<1>1. PICK r \in Reservations, t \in Tables, o \in Orders :
        r = calls[c].res /\ t = calls[c].table /\ o = calls[c].order
  BY <1>0 DEF Sane
<1>2. /\ TableRow(t)
      /\ reservations[r].type = "WITH_PREORDER" /\ reservations[r].order = o
      /\ reservations[r].table = t
  BY <1>0, <1>1 DEF Sane, CommitSeatPreorder, Remembers, TableRow, TableStatuses
<1>3. /\ tables' = [tables EXCEPT ![t] = "OCCUPIED"]
      /\ reservations' = [reservations EXCEPT ![r].status = "SEATED"]
      /\ orders' = [orders EXCEPT ![o].table = t]
      /\ Finish(c)
  BY <1>1 DEF CommitSeatPreorder
<1>4. OrderRow(o) /\ orders[o].table \in {None, t}
  BY <1>0, <1>2, NoneIsNoOrder DEF TypeOK, IInv, PreorderOnItsTable
<1>5. /\ tables' \in [Tables -> TableStatuses \cup {"ABSENT", "GONE"}]
      /\ \A u \in Tables : /\ tables'[u] = IF u = t THEN "OCCUPIED" ELSE tables[u]
                           /\ TableRow(u) => TableRow(u)'
                           /\ tables[u] = "GONE" => tables'[u] = "GONE"
  <2>1. "OCCUPIED" \in TableStatuses
    BY DEF TableStatuses
  <2>2. tables' = [u \in Tables |-> IF u = t THEN "OCCUPIED" ELSE tables[u]]
    BY <1>0, <1>3 DEF TypeOK
  <2> QED
    BY <1>0, <1>2, <2>1, <2>2, TableWrites
<1>6. /\ orders' \in [Orders -> [status : OrderStatuses \cup {"ABSENT"}, table : Tables \cup {None}]]
      /\ \A p \in Orders : /\ orders'[p].table = IF p = o THEN t ELSE orders[p].table
                           /\ OrderRow(p) => OrderRow(p)'
                           /\ OrderRow(p)' => OrderRow(p)
  BY <1>0, <1>3 DEF TypeOK, OrderRow
<1>7. /\ reservations' \in [Reservations -> [status : ReservationStatuses \cup {"ABSENT"},
                                             type : ReservationTypes,
                                             table : Tables \cup {None},
                                             order : Orders \cup {None}]]
      /\ \A q \in Reservations :
           /\ reservations'[q].type = reservations[q].type
           /\ reservations'[q].table = reservations[q].table
           /\ reservations'[q].order = reservations[q].order
           /\ ReservationRow(q) => ReservationRow(q)'
           /\ reservations'[q].status = "SEATED" => q = r \/ reservations[q].status = "SEATED"
  BY <1>0, <1>3 DEF TypeOK, ReservationStatuses, ReservationRow
<1>8. \A q \in Reservations \ {r} : reservations[q].order # o
  BY <1>2, NoneIsNoOrder DEF IInv, UniqueOrder
<1>9. Evolves
  BY <1>2, <1>5, <1>6, <1>7 DEF Evolves
<1>10. ASSUME NEW d \in Calls \ {c}, NEW p \in Orders, calls[d].at = "reserve", calls[d].order = p
       PROVE  Fresh(p)'
  <2>1. Fresh(p)
    BY <1>10, NoneIsNoOrder DEF IInv, CallsSane, Sane
  <2> QED
    BY <1>2, <1>6, <1>7, <2>1 DEF Fresh
<1>11. CallsSane' /\ Private' /\ calls' \in [Calls -> Request]
  BY <1>3, <1>9, <1>10, FinishCalls
<1>12. TypeOK'
  <2>1. ASSUME NEW p \in Orders, orders'[p].table # None PROVE TableRow(orders[p].table)'
    <3>1. CASE p = o
      BY <1>2, <1>5, <1>6, <3>1 DEF TableRow
    <3>2. CASE p # o
      BY <1>0, <1>5, <1>6, <2>1, <3>2 DEF TypeOK, TableRow
    <3> QED
      BY <3>1, <3>2
  <2>2. ASSUME NEW q \in Reservations, reservations'[q].table # None
        PROVE  TableRow(reservations[q].table)'
    BY <1>0, <1>5, <1>7, <2>2 DEF TypeOK, TableRow
  <2>3. ASSUME NEW q \in Reservations, reservations'[q].order # None
        PROVE  OrderRow(reservations[q].order)'
    BY <1>0, <1>6, <1>7, <2>3 DEF TypeOK, OrderRow
  <2> QED
    BY <1>0, <1>5, <1>6, <1>7, <1>11, <2>1, <2>2, <2>3 DEF TypeOK
<1>13. AbsentRowsEmpty' /\ UniqueOrder'
  BY <1>4, <1>6, <1>7 DEF IInv, AbsentRowsEmpty, UniqueOrder
<1>14. PreorderOnItsTable'
  BY <1>0, <1>2, <1>6, <1>7, <1>8 DEF IInv, TypeOK, PreorderOnItsTable
<1>15. SeatedOnItsTable'
  BY <1>0, <1>2, <1>6, <1>7, <1>8, NoneIsNoOrder DEF IInv, TypeOK, SeatedOnItsTable
<1>16. OccupiedHasOrder'
  <2> SUFFICES ASSUME NEW u \in Tables, tables'[u] = "OCCUPIED"
               PROVE  \E p \in Orders : orders'[p].table = u
    BY DEF OccupiedHasOrder
  <2>1. CASE u = t
    BY <1>6, <2>1
  <2>2. CASE u # t
    <3>1. PICK p \in Orders : orders[p].table = u
      BY <1>5, <2>2 DEF IInv, OccupiedHasOrder
    <3> QED
      BY <1>4, <1>6, <2>2, <3>1, FloorAssumption
  <2> QED
    BY <2>1, <2>2
<1> QED
  BY <1>11, <1>12, <1>13, <1>14, <1>15, <1>16 DEF IInv

\* Linking a seated reservation to the order create() answered: the order is
\* on the reservation's table, or both lost it.
LEMMA LinkReservationInv ==
  ASSUME IInv, NEW c \in Calls, LinkReservation(c)
  PROVE  IInv'
<1>0. TypeOK /\ calls[c] \in Request /\ Sane(calls[c]) /\ calls[c].at = "link"
  BY DEF IInv, TypeOK, CallsSane, LinkReservation, At
<1>1. PICK r \in Reservations, t \in Tables, o \in Orders :
        r = calls[c].res /\ t = calls[c].table /\ o = calls[c].order
  BY <1>0 DEF Sane, Seating, AnsweredFor
<1>2. Seating(r, t) /\ AnsweredFor(o, t)
  BY <1>0, <1>1 DEF Sane
<1>3. PICK u \in Tables \cup {None} :
        u = IF reservations[r].type = "INFORMAL" THEN t ELSE reservations[r].table
  BY <1>0 DEF TypeOK
<1>4. /\ reservations' = [reservations EXCEPT ![r] =
           [@ EXCEPT !.status = "SEATED", !.order = o, !.table = u]]
      /\ reservations[r].type = "INFORMAL" => TableRow(t)
      /\ Finish(c) /\ UNCHANGED <<tables, orders>>
  BY <1>1, <1>3 DEF LinkReservation
<1>5. \A q \in Reservations \ {r} : reservations[q].order # o
  BY <1>1 DEF LinkReservation, OrderTaken
<1>6. orders[o].table = u /\ OrderRow(o) /\ (u # None => TableRow(u))
  <2>1. \/ orders[o].table = t
        \/ tables[t] = "GONE" /\ orders[o].table = None
    BY <1>2, <1>5 DEF AnsweredFor, Seating
  <2>2. tables[t] = "GONE" => ~TableRow(t)
    BY DEF TableRow, TableStatuses
  <2>3. CASE reservations[r].type = "INFORMAL"
    BY <1>2, <1>3, <1>4, <2>1, <2>2, <2>3 DEF AnsweredFor
  <2>4. CASE reservations[r].type # "INFORMAL"
    <3>1. reservations[r].type = "DEPOSIT_ONLY"
      BY <1>0, <1>2, <2>4 DEF TypeOK, ReservationTypes, Seating
    <3>2. u = t \/ (tables[t] = "GONE" /\ u = None)
      BY <1>2, <1>3, <2>4, <3>1 DEF Seating, Remembers
    <3>3. /\ orders[o].table # None => TableRow(orders[o].table)
          /\ u # None => TableRow(u)
      BY <1>0, <1>3, <2>4 DEF TypeOK
    <3> QED
      BY <1>2, <2>1, <2>2, <3>2, <3>3, FloorAssumption DEF AnsweredFor
  <2> QED
    BY <2>3, <2>4
<1>7. /\ reservations' \in [Reservations -> [status : ReservationStatuses \cup {"ABSENT"},
                                             type : ReservationTypes,
                                             table : Tables \cup {None},
                                             order : Orders \cup {None}]]
      /\ reservations'[r].status = "SEATED" /\ reservations'[r].order = o
      /\ reservations'[r].table = u /\ reservations'[r].type = reservations[r].type
      /\ \A q \in Reservations \ {r} : reservations'[q] = reservations[q]
  BY <1>0, <1>4 DEF TypeOK, ReservationStatuses
<1>8. reservations[r].type # "WITH_PREORDER"
  BY <1>2 DEF Seating
<1>9. Evolves
  BY <1>3, <1>4, <1>7, <1>8 DEF Evolves, ReservationRow, OrderRow
<1>10. ASSUME NEW d \in Calls \ {c}, NEW p \in Orders, calls[d].at = "reserve", calls[d].order = p
       PROVE  Fresh(p)'
  <2>1. Fresh(p) /\ p # o
    BY <1>0, <1>1, <1>10, NoneIsNoOrder DEF IInv, CallsSane, Sane, Private, At
  <2> QED
    BY <1>4, <1>7, <2>1 DEF Fresh, OrderRow
<1>11. CallsSane' /\ Private' /\ calls' \in [Calls -> Request]
  BY <1>4, <1>9, <1>10, FinishCalls
<1>12. TypeOK'
  <2>1. ASSUME NEW p \in Orders, orders'[p].table # None PROVE TableRow(orders[p].table)'
    BY <1>0, <1>4, <2>1 DEF TypeOK, TableRow
  <2>2. ASSUME NEW q \in Reservations, reservations'[q].table # None
        PROVE  TableRow(reservations[q].table)'
    <3>1. CASE q = r
      BY <1>4, <1>6, <1>7, <2>2, <3>1 DEF TableRow
    <3>2. CASE q # r
      BY <1>0, <1>4, <1>7, <2>2, <3>2 DEF TypeOK, TableRow
    <3> QED
      BY <3>1, <3>2
  <2>3. ASSUME NEW q \in Reservations, reservations'[q].order # None
        PROVE  OrderRow(reservations[q].order)'
    <3>1. CASE q = r
      BY <1>4, <1>6, <1>7, <3>1 DEF OrderRow
    <3>2. CASE q # r
      BY <1>0, <1>4, <1>7, <2>3, <3>2 DEF TypeOK, OrderRow
    <3> QED
      BY <3>1, <3>2
  <2> QED
    BY <1>0, <1>4, <1>7, <1>11, <2>1, <2>2, <2>3 DEF TypeOK
<1>13. AbsentRowsEmpty'
  BY <1>4, <1>7 DEF IInv, AbsentRowsEmpty, OrderRow, ReservationRow
<1>14. UniqueOrder'
  BY <1>5, <1>7 DEF IInv, UniqueOrder
<1>15. PreorderOnItsTable'
  BY <1>4, <1>7, <1>8 DEF IInv, PreorderOnItsTable
<1>16. SeatedOnItsTable'
  BY <1>4, <1>6, <1>7, NoneIsNoOrder DEF IInv, SeatedOnItsTable
<1>17. OccupiedHasOrder'
  BY <1>4 DEF IInv, OccupiedHasOrder
<1> QED
  BY <1>11, <1>12, <1>13, <1>14, <1>15, <1>16, <1>17 DEF IInv

\* A new table: nothing names it yet.
LEMMA CreateTableInv ==
  ASSUME IInv, NEW t \in Tables, CreateTable(t)
  PROVE  IInv'
<1>0. TypeOK /\ UNCHANGED <<orders, reservations, calls>>
  BY DEF IInv, CreateTable
<1>1. /\ tables' \in [Tables -> TableStatuses \cup {"ABSENT", "GONE"}]
      /\ \A u \in Tables : /\ tables'[u] = IF u = t THEN "AVAILABLE" ELSE tables[u]
                           /\ TableRow(u) => TableRow(u)'
                           /\ tables[u] = "GONE" => tables'[u] = "GONE"
  BY <1>0 DEF CreateTable, TypeOK, TableRow, TableStatuses
<1>2. Evolves
  BY <1>0, <1>1 DEF Evolves, OrderRow, ReservationRow
<1>3. CallsSane'
  <2> SUFFICES ASSUME NEW d \in Calls PROVE Sane(calls[d])'
    BY DEF CallsSane
  <2>1. PICK k \in Request : k = calls[d]
    BY <1>0 DEF TypeOK
  <2>2. Sane(k) /\ (k.at = "reserve" /\ k.order # None => Fresh(k.order)')
    BY <1>0, <2>1 DEF IInv, CallsSane, Sane, Fresh, OrderRow
  <2>3. Sane(k)'
    BY <1>2, <2>2, SaneStable
  <2>4. calls'[d] = k
    BY <1>0, <2>1
  <2> QED
    BY <2>3, <2>4 DEF Sane, Seating, Remembers, AnsweredFor, Fresh, OrderRow, ReservationRow
<1>4. TypeOK'
  BY <1>0, <1>1 DEF TypeOK, TableRow, OrderRow
<1>5. AbsentRowsEmpty' /\ UniqueOrder' /\ PreorderOnItsTable' /\ SeatedOnItsTable'
  BY <1>0 DEF IInv, AbsentRowsEmpty, UniqueOrder, PreorderOnItsTable, SeatedOnItsTable,
              OrderRow, ReservationRow
<1>6. OccupiedHasOrder' /\ Private'
  BY <1>0, <1>1 DEF IInv, OccupiedHasOrder, Private, At
<1> QED
  BY <1>3, <1>4, <1>5, <1>6 DEF IInv

\* Deleting a table: the orders and reservations that name it lose it.
LEMMA DeleteTableInv ==
  ASSUME IInv, NEW c \in Calls, DeleteTable(c)
  PROVE  IInv'
<1>0. TypeOK /\ calls[c] \in Request /\ Sane(calls[c]) /\ calls[c].at = "remove"
  BY DEF IInv, TypeOK, CallsSane, DeleteTable, At
<1>1. PICK t \in Tables : t = calls[c].table
  BY <1>0 DEF Sane
<1>2. /\ TableRow(t) /\ tables' = [tables EXCEPT ![t] = "GONE"]
      /\ orders' = Detach(orders, t) /\ reservations' = Detach(reservations, t)
      /\ Finish(c)
  BY <1>1 DEF DeleteTable
<1>3. /\ tables' \in [Tables -> TableStatuses \cup {"ABSENT", "GONE"}]
      /\ tables'[t] = "GONE"
      /\ \A u \in Tables \ {t} : tables'[u] = tables[u]
  BY <1>0, <1>2 DEF TypeOK
<1>4. /\ orders' \in [Orders -> [status : OrderStatuses \cup {"ABSENT"}, table : Tables \cup {None}]]
      /\ \A p \in Orders :
           /\ orders'[p].status = orders[p].status
           /\ orders'[p].table = IF orders[p].table = t THEN None ELSE orders[p].table
  <2>1. \A p \in Orders : orders'[p] = IF orders[p].table = t
                                         THEN [orders[p] EXCEPT !.table = None] ELSE orders[p]
    BY <1>0, <1>2 DEF Detach, TypeOK
  <2>2. orders' = [p \in Orders |-> IF orders[p].table = t
                                      THEN [orders[p] EXCEPT !.table = None] ELSE orders[p]]
    BY <1>0, <1>2 DEF Detach, TypeOK
  <2> QED
    BY <1>0, <2>1, <2>2 DEF TypeOK
<1>5. /\ reservations' \in [Reservations -> [status : ReservationStatuses \cup {"ABSENT"},
                                             type : ReservationTypes,
                                             table : Tables \cup {None},
                                             order : Orders \cup {None}]]
      /\ \A q \in Reservations :
           /\ reservations'[q].status = reservations[q].status
           /\ reservations'[q].type = reservations[q].type
           /\ reservations'[q].order = reservations[q].order
           /\ reservations'[q].table =
                IF reservations[q].table = t THEN None ELSE reservations[q].table
  <2>1. \A q \in Reservations :
          reservations'[q] = IF reservations[q].table = t
                               THEN [reservations[q] EXCEPT !.table = None] ELSE reservations[q]
    BY <1>0, <1>2 DEF Detach, TypeOK
  <2>2. reservations' = [q \in Reservations |->
                           IF reservations[q].table = t
                             THEN [reservations[q] EXCEPT !.table = None] ELSE reservations[q]]
    BY <1>0, <1>2 DEF Detach, TypeOK
  <2> QED
    BY <1>0, <2>1, <2>2 DEF TypeOK
<1>6. Evolves
  BY <1>2, <1>3, <1>4, <1>5 DEF Evolves, OrderRow, ReservationRow
<1>7. ASSUME NEW d \in Calls \ {c}, NEW p \in Orders, calls[d].at = "reserve", calls[d].order = p
      PROVE  Fresh(p)'
  <2>1. Fresh(p)
    BY <1>7, NoneIsNoOrder DEF IInv, CallsSane, Sane
  <2> QED
    BY <1>4, <1>5, <2>1 DEF Fresh, OrderRow
<1>8. CallsSane' /\ Private' /\ calls' \in [Calls -> Request]
  BY <1>2, <1>6, <1>7, FinishCalls
<1>9. TypeOK'
  <2>1. ASSUME NEW p \in Orders, orders'[p].table # None PROVE TableRow(orders[p].table)'
    BY <1>0, <1>3, <1>4, <2>1 DEF TypeOK, TableRow
  <2>2. ASSUME NEW q \in Reservations, reservations'[q].table # None
        PROVE  TableRow(reservations[q].table)'
    BY <1>0, <1>3, <1>5, <2>2 DEF TypeOK, TableRow
  <2>3. ASSUME NEW q \in Reservations, reservations'[q].order # None
        PROVE  OrderRow(reservations[q].order)'
    BY <1>0, <1>4, <1>5, <2>3 DEF TypeOK, OrderRow
  <2> QED
    BY <1>3, <1>4, <1>5, <1>8, <2>1, <2>2, <2>3 DEF TypeOK
<1>10. AbsentRowsEmpty' /\ UniqueOrder'
  BY <1>4, <1>5, FloorAssumption DEF IInv, AbsentRowsEmpty, UniqueOrder, OrderRow, ReservationRow
<1>11. PreorderOnItsTable' /\ SeatedOnItsTable'
  BY <1>0, <1>4, <1>5 DEF IInv, TypeOK, PreorderOnItsTable, SeatedOnItsTable
<1>12. OccupiedHasOrder'
  BY <1>3, <1>4 DEF IInv, OccupiedHasOrder
<1> QED
  BY <1>8, <1>9, <1>10, <1>11, <1>12 DEF IInv

-----------------------------------------------------------------------------
\* Every step of a request keeps the invariant.
LEMMA RequestInv ==
  ASSUME IInv, NEW c \in Calls,
         OrderStep(c) \/ ReservationStep(c) \/ TableStep(c) \/ Abandon(c)
  PROVE  IInv'
<1>0. Targets \subseteq OrderStatuses
  BY FloorAssumption
<1>1. CASE OrderStep(c)
  <2>1. CASE \E t \in Tables \cup {None} : PostOrder(c, t)
    BY <2>1, OrderReads
  <2>2. CASE OpenTable(c) \/ ReuseActiveOrder(c) \/ NoActiveOrder(c)
    BY <2>2, OrderReads
  <2>3. CASE \E o \in Orders : UpdateStatus(c, o) \/ ConfirmOrder(c, o) \/ MarkConfirmed(c, o)
    <3>1. PICK o \in Orders, next \in OrderStatuses : RequestStatus(c, o, next)
      BY <2>3 DEF UpdateStatus, ConfirmOrder, MarkConfirmed, OrderStatuses
    <3> QED
      BY <3>1, OrderReads
  <2>4. CASE \E o \in Orders : RequestCheckout(c, o)
    BY <2>4, OrderReads
  <2>5. CASE InsertOrder(c)
    BY <2>5, InsertOrderInv
  <2>6. CASE WriteStatus(c) \/ CommitCheckout(c)
    BY <2>6, OrderStatusCommits
  <2> QED
    BY <1>1, <2>1, <2>2, <2>3, <2>4, <2>5, <2>6 DEF OrderStep
<1>2. CASE ReservationStep(c)
  <2>1. CASE PostInformal(c) \/ \E type \in PAID_TYPES, t \in Tables : PostReservation(c, type, t)
    BY <2>1, ReservationReads
  <2>2. CASE \E r \in Reservations : \/ RequestConfirm(c, r)
                                     \/ RequestSeatPreorder(c, r)
                                     \/ RequestSeatDeposit(c, r)
    BY <2>2, ReservationReads
  <2>3. CASE \E r \in Reservations, t \in Tables : RequestSeatInformal(c, r, t)
    BY <2>3, ReservationReads
  <2>4. CASE \E r \in Reservations, next \in {"NO_SHOW", "CANCELLED"} :
               RequestTerminate(c, r, next)
    BY <2>4, ReservationReads
  <2>5. CASE ReadHeldTable(c)
    BY <2>5, ReservationReads
  <2>6. CASE InsertPreorder(c) \/ InsertReservation(c)
    BY <2>6, InsertPreorderInv, InsertReservationInv
  <2>7. CASE CommitConfirm(c) \/ CommitTerminate(c)
    BY <2>7, ReservationStatusCommits
  <2>8. CASE CommitSeatPreorder(c) \/ LinkReservation(c)
    BY <2>8, CommitSeatPreorderInv, LinkReservationInv
  <2> QED
    BY <1>2, <2>1, <2>2, <2>3, <2>4, <2>5, <2>6, <2>7, <2>8 DEF ReservationStep
<1>3. CASE TableStep(c)
  BY <1>3, ReservationReads, DeleteTableInv DEF TableStep
<1>4. CASE Abandon(c)
  BY <1>4, ReservationReads
<1> QED
  BY <1>1, <1>2, <1>3, <1>4

\* The invariant is inductive.
LEMMA NextInv == IInv /\ [Next]_vars => IInv'
<1> SUFFICES ASSUME IInv, [Next]_vars PROVE IInv'
  OBVIOUS
<1>1. CASE Next
  BY <1>1, RequestInv, CreateTableInv DEF Next
<1>2. CASE UNCHANGED vars
  BY <1>2 DEF vars, IInv, TypeOK, AbsentRowsEmpty, UniqueOrder, PreorderOnItsTable,
              SeatedOnItsTable, OccupiedHasOrder, CallsSane, Private, At, TableRow,
              OrderRow, ReservationRow, Sane, Seating, Remembers, AnsweredFor, Fresh
<1> QED
  BY <1>1, <1>2

\* In every reachable state of the floor the invariant holds.
THEOREM Invariance == Spec => []IInv
<1>1. Init => IInv
  BY InitInv
<1>2. IInv /\ [Next]_vars => IInv'
  BY NextInv
<1> QED
  BY <1>1, <1>2, PTL DEF Spec

\* Rows keep their types and no foreign key ever dangles, whatever requests
\* interleave, fail or delete tables under each other.
THEOREM TypeCorrect == Spec => []TypeOK
<1>1. IInv => TypeOK
  BY DEF IInv
<1> QED
  BY <1>1, Invariance, PTL

\* A seated party has an order and that order is on the party's table.
THEOREM SeatedPartiesHaveTheirOrder == Spec => []SeatedOnItsTable
<1>1. IInv => SeatedOnItsTable
  BY DEF IInv
<1> QED
  BY <1>1, Invariance, PTL

\* An OCCUPIED table is named by an order.
THEOREM OccupiedTablesHaveAnOrder == Spec => []OccupiedHasOrder
<1>1. IInv => OccupiedHasOrder
  BY DEF IInv
<1> QED
  BY <1>1, Invariance, PTL

\* One step never moves an order from one table to another.
LEMMA StepKeepsTable ==
  ASSUME IInv, Next, NEW o \in Orders, orders[o].table # None
  PROVE  orders'[o].table \in {orders[o].table, None}
<1>0. TypeOK
  BY DEF IInv
<1>1. CASE UNCHANGED orders
  BY <1>1
<1>2. ASSUME NEW c \in Calls, WriteStatus(c) \/ CommitCheckout(c)
      PROVE  orders'[o].table = orders[o].table
  BY <1>0, <1>2 DEF WriteStatus, CommitCheckout, TypeOK
<1>3. ASSUME NEW c \in Calls, InsertOrder(c) \/ InsertPreorder(c)
      PROVE  orders'[o].table = orders[o].table
  <2>1. OrderRow(o)
    BY DEF IInv, AbsentRowsEmpty
  <2>2. PICK p \in FreshOrder : \E row : orders' = [orders EXCEPT ![p] = row]
    BY <1>3 DEF InsertOrder, InsertPreorder
  <2>3. p # o
    BY <2>1, <2>2 DEF FreshOrder
  <2> QED
    BY <1>0, <2>2, <2>3 DEF TypeOK
<1>4. ASSUME NEW c \in Calls, CommitSeatPreorder(c)
      PROVE  orders'[o].table = orders[o].table
  <2>1. /\ calls[c].res \in Reservations /\ calls[c].table \in Tables
        /\ reservations[calls[c].res].type = "WITH_PREORDER"
        /\ reservations[calls[c].res].order = calls[c].order /\ calls[c].order \in Orders
        /\ Remembers(calls[c].res, calls[c].table)
        /\ TableRow(calls[c].table)
    BY <1>4 DEF IInv, CallsSane, Sane, CommitSeatPreorder, At
  <2>2. reservations[calls[c].res].table = calls[c].table
    BY <2>1 DEF Remembers, TableRow, TableStatuses
  <2>3. orders[calls[c].order].table \in {None, calls[c].table}
    BY <2>1, <2>2, NoneIsNoOrder DEF IInv, PreorderOnItsTable
  <2>4. orders' = [orders EXCEPT ![calls[c].order].table = calls[c].table]
    BY <1>4 DEF CommitSeatPreorder
  <2> QED
    BY <1>0, <2>1, <2>3, <2>4 DEF TypeOK
<1>5. ASSUME NEW c \in Calls, DeleteTable(c)
      PROVE  orders'[o].table \in {orders[o].table, None}
  <2>1. PICK t : orders' = Detach(orders, t)
    BY <1>5 DEF DeleteTable
  <2> QED
    BY <1>0, <2>1 DEF Detach, TypeOK
<1> QED
  BY <1>1, <1>2, <1>3, <1>4, <1>5
  DEF Next, OrderStep, ReservationStep, TableStep, Abandon, CreateTable, PostOrder, OpenTable,
      ReuseActiveOrder, NoActiveOrder, UpdateStatus, ConfirmOrder, MarkConfirmed,
      RequestStatus, RequestCheckout, PostInformal, PostReservation, InsertReservation,
      RequestConfirm, CommitConfirm, RequestSeatPreorder, RequestSeatDeposit,
      RequestSeatInformal, LinkReservation, RequestTerminate, ReadHeldTable,
      CommitTerminate, RequestRemove

\* Throughout a run of the floor an order that is on a table stays there
\* until the table is deleted: a seating uses what it read before other
\* requests ran, and still cannot drag an order to another table.
THEOREM OrdersStayOnTheirTable == Spec => OrderKeepsItsTable
<1>1. IInv /\ [Next]_vars =>
        [\A o \in Orders : orders[o].table # None =>
            orders'[o].table \in {orders[o].table, None}]_vars
  BY StepKeepsTable
<1> QED
  BY <1>1, Invariance, PTL DEF Spec, OrderKeepsItsTable

-----------------------------------------------------------------------------
(***************************************************************************)
(* What overtaken requests cannot break (FloorRaces).  A request that was  *)
(* not overtaken still finds what it read when it writes (Holds, Serves):  *)
(* the rows it goes by are the ones whose changes the history records.  An *)
(* overtaken one may write anything its handler writes, but only about the *)
(* tables the history then adds to raced (StrangersStay).                  *)
(***************************************************************************)

\* What a request that was not overtaken may rely on, at each point of its
\* handler.
Holds(k) ==
  /\ k.at = "status" => canTransition(orders[k.order].status, k.next)
  /\ k.at = "pay" => /\ orders[k.order].status = "PENDING"
                     /\ orders[k.order].table = k.table
  /\ k.at = "confirm" => /\ reservations[k.res].status = "PENDING"
                         /\ reservations[k.res].type \in PAID_TYPES =>
                              reservations[k.res].table = k.table
                         /\ reservations[k.res].type \notin PAID_TYPES => k.table = None
  /\ k.at = "seatPreorder" => /\ reservations[k.res].status = "CONFIRMED"
                              /\ reservations[k.res].table = k.table
  /\ k.at \in {"open", "lookup", "insert", "link"} /\ k.next = "link" =>
       /\ reservations[k.res].status = "CONFIRMED"
       /\ reservations[k.res].type \in PAID_TYPES => reservations[k.res].table = k.table
  /\ k.at \in {"lookup", "link"} => tables[k.table] = "OCCUPIED"
  /\ k.at \in {"terminate", "release", "close"} =>
       /\ reservations[k.res].status \in TERMINABLE_STATUSES
       /\ reservations[k.res].table = k.table
  /\ k.at = "release" => tables[k.table] = "RESERVED"
  /\ k.at = "close" => k.table = None \/ tables[k.table] # "RESERVED"
  /\ k.at = "remove" => tables[k.table] = "AVAILABLE"

\* What it may rely on about a walk-in table: there is no unpaid order where it
\* is about to insert one.
Serves(k) ==
  k.at = "insert" /\ k.table \in WalkInTables =>
    \A o \in Orders : Unpaid(o) => orders[o].table # k.table

\* An unpaid order of table t keeps it OCCUPIED and is the only one there.
Kept(t) ==
  \A o \in Orders : Unpaid(o) /\ orders[o].table = t =>
    /\ tables[t] = "OCCUPIED"
    /\ \A p \in Orders : Unpaid(p) /\ orders[p].table = t => p = o

RaceInv ==
  /\ IInv
  /\ \A c \in Calls : c \notin overtaken => Holds(calls[c]) /\ Serves(calls[c])
  /\ \A t \in Tables : t \notin raced => HeldForSomeone(t)
  /\ \A t \in WalkInTables : Kept(t)

\* A step of request c.
Step(c) == OrderStep(c) \/ ReservationStep(c) \/ TableStep(c) \/ Abandon(c)

\* The invariant holds before the first request.
LEMMA InitRaceInv == RaceInit => RaceInv
<1> SUFFICES ASSUME RaceInit PROVE RaceInv
  OBVIOUS
<1>1. \A c \in Calls : Holds(calls[c]) /\ Serves(calls[c])
  BY DEF RaceInit, Init, Holds, Serves, Idle
<1>2. \A t \in Tables : HeldForSomeone(t)
  BY DEF RaceInit, Init, HeldForSomeone
<1>3. \A t \in Tables : Kept(t)
  BY DEF RaceInit, Init, Kept, Unpaid, EDITABLE_STATUSES
<1> QED
  BY <1>1, <1>2, <1>3, InitInv DEF RaceInv, RaceInit, WalkInTables

\* A memory of no request relies on nothing.
LEMMA IdleHolds == Holds(Idle) /\ Holds(Idle)'
BY DEF Holds, Idle

-----------------------------------------------------------------------------
\* What a step leaves alone.

\* Nothing about table t changes in this step.
AsBefore(t) ==
  /\ tables'[t] = tables[t]
  /\ \A o \in Orders :
       orders[o].table = t \/ orders'[o].table = t => orders'[o] = orders[o]
  /\ \A r \in Reservations :
       reservations[r].table = t \/ reservations'[r].table = t =>
         reservations'[r] = reservations[r]

\* A step of request c changes nothing about a table that c is not about,
\* however stale its memory is.
LEMMA StrangersStay ==
  ASSUME IInv, NEW c \in Calls, Step(c), NEW t \in Tables, t \notin About(calls[c])
  PROVE  AsBefore(t)
<1>0. /\ TypeOK /\ calls[c] \in Request /\ Sane(calls[c])
      /\ t # None
  BY FloorAssumption DEF IInv, TypeOK, CallsSane
<1>1. PICK k \in Request : k = calls[c]
  BY <1>0
<1>2. /\ k.table # t
      /\ \A o \in Orders : k.order = o => orders[o].table # t
      /\ \A r \in Reservations : k.res = r => reservations[r].table # t
  BY <1>1 DEF About
<1>3. CASE UNCHANGED <<tables, orders, reservations>>
  BY <1>3 DEF AsBefore
<1>4. CASE InsertOrder(c) \/ InsertPreorder(c)
  <2>1. PICK o \in FreshOrder, u \in {k.table, None} :
          orders' = [orders EXCEPT ![o] = [status |-> "DRAFT", table |-> u]]
    BY <1>1, <1>4 DEF InsertOrder, InsertPreorder
  <2>2. o \in Orders /\ orders[o].table = None
    BY <2>1 DEF FreshOrder, IInv, AbsentRowsEmpty
  <2>3. /\ orders'[o].table = u
        /\ \A p \in Orders \ {o} : orders'[p] = orders[p]
    BY <1>0, <2>1, <2>2 DEF TypeOK
  <2>4. tables'[t] = tables[t] /\ UNCHANGED reservations
    BY <1>1, <1>2, <1>4 DEF InsertOrder, InsertPreorder
  <2> QED
    BY <1>0, <1>2, <2>2, <2>3, <2>4 DEF AsBefore
<1>5. CASE WriteStatus(c) \/ CommitCheckout(c)
  <2>1. /\ k.order \in Orders /\ tables'[t] = tables[t] /\ UNCHANGED reservations
        /\ \E s : orders' = [orders EXCEPT ![k.order].status = s]
    BY <1>0, <1>1, <1>2, <1>5 DEF WriteStatus, CommitCheckout, Sane, At
  <2>2. /\ orders'[k.order].table = orders[k.order].table
        /\ \A p \in Orders \ {k.order} : orders'[p] = orders[p]
    BY <1>0, <2>1 DEF TypeOK
  <2> QED
    BY <1>2, <2>1, <2>2 DEF AsBefore
<1>6. CASE InsertReservation(c)
  <2>1. PICK r \in Reservations :
          /\ ~ReservationRow(r)
          /\ reservations' = [reservations EXCEPT ![r] =
               [status |-> "PENDING", type |-> k.next, table |-> k.table, order |-> k.order]]
    BY <1>1, <1>6 DEF InsertReservation
  <2>2. /\ reservations'[r].table = k.table
        /\ \A q \in Reservations \ {r} : reservations'[q] = reservations[q]
    BY <1>0, <2>1 DEF TypeOK
  <2>3. reservations[r].table # t
    BY <1>0, <2>1 DEF IInv, AbsentRowsEmpty
  <2> QED
    BY <1>2, <1>6, <2>2, <2>3 DEF AsBefore, InsertReservation
<1>7. CASE CommitConfirm(c) \/ CommitTerminate(c) \/ LinkReservation(c)
  <2>1. k.res \in Reservations /\ UNCHANGED orders /\ tables'[t] = tables[t]
    BY <1>0, <1>1, <1>2, <1>7
    DEF CommitConfirm, CommitTerminate, LinkReservation, Sane, Seating, At, TypeOK
  <2>2. ASSUME NEW row, reservations' = [reservations EXCEPT ![k.res] = row]
        PROVE  /\ reservations'[k.res] = row
               /\ \A q \in Reservations \ {k.res} : reservations'[q] = reservations[q]
    BY <1>0, <2>1, <2>2 DEF TypeOK
  <2>3. CASE CommitConfirm(c) \/ CommitTerminate(c)
    <3>1. PICK s : reservations' = [reservations EXCEPT ![k.res].status = s]
      BY <1>1, <2>3 DEF CommitConfirm, CommitTerminate
    <3>2. PICK row : row = [reservations[k.res] EXCEPT !.status = s]
      OBVIOUS
    <3>3. row.table = reservations[k.res].table
      BY <1>0, <2>1, <3>2 DEF TypeOK
    <3> QED
      BY <1>2, <2>1, <2>2, <3>1, <3>2, <3>3 DEF AsBefore
  <2>4. CASE LinkReservation(c)
    <3>1. PICK row : row = [reservations[k.res] EXCEPT !.status = "SEATED", !.order = k.order,
                              !.table = IF reservations[k.res].type = "INFORMAL"
                                          THEN k.table ELSE reservations[k.res].table]
      OBVIOUS
    <3>2. reservations' = [reservations EXCEPT ![k.res] = row]
      BY <1>1, <2>4, <3>1 DEF LinkReservation
    <3>3. row.table \in {reservations[k.res].table, k.table}
      BY <1>0, <2>1, <3>1 DEF TypeOK
    <3> QED
      BY <1>2, <2>1, <2>2, <3>2, <3>3 DEF AsBefore
  <2> QED
    BY <1>7, <2>3, <2>4
<1>8. CASE CommitSeatPreorder(c)
  <2>1. /\ k.res \in Reservations /\ k.order \in Orders
        /\ tables' = [tables EXCEPT ![k.table] = "OCCUPIED"]
        /\ reservations' = [reservations EXCEPT ![k.res].status = "SEATED"]
        /\ orders' = [orders EXCEPT ![k.order].table = k.table]
    BY <1>0, <1>1, <1>8 DEF CommitSeatPreorder, Sane, At
  <2>2. /\ reservations'[k.res].table = reservations[k.res].table
        /\ \A q \in Reservations \ {k.res} : reservations'[q] = reservations[q]
        /\ orders'[k.order].table = k.table
        /\ \A p \in Orders \ {k.order} : orders'[p] = orders[p]
        /\ tables'[t] = tables[t]
    BY <1>0, <1>2, <2>1 DEF TypeOK
  <2> QED
    BY <1>2, <2>1, <2>2 DEF AsBefore
<1>9. CASE DeleteTable(c)
  <2>1. /\ tables' = [tables EXCEPT ![k.table] = "GONE"]
        /\ orders' = Detach(orders, k.table)
        /\ reservations' = Detach(reservations, k.table)
    BY <1>1, <1>9 DEF DeleteTable
  <2>2. \A o \in Orders : IF orders[o].table = k.table THEN orders'[o].table = None
                                                       ELSE orders'[o] = orders[o]
    BY <1>0, <2>1 DEF Detach, TypeOK
  <2>3. \A r \in Reservations : IF reservations[r].table = k.table
                                  THEN reservations'[r].table = None
                                  ELSE reservations'[r] = reservations[r]
    BY <1>0, <2>1 DEF Detach, TypeOK
  <2>4. tables'[t] = tables[t]
    BY <1>0, <1>2, <2>1 DEF TypeOK
  <2> QED
    BY <1>0, <1>2, <2>2, <2>3, <2>4 DEF AsBefore
<1> QED
  BY <1>3, <1>4, <1>5, <1>6, <1>7, <1>8, <1>9
  DEF Step, OrderStep, ReservationStep, TableStep, Abandon, PostOrder, OpenTable,
      ReuseActiveOrder, NoActiveOrder, UpdateStatus, ConfirmOrder, MarkConfirmed,
      RequestStatus, RequestCheckout, PostInformal, PostReservation, RequestConfirm,
      RequestSeatPreorder, RequestSeatDeposit, RequestSeatInformal, RequestTerminate,
      ReadHeldTable, RequestRemove

\* What is said about a table in the properties depends on nothing else.
LEMMA UndisturbedTable ==
  ASSUME NEW t \in Tables, AsBefore(t)
  PROVE  /\ HeldForSomeone(t) => HeldForSomeone(t)'
         /\ Kept(t) => Kept(t)'
         /\ Promised(t)' <=> Promised(t)
         /\ \A o \in Orders : Unpaid(o)' /\ orders'[o].table = t =>
              Unpaid(o) /\ orders[o].table = t
<1>1. HeldForSomeone(t) => HeldForSomeone(t)'
  BY DEF AsBefore, HeldForSomeone
<1>2. \A o \in Orders : Unpaid(o)' /\ orders'[o].table = t => Unpaid(o) /\ orders[o].table = t
  BY DEF AsBefore, Unpaid
<1>3. Kept(t) => Kept(t)'
  BY <1>2 DEF AsBefore, Kept
<1>4. Promised(t)' <=> Promised(t)
  BY DEF AsBefore, Promised
<1> QED
  BY <1>1, <1>2, <1>3, <1>4

-----------------------------------------------------------------------------
\* What a request remembers.

\* The rows that a request not overtaken goes by are what they were.
LEMMA Unwatched ==
  ASSUME Watch, NEW d \in Calls, d \notin overtaken', calls'[d] = calls[d], calls[d] # Idle
  PROVE  /\ d \notin overtaken
         /\ \A o \in Orders : calls[d].order = o => orders'[o] = orders[o]
         /\ \A r \in Reservations : calls[d].res = r => reservations'[r] = reservations[r]
         /\ \A t \in Tables : calls[d].table = t =>
              tables'[t] = tables[t] /\ ActiveOrders(t)' = ActiveOrders(t)
<1>1. d \notin overtaken /\ ~Touched(calls[d])
  BY DEF Watch
<1> QED
  BY <1>1 DEF Touched

\* While a request waits and is not overtaken it may go on relying on the rows.
LEMMA MemoryLasts ==
  ASSUME IInv, Watch, NEW d \in Calls, d \notin overtaken', calls'[d] = calls[d],
         d \notin overtaken => Holds(calls[d])
  PROVE  Holds(calls[d])'
<1>1. PICK k \in Request : k = calls[d] /\ k = calls'[d]
  BY DEF IInv, TypeOK
<1>2. CASE k = Idle
  BY <1>1, <1>2, IdleHolds DEF Holds
<1>3. CASE k # Idle
  <2>1. /\ Holds(k)
        /\ \A o \in Orders : k.order = o => orders'[o] = orders[o]
        /\ \A r \in Reservations : k.res = r => reservations'[r] = reservations[r]
        /\ \A t \in Tables : k.table = t => tables'[t] = tables[t]
    BY <1>1, <1>3, Unwatched
  <2>2. /\ k.at \in {"status", "pay"} => k.order \in Orders
        /\ k.at \in {"confirm", "terminate", "release", "close", "seatPreorder"} =>
             k.res \in Reservations
        /\ k.at \in {"open", "lookup", "insert", "link"} /\ k.next = "link" =>
             k.res \in Reservations
        /\ k.at \in {"lookup", "link", "release", "remove"} => k.table \in Tables
        /\ k.table \in Tables \cup {None}
    BY <1>1 DEF IInv, CallsSane, Sane, Seating, Request
  <2>3. Holds(k)'
    BY <2>1, <2>2 DEF Holds
  <2> QED
    BY <1>1, <2>3 DEF Holds
<1> QED
  BY <1>2, <1>3

\* A step that takes a request, or reads, remembers what it has just seen.
LEMMA ReadsHold ==
  ASSUME IInv, NEW c \in Calls, Holds(calls[c])
  PROVE  /\ \A t \in Tables \cup {None} : PostOrder(c, t) => Holds(calls[c])'
         /\ OpenTable(c) => Holds(calls[c])'
         /\ ReuseActiveOrder(c) => Holds(calls[c])'
         /\ NoActiveOrder(c) => Holds(calls[c])'
         /\ \A o \in Orders, next \in OrderStatuses : RequestStatus(c, o, next) => Holds(calls[c])'
         /\ \A o \in Orders : RequestCheckout(c, o) => Holds(calls[c])'
         /\ PostInformal(c) => Holds(calls[c])'
         /\ \A type \in PAID_TYPES, t \in Tables : PostReservation(c, type, t) => Holds(calls[c])'
         /\ \A r \in Reservations : RequestConfirm(c, r) => Holds(calls[c])'
         /\ \A r \in Reservations : RequestSeatPreorder(c, r) => Holds(calls[c])'
         /\ \A r \in Reservations : RequestSeatDeposit(c, r) => Holds(calls[c])'
         /\ \A r \in Reservations, t \in Tables : RequestSeatInformal(c, r, t) => Holds(calls[c])'
         /\ \A r \in Reservations, next \in {"NO_SHOW", "CANCELLED"} :
              RequestTerminate(c, r, next) => Holds(calls[c])'
         /\ ReadHeldTable(c) => Holds(calls[c])'
         /\ \A t \in Tables : RequestRemove(c, t) => Holds(calls[c])'
<1>0. calls \in [Calls -> Request] /\ calls[c] \in Request /\ Sane(calls[c])
  BY DEF IInv, TypeOK, CallsSane
<1>a. ASSUME NEW k, calls'[c] = k, Holds(k), UNCHANGED <<tables, orders, reservations>>
      PROVE  Holds(calls[c])'
  BY <1>a DEF Holds
<1>1. ASSUME NEW pc, NEW o, NEW t, NEW r, NEW next, Accept(c, pc, o, t, r, next),
             UNCHANGED <<tables, orders, reservations>>,
             Holds([at |-> pc, order |-> o, table |-> t, res |-> r, next |-> next])
      PROVE  Holds(calls[c])'
  <2> DEFINE k == [at |-> pc, order |-> o, table |-> t, res |-> r, next |-> next]
  <2>1. calls'[c] = k /\ Holds(k)
    BY <1>0, <1>1 DEF Accept
  <2> HIDE DEF k
  <2> QED
    BY <1>1, <2>1, <1>a
<1>2. ASSUME NEW t \in Tables \cup {None}, PostOrder(c, t) PROVE Holds(calls[c])'
  <2>1. Holds([at |-> IF t = None THEN "insert" ELSE "open", order |-> None, table |-> t,
               res |-> None, next |-> "reply"])
    BY DEF Holds
  <2> QED
    BY <1>1, <1>2, <2>1 DEF PostOrder
<1>3. ASSUME OpenTable(c) PROVE Holds(calls[c])'
  <2> DEFINE k == [calls[c] EXCEPT !.at = IF tables[calls[c].table] = "OCCUPIED"
                                            THEN "lookup" ELSE "insert"]
  <2>1. /\ calls[c].at = "open" /\ calls'[c] = k /\ k.table = calls[c].table
        /\ k.next = calls[c].next /\ k.res = calls[c].res
        /\ k.at = IF tables[calls[c].table] = "OCCUPIED" THEN "lookup" ELSE "insert"
    BY <1>0, <1>3 DEF OpenTable, Goto, At, Request
  <2> HIDE DEF k
  <2>2. Holds(k)
    BY <2>1 DEF Holds
  <2> QED
    BY <1>3, <2>1, <2>2, <1>a DEF OpenTable
<1>4. ASSUME ReuseActiveOrder(c) PROVE Holds(calls[c])'
  <2>1. PICK o \in Newest(ActiveOrders(calls[c].table)) : Answer(c, o)
    BY <1>4 DEF ReuseActiveOrder
  <2>2. CASE calls[c].next = "reply"
    BY <1>0, <2>1, <2>2, IdleHolds DEF Answer, Finish
  <2>3. CASE calls[c].next # "reply"
    <3> DEFINE k == [calls[c] EXCEPT !.at = "link", !.order = o]
    <3>1. /\ calls[c].at = "lookup" /\ calls'[c] = k /\ k.table = calls[c].table
          /\ k.next = calls[c].next /\ k.res = calls[c].res /\ k.at = "link"
      BY <1>0, <1>4, <2>1, <2>3 DEF ReuseActiveOrder, Answer, At, Request
    <3> HIDE DEF k
    <3>2. Holds(k)
      BY <3>1 DEF Holds
    <3> QED
      BY <1>4, <3>1, <3>2, <1>a DEF ReuseActiveOrder
  <2> QED
    BY <2>2, <2>3
<1>5. ASSUME NoActiveOrder(c) PROVE Holds(calls[c])'
  <2> DEFINE k == [calls[c] EXCEPT !.at = "insert"]
  <2>1. /\ calls[c].at = "lookup" /\ calls'[c] = k /\ k.table = calls[c].table
        /\ k.next = calls[c].next /\ k.res = calls[c].res /\ k.at = "insert"
    BY <1>0, <1>5 DEF NoActiveOrder, Goto, At, Request
  <2> HIDE DEF k
  <2>2. Holds(k)
    BY <2>1 DEF Holds
  <2> QED
    BY <1>5, <2>1, <2>2, <1>a DEF NoActiveOrder
<1>6. ASSUME NEW o \in Orders, NEW next \in OrderStatuses, RequestStatus(c, o, next)
      PROVE  Holds(calls[c])'
  <2>1. Holds([at |-> "status", order |-> o, table |-> None, res |-> None, next |-> next])
    BY <1>6 DEF Holds, RequestStatus
  <2> QED
    BY <1>1, <1>6, <2>1 DEF RequestStatus
<1>7. ASSUME NEW o \in Orders, RequestCheckout(c, o) PROVE Holds(calls[c])'
  <2>1. Holds([at |-> "pay", order |-> o, table |-> orders[o].table, res |-> None,
               next |-> "none"])
    BY <1>7 DEF Holds, RequestCheckout
  <2> QED
    BY <1>1, <1>7, <2>1 DEF RequestCheckout
<1>8. ASSUME PostInformal(c) PROVE Holds(calls[c])'
  <2>1. Holds([at |-> "reserve", order |-> None, table |-> None, res |-> None,
               next |-> "INFORMAL"])
    BY DEF Holds
  <2> QED
    BY <1>1, <1>8, <2>1 DEF PostInformal
<1>9. ASSUME NEW type \in PAID_TYPES, NEW t \in Tables, PostReservation(c, type, t)
      PROVE  Holds(calls[c])'
  <2>1. Holds([at |-> IF type = "WITH_PREORDER" THEN "preorder" ELSE "reserve", order |-> None,
               table |-> t, res |-> None, next |-> type])
    BY DEF Holds
  <2> QED
    BY <1>1, <1>9, <2>1 DEF PostReservation
<1>10. ASSUME NEW r \in Reservations, RequestConfirm(c, r) PROVE Holds(calls[c])'
  <2>1. Holds([at |-> "confirm", order |-> None,
               table |-> IF reservations[r].type \in PAID_TYPES
                           THEN reservations[r].table ELSE None,
               res |-> r, next |-> "none"])
    BY <1>10 DEF Holds, RequestConfirm
  <2> QED
    BY <1>1, <1>10, <2>1 DEF RequestConfirm
<1>11. ASSUME NEW r \in Reservations, RequestSeatPreorder(c, r) PROVE Holds(calls[c])'
  <2>1. Holds([at |-> "seatPreorder", order |-> reservations[r].order,
               table |-> reservations[r].table, res |-> r, next |-> "none"])
    BY <1>11 DEF Holds, RequestSeatPreorder
  <2> QED
    BY <1>1, <1>11, <2>1 DEF RequestSeatPreorder
<1>12. ASSUME NEW r \in Reservations, RequestSeatDeposit(c, r) PROVE Holds(calls[c])'
  <2>1. Holds([at |-> "open", order |-> None, table |-> reservations[r].table, res |-> r,
               next |-> "link"])
    BY <1>12 DEF Holds, RequestSeatDeposit
  <2> QED
    BY <1>1, <1>12, <2>1 DEF RequestSeatDeposit
<1>13. ASSUME NEW r \in Reservations, NEW t \in Tables, RequestSeatInformal(c, r, t)
       PROVE  Holds(calls[c])'
  <2>1. Holds([at |-> "open", order |-> None, table |-> t, res |-> r, next |-> "link"])
    BY <1>13 DEF Holds, RequestSeatInformal, PAID_TYPES
  <2> QED
    BY <1>1, <1>13, <2>1 DEF RequestSeatInformal
<1>14. ASSUME NEW r \in Reservations, NEW next \in {"NO_SHOW", "CANCELLED"},
              RequestTerminate(c, r, next)
       PROVE  Holds(calls[c])'
  <2>1. Holds([at |-> IF reservations[r].table = None THEN "close" ELSE "terminate",
               order |-> None, table |-> reservations[r].table, res |-> r, next |-> next])
    BY <1>14 DEF Holds, RequestTerminate
  <2> QED
    BY <1>1, <1>14, <2>1 DEF RequestTerminate
<1>15. ASSUME ReadHeldTable(c) PROVE Holds(calls[c])'
  <2> DEFINE k == [calls[c] EXCEPT !.at = IF tables[calls[c].table] = "RESERVED"
                                            THEN "release" ELSE "close"]
  <2>1. /\ calls[c].at = "terminate" /\ calls'[c] = k /\ k.table = calls[c].table
        /\ k.next = calls[c].next /\ k.res = calls[c].res
        /\ k.at = IF tables[calls[c].table] = "RESERVED" THEN "release" ELSE "close"
    BY <1>0, <1>15 DEF ReadHeldTable, Goto, At, Request
  <2> HIDE DEF k
  <2>2. Holds(k)
    BY <2>1 DEF Holds
  <2> QED
    BY <1>15, <2>1, <2>2, <1>a DEF ReadHeldTable
<1>16. ASSUME NEW t \in Tables, RequestRemove(c, t) PROVE Holds(calls[c])'
  <2>1. Holds([at |-> "remove", order |-> None, table |-> t, res |-> None, next |-> "none"])
    BY <1>16 DEF Holds, RequestRemove
  <2> QED
    BY <1>1, <1>16, <2>1 DEF RequestRemove
<1> QED
  BY <1>2, <1>3, <1>4, <1>5, <1>6, <1>7, <1>8, <1>9, <1>10, <1>11, <1>12, <1>13, <1>14,
     <1>15, <1>16

\* The two inserts go on with the row they wrote.
LEMMA InsertsHold ==
  ASSUME IInv, NEW c \in Calls, Holds(calls[c])
  PROVE  /\ InsertOrder(c) => Holds(calls[c])'
         /\ InsertPreorder(c) => Holds(calls[c])'
<1>0. calls \in [Calls -> Request] /\ calls[c] \in Request /\ Sane(calls[c])
  BY DEF IInv, TypeOK, CallsSane
<1>1. ASSUME InsertOrder(c) PROVE Holds(calls[c])'
  <2>1. PICK o \in FreshOrder : Answer(c, o)
    BY <1>1 DEF InsertOrder
  <2>2. CASE calls[c].next = "reply"
    BY <1>0, <2>1, <2>2, IdleHolds DEF Answer, Finish
  <2>3. CASE calls[c].next # "reply"
    <3>0. PICK k : k = [calls[c] EXCEPT !.at = "link", !.order = o]
      OBVIOUS
    <3>1. /\ calls'[c] = k /\ k.table = calls[c].table /\ k.next = calls[c].next
          /\ k.res = calls[c].res /\ k.at = "link"
      BY <1>0, <2>1, <2>3, <3>0 DEF Answer, Request
    <3>2. /\ calls[c].at = "insert" /\ calls[c].next = "link" /\ calls[c].table \in Tables
          /\ tables' = [u \in Tables |-> IF u = calls[c].table THEN "OCCUPIED" ELSE tables[u]]
          /\ UNCHANGED reservations
      BY <1>0, <1>1, <2>3 DEF Sane, Seating, InsertOrder, At
    <3>3. Holds(k)'
      BY <3>1, <3>2 DEF Holds
    <3> QED
      BY <3>1, <3>3 DEF Holds
  <2> QED
    BY <2>2, <2>3
<1>2. ASSUME InsertPreorder(c) PROVE Holds(calls[c])'
  <2>1. PICK o \in FreshOrder : calls' = [calls EXCEPT ![c].at = "reserve", ![c].order = o]
    BY <1>2 DEF InsertPreorder
  <2>2. PICK k : k = [calls[c] EXCEPT !.at = "reserve", !.order = o]
    OBVIOUS
  <2>3. calls'[c] = k /\ k.at = "reserve"
    BY <1>0, <2>1, <2>2 DEF Request
  <2>4. Holds(k)'
    BY <2>3 DEF Holds
  <2> QED
    BY <2>3, <2>4 DEF Holds
<1> QED
  BY <1>1, <1>2

\* A request that relied on what holds does so after a step of its own.
LEMMA MoverHolds ==
  ASSUME IInv, NEW c \in Calls, Holds(calls[c]), Step(c)
  PROVE  Holds(calls[c])'
<1>1. ASSUME Finish(c) PROVE Holds(calls[c])'
  BY <1>1, IdleHolds DEF Finish, IInv, TypeOK
<1>2. CASE OrderStep(c)
  <2>1. CASE \E o \in Orders : UpdateStatus(c, o) \/ ConfirmOrder(c, o) \/ MarkConfirmed(c, o)
    <3>1. PICK o \in Orders, next \in OrderStatuses : RequestStatus(c, o, next)
      BY <2>1 DEF UpdateStatus, ConfirmOrder, MarkConfirmed, OrderStatuses
    <3> QED
      BY <3>1, ReadsHold
  <2>2. CASE WriteStatus(c) \/ CommitCheckout(c)
    BY <1>1, <2>2 DEF WriteStatus, CommitCheckout
  <2> QED
    BY <1>2, <2>1, <2>2, ReadsHold, InsertsHold DEF OrderStep
<1>3. CASE ReservationStep(c)
  <2>1. CASE \/ InsertReservation(c) \/ CommitConfirm(c) \/ CommitSeatPreorder(c)
             \/ LinkReservation(c) \/ CommitTerminate(c)
    BY <1>1, <2>1 DEF InsertReservation, CommitConfirm, CommitSeatPreorder, LinkReservation,
                      CommitTerminate
  <2> QED
    BY <1>3, <2>1, ReadsHold, InsertsHold DEF ReservationStep
<1>4. CASE TableStep(c)
  BY <1>1, <1>4, ReadsHold DEF TableStep, DeleteTable
<1>5. CASE Abandon(c)
  BY <1>1, <1>5 DEF Abandon
<1> QED
  BY <1>2, <1>3, <1>4, <1>5 DEF Step

-----------------------------------------------------------------------------
\* Steps of one request among the others.

\* A step of request c is nobody else's, and c moves on.
LEMMA OneMoves ==
  ASSUME IInv, NEW c \in Calls, Step(c)
  PROVE  /\ calls'[c] # calls[c]
         /\ \A d \in Calls : d # c => calls'[d] = calls[d]
<1>0. calls \in [Calls -> Request] /\ calls[c] \in Request
  BY DEF IInv, TypeOK
<1>1. ASSUME NEW pc, NEW o, NEW t, NEW r, NEW next, pc # "idle", Accept(c, pc, o, t, r, next)
      PROVE  calls'[c] # calls[c] /\ \A d \in Calls : d # c => calls'[d] = calls[d]
  <2>1. calls'[c].at = pc /\ calls[c].at = "idle"
    BY <1>0, <1>1 DEF Accept, Idle
  <2> QED
    BY <1>0, <1>1, <2>1 DEF Accept
<1>2. ASSUME NEW pc, calls[c].at # pc, Goto(c, pc)
      PROVE  calls'[c] # calls[c] /\ \A d \in Calls : d # c => calls'[d] = calls[d]
  <2>1. calls'[c].at = pc
    BY <1>0, <1>2 DEF Goto, Request
  <2> QED
    BY <1>0, <1>2, <2>1 DEF Goto
<1>3. ASSUME calls[c] # Idle, Finish(c)
      PROVE  calls'[c] # calls[c] /\ \A d \in Calls : d # c => calls'[d] = calls[d]
  BY <1>0, <1>3 DEF Finish
<1>4. ASSUME NEW o, calls[c].at \notin {"idle", "link"}, Answer(c, o)
      PROVE  calls'[c] # calls[c] /\ \A d \in Calls : d # c => calls'[d] = calls[d]
  <2>1. CASE calls[c].next = "reply"
    BY <1>3, <1>4, <2>1 DEF Answer, Idle
  <2>2. CASE calls[c].next # "reply"
    <3>1. calls'[c].at = "link"
      BY <1>0, <1>4, <2>2 DEF Answer, Request
    <3> QED
      BY <1>0, <1>4, <2>2, <3>1 DEF Answer
  <2> QED
    BY <2>1, <2>2
<1>5. CASE OrderStep(c)
  <2>1. CASE \/ \E t \in Tables \cup {None} : PostOrder(c, t)
             \/ \E o \in Orders : UpdateStatus(c, o) \/ ConfirmOrder(c, o) \/ MarkConfirmed(c, o)
             \/ \E o \in Orders : RequestCheckout(c, o)
    <3>1. \E pc, o, t, r, next : pc # "idle" /\ Accept(c, pc, o, t, r, next)
      BY <2>1 DEF PostOrder, UpdateStatus, ConfirmOrder, MarkConfirmed, RequestStatus,
                  RequestCheckout
    <3> QED
      BY <1>1, <3>1
  <2>2. CASE OpenTable(c) \/ NoActiveOrder(c)
    BY <1>2, <2>2 DEF OpenTable, NoActiveOrder, At
  <2>3. CASE ReuseActiveOrder(c) \/ InsertOrder(c)
    BY <1>4, <2>3 DEF ReuseActiveOrder, InsertOrder, At
  <2>4. CASE WriteStatus(c) \/ CommitCheckout(c)
    BY <1>3, <2>4 DEF WriteStatus, CommitCheckout, At, Idle
  <2> QED
    BY <1>5, <2>1, <2>2, <2>3, <2>4 DEF OrderStep
<1>6. CASE ReservationStep(c)
  <2>1. CASE \/ PostInformal(c)
             \/ \E type \in PAID_TYPES, t \in Tables : PostReservation(c, type, t)
             \/ \E r \in Reservations : \/ RequestConfirm(c, r)
                                        \/ RequestSeatPreorder(c, r)
                                        \/ RequestSeatDeposit(c, r)
             \/ \E r \in Reservations, t \in Tables : RequestSeatInformal(c, r, t)
             \/ \E r \in Reservations, next \in {"NO_SHOW", "CANCELLED"} :
                  RequestTerminate(c, r, next)
    <3>1. \E pc, o, t, r, next : pc # "idle" /\ Accept(c, pc, o, t, r, next)
      BY <2>1 DEF PostInformal, PostReservation, RequestConfirm, RequestSeatPreorder,
                  RequestSeatDeposit, RequestSeatInformal, RequestTerminate
    <3> QED
      BY <1>1, <3>1
  <2>2. CASE ReadHeldTable(c)
    BY <1>2, <2>2 DEF ReadHeldTable, At
  <2>3. CASE \/ InsertReservation(c) \/ CommitConfirm(c) \/ CommitSeatPreorder(c)
             \/ LinkReservation(c) \/ CommitTerminate(c)
    BY <1>3, <2>3 DEF InsertReservation, CommitConfirm, CommitSeatPreorder, LinkReservation,
                      CommitTerminate, At, Idle
  <2>4. CASE InsertPreorder(c)
    <3>1. PICK o : calls' = [calls EXCEPT ![c].at = "reserve", ![c].order = o]
      BY <2>4 DEF InsertPreorder
    <3>2. calls'[c].at = "reserve" /\ calls[c].at = "preorder"
      BY <1>0, <2>4, <3>1 DEF InsertPreorder, At, Request
    <3> QED
      BY <1>0, <3>1, <3>2
  <2> QED
    BY <1>6, <2>1, <2>2, <2>3, <2>4 DEF ReservationStep
<1>7. CASE TableStep(c)
  <2>1. CASE \E t \in Tables : RequestRemove(c, t)
    <3>1. \E pc, o, t, r, next : pc # "idle" /\ Accept(c, pc, o, t, r, next)
      BY <2>1 DEF RequestRemove
    <3> QED
      BY <1>1, <3>1
  <2>2. CASE DeleteTable(c)
    BY <1>3, <2>2 DEF DeleteTable, At, Idle
  <2> QED
    BY <1>7, <2>1, <2>2 DEF TableStep
<1>8. CASE Abandon(c)
  BY <1>3, <1>8 DEF Abandon
<1> QED
  BY <1>5, <1>6, <1>7, <1>8 DEF Step

\* An overtaken request leaves alone every table that stays out of raced.
LEMMA OvertakenLeaves ==
  ASSUME IInv, Watch, NEW c \in Calls, Step(c), c \in overtaken,
         NEW t \in Tables, t \notin raced'
  PROVE  AsBefore(t)
<1>1. CASE UNCHANGED <<tables, orders, reservations>>
  BY <1>1 DEF AsBefore
<1>2. CASE ~UNCHANGED <<tables, orders, reservations>>
  <2>1. Writes(c)
    BY <1>2, OneMoves DEF Writes
  <2>2. About(calls[c]) \subseteq raced'
    BY <2>1 DEF Watch
  <2> QED
    BY <2>2, StrangersStay
<1> QED
  BY <1>1, <1>2

-----------------------------------------------------------------------------
\* Holds on tables.

\* A hold lasts through a step that does not reserve the table, if no
\* reservation it rests on is given up while it is RESERVED.
LEMMA HoldLasts ==
  ASSUME NEW t \in Tables, HeldForSomeone(t),
         tables'[t] = "RESERVED" => tables[t] = "RESERVED",
         \A r \in Reservations :
           /\ reservations[r].status = "CONFIRMED" /\ reservations[r].type \in PAID_TYPES
           /\ reservations[r].table = t /\ tables'[t] = "RESERVED"
           => /\ reservations'[r].status = "CONFIRMED"
              /\ reservations'[r].type \in PAID_TYPES
              /\ reservations'[r].table = t
  PROVE  HeldForSomeone(t)'
BY DEF HeldForSomeone

\* The one step that reserves a table confirms the reservation it is held for.
LEMMA ConfirmHolds ==
  ASSUME IInv, NEW c \in Calls, Holds(calls[c]), CommitConfirm(c),
         NEW t \in Tables, HeldForSomeone(t)
  PROVE  HeldForSomeone(t)'
<1>0. /\ TypeOK /\ Sane(calls[c]) /\ calls[c].at = "confirm"
      /\ tables' = [u \in Tables |-> IF u = calls[c].table THEN "RESERVED" ELSE tables[u]]
  BY DEF IInv, CallsSane, CommitConfirm, At
<1>1. PICK r \in Reservations : r = calls[c].res
  BY <1>0 DEF Sane
<1>2. /\ reservations'[r].status = "CONFIRMED" /\ reservations'[r].type = reservations[r].type
      /\ reservations'[r].table = reservations[r].table
      /\ \A q \in Reservations \ {r} : reservations'[q] = reservations[q]
  BY <1>0, <1>1 DEF CommitConfirm, TypeOK
<1>3. reservations[r].status = "PENDING"
  BY <1>0, <1>1 DEF Holds
<1>4. CASE t = calls[c].table
  <2>1. reservations[r].type \in PAID_TYPES /\ reservations[r].table = t
    BY <1>0, <1>1, <1>4, FloorAssumption DEF Holds
  <2> QED
    BY <1>2, <2>1 DEF HeldForSomeone
<1>5. CASE t # calls[c].table
  <2>1. tables'[t] = tables[t]
    BY <1>0, <1>5
  <2> QED
    BY <1>2, <1>3, <2>1, HoldLasts
<1> QED
  BY <1>4, <1>5

\* A request that was not overtaken backs every hold it makes and drops every
\* hold whose reservation it ends.
LEMMA HoldStep ==
  ASSUME IInv, NEW c \in Calls, Holds(calls[c]), Step(c), NEW t \in Tables, HeldForSomeone(t)
  PROVE  HeldForSomeone(t)'
<1>0. TypeOK /\ calls[c] \in Request /\ Sane(calls[c])
  BY DEF IInv, TypeOK, CallsSane
<1>1. CASE UNCHANGED <<tables, reservations>>
  BY <1>1 DEF HeldForSomeone
<1>2. CASE InsertOrder(c) \/ CommitCheckout(c)
  BY <1>2, HoldLasts DEF InsertOrder, CommitCheckout
<1>3. CASE InsertReservation(c)
  <2>1. PICK r \in Reservations :
          /\ ~ReservationRow(r)
          /\ \A q \in Reservations \ {r} : reservations'[q] = reservations[q]
    BY <1>0, <1>3 DEF InsertReservation, TypeOK
  <2> QED
    BY <1>3, <2>1, HoldLasts DEF InsertReservation, ReservationRow
<1>4. CASE CommitSeatPreorder(c)
  <2>1. /\ calls[c].res \in Reservations /\ calls[c].table \in Tables
        /\ reservations[calls[c].res].table = calls[c].table
        /\ tables' = [tables EXCEPT ![calls[c].table] = "OCCUPIED"]
        /\ reservations' = [reservations EXCEPT ![calls[c].res].status = "SEATED"]
    BY <1>0, <1>4 DEF Sane, Holds, CommitSeatPreorder, At
  <2> QED
    BY <1>0, <2>1, HoldLasts DEF TypeOK
<1>5. CASE LinkReservation(c)
  <2>1. /\ calls[c].res \in Reservations /\ calls[c].table \in Tables
        /\ reservations[calls[c].res].type \in PAID_TYPES =>
             reservations[calls[c].res].table = calls[c].table
        /\ tables[calls[c].table] = "OCCUPIED" /\ UNCHANGED tables
        /\ \A q \in Reservations \ {calls[c].res} : reservations'[q] = reservations[q]
    BY <1>0, <1>5 DEF Sane, Seating, Holds, LinkReservation, At, TypeOK
  <2> QED
    BY <2>1, HoldLasts
<1>6. CASE CommitTerminate(c)
  <2>1. /\ calls[c].at \in {"release", "close"} /\ calls[c].res \in Reservations
        /\ reservations[calls[c].res].table = calls[c].table
        /\ reservations' = [reservations EXCEPT ![calls[c].res].status = calls[c].next]
    BY <1>0, <1>6 DEF CommitTerminate, Sane, Holds
  <2>2. CASE calls[c].at = "release"
    <3>1. tables' = [tables EXCEPT ![calls[c].table] = "AVAILABLE"]
      BY <1>6, <2>2 DEF CommitTerminate, At
    <3> QED
      BY <1>0, <2>1, <3>1, HoldLasts DEF TypeOK
  <2>3. CASE calls[c].at = "close"
    <3>1. UNCHANGED tables /\ (calls[c].table = t => tables[t] # "RESERVED")
      BY <1>6, <2>3, FloorAssumption DEF Holds, CommitTerminate, At
    <3> QED
      BY <1>0, <2>1, <3>1, HoldLasts DEF TypeOK
  <2> QED
    BY <2>1, <2>2, <2>3
<1>7. CASE DeleteTable(c)
  <2>1. PICK u \in Tables : u = calls[c].table
    BY <1>0, <1>7 DEF Sane, DeleteTable, At
  <2>2. /\ tables' = [tables EXCEPT ![u] = "GONE"]
        /\ reservations' = Detach(reservations, u)
    BY <1>7, <2>1 DEF DeleteTable
  <2>3. \A r \in Reservations : reservations[r].table # u => reservations'[r] = reservations[r]
    BY <1>0, <2>2 DEF Detach, TypeOK
  <2> QED
    BY <1>0, <2>2, <2>3, HoldLasts DEF TypeOK
<1> QED
  BY <1>1, <1>2, <1>3, <1>4, <1>5, <1>6, <1>7, ConfirmHolds
  DEF Step, OrderStep, ReservationStep, TableStep, Abandon, PostOrder, OpenTable,
      ReuseActiveOrder, NoActiveOrder, UpdateStatus, ConfirmOrder, MarkConfirmed,
      RequestStatus, WriteStatus, RequestCheckout, PostInformal, PostReservation,
      InsertPreorder, RequestConfirm, RequestSeatPreorder, RequestSeatDeposit,
      RequestSeatInformal, RequestTerminate, ReadHeldTable, RequestRemove

-----------------------------------------------------------------------------
\* The status machine.

\* The status machine leads into the editable statuses only within them.
LEMMA EditableIsLeftForGood ==
  ASSUME NEW from \in OrderStatuses, NEW to \in OrderStatuses, canTransition(from, to)
  PROVE  to \in EDITABLE_STATUSES => from \in EDITABLE_STATUSES
BY DEF canTransition, ORDER_STATUS_TRANSITIONS, OrderStatuses, EDITABLE_STATUSES

\* A request that was not overtaken moves an order along the machine only.
LEMMA StepFollowsMachine ==
  ASSUME IInv, NEW c \in Calls, Holds(calls[c]), Step(c), NEW o \in Orders, OrderRow(o)
  PROVE  \/ orders'[o].status = orders[o].status
         \/ canTransition(orders[o].status, orders'[o].status)
<1>0. TypeOK
  BY DEF IInv
<1>1. CASE UNCHANGED orders
  BY <1>1
<1>2. CASE WriteStatus(c)
  BY <1>0, <1>2 DEF WriteStatus, At, Holds, TypeOK
<1>3. CASE CommitCheckout(c)
  <2>1. orders[calls[c].order].status = "PENDING"
    BY <1>3 DEF CommitCheckout, At, Holds
  <2>2. canTransition("PENDING", "CONFIRMED")
    BY DEF canTransition, ORDER_STATUS_TRANSITIONS
  <2> QED
    BY <1>0, <1>3, <2>1, <2>2 DEF CommitCheckout, TypeOK
<1>4. CASE InsertOrder(c) \/ InsertPreorder(c)
  <2>1. PICK p \in FreshOrder : \E row : orders' = [orders EXCEPT ![p] = row]
    BY <1>4 DEF InsertOrder, InsertPreorder
  <2> QED
    BY <1>0, <2>1 DEF FreshOrder, TypeOK
<1>5. CASE CommitSeatPreorder(c)
  BY <1>0, <1>5 DEF CommitSeatPreorder, TypeOK
<1>6. CASE DeleteTable(c)
  <2>1. PICK t : orders' = Detach(orders, t)
    BY <1>6 DEF DeleteTable
  <2> QED
    BY <1>0, <2>1 DEF Detach, TypeOK
<1> QED
  BY <1>1, <1>2, <1>3, <1>4, <1>5, <1>6
  DEF Step, OrderStep, ReservationStep, TableStep, Abandon, PostOrder, OpenTable,
      ReuseActiveOrder, NoActiveOrder, UpdateStatus, ConfirmOrder, MarkConfirmed,
      RequestStatus, RequestCheckout, PostInformal, PostReservation, InsertReservation,
      RequestConfirm, CommitConfirm, RequestSeatPreorder, RequestSeatDeposit,
      RequestSeatInformal, LinkReservation, RequestTerminate, ReadHeldTable,
      CommitTerminate, RequestRemove

\* So it makes no order unpaid that was not.
LEMMA NothingReopens ==
  ASSUME IInv, IInv', NEW c \in Calls, Holds(calls[c]), Step(c), NEW o \in Orders, OrderRow(o),
         orders'[o].status \in EDITABLE_STATUSES
  PROVE  orders[o].status \in EDITABLE_STATUSES
<1>1. orders[o].status \in OrderStatuses /\ orders'[o].status \in OrderStatuses
  BY DEF IInv, TypeOK, OrderRow, EDITABLE_STATUSES, OrderStatuses
<1> QED
  BY <1>1, StepFollowsMachine, EditableIsLeftForGood

\* A request that was not overtaken leaves a reservation that ended as it is.
LEMMA StepKeepsTerminal ==
  ASSUME IInv, NEW c \in Calls, Holds(calls[c]), Step(c), NEW r \in Reservations,
         reservations[r].status \in TERMINAL_STATUSES
  PROVE  reservations'[r].status = reservations[r].status
<1>0. TypeOK
  BY DEF IInv
<1>1. CASE UNCHANGED reservations
  BY <1>1
<1>2. CASE CommitConfirm(c) \/ CommitSeatPreorder(c) \/ LinkReservation(c) \/ CommitTerminate(c)
  <2>1. Sane(calls[c])
    BY DEF IInv, CallsSane
  <2>2. reservations[calls[c].res].status \in {"PENDING", "CONFIRMED"}
    BY <1>2, <2>1 DEF Holds, Sane, CommitConfirm, CommitSeatPreorder, LinkReservation,
                      CommitTerminate, At, TERMINABLE_STATUSES
  <2>3. calls[c].res # r
    BY <2>2 DEF TERMINAL_STATUSES
  <2> QED
    BY <1>0, <1>2, <2>3 DEF CommitConfirm, CommitSeatPreorder, LinkReservation, CommitTerminate,
                            TypeOK
<1>3. CASE InsertReservation(c)
  BY <1>0, <1>3 DEF InsertReservation, ReservationRow, TERMINAL_STATUSES, TypeOK
<1>4. CASE DeleteTable(c)
  <2>1. PICK t : reservations' = Detach(reservations, t)
    BY <1>4 DEF DeleteTable
  <2> QED
    BY <1>0, <2>1 DEF Detach, TypeOK
<1> QED
  BY <1>1, <1>2, <1>3, <1>4
  DEF Step, OrderStep, ReservationStep, TableStep, Abandon, PostOrder, OpenTable,
      ReuseActiveOrder, NoActiveOrder, InsertOrder, UpdateStatus, ConfirmOrder, MarkConfirmed,
      RequestStatus, WriteStatus, RequestCheckout, CommitCheckout, PostInformal,
      PostReservation, InsertPreorder, RequestConfirm, RequestSeatPreorder,
      RequestSeatDeposit, RequestSeatInformal, RequestTerminate, ReadHeldTable, RequestRemove

-----------------------------------------------------------------------------
(***************************************************************************)
(* Walk-in tables.  Staff are sent back to the table's unpaid order        *)
(* because the table stays OCCUPIED, and an order opens a table only when  *)
(* none of its orders is unpaid; each of the two needs the other.          *)
(***************************************************************************)

\* A table stays promised until it is deleted.
LEMMA PromiseLasts ==
  ASSUME IInv, NEW c \in Calls, Step(c), NEW t \in Tables, Promised(t)
  PROVE  Promised(t)' \/ tables'[t] = "GONE"
<1>0. TypeOK /\ Sane(calls[c])
  BY DEF IInv, CallsSane
<1>1. PICK r \in Reservations : reservations[r].type \in PAID_TYPES /\ reservations[r].table = t
  BY DEF Promised
<1>2. ASSUME reservations'[r].type = reservations[r].type, reservations'[r].table = t
      PROVE  Promised(t)'
  BY <1>1, <1>2 DEF Promised
<1>3. CASE reservations'[r] = reservations[r]
  BY <1>1, <1>2, <1>3
<1>4. CASE InsertReservation(c)
  <2>1. PICK q \in Reservations : ~ReservationRow(q) /\ \A p \in Reservations \ {q} :
                                    reservations'[p] = reservations[p]
    BY <1>0, <1>4 DEF InsertReservation, TypeOK
  <2>2. ReservationRow(r)
    BY <1>1, FloorAssumption DEF IInv, AbsentRowsEmpty
  <2> QED
    BY <1>3, <2>1, <2>2
<1>5. CASE CommitConfirm(c) \/ CommitTerminate(c) \/ CommitSeatPreorder(c)
  <2>1. PICK q, s : reservations' = [reservations EXCEPT ![q].status = s]
    BY <1>5 DEF CommitConfirm, CommitTerminate, CommitSeatPreorder
  <2> QED
    BY <1>0, <1>1, <1>2, <2>1 DEF TypeOK
<1>6. CASE LinkReservation(c)
  <2>1. calls[c].res # r => reservations'[r] = reservations[r]
    BY <1>0, <1>6 DEF LinkReservation, TypeOK
  <2>2. ASSUME calls[c].res = r PROVE Promised(t)'
    <3>1. reservations[r].type # "INFORMAL"
      BY <1>1 DEF PAID_TYPES
    <3>2. reservations' = [reservations EXCEPT ![r] =
             [@ EXCEPT !.status = "SEATED", !.order = calls[c].order, !.table = reservations[r].table]]
      BY <1>6, <2>2, <3>1 DEF LinkReservation
    <3>3. PICK row : row = [reservations[r] EXCEPT !.status = "SEATED", !.order = calls[c].order,
                                                  !.table = reservations[r].table]
      OBVIOUS
    <3>4. row.type = reservations[r].type /\ row.table = t /\ reservations'[r] = row
      BY <1>0, <1>1, <3>2, <3>3 DEF TypeOK
    <3> QED
      BY <1>2, <3>4
  <2> QED
    BY <1>3, <2>1, <2>2
<1>7. CASE DeleteTable(c)
  <2>1. PICK u : /\ tables' = [tables EXCEPT ![u] = "GONE"]
                 /\ reservations' = Detach(reservations, u)
    BY <1>7 DEF DeleteTable
  <2>2. CASE u = t
    BY <1>0, <2>1, <2>2 DEF TypeOK
  <2>3. CASE u # t
    BY <1>0, <1>1, <1>3, <2>1, <2>3 DEF Detach, TypeOK
  <2> QED
    BY <2>2, <2>3
<1> QED
  BY <1>3, <1>4, <1>5, <1>6, <1>7
  DEF Step, OrderStep, ReservationStep, TableStep, Abandon, PostOrder, OpenTable,
      ReuseActiveOrder, NoActiveOrder, InsertOrder, UpdateStatus, ConfirmOrder, MarkConfirmed,
      RequestStatus, WriteStatus, RequestCheckout, CommitCheckout, PostInformal,
      PostReservation, InsertPreorder, RequestConfirm, RequestSeatPreorder,
      RequestSeatDeposit, RequestSeatInformal, RequestTerminate, ReadHeldTable, RequestRemove

\* A request that was not overtaken keeps the unpaid order of a table nobody
\* paid for in advance.
LEMMA KeptStep ==
  ASSUME IInv, IInv', NEW c \in Calls, Holds(calls[c]), Step(c),
         NEW t \in Tables, ~Promised(t), Kept(t),
         At(c, "insert") /\ calls[c].table = t =>
           \A o \in Orders : Unpaid(o) => orders[o].table # t
  PROVE  Kept(t)'
<1>0. TypeOK /\ calls[c] \in Request /\ Sane(calls[c]) /\ t # None
  BY FloorAssumption DEF IInv, TypeOK, CallsSane
<1>1. CASE UNCHANGED orders /\ tables'[t] = tables[t]
  BY <1>1 DEF Kept, Unpaid
<1>2. CASE t \notin About(calls[c])
  BY <1>2, StrangersStay, UndisturbedTable
<1>3. CASE WriteStatus(c)
  <2>1. /\ calls[c].order \in Orders /\ UNCHANGED tables
        /\ orders' = [orders EXCEPT ![calls[c].order].status = calls[c].next]
    BY <1>0, <1>3 DEF Sane, WriteStatus, At
  <2>2. \A p \in Orders : orders'[p].table = orders[p].table
    BY <1>0, <2>1 DEF TypeOK
  <2>3. \A p \in Orders : Unpaid(p)' => Unpaid(p)
    BY <2>2, NothingReopens DEF Unpaid, IInv, AbsentRowsEmpty
  <2> QED
    BY <2>1, <2>2, <2>3 DEF Kept
<1>4. CASE CommitCheckout(c)
  <2>1. /\ calls[c].order \in Orders /\ orders[calls[c].order].status = "PENDING"
        /\ orders[calls[c].order].table = calls[c].table
        /\ orders' = [orders EXCEPT ![calls[c].order].status = "CONFIRMED"]
        /\ tables' = [u \in Tables |-> IF u = calls[c].table THEN "AVAILABLE" ELSE tables[u]]
    BY <1>0, <1>4 DEF Sane, Holds, CommitCheckout, At
  <2>2. /\ \A p \in Orders : Unpaid(p)' => Unpaid(p) /\ p # calls[c].order
        /\ \A p \in Orders : orders'[p].table = orders[p].table
    BY <1>0, <2>1 DEF TypeOK, Unpaid, EDITABLE_STATUSES
  <2>3. CASE calls[c].table = t
    <3>1. \A p \in Orders : Unpaid(p)' => orders[p].table # t
      BY <1>0, <2>1, <2>2, <2>3 DEF Kept, Unpaid, EDITABLE_STATUSES
    <3> QED
      BY <2>2, <3>1 DEF Kept
  <2>4. CASE calls[c].table # t
    BY <2>1, <2>2, <2>4 DEF Kept
  <2> QED
    BY <2>3, <2>4
<1>5. CASE InsertOrder(c)
  <2>1. PICK o \in FreshOrder :
          orders' = [orders EXCEPT ![o] = [status |-> "DRAFT", table |-> calls[c].table]]
    BY <1>5 DEF InsertOrder
  <2>2. /\ o \in Orders /\ orders'[o].table = calls[c].table
        /\ \A p \in Orders \ {o} : orders'[p] = orders[p]
        /\ tables' = [u \in Tables |-> IF u = calls[c].table THEN "OCCUPIED" ELSE tables[u]]
        /\ At(c, "insert")
    BY <1>0, <1>5, <2>1 DEF TypeOK, FreshOrder, InsertOrder
  <2>3. \A p \in Orders \ {o} : Unpaid(p)' => Unpaid(p) /\ orders'[p].table = orders[p].table
    BY <2>2 DEF Unpaid
  <2> QED
    BY <2>2, <2>3 DEF Kept
<1>6. CASE InsertPreorder(c)
  <2>1. PICK o \in FreshOrder :
          orders' = [orders EXCEPT ![o] = [status |-> "DRAFT", table |-> None]]
    BY <1>6 DEF InsertPreorder
  <2>2. \A p \in Orders : Unpaid(p)' => Unpaid(p) /\ orders'[p] = orders[p]
    BY <1>0, <2>1 DEF TypeOK, Unpaid, FreshOrder
  <2> QED
    BY <1>6, <2>2 DEF Kept, InsertPreorder
<1>7. CASE CommitConfirm(c)
  <2>1. /\ UNCHANGED orders /\ calls[c].res \in Reservations
        /\ tables' = [u \in Tables |-> IF u = calls[c].table THEN "RESERVED" ELSE tables[u]]
    BY <1>0, <1>7 DEF CommitConfirm, Sane, At
  <2>2. calls[c].table # t
    BY <1>0, <1>7, <2>1 DEF CommitConfirm, Holds, At, Promised
  <2> QED
    BY <1>1, <2>1, <2>2
<1>8. CASE CommitSeatPreorder(c)
  <2>1. /\ calls[c].res \in Reservations /\ calls[c].table \in Tables
        /\ reservations[calls[c].res].type = "WITH_PREORDER"
        /\ reservations[calls[c].res].order = calls[c].order /\ calls[c].order \in Orders
        /\ reservations[calls[c].res].table = calls[c].table
    BY <1>0, <1>8 DEF CommitSeatPreorder, Sane, Holds, At
  <2>2. calls[c].table # t
    BY <2>1 DEF Promised, PAID_TYPES
  <2>3. orders[calls[c].order].table \in {None, calls[c].table}
    BY <2>1, NoneIsNoOrder DEF IInv, PreorderOnItsTable
  <2>4. t \notin About(calls[c])
    BY <1>0, <2>1, <2>2, <2>3 DEF About
  <2> QED
    BY <1>2, <2>4
<1>9. CASE CommitTerminate(c)
  <2>1. /\ UNCHANGED orders
        /\ tables'[t] # tables[t] => At(c, "release") /\ calls[c].table = t
    BY <1>0, <1>9 DEF CommitTerminate, TypeOK
  <2>2. CASE tables'[t] = tables[t]
    BY <1>1, <2>1, <2>2
  <2>3. CASE tables'[t] # tables[t]
    <3>1. tables[t] = "RESERVED"
      BY <2>1, <2>3 DEF Holds, At
    <3>2. \A o \in Orders : Unpaid(o) => orders[o].table # t
      BY <3>1 DEF Kept
    <3> QED
      BY <2>1, <3>2 DEF Kept, Unpaid
  <2> QED
    BY <2>2, <2>3
<1>10. CASE DeleteTable(c)
  <2>1. PICK u \in Tables : u = calls[c].table
    BY <1>0, <1>10 DEF Sane, DeleteTable, At
  <2>2. tables' = [tables EXCEPT ![u] = "GONE"] /\ orders' = Detach(orders, u)
    BY <1>10, <2>1 DEF DeleteTable
  <2>3. \A o \in Orders : orders'[o].table = t => u # t /\ orders'[o] = orders[o]
    BY <1>0, <2>2 DEF Detach, TypeOK
  <2> QED
    BY <1>0, <2>2, <2>3 DEF Kept, Unpaid, TypeOK
<1> QED
  BY <1>0, <1>1, <1>3, <1>4, <1>5, <1>6, <1>7, <1>8, <1>9, <1>10
  DEF Step, OrderStep, ReservationStep, TableStep, Abandon, PostOrder, OpenTable,
      ReuseActiveOrder, NoActiveOrder, UpdateStatus, ConfirmOrder, MarkConfirmed,
      RequestStatus, RequestCheckout, PostInformal, PostReservation, InsertReservation,
      RequestConfirm, RequestSeatPreorder, RequestSeatDeposit, RequestSeatInformal,
      LinkReservation, RequestTerminate, ReadHeldTable, RequestRemove

\* A request comes to insert an order where it sees none unpaid.
LEMMA InsertWhereNoneIs ==
  ASSUME IInv, NEW c \in Calls, Step(c), At(c, "insert")', NEW t \in Tables,
         calls'[c].table = t, Kept(t)
  PROVE  /\ UNCHANGED <<tables, orders, reservations>>
         /\ \A o \in Orders : Unpaid(o) => orders[o].table # t
<1>0. calls \in [Calls -> Request] /\ calls[c] \in Request /\ t # None
  BY FloorAssumption DEF IInv, TypeOK
<1>1. CASE OpenTable(c)
  <2>1. calls'[c].table = calls[c].table /\ tables[calls[c].table] # "OCCUPIED"
    BY <1>0, <1>1 DEF OpenTable, Goto, At, Request
  <2> QED
    BY <1>1, <2>1 DEF OpenTable, Kept
<1>2. CASE NoActiveOrder(c)
  <2>1. calls'[c].table = calls[c].table
    BY <1>0, <1>2 DEF NoActiveOrder, Goto, At, Request
  <2> QED
    BY <1>2, <2>1 DEF NoActiveOrder, ActiveOrders, ACTIVE_ORDER_STATUSES, Unpaid,
                      EDITABLE_STATUSES, OrderStatuses
<1>3. ASSUME NEW pc, NEW o, NEW u, NEW r, NEW next, Accept(c, pc, o, u, r, next)
      PROVE  pc = "insert" /\ u = t
  BY <1>0, <1>3 DEF Accept, At
<1>4. ASSUME NEW pc, Goto(c, pc) PROVE pc = "insert"
  BY <1>0, <1>4 DEF Goto, At, Request
<1>5. ~Finish(c)
  BY <1>0 DEF Finish, At, Idle
<1>6. ASSUME NEW o, Answer(c, o) PROVE FALSE
  BY <1>0, <1>5, <1>6 DEF Answer, At, Request
<1>7. ASSUME OrderStep(c) PROVE OpenTable(c) \/ NoActiveOrder(c)
  BY <1>0, <1>3, <1>5, <1>6, <1>7
  DEF OrderStep, PostOrder, ReuseActiveOrder, InsertOrder, UpdateStatus, ConfirmOrder,
      MarkConfirmed, RequestStatus, WriteStatus, RequestCheckout, CommitCheckout
<1>8. ~ReservationStep(c)
  <2>1. ~InsertPreorder(c)
    BY <1>0 DEF InsertPreorder, At, Request
  <2>2. ~ReadHeldTable(c)
    BY <1>4 DEF ReadHeldTable
  <2>3. ~(InsertReservation(c) \/ CommitConfirm(c) \/ CommitSeatPreorder(c) \/ LinkReservation(c)
            \/ CommitTerminate(c))
    BY <1>5 DEF InsertReservation, CommitConfirm, CommitSeatPreorder, LinkReservation,
                CommitTerminate
  <2> QED
    BY <1>3, <2>1, <2>2, <2>3
    DEF ReservationStep, PostInformal, PostReservation, RequestConfirm, RequestSeatPreorder,
        RequestSeatDeposit, RequestSeatInformal, RequestTerminate
<1>9. ~TableStep(c) /\ ~Abandon(c)
  BY <1>3, <1>5 DEF TableStep, RequestRemove, DeleteTable, Abandon
<1> QED
  BY <1>1, <1>2, <1>7, <1>8, <1>9 DEF Step

\* While a request that is not overtaken waits to insert, its table gets no
\* unpaid order from a request that was not overtaken either.
LEMMA StaysEmpty ==
  ASSUME IInv, IInv', NEW c \in Calls, Holds(calls[c]), Step(c), NEW t \in Tables,
         ActiveOrders(t)' = ActiveOrders(t),
         \A o \in Orders : Unpaid(o) => orders[o].table # t
  PROVE  \A o \in Orders : Unpaid(o)' => orders'[o].table # t
<1> SUFFICES ASSUME NEW o \in Orders, Unpaid(o)', orders'[o].table = t PROVE FALSE
  OBVIOUS
<1>0. t # None
  BY FloorAssumption
<1>1. o \in ActiveOrders(t)'
  BY DEF ActiveOrders, Unpaid, EDITABLE_STATUSES, ACTIVE_ORDER_STATUSES, OrderStatuses
<1>2. orders[o].table = t
  BY <1>1 DEF ActiveOrders
<1>3. OrderRow(o)
  BY <1>0, <1>2 DEF IInv, AbsentRowsEmpty
<1>4. orders[o].status \in EDITABLE_STATUSES
  BY <1>3, NothingReopens DEF Unpaid
<1> QED
  BY <1>0, <1>2, <1>4 DEF Unpaid

-----------------------------------------------------------------------------
\* Every step keeps the invariant.

\* A step of a request, overtaken or not.
LEMMA StepRaceInv ==
  ASSUME RaceInv, IInv', Watch, NEW c \in Calls, Step(c)
  PROVE  RaceInv'
<1>0. IInv /\ \A t \in Tables : t \notin raced' => t \notin raced
  BY DEF RaceInv, Watch
<1>1. ASSUME NEW d \in Calls, d \notin overtaken' PROVE Holds(calls[d])'
  <2>1. CASE d # c
    BY <1>0, <1>1, <2>1, OneMoves, MemoryLasts DEF RaceInv
  <2>2. CASE d = c /\ calls'[c] = Idle
    BY <2>2, IdleHolds
  <2>3. CASE d = c /\ calls'[c] # Idle
    <3>1. c \notin overtaken
      BY <1>1, <2>3 DEF Watch
    <3> QED
      BY <1>0, <2>3, <3>1, MoverHolds DEF RaceInv
  <2> QED
    BY <2>1, <2>2, <2>3
<1>2. ASSUME NEW t \in Tables, t \notin raced' PROVE HeldForSomeone(t)'
  <2>1. HeldForSomeone(t)
    BY <1>0, <1>2 DEF RaceInv
  <2>2. CASE c \in overtaken
    BY <1>0, <1>2, <2>1, <2>2, OvertakenLeaves, UndisturbedTable
  <2>3. CASE c \notin overtaken
    BY <1>0, <2>1, <2>3, HoldStep DEF RaceInv
  <2> QED
    BY <2>2, <2>3
<1>3. ASSUME NEW t \in WalkInTables'
      PROVE  \/ t \in WalkInTables /\ Kept(t)
             \/ \A o \in Orders : orders'[o].table # t
  <2>1. t \in Tables /\ t \notin raced' /\ ~Promised(t)'
    BY <1>3 DEF WalkInTables
  <2>2. CASE tables'[t] = "GONE"
    <3>1. ~TableRow(t)' /\ t # None
      BY <2>1, <2>2, FloorAssumption DEF TableRow, TableStatuses
    <3> QED
      BY <3>1 DEF IInv, TypeOK
  <2>3. CASE tables'[t] # "GONE"
    <3>1. t \in WalkInTables
      BY <1>0, <2>1, <2>3, PromiseLasts DEF WalkInTables
    <3> QED
      BY <3>1 DEF RaceInv
  <2> QED
    BY <2>2, <2>3
<1>4. ASSUME NEW t \in WalkInTables' PROVE Kept(t)'
  <2>0. t \in Tables /\ t \notin raced'
    BY <1>4 DEF WalkInTables
  <2>1. CASE \A o \in Orders : orders'[o].table # t
    BY <2>1 DEF Kept
  <2>2. CASE t \in WalkInTables /\ Kept(t)
    <3>1. CASE c \in overtaken
      BY <1>0, <2>0, <2>2, <3>1, OvertakenLeaves, UndisturbedTable
    <3>2. CASE c \notin overtaken
      <4>1. ~Promised(t)
        BY <2>2 DEF WalkInTables
      <4>2. Holds(calls[c]) /\ Serves(calls[c])
        BY <3>2 DEF RaceInv
      <4>3. At(c, "insert") /\ calls[c].table = t =>
              \A o \in Orders : Unpaid(o) => orders[o].table # t
        BY <2>2, <4>2 DEF Serves, At
      <4> QED
        BY <1>0, <2>0, <2>2, <4>1, <4>2, <4>3, KeptStep
    <3> QED
      BY <3>1, <3>2
  <2> QED
    BY <1>3, <1>4, <2>1, <2>2
<1>5. ASSUME NEW d \in Calls, d \notin overtaken', calls'[d].at = "insert",
             calls'[d].table \in WalkInTables'
      PROVE  \A o \in Orders : Unpaid(o)' => orders'[o].table # calls'[d].table
  <2>0. PICK t \in WalkInTables' : t = calls'[d].table
    BY <1>5
  <2>1. t \in Tables /\ t \notin raced'
    BY DEF WalkInTables
  <2>2. CASE \A o \in Orders : orders'[o].table # t
    BY <2>0, <2>2
  <2>3. CASE t \in WalkInTables /\ Kept(t)
    <3>1. CASE d = c
      <4>1. /\ UNCHANGED orders
            /\ \A o \in Orders : Unpaid(o) => orders[o].table # t
        BY <1>0, <1>5, <2>0, <2>1, <2>3, <3>1, InsertWhereNoneIs DEF At
      <4> QED
        BY <2>0, <4>1 DEF Unpaid
    <3>2. CASE d # c
      <4>1. calls'[d] = calls[d] /\ calls[d] # Idle
        BY <1>0, <1>5, <3>2, OneMoves DEF Idle
      <4>2. d \notin overtaken /\ ActiveOrders(t)' = ActiveOrders(t)
        BY <1>5, <2>0, <2>1, <4>1, Unwatched
      <4>3. \A o \in Orders : Unpaid(o) => orders[o].table # t
        BY <1>5, <2>0, <2>3, <4>1, <4>2 DEF RaceInv, Serves
      <4>4. \A o \in Orders : Unpaid(o)' => orders'[o].table # t
        <5>1. CASE c \in overtaken
          BY <1>0, <2>1, <4>3, <5>1, OvertakenLeaves, UndisturbedTable
        <5>2. CASE c \notin overtaken
          BY <1>0, <2>1, <4>2, <4>3, <5>2, StaysEmpty DEF RaceInv
        <5> QED
          BY <5>1, <5>2
      <4> QED
        BY <2>0, <4>4
    <3> QED
      BY <3>1, <3>2
  <2> QED
    BY <1>3, <2>2, <2>3
<1>6. \A d \in Calls : d \notin overtaken' => Serves(calls[d])'
  BY <1>5 DEF Serves
<1> QED
  BY <1>1, <1>2, <1>4, <1>6 DEF RaceInv

\* A new table is AVAILABLE, on nobody's mind, and named by no row.
LEMMA CreateRaceInv ==
  ASSUME RaceInv, IInv', Watch, NEW u \in Tables, CreateTable(u)
  PROVE  RaceInv'
<1>0. /\ IInv /\ TypeOK
      /\ \A t \in Tables : t \notin raced' => t \notin raced
      /\ UNCHANGED <<orders, reservations, calls>>
      /\ tables[u] = "ABSENT" /\ tables'[u] = "AVAILABLE"
      /\ \A t \in Tables : t # u => tables'[t] = tables[t]
  BY DEF RaceInv, Watch, CreateTable, IInv, TypeOK
<1>1. \A d \in Calls : d \notin overtaken' => Holds(calls[d])'
  BY <1>0, MemoryLasts DEF RaceInv
<1>2. \A t \in Tables : t \notin raced' => HeldForSomeone(t)'
  BY <1>0 DEF RaceInv, HeldForSomeone
<1>3. \A t \in WalkInTables' : t \in WalkInTables
  BY <1>0 DEF WalkInTables, Promised
<1>4. ASSUME NEW t \in WalkInTables' PROVE Kept(t)'
  <2>1. t \in Tables /\ Kept(t)
    BY <1>3, <1>4 DEF RaceInv, WalkInTables
  <2>2. tables[t] = "OCCUPIED" => tables'[t] = tables[t]
    BY <1>0, <2>1
  <2> QED
    BY <1>0, <2>1, <2>2 DEF Kept, Unpaid
<1>5. ASSUME NEW d \in Calls, d \notin overtaken' PROVE Serves(calls[d])'
  <2>1. CASE calls[d] = Idle
    BY <1>0, <2>1 DEF Serves, Idle
  <2>2. CASE calls[d] # Idle
    <3>1. Serves(calls[d])
      BY <1>0, <1>5, <2>2, Unwatched DEF RaceInv
    <3> QED
      BY <1>0, <1>3, <3>1 DEF Serves, Unpaid
  <2> QED
    BY <2>1, <2>2
<1> QED
  BY <1>1, <1>2, <1>4, <1>5 DEF RaceInv

\* The invariant is inductive.
LEMMA NextRaceInv == RaceInv /\ [RaceNext]_raceVars => RaceInv'
<1> SUFFICES ASSUME RaceInv, [RaceNext]_raceVars PROVE RaceInv'
  OBVIOUS
<1>0. [Next]_vars
  BY DEF RaceNext, raceVars
<1>1. IInv'
  BY <1>0, NextInv DEF RaceInv
<1>2. CASE RaceNext
  <2>1. (\E c \in Calls : Step(c)) \/ (\E t \in Tables : CreateTable(t))
    BY <1>2 DEF RaceNext, Next, Step
  <2> QED
    BY <1>1, <1>2, <2>1, StepRaceInv, CreateRaceInv DEF RaceNext
<1>3. CASE UNCHANGED raceVars
  <2>1. UNCHANGED <<tables, orders, reservations, calls, overtaken, raced>>
    BY <1>3 DEF raceVars, vars
  <2>2. /\ \A t : (HeldForSomeone(t)' <=> HeldForSomeone(t)) /\ (Kept(t)' <=> Kept(t))
        /\ WalkInTables' = WalkInTables
    BY <2>1 DEF HeldForSomeone, Kept, WalkInTables, Promised, Unpaid
  <2>3. \A c \in Calls : c \notin overtaken' => Holds(calls[c])' /\ Serves(calls[c])'
    BY <2>1 DEF RaceInv, Holds, Serves, WalkInTables, Promised, Unpaid
  <2> QED
    BY <1>1, <2>1, <2>2, <2>3 DEF RaceInv
<1> QED
  BY <1>2, <1>3

\* In every reachable state of the watched floor the invariant holds.
THEOREM RaceInvariance == RaceSpec => []RaceInv
<1>1. RaceInit => RaceInv
  BY InitRaceInv
<1>2. RaceInv /\ [RaceNext]_raceVars => RaceInv'
  BY NextRaceInv
<1> QED
  BY <1>1, <1>2, PTL DEF RaceSpec

\* A RESERVED table is held for a party that paid and is still expected, for
\* any number of requests that confirm, seat, cancel and delete at once: only a
\* request that was overtaken can leave a table blocked, and only a table it
\* wrote about.
THEOREM HoldsAreBacked == RaceSpec => []HoldHasReservation
<1>1. RaceInv => HoldHasReservation
  BY DEF RaceInv, HoldHasReservation
<1> QED
  BY <1>1, RaceInvariance, PTL

\* Only a request about order o changes its status once it is there.
LEMMA OnlyItsOrder ==
  ASSUME IInv, NEW c \in Calls, Step(c), NEW o \in Orders, OrderRow(o),
         orders'[o].status # orders[o].status
  PROVE  calls[c].order = o
<1>0. TypeOK
  BY DEF IInv
<1>1. CASE WriteStatus(c) \/ CommitCheckout(c) \/ CommitSeatPreorder(c)
  BY <1>0, <1>1 DEF WriteStatus, CommitCheckout, CommitSeatPreorder, TypeOK
<1>2. CASE InsertOrder(c) \/ InsertPreorder(c)
  <2>1. PICK p \in FreshOrder : \E row : orders' = [orders EXCEPT ![p] = row]
    BY <1>2 DEF InsertOrder, InsertPreorder
  <2> QED
    BY <1>0, <2>1 DEF FreshOrder, TypeOK
<1>3. CASE DeleteTable(c)
  <2>1. PICK t : orders' = Detach(orders, t)
    BY <1>3 DEF DeleteTable
  <2> QED
    BY <1>0, <2>1 DEF Detach, TypeOK
<1>4. CASE UNCHANGED orders
  BY <1>4
<1> QED
  BY <1>1, <1>2, <1>3, <1>4
  DEF Step, OrderStep, ReservationStep, TableStep, Abandon, PostOrder, OpenTable,
      ReuseActiveOrder, NoActiveOrder, UpdateStatus, ConfirmOrder, MarkConfirmed,
      RequestStatus, RequestCheckout, PostInformal, PostReservation, InsertReservation,
      RequestConfirm, CommitConfirm, RequestSeatPreorder, RequestSeatDeposit,
      RequestSeatInformal, LinkReservation, RequestTerminate, ReadHeldTable,
      CommitTerminate, RequestRemove

\* Only a request about reservation r changes its status once it has ended.
LEMMA OnlyItsReservation ==
  ASSUME IInv, NEW c \in Calls, Step(c), NEW r \in Reservations,
         reservations[r].status \in TERMINAL_STATUSES,
         reservations'[r].status # reservations[r].status
  PROVE  calls[c].res = r
<1>0. TypeOK
  BY DEF IInv
<1>1. CASE CommitConfirm(c) \/ CommitSeatPreorder(c) \/ LinkReservation(c) \/ CommitTerminate(c)
  BY <1>0, <1>1 DEF CommitConfirm, CommitSeatPreorder, LinkReservation, CommitTerminate, TypeOK
<1>2. CASE InsertReservation(c)
  BY <1>0, <1>2 DEF InsertReservation, ReservationRow, TERMINAL_STATUSES, TypeOK
<1>3. CASE DeleteTable(c)
  <2>1. PICK t : reservations' = Detach(reservations, t)
    BY <1>3 DEF DeleteTable
  <2> QED
    BY <1>0, <2>1 DEF Detach, TypeOK
<1>4. CASE UNCHANGED reservations
  BY <1>4
<1> QED
  BY <1>1, <1>2, <1>3, <1>4
  DEF Step, OrderStep, ReservationStep, TableStep, Abandon, PostOrder, OpenTable,
      ReuseActiveOrder, NoActiveOrder, InsertOrder, UpdateStatus, ConfirmOrder, MarkConfirmed,
      RequestStatus, WriteStatus, RequestCheckout, CommitCheckout, PostInformal,
      PostReservation, InsertPreorder, RequestConfirm, RequestSeatPreorder,
      RequestSeatDeposit, RequestSeatInformal, RequestTerminate, ReadHeldTable, RequestRemove

\* Orders move along ORDER_STATUS_TRANSITIONS, for any number of overlapping
\* requests: a forbidden transition is always the write of a request about that
\* order whose rows changed after it read them.
THEOREM OrdersFollowTheMachine == RaceSpec => StatusFollowsMachine
<1>1. RaceInv /\ [RaceNext]_raceVars =>
        [\A o \in Orders :
            OrderRow(o) => \/ orders'[o].status = orders[o].status
                           \/ canTransition(orders[o].status, orders'[o].status)
                           \/ \E c \in overtaken : calls[c].order = o /\ Writes(c)]_raceVars
  <2> SUFFICES ASSUME RaceInv, RaceNext, NEW o \in Orders, OrderRow(o),
                      orders'[o].status # orders[o].status
               PROVE  \/ canTransition(orders[o].status, orders'[o].status)
                      \/ \E c \in overtaken : calls[c].order = o /\ Writes(c)
    OBVIOUS
  <2>1. PICK c \in Calls : Step(c)
    BY DEF RaceNext, Next, Step, CreateTable
  <2>2. CASE c \notin overtaken
    BY <2>1, <2>2, StepFollowsMachine DEF RaceInv
  <2>3. CASE c \in overtaken
    <3>1. Writes(c)
      BY <2>1, OneMoves DEF RaceInv, Writes
    <3>2. calls[c].order = o
      BY <2>1, OnlyItsOrder DEF RaceInv
    <3> QED
      BY <2>3, <3>1, <3>2
  <2> QED
    BY <2>2, <2>3
<1> QED
  BY <1>1, RaceInvariance, PTL DEF RaceSpec, StatusFollowsMachine

\* SEATED, NO_SHOW and CANCELLED are final, for any number of overlapping
\* requests: only a request about that reservation that was overtaken can
\* write it again.
THEOREM EndedReservationsStay == RaceSpec => TerminalIsFinal
<1>1. RaceInv /\ [RaceNext]_raceVars =>
        [\A r \in Reservations :
            reservations[r].status \in TERMINAL_STATUSES =>
              \/ reservations'[r].status = reservations[r].status
              \/ \E c \in overtaken : calls[c].res = r /\ Writes(c)]_raceVars
  <2> SUFFICES ASSUME RaceInv, RaceNext, NEW r \in Reservations,
                      reservations[r].status \in TERMINAL_STATUSES,
                      reservations'[r].status # reservations[r].status
               PROVE  \E c \in overtaken : calls[c].res = r /\ Writes(c)
    OBVIOUS
  <2>1. PICK c \in Calls : Step(c)
    BY DEF RaceNext, Next, Step, CreateTable
  <2>2. c \in overtaken
    BY <2>1, StepKeepsTerminal DEF RaceInv
  <2>3. Writes(c)
    BY <2>1, OneMoves DEF RaceInv, Writes
  <2>4. calls[c].res = r
    BY <2>1, OnlyItsReservation DEF RaceInv
  <2> QED
    BY <2>2, <2>3, <2>4
<1> QED
  BY <1>1, RaceInvariance, PTL DEF RaceSpec, TerminalIsFinal

\* The table of an unpaid order stays OCCUPIED and the order stays the only
\* unpaid one there, at every table nobody paid for in advance, while any number
\* of requests open, settle and delete: what breaks it in the run
\* FloorDoubleOpen is a request overtaken at that very table, and nothing else.
THEOREM UnpaidOrdersKeepTheirTable == RaceSpec => []UnpaidKeepsTable
<1>1. RaceInv => UnpaidKeepsTable
  <2> SUFFICES ASSUME RaceInv, NEW t \in WalkInTables, NEW o \in ticket[t]
               PROVE  tables[t] = "OCCUPIED" /\ ticket[t] = {o}
    BY DEF UnpaidKeepsTable
  <2>1. t \in Tables /\ Kept(t)
    BY DEF RaceInv, WalkInTables
  <2>2. o \in Orders /\ Unpaid(o) /\ orders[o].table = t
    BY <2>1 DEF ticket
  <2>3. \A p \in ticket[t] : p = o
    BY <2>1, <2>2 DEF ticket, Kept
  <2> QED
    BY <2>1, <2>2, <2>3 DEF Kept
<1> QED
  BY <1>1, RaceInvariance, PTL

-----------------------------------------------------------------------------
\* Walk-in tables implement TicketBook: the tickets of the tables W and settled
\* are its variables.

Tickets(W) == [t \in W |-> ticket[t]]

\* The tickets of W are the unpaid orders on its tables.
LEMMA TicketsOf ==
  ASSUME NEW W \in SUBSET Tables
  PROVE  /\ \A t \in W : Tickets(W)[t] = {o \in Orders : Unpaid(o) /\ orders[o].table = t}
         /\ \A t \in W : Tickets(W)'[t] = {o \in Orders : Unpaid(o)' /\ orders'[o].table = t}
         /\ Tickets(W) = [t \in W |-> Tickets(W)[t]]
         /\ Tickets(W)' = [t \in W |-> Tickets(W)'[t]]
BY DEF Tickets, ticket

\* A step that keeps the unpaid orders on the tables W, and the settled orders,
\* is a stutter of the book of W.
LEMMA BookStutter ==
  ASSUME NEW W \in SUBSET Tables,
         \A o \in Orders, t \in W :
           Unpaid(o)' /\ orders'[o].table = t <=> Unpaid(o) /\ orders[o].table = t,
         settled' = settled
  PROVE  UNCHANGED <<Tickets(W), settled>>
<1>1. \A t \in W : Tickets(W)'[t] = Tickets(W)[t]
  <2> SUFFICES ASSUME NEW t \in W
               PROVE  {p \in Orders : Unpaid(p)' /\ orders'[p].table = t} =
                        {p \in Orders : Unpaid(p) /\ orders[p].table = t}
    BY TicketsOf, ZenonT(60)
  <2> QED
    OBVIOUS
<1> QED
  BY <1>1, TicketsOf

\* An editable order that gets another status closes its ticket, or settles
\* without one.
LEMMA BookSettles ==
  ASSUME IInv, NEW W \in SUBSET Tables, \A t \in W : Kept(t),
         NEW o \in Orders, NEW s \in OrderStatuses \ EDITABLE_STATUSES,
         orders[o].status \in EDITABLE_STATUSES,
         orders' = [orders EXCEPT ![o].status = s]
  PROVE  BookOf(W)!Next
<1>0. orders \in [Orders -> [status : OrderStatuses \cup {"ABSENT"}, table : Tables \cup {None}]]
  BY DEF IInv, TypeOK
<1>1. /\ orders'[o].status = s
      /\ \A p \in Orders : orders'[p].table = orders[p].table
      /\ \A p \in Orders \ {o} : orders'[p] = orders[p]
  BY <1>0
<1>2. settled' = settled \cup {o}
  BY <1>1 DEF settled
<1>3. ~Unpaid(o)' /\ \A p \in Orders \ {o} : Unpaid(p)' <=> Unpaid(p)
  BY <1>1 DEF Unpaid
<1>4. CASE orders[o].table \notin W
  <2>1. \A t \in W : o \notin Tickets(W)[t]
    BY <1>4, TicketsOf
  <2>2. \A t \in W : Tickets(W)'[t] = Tickets(W)[t]
    <3> SUFFICES ASSUME NEW t \in W
                 PROVE  {p \in Orders : Unpaid(p)' /\ orders'[p].table = t} =
                          {p \in Orders : Unpaid(p) /\ orders[p].table = t}
      BY TicketsOf, ZenonT(60)
    <3> QED
      BY <1>1, <1>3, <1>4
  <2>3. Tickets(W)' = Tickets(W)
    BY <2>2, TicketsOf
  <2>4. BookOf(W)!SettleElsewhere(o)
    BY <1>2, <2>1, <2>3 DEF BookOf!SettleElsewhere, Tickets
  <2> QED
    BY <2>4 DEF BookOf!Next
<1>5. CASE orders[o].table \in W
  <2>1. PICK t \in W : t = orders[o].table
    BY <1>5
  <2>2. Unpaid(o)
    BY <2>1, FloorAssumption DEF Unpaid
  <2>3. o \in Tickets(W)[t]
    BY <2>1, <2>2, TicketsOf
  <2>4. \A u \in W : Tickets(W)'[u] = IF u = t THEN {} ELSE Tickets(W)[u]
    <3> SUFFICES ASSUME NEW u \in W
                 PROVE  {p \in Orders : Unpaid(p)' /\ orders'[p].table = u} =
                          IF u = t THEN {} ELSE {p \in Orders : Unpaid(p) /\ orders[p].table = u}
      BY TicketsOf, ZenonT(60)
    <3>1. \A p \in Orders : Unpaid(p) /\ orders[p].table = t => p = o
      BY <2>1, <2>2 DEF Kept
    <3> QED
      BY <1>1, <1>3, <2>1, <3>1
  <2>5. Tickets(W)' = [Tickets(W) EXCEPT ![t] = {}]
    BY <2>4, TicketsOf
  <2>6. BookOf(W)!CloseTicket(t, o)
    BY <1>2, <2>3, <2>5 DEF BookOf!CloseTicket, Tickets
  <2> QED
    BY <2>6 DEF BookOf!Next
<1> QED
  BY <1>4, <1>5

\* A new order opens the ticket of a table without one.
LEMMA BookOpens ==
  ASSUME IInv, NEW W \in SUBSET Tables, NEW o \in FreshOrder, NEW t \in W,
         orders' = [orders EXCEPT ![o] = [status |-> "DRAFT", table |-> t]],
         \A p \in Orders : Unpaid(p) => orders[p].table # t
  PROVE  BookOf(W)!Next
<1>0. orders \in [Orders -> [status : OrderStatuses \cup {"ABSENT"}, table : Tables \cup {None}]]
  BY DEF IInv, TypeOK
<1>1. /\ o \in Orders /\ orders[o].status = "ABSENT" /\ t # None
      /\ orders'[o].status = "DRAFT" /\ orders'[o].table = t
      /\ \A p \in Orders \ {o} : orders'[p] = orders[p]
  BY <1>0, FloorAssumption DEF FreshOrder, OrderRow
<1>2. settled' = settled /\ o \notin settled
  BY <1>1 DEF settled, OrderStatuses, EDITABLE_STATUSES
<1>3. ~Unpaid(o) /\ Unpaid(o)' /\ \A p \in Orders \ {o} : Unpaid(p)' <=> Unpaid(p)
  BY <1>1 DEF Unpaid, EDITABLE_STATUSES
<1>4. Tickets(W)[t] = {} /\ \A u \in W : o \notin Tickets(W)[u]
  BY <1>3, TicketsOf
<1>5. \A u \in W : Tickets(W)'[u] = IF u = t THEN {o} ELSE Tickets(W)[u]
  <2>1. {p \in Orders : Unpaid(p)' /\ orders'[p].table = t} = {o}
    BY <1>1, <1>3
  <2>2. ASSUME NEW u \in W, u # t PROVE Tickets(W)'[u] = Tickets(W)[u]
    <3>1. /\ Tickets(W)[u] = {p \in Orders : Unpaid(p) /\ orders[p].table = u}
          /\ Tickets(W)'[u] = {p \in Orders : Unpaid(p)' /\ orders'[p].table = u}
      BY TicketsOf
    <3>2. {p \in Orders : Unpaid(p)' /\ orders'[p].table = u} =
            {p \in Orders : Unpaid(p) /\ orders[p].table = u}
      BY <1>1, <1>3, <2>2
    <3> QED
      BY <3>1, <3>2, Zenon
  <2>3. Tickets(W)'[t] = {o}
    BY <2>1, TicketsOf
  <2> QED
    BY <2>2, <2>3
<1>6. Tickets(W)' = [Tickets(W) EXCEPT ![t] = {o}]
  BY <1>5, TicketsOf
<1>7. BookOf(W)!OpenTicket(t, o)
  BY <1>2, <1>4, <1>6 DEF BookOf!OpenTicket, Tickets
<1> QED
  BY <1>1, <1>7 DEF BookOf!Next

\* Each step of a request that was not overtaken is a step of the book of any
\* walk-in tables, or a stutter.
LEMMA BookStep ==
  ASSUME RaceInv, NEW c \in Calls, c \notin overtaken, Step(c),
         NEW W \in SUBSET Tables, W \subseteq WalkInTables
  PROVE  BookOf(W)!Next \/ UNCHANGED <<Tickets(W), settled>>
<1>0. /\ IInv /\ TypeOK /\ calls[c] \in Request
      /\ Sane(calls[c]) /\ Holds(calls[c]) /\ Serves(calls[c])
      /\ \A t \in W : Kept(t) /\ ~Promised(t) /\ t # None
  BY FloorAssumption DEF RaceInv, IInv, TypeOK, CallsSane, WalkInTables
<1>1. CASE UNCHANGED orders
  BY <1>1 DEF Tickets, ticket, settled, Unpaid
<1>2. CASE WriteStatus(c)
  <2>1. PICK o \in Orders, s \in OrderStatuses :
          /\ OrderRow(o) /\ canTransition(orders[o].status, s)
          /\ orders' = [orders EXCEPT ![o].status = s]
    BY <1>0, <1>2 DEF Sane, Holds, WriteStatus, At
  <2>2. CASE s \notin EDITABLE_STATUSES /\ orders[o].status \in EDITABLE_STATUSES
    BY <1>0, <2>1, <2>2, BookSettles
  <2>3. CASE s \in EDITABLE_STATUSES <=> orders[o].status \in EDITABLE_STATUSES
    <3>1. /\ orders'[o].status = s
          /\ \A p \in Orders : orders'[p].table = orders[p].table
          /\ \A p \in Orders \ {o} : orders'[p] = orders[p]
      BY <1>0, <2>1 DEF TypeOK
    <3>2. orders[o].status \in OrderStatuses
      BY <1>0, <2>1 DEF TypeOK, OrderRow
    <3>3. \A p \in Orders : Unpaid(p)' <=> Unpaid(p)
      BY <2>3, <3>1 DEF Unpaid
    <3>4. settled' = settled
      BY <2>3, <3>1, <3>2 DEF settled
    <3> QED
      BY <3>1, <3>3, <3>4, BookStutter
  <2>4. s \in EDITABLE_STATUSES => orders[o].status \in EDITABLE_STATUSES
    BY <1>0, <2>1, EditableIsLeftForGood DEF TypeOK, OrderRow
  <2> QED
    BY <2>2, <2>3, <2>4
<1>3. CASE CommitCheckout(c)
  <2>1. /\ calls[c].order \in Orders /\ orders[calls[c].order].status \in EDITABLE_STATUSES
        /\ orders' = [orders EXCEPT ![calls[c].order].status = "CONFIRMED"]
    BY <1>0, <1>3 DEF Sane, Holds, CommitCheckout, At, EDITABLE_STATUSES
  <2>2. "CONFIRMED" \in OrderStatuses \ EDITABLE_STATUSES
    BY DEF OrderStatuses, EDITABLE_STATUSES
  <2> QED
    BY <1>0, <2>1, <2>2, BookSettles
<1>4. CASE InsertOrder(c) \/ InsertPreorder(c)
  <2>1. PICK o \in FreshOrder, t \in Tables \cup {None} :
          /\ orders' = [orders EXCEPT ![o] = [status |-> "DRAFT", table |-> t]]
          /\ t # None => At(c, "insert") /\ t = calls[c].table
    BY <1>0, <1>4 DEF InsertOrder, InsertPreorder, Request
  <2>2. CASE t \in W
    <3>1. \A p \in Orders : Unpaid(p) => orders[p].table # t
      BY <1>0, <2>1, <2>2 DEF Serves, At
    <3> QED
      BY <1>0, <2>1, <2>2, <3>1, BookOpens
  <2>3. CASE t \notin W
    <3>1. /\ o \in Orders /\ orders[o].status = "ABSENT"
          /\ orders'[o].status = "DRAFT" /\ orders'[o].table = t
          /\ \A p \in Orders \ {o} : orders'[p] = orders[p]
      BY <1>0, <2>1 DEF TypeOK, FreshOrder, OrderRow
    <3>2. settled' = settled
      BY <3>1 DEF settled, OrderStatuses, EDITABLE_STATUSES
    <3>3. ~Unpaid(o) /\ \A p \in Orders \ {o} : Unpaid(p)' <=> Unpaid(p)
      BY <3>1 DEF Unpaid, EDITABLE_STATUSES
    <3>4. \A p \in Orders, u \in W :
            Unpaid(p)' /\ orders'[p].table = u <=> Unpaid(p) /\ orders[p].table = u
      BY <2>3, <3>1, <3>3
    <3> QED
      BY <3>2, <3>4, BookStutter
  <2> QED
    BY <2>2, <2>3
<1>5. CASE CommitSeatPreorder(c)
  <2>1. PICK r \in Reservations, o \in Orders, t \in Tables :
          /\ reservations[r].type = "WITH_PREORDER" /\ reservations[r].order = o
          /\ reservations[r].table = t
          /\ orders' = [orders EXCEPT ![o].table = t]
    BY <1>0, <1>5 DEF CommitSeatPreorder, Sane, Holds, At
  <2>2. t \notin W
    BY <1>0, <2>1 DEF Promised, PAID_TYPES
  <2>3. orders[o].table \notin W
    BY <1>0, <2>1, <2>2, NoneIsNoOrder DEF IInv, PreorderOnItsTable
  <2>4. /\ orders'[o].table = t
        /\ \A p \in Orders : orders'[p].status = orders[p].status
        /\ \A p \in Orders \ {o} : orders'[p] = orders[p]
    BY <1>0, <2>1 DEF TypeOK
  <2>5. settled' = settled
    BY <2>4 DEF settled
  <2>6. \A p \in Orders, u \in W :
          Unpaid(p)' /\ orders'[p].table = u <=> Unpaid(p) /\ orders[p].table = u
    BY <2>2, <2>3, <2>4 DEF Unpaid
  <2> QED
    BY <2>5, <2>6, BookStutter
<1>6. CASE DeleteTable(c)
  <2>1. PICK t \in Tables : t = calls[c].table
    BY <1>0, <1>6 DEF Sane, DeleteTable, At
  <2>2. tables[t] = "AVAILABLE" /\ orders' = Detach(orders, t)
    BY <1>0, <1>6, <2>1 DEF DeleteTable, Holds, At
  <2>3. t \in W => \A p \in Orders : Unpaid(p) => orders[p].table # t
    BY <1>0, <2>2 DEF Kept
  <2>4. \A p \in Orders : /\ orders'[p].status = orders[p].status
                          /\ orders'[p].table = IF orders[p].table = t THEN None
                                                 ELSE orders[p].table
    BY <1>0, <2>2 DEF Detach, TypeOK
  <2>5. settled' = settled
    BY <2>4 DEF settled
  <2>6. \A p \in Orders, u \in W :
          Unpaid(p)' /\ orders'[p].table = u <=> Unpaid(p) /\ orders[p].table = u
    BY <1>0, <2>3, <2>4 DEF Unpaid
  <2> QED
    BY <2>5, <2>6, BookStutter
<1> QED
  BY <1>1, <1>2, <1>3, <1>4, <1>5, <1>6
  DEF Step, OrderStep, ReservationStep, TableStep, Abandon, PostOrder, OpenTable,
      ReuseActiveOrder, NoActiveOrder, UpdateStatus, ConfirmOrder, MarkConfirmed,
      RequestStatus, RequestCheckout, PostInformal, PostReservation, InsertReservation,
      RequestConfirm, CommitConfirm, RequestSeatPreorder, RequestSeatDeposit,
      RequestSeatInformal, LinkReservation, RequestTerminate, ReadHeldTable,
      CommitTerminate, RequestRemove

\* The initial floor is the empty book.
LEMMA BookInit == ASSUME RaceInit, NEW W \in SUBSET Tables PROVE BookOf(W)!Init
<1>1. \A o \in Orders : ~Unpaid(o) /\ orders[o].status \notin OrderStatuses
  BY DEF RaceInit, Init, Unpaid, OrderStatuses
<1>2. Tickets(W) = [t \in W |-> {}]
  BY <1>1 DEF Tickets, ticket
<1>3. settled = {}
  BY <1>1 DEF settled
<1> QED
  BY <1>2, <1>3 DEF BookOf!Init, Tickets

\* Walk-in tables keep the ticket book: while the rest of the floor is reserved,
\* seated, raced over and cut short around them, a table has at most one open
\* ticket, and a ticket leaves its table exactly once and never comes back,
\* unless the write of an overtaken request makes it.
THEOREM WalkInTablesKeepTheBook == RaceSpec => BookKept
<1>1. RaceInit => \A W \in SUBSET Tables : BookOf(W)!Init
  BY BookInit
<1>2. RaceInv /\ [RaceNext]_raceVars =>
        [\A W \in SUBSET Tables :
           W \subseteq WalkInTables =>
             \/ BookOf(W)!Next
             \/ UNCHANGED <<[t \in W |-> ticket[t]], settled>>
             \/ \E c \in overtaken : Writes(c)]_raceVars
  <2> SUFFICES ASSUME RaceInv, RaceNext, NEW W \in SUBSET Tables, W \subseteq WalkInTables,
                      ~\E c \in overtaken : Writes(c)
               PROVE  BookOf(W)!Next \/ UNCHANGED <<Tickets(W), settled>>
    BY DEF Tickets
  <2>1. CASE UNCHANGED orders
    BY <2>1 DEF Tickets, ticket, settled, Unpaid
  <2>2. CASE ~UNCHANGED orders
    <3>1. PICK c \in Calls : Step(c)
      BY <2>2 DEF RaceNext, Next, Step, CreateTable
    <3>2. Writes(c)
      BY <2>2, <3>1, OneMoves DEF RaceInv, Writes
    <3> QED
      BY <3>1, <3>2, BookStep
  <2> QED
    BY <2>1, <2>2
<1> QED
  BY <1>1, <1>2, RaceInvariance, PTL DEF RaceSpec, BookKept
=============================================================================
