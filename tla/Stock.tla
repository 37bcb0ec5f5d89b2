------------------------------- MODULE Stock -------------------------------
(***************************************************************************)
(* Inventory items, the log of their adjustments, and what a sale takes    *)
(* from them (src/inventory, and the hook at the end of POS checkout in    *)
(* src/payments).                                                          *)
(*                                                                         *)
(* A request in flight is a slot of stockCalls.  An adjustment is computed *)
(* from a quantity read before its transaction.  A sale adjusts the items  *)
(* of its lines one after the other, after its payment is committed, and   *)
(* goes on past a line that fails.  When an order may be checked out at    *)
(* all is in Checkout; here it is only paid, and the test for an earlier   *)
(* payment is a statement before the payment.                              *)
(*                                                                         *)
(* History variables: counted is what an item was last counted at and how  *)
(* long its log was then; drifted tells whether an adjustment was computed *)
(* from an outdated quantity since; missed, whether a paid line was passed *)
(* over or its entry went with a removed item.                             *)
(***************************************************************************)
EXTENDS Integers, FiniteSets, SequencesExt, Sql

CONSTANTS StockItems,       \* ids an inventory item may get
          StockDishes,      \* menu items
          SaleLines,        \* order -> its lines, [dish, quantity]
          Deltas,           \* changes that managers enter
          Counts,           \* quantities that managers enter
          StockCalls,       \* slots for concurrent requests
          MaxAdjustments    \* bound: entries in the log of one item

SaleOrders == DOMAIN SaleLines

ASSUME StockAssumption ==
  /\ Deltas \subseteq Int /\ Counts \subseteq Int /\ MaxAdjustments \in Nat
  /\ \A o \in SaleOrders : SaleLines[o] \in Seq([dish : StockDishes, quantity : Nat \ {0}])
  /\ Null \notin StockDishes \cup SaleOrders
  /\ IsFiniteSet(StockItems) /\ IsFiniteSet(StockCalls)

VARIABLES stock,         \* item -> [state, quantity, dish]
          adjustments,   \* item -> its log of [order, line, delta], in commit order
          sales,         \* order -> SUCCEEDED payments of it
          stockCalls,    \* request slot -> the handler's position and memory
          counted, drifted, missed

stockVars == <<stock, adjustments, sales, stockCalls, counted, drifted, missed>>
stockHistory == <<counted, drifted, missed>>

NoItem(state) == [state |-> state, quantity |-> 0, dish |-> Null]
FreeCall == [at |-> "idle", item |-> Null, read |-> 0, delta |-> 0, order |-> Null, line |-> 0]

StockInit ==
  /\ stock = [i \in StockItems |-> NoItem("absent")]
  /\ adjustments = [i \in StockItems |-> <<>>]
  /\ sales = [o \in SaleOrders |-> 0]
  /\ stockCalls = [c \in StockCalls |-> FreeCall]
  /\ counted = [i \in StockItems |-> [quantity |-> 0, upto |-> 0]]
  /\ drifted = [i \in StockItems |-> FALSE]
  /\ missed = FALSE

StockRows == {i \in StockItems : stock[i].state = "live"}
LinkedTo(d) == {i \in StockRows : stock[i].dish = d}

\* Mutant: without the unique index.
LinkAnyhow(d, i) == TRUE

\* menuItemId is unique; NULLs do not count.
LinkFree(d, i) == d = Null \/ LinkedTo(d) \subseteq {i}

Recount(i, quantity) ==
  /\ counted' = [counted EXCEPT ![i] = [quantity |-> quantity, upto |-> Len(adjustments[i])]]
  /\ drifted' = [drifted EXCEPT ![i] = FALSE]

-----------------------------------------------------------------------------
\* InventoryService, the handlers of one write.

CreateStock(i, quantity, d) ==
  /\ stock[i].state = "absent"
  /\ LinkFree(d, i)
  /\ stock' = [stock EXCEPT ![i] = [state |-> "live", quantity |-> quantity, dish |-> d]]
  /\ Recount(i, quantity)
  /\ UNCHANGED <<adjustments, sales, stockCalls, missed>>

\* PATCH /inventory/:id writes what it is sent.
UpdateStock(i, quantity, d) ==
  /\ i \in StockRows
  /\ d # Unsent => LinkFree(d, i)
  /\ stock' = [stock EXCEPT ![i].quantity = Sent(quantity, @), ![i].dish = Sent(d, @)]
  /\ IF quantity = Unsent THEN UNCHANGED <<counted, drifted>> ELSE Recount(i, quantity)
  /\ UNCHANGED <<adjustments, sales, stockCalls, missed>>

\* The log goes with the item.
RemoveStock(i) ==
  /\ i \in StockRows
  /\ stock' = [stock EXCEPT ![i] = NoItem("gone")]
  /\ adjustments' = [adjustments EXCEPT ![i] = <<>>]
  /\ counted' = [counted EXCEPT ![i] = [quantity |-> 0, upto |-> 0]]
  /\ drifted' = [drifted EXCEPT ![i] = FALSE]
  /\ missed' = TRUE
  /\ UNCHANGED <<sales, stockCalls>>

-----------------------------------------------------------------------------
\* adjust(): the item is read, then a transaction logs the change and writes the
\* new quantity.

ReadItem(c, first) ==
  /\ first.item \in StockRows
  /\ stockCalls' = [stockCalls EXCEPT ![c] =
       [first EXCEPT !.at = "adjust", !.read = stock[first.item].quantity]]
  /\ UNCHANGED <<stock, adjustments, sales, stockHistory>>

PostAdjust(c, i, delta) ==
  /\ stockCalls[c] = FreeCall
  /\ ReadItem(c, [FreeCall EXCEPT !.item = i, !.delta = delta])

\* Mutant: nothing stops the quantity at zero.
NewQuantityUnclamped(quantity, delta) == quantity + delta

\* Stock never goes below zero, whatever is taken.
NewQuantity(quantity, delta) == IF quantity + delta < 0 THEN 0 ELSE quantity + delta

\* A sale goes on with its next line, any other request is over.
Continue(call) ==
  IF call.order = Null THEN FreeCall
  ELSE [FreeCall EXCEPT !.at = "find", !.order = call.order, !.line = call.line + 1]

Adjust(c) ==
  LET call == stockCalls[c]
      i == call.item
  IN /\ call.at = "adjust"
     /\ i \in StockRows
     /\ Len(adjustments[i]) < MaxAdjustments
     /\ adjustments' = [adjustments EXCEPT ![i] =
          Append(@, [order |-> call.order, line |-> call.line, delta |-> call.delta])]
     /\ stock' = [stock EXCEPT ![i].quantity = NewQuantity(call.read, call.delta)]
     /\ drifted' = [drifted EXCEPT ![i] = @ \/ stock[i].quantity # call.read]
     /\ stockCalls' = [stockCalls EXCEPT ![c] = Continue(call)]
     /\ UNCHANGED <<sales, counted, missed>>

-----------------------------------------------------------------------------
\* POS checkout: no payment yet, the payment, then its lines.

RequestSale(c, o) ==
  /\ stockCalls[c] = FreeCall
  /\ sales[o] = 0
  /\ stockCalls' = [stockCalls EXCEPT ![c] = [FreeCall EXCEPT !.at = "pay", !.order = o]]
  /\ UNCHANGED <<stock, adjustments, sales, stockHistory>>

\* Mutant: a second payment is not recorded, but its stock is taken.
PaySaleAgain(c) ==
  /\ stockCalls[c].at = "pay"
  /\ sales' = [sales EXCEPT ![stockCalls[c].order] = 1]
  /\ stockCalls' = [stockCalls EXCEPT ![c] = Continue(@)]
  /\ UNCHANGED <<stock, adjustments, stockHistory>>

PaySale(c) ==
  /\ stockCalls[c].at = "pay"
  /\ sales' = [sales EXCEPT ![stockCalls[c].order] = @ + 1]
  /\ stockCalls' = [stockCalls EXCEPT ![c] = Continue(@)]
  /\ UNCHANGED <<stock, adjustments, stockHistory>>

SaleLine(c) == SaleLines[stockCalls[c].order][stockCalls[c].line]
LastLineDone(c) == stockCalls[c].line > Len(SaleLines[stockCalls[c].order])

FindItem(c) ==
  /\ stockCalls[c].at = "find" /\ ~LastLineDone(c)
  /\ \E i \in LinkedTo(SaleLine(c).dish) :
       stockCalls' = [stockCalls EXCEPT ![c].at = "read", ![c].item = i,
                                        ![c].delta = 0 - SaleLine(c).quantity]
  /\ UNCHANGED <<stock, adjustments, sales, stockHistory>>

ReadLineItem(c) ==
  /\ stockCalls[c].at = "read"
  /\ ReadItem(c, stockCalls[c])

\* A dish without an inventory item, an item removed meanwhile or any other error
\* is a warning in the log; the next line has its turn.
PassLine(c) ==
  /\ \/ stockCalls[c].at = "find" /\ ~LastLineDone(c)
     \/ stockCalls[c].at \in {"read", "adjust"} /\ stockCalls[c].order # Null
  /\ stockCalls' = [stockCalls EXCEPT ![c] = Continue(@)]
  /\ missed' = TRUE
  /\ UNCHANGED <<stock, adjustments, sales, counted, drifted>>

AnswerSale(c) ==
  /\ stockCalls[c].at = "find" /\ LastLineDone(c)
  /\ stockCalls' = [stockCalls EXCEPT ![c] = FreeCall]
  /\ UNCHANGED <<stock, adjustments, sales, stockHistory>>

\* The process dies, or the write of an adjustment or a payment is refused.
AbandonStockCall(c) ==
  /\ stockCalls[c] # FreeCall
  /\ stockCalls' = [stockCalls EXCEPT ![c] = FreeCall]
  /\ missed' = (missed \/ stockCalls[c].line > 0)
  /\ UNCHANGED <<stock, adjustments, sales, counted, drifted>>

-----------------------------------------------------------------------------
StockNext ==
  \/ \E i \in StockItems, q \in Counts, d \in StockDishes \cup {Null} : CreateStock(i, q, d)
  \/ \E i \in StockItems, q \in Counts \cup {Unsent}, d \in StockDishes \cup {Null, Unsent} :
       UpdateStock(i, q, d)
  \/ \E i \in StockItems : RemoveStock(i)
  \/ \E c \in StockCalls :
       \/ \E i \in StockItems, delta \in Deltas : PostAdjust(c, i, delta)
       \/ \E o \in SaleOrders : RequestSale(c, o)
       \/ Adjust(c) \/ PaySale(c)
       \/ FindItem(c) \/ ReadLineItem(c) \/ PassLine(c) \/ AnswerSale(c)
       \/ AbandonStockCall(c)

StockSpec == StockInit /\ [][StockNext]_stockVars

-----------------------------------------------------------------------------
\* Rows have their columns' types, and a dish has one inventory item at most.
StockTypeOK ==
  /\ \A i \in StockItems : /\ stock[i].state \in {"absent", "live", "gone"}
                           /\ stock[i].quantity \in Int
                           /\ stock[i].dish \in StockDishes \cup {Null}
                           /\ counted[i].upto \in 0..Len(adjustments[i])
                           /\ drifted[i] \in BOOLEAN
  /\ \A c \in StockCalls : stockCalls[c].at \in {"idle", "adjust", "pay", "find", "read"}
  /\ missed \in BOOLEAN
  /\ \A i, j \in StockRows : stock[i].dish = stock[j].dish /\ stock[i].dish # Null => i = j

\* What a log makes of a count, stopping at zero.
Replayed(count, log) ==
  FoldLeft(LAMBDA quantity, entry : IF quantity + entry.delta < 0 THEN 0
                                    ELSE quantity + entry.delta, count, log)

\* What the log since the last count makes of that count.
LoggedQuantity(i) ==
  Replayed(counted[i].quantity,
           SubSeq(adjustments[i], counted[i].upto + 1, Len(adjustments[i])))

\* The quantity of an item is what its log says: the last count, then every
\* logged change in order.  Only an adjustment whose quantity was outdated when
\* it wrote makes them differ, and only until the next count.
QuantityIsLogged == \A i \in StockRows : ~drifted[i] => stock[i].quantity = LoggedQuantity(i)

\* The log entries of line n of order o, and how many there are.
EntriesOf(o, n) ==
  {e \in StockItems \X (1..MaxAdjustments) :
    /\ e[2] <= Len(adjustments[e[1]])
    /\ adjustments[e[1]][e[2]].order = o /\ adjustments[e[1]][e[2]].line = n}
TimesTaken(o, n) == Cardinality(EntriesOf(o, n))

\* A line is taken from stock once per payment of its order and never more, over
\* retried and concurrent checkouts, failures and items linked anew; and exactly
\* once per payment when nothing was passed over and no request is in flight.
SaleTakenOnce ==
  \A o \in SaleOrders : \A n \in DOMAIN SaleLines[o] :
    /\ TimesTaken(o, n) <= sales[o]
    /\ (~missed /\ \A c \in StockCalls : stockCalls[c] = FreeCall) => TimesTaken(o, n) = sales[o]
=============================================================================
