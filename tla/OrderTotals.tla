---------------------------- MODULE OrderTotals ----------------------------
(***************************************************************************)
(* The money of one order: its lines, its discount and the three totals    *)
(* kept on the order row (src/orders/orders.service.ts).                   *)
(*                                                                         *)
(* Every edit is a chain of single statements: read the order, read the    *)
(* menu or the line, write the line or the discount, then                  *)
(* recalculateTotals, which reads the discount, reads the lines and writes *)
(* the totals.  Other requests run between any two of them, and a failure  *)
(* can end a request between any two.  Two history variables record what   *)
(* the code does not: whether a recalculation was overtaken by another     *)
(* write, and whether the stored totals were left behind by one.           *)
(***************************************************************************)
EXTENDS Integers, FiniteSets, FiniteSetsExt, OrderStatus

CONSTANTS Lines,        \* ids an order_items row may get
          Calls,        \* slots for concurrent requests
          Prices,       \* unit prices the menu may show, in cents
          Deltas,       \* modifier deltas per unit a selection may resolve to
          Quantities,   \* quantities a request may carry
          Discounts,    \* discount requests: [type, value]
          TaxPercent,   \* tax.rate, in percent
          Targets,      \* bound: statuses that requests ask for
          None          \* no line

ASSUME TotalsAssumption ==
  /\ IsFiniteSet(Lines)
  /\ Prices \subseteq Nat /\ Quantities \subseteq Nat \ {0}
  /\ Deltas \subseteq Int \* removals are negative
  /\ TaxPercent \in Nat
  /\ Targets \subseteq OrderStatuses
  /\ Discounts \subseteq [type : {"FIXED", "PERCENTAGE"}, value : Nat]
  /\ None \notin Lines \cup Int

VARIABLES status,     \* the order's status, ABSENT before it is created
          lines,      \* line id -> [state, price, delta, qty, total]
          discount,   \* discountCents
          totals,     \* [subtotal, tax, total]
          calls,      \* request slot -> the handler's position and memory
          behind      \* history: the stored totals may lag behind the lines

vars == <<status, lines, discount, totals, calls, behind>>
money == <<lines, discount, totals>>

Idle == [at |-> "idle", line |-> None, unit |-> [price |-> 0, delta |-> 0], qty |-> 0,
         off |-> 0, sum |-> 0, next |-> "none", overtaken |-> FALSE]

NoLine == [state |-> "absent", price |-> 0, delta |-> 0, qty |-> 0, total |-> 0]

Init ==
  /\ status = "ABSENT"
  /\ lines = [l \in Lines |-> NoLine]
  /\ discount = 0
  /\ totals = [subtotal |-> 0, tax |-> 0, total |-> 0]
  /\ calls = [c \in Calls |-> Idle]
  /\ behind = FALSE

Live(S) == {l \in DOMAIN S : S[l].state = "live"}

Subtotal(S) == MapThenSumSet(LAMBDA l : S[l].total, Live(S))

\* Math.round: halves round up.
Tax(subtotal) == (2 * subtotal * TaxPercent + 100) \div 200

\* Mutant: the total is not kept at zero or above.
TotalsUnclamped(subtotal, off) ==
  [subtotal |-> subtotal, tax |-> Tax(subtotal), total |-> subtotal + Tax(subtotal) - off]

TotalsOf(subtotal, off) ==
  [subtotal |-> subtotal, tax |-> Tax(subtotal),
   total |-> IF subtotal + Tax(subtotal) > off THEN subtotal + Tax(subtotal) - off ELSE 0]

\* Mutant: the modifiers are forgotten.
LineTotalWithoutModifiers(unit, qty) == unit.price * qty
LineTotal(unit, qty) == (unit.price + unit.delta) * qty

-----------------------------------------------------------------------------
At(c, pc) == calls[c].at = pc

\* A new request passed the first test of its handler.
Accept(c, first) ==
  /\ calls[c] = Idle
  /\ calls' = [calls EXCEPT ![c] = first]
  /\ UNCHANGED <<status, money, behind>>

Goto(c, pc) == calls' = [calls EXCEPT ![c].at = pc]

\* History: a committed change of lines or discount overtakes every other
\* request between its first read for the totals and its write of them.
\* The slot that made the change goes on to pc.
Overtake(c, pc) ==
  calls' = [d \in Calls |->
    IF d = c THEN [Idle EXCEPT !.at = pc]
    ELSE IF calls[d].at \in {"sum", "totals"} THEN [calls[d] EXCEPT !.overtaken = TRUE]
    ELSE calls[d]]

\* A slot that changed the money and has yet to write the totals.
Pending(c) == calls[c].at \in {"audit", "recalculate", "sum", "totals"}

\* A request ends early: rejected, failed or crashed.  Past its own write the
\* totals stay behind.
Abandon(c) ==
  /\ calls[c] # Idle
  /\ calls' = [calls EXCEPT ![c] = Idle]
  /\ behind' = (behind \/ Pending(c))
  /\ UNCHANGED <<status, money>>

\* Mutant: items may still be changed while the kitchen has the order.
EditableWhileConfirmed == status \in EDITABLE_STATUSES \cup {"CONFIRMED"}
\* The test every edit starts with.
Editable == status \in EDITABLE_STATUSES

-----------------------------------------------------------------------------
\* create(): the order row with its lines, totals 0, then the recalculation.
\* Without items it is the empty ticket a seating opens.
PostOrder(c, items) ==
  /\ status = "ABSENT"
  /\ Accept(c, IF items THEN [Idle EXCEPT !.at = "menu", !.next = "create"]
                        ELSE [Idle EXCEPT !.at = "insert", !.next = "empty"])

\* addItem and create read the menu item and resolve the selected modifiers;
\* what they read is the snapshot the line keeps.
ReadMenu(c) ==
  /\ At(c, "menu")
  /\ \E price \in Prices, delta \in Deltas :
       calls' = [calls EXCEPT ![c].at = "insert",
                              ![c].unit = [price |-> price, delta |-> delta]]
  /\ UNCHANGED <<status, money, behind>>

NewLine(unit, qty) ==
  [state |-> "live", price |-> unit.price, delta |-> unit.delta, qty |-> qty,
   total |-> LineTotal(unit, qty)]

InsertOrder(c) ==
  /\ At(c, "insert") /\ calls[c].next \in {"create", "empty"}
  /\ status = "ABSENT"
  /\ status' = "DRAFT"
  /\ IF calls[c].next = "create"
       THEN \E l \in Lines, q \in Quantities :
              lines' = [lines EXCEPT ![l] = NewLine(calls[c].unit, q)]
       ELSE UNCHANGED lines
  /\ Overtake(c, "recalculate")
  /\ UNCHANGED <<discount, totals, behind>>

\* POST /orders/:id/items
RequestAddItem(c) == Editable /\ Accept(c, [Idle EXCEPT !.at = "menu", !.next = "add"])

InsertItem(c) ==
  /\ At(c, "insert") /\ calls[c].next = "add"
  /\ \E l \in Lines, q \in Quantities :
       /\ lines[l].state = "absent"
       /\ lines' = [lines EXCEPT ![l] = NewLine(calls[c].unit, q)]
  /\ Overtake(c, "recalculate")
  /\ UNCHANGED <<status, discount, totals, behind>>

\* PATCH and DELETE /orders/:id/items/:itemId
RequestItem(c, l, next) ==
  /\ Editable
  /\ Accept(c, [Idle EXCEPT !.at = "item", !.line = l, !.next = next])

\* The line is read; a PATCH without quantity keeps the one it read.
ReadItem(c) ==
  LET line == lines[calls[c].line]
  IN /\ At(c, "item")
     /\ line.state = "live"
     /\ \/ calls[c].next = "delete" /\ Goto(c, "delete")
        \/ /\ calls[c].next = "update"
           /\ \E q \in Quantities \cup {line.qty} :
                calls' = [calls EXCEPT ![c].at = "update", ![c].qty = q,
                            ![c].unit = [price |-> line.price, delta |-> line.delta]]
     /\ UNCHANGED <<status, money, behind>>

\* Mutant: the line is priced again from today's menu.
UpdateItemAtMenuPrice(c) ==
  /\ At(c, "update")
  /\ lines[calls[c].line].state = "live"
  /\ \E price \in Prices :
       lines' = [lines EXCEPT ![calls[c].line].price = price,
                              ![calls[c].line].qty = calls[c].qty,
                              ![calls[c].line].total = (price + lines[calls[c].line].delta) * calls[c].qty]
  /\ Overtake(c, "recalculate")
  /\ UNCHANGED <<status, discount, totals, behind>>

\* Quantity and line total are written together, from the line as it was read.
UpdateItem(c) ==
  /\ At(c, "update")
  /\ lines[calls[c].line].state = "live"
  /\ lines' = [lines EXCEPT ![calls[c].line].qty = calls[c].qty,
                            ![calls[c].line].total = LineTotal(calls[c].unit, calls[c].qty)]
  /\ Overtake(c, "recalculate")
  /\ UNCHANGED <<status, discount, totals, behind>>

DeleteItem(c) ==
  /\ At(c, "delete")
  /\ lines[calls[c].line].state = "live"
  /\ lines' = [lines EXCEPT ![calls[c].line] = [NoLine EXCEPT !.state = "deleted"]]
  /\ Overtake(c, "recalculate")
  /\ UNCHANGED <<status, discount, totals, behind>>

-----------------------------------------------------------------------------
\* PATCH /orders/:id/discount: the subtotal is summed from the lines, the
\* discount resolved and bounded by it, written, then audited.
RequestDiscount(c) == Editable /\ Accept(c, [Idle EXCEPT !.at = "resolve"])

Resolved(d, subtotal) ==
  IF d.type = "PERCENTAGE" THEN (subtotal * d.value) \div 100 ELSE d.value

ResolveDiscount(c) ==
  /\ At(c, "resolve")
  /\ \E d \in Discounts :
       /\ Resolved(d, Subtotal(lines)) <= Subtotal(lines)
       /\ calls' = [calls EXCEPT ![c].at = "apply", ![c].off = Resolved(d, Subtotal(lines))]
  /\ UNCHANGED <<status, money, behind>>

WriteDiscount(c) ==
  /\ At(c, "apply")
  /\ discount' = calls[c].off
  /\ Overtake(c, "audit")
  /\ UNCHANGED <<status, lines, totals, behind>>

\* The audit row itself is not part of this module's state.
LogDiscount(c) ==
  /\ At(c, "audit")
  /\ Goto(c, "recalculate")
  /\ UNCHANGED <<status, money, behind>>

-----------------------------------------------------------------------------
\* recalculateTotals

ReadDiscount(c) ==
  /\ At(c, "recalculate")
  /\ calls' = [calls EXCEPT ![c].at = "sum", ![c].off = discount, ![c].overtaken = FALSE]
  /\ UNCHANGED <<status, money, behind>>

SumLines(c) ==
  /\ At(c, "sum")
  /\ calls' = [calls EXCEPT ![c].at = "totals", ![c].sum = Subtotal(lines)]
  /\ UNCHANGED <<status, money, behind>>

\* Mutant: the discount is left out of the total.
WriteGrossTotals(c) ==
  /\ At(c, "totals")
  /\ totals' = TotalsOf(calls[c].sum, 0)
  /\ behind' = calls[c].overtaken
  /\ calls' = [calls EXCEPT ![c] = Idle]
  /\ UNCHANGED <<status, lines, discount>>

WriteTotals(c) ==
  /\ At(c, "totals")
  /\ totals' = TotalsOf(calls[c].sum, calls[c].off)
  /\ behind' = calls[c].overtaken
  /\ calls' = [calls EXCEPT ![c] = Idle]
  /\ UNCHANGED <<status, lines, discount>>

-----------------------------------------------------------------------------
\* Status changes: read and test, then write.

\* POST /orders/:id/confirm needs a line.
RequestConfirm(c) ==
  /\ status # "ABSENT"
  /\ Live(lines) # {}
  /\ canTransition(status, "PENDING")
  /\ Accept(c, [Idle EXCEPT !.at = "status", !.next = "PENDING"])

\* PATCH /orders/:id/status, and checkout's CONFIRMED.
RequestStatus(c, next) ==
  /\ status # "ABSENT"
  /\ canTransition(status, next)
  /\ Accept(c, [Idle EXCEPT !.at = "status", !.next = next])

WriteStatus(c) ==
  /\ At(c, "status")
  /\ status' = calls[c].next
  /\ calls' = [calls EXCEPT ![c] = Idle]
  /\ UNCHANGED <<money, behind>>

-----------------------------------------------------------------------------
LineStep(c) ==
  \/ \E items \in BOOLEAN : PostOrder(c, items)
  \/ ReadMenu(c)
  \/ InsertOrder(c)
  \/ RequestAddItem(c)
  \/ InsertItem(c)
  \/ \E l \in Lines, next \in {"update", "delete"} : RequestItem(c, l, next)
  \/ ReadItem(c)
  \/ UpdateItem(c)
  \/ DeleteItem(c)

MoneyStep(c) ==
  \/ RequestDiscount(c)
  \/ ResolveDiscount(c)
  \/ WriteDiscount(c)
  \/ LogDiscount(c)
  \/ ReadDiscount(c)
  \/ SumLines(c)
  \/ WriteTotals(c)

StatusStep(c) ==
  \/ RequestConfirm(c)
  \/ \E next \in Targets : RequestStatus(c, next)
  \/ WriteStatus(c)

Next == \E c \in Calls : LineStep(c) \/ MoneyStep(c) \/ StatusStep(c) \/ Abandon(c)

Spec == Init /\ [][Next]_vars

-----------------------------------------------------------------------------
\* Properties, for requests that interleave and fail.

LineRecords ==
  [state : {"absent", "live", "deleted"}, price : Int, delta : Int, qty : Nat, total : Int]

CallRecords ==
  [at : {"idle", "menu", "insert", "item", "update", "delete", "resolve", "apply",
         "audit", "recalculate", "sum", "totals", "status"},
   line : Lines \cup {None}, unit : [price : Int, delta : Int], qty : Nat,
   off : Int, sum : Int,
   next : {"none", "create", "empty", "add", "update", "delete"} \cup OrderStatuses,
   overtaken : BOOLEAN]

TypeOK ==
  /\ status \in OrderStatuses \cup {"ABSENT"}
  /\ lines \in [Lines -> LineRecords]
  /\ discount \in Int
  /\ totals \in [subtotal : Int, tax : Int, total : Nat]
  /\ calls \in [Calls -> CallRecords]
  /\ behind \in BOOLEAN

\* Every line costs its own unit price and modifiers times its own quantity,
\* although updateItemQuantity writes a product of what it read earlier while
\* other requests change or delete the same line.
LinesPriced ==
  \A l \in Live(lines) :
    lines[l].total = (lines[l].price + lines[l].delta) * lines[l].qty

\* The price snapshot of a line never changes while the line exists, whatever
\* the menu does.
PriceSnapshot ==
  [][\A l \in Live(lines) \cap Live(lines') :
        /\ lines'[l].price = lines[l].price
        /\ lines'[l].delta = lines[l].delta]_vars

\* With no recalculation under way the stored totals are those of the lines
\* and the discount, unless the last recalculation was overtaken by another
\* request's write or a request died between its write and its recalculation:
\* those two are the only ways a stored total goes wrong, and the next
\* undisturbed recalculation repairs it.
TotalsExactUnlessBehind ==
  status # "ABSENT" /\ ~behind /\ (\A c \in Calls : ~Pending(c))
    => totals = TotalsOf(Subtotal(lines), discount)

\* The order left DRAFT and PENDING, and no request accepted before is still
\* about to edit it or to put back a status it read earlier.
Frozen ==
  /\ status \notin EDITABLE_STATUSES \cup {"ABSENT"}
  /\ \A c \in Calls : \/ calls[c] = Idle
                      \/ At(c, "status") /\ calls[c].next \notin EDITABLE_STATUSES

\* Such an order is never touched again: no request, alone or with others,
\* changes its money, is let in to do so, or reopens it by a status change.
FrozenOnceQuiet == [][Frozen => Frozen' /\ UNCHANGED money]_vars
=============================================================================
