------------------------- MODULE OrderTotalsProofs -------------------------
(***************************************************************************)
(* Proofs about OrderTotals, for any number of lines and of concurrent     *)
(* requests, any prices, modifiers, quantities, discounts and tax rate,    *)
(* failures included.  A request holds copies of what it read: the line it *)
(* is about to rewrite, the discount and the sum it is about to store.     *)
(* The invariant says which of those copies can still be trusted.          *)
(***************************************************************************)
EXTENDS OrderTotals, Folding

PendingPoints == {"audit", "recalculate", "sum", "totals"}

\* What a request remembers and may rely on.  The price snapshot it read is the
\* line's for as long as the line lives; the discount and the sum it read are
\* today's unless it was overtaken.
Sane(k) ==
  /\ k.at \in {"menu", "insert"} /\ k.next = "add" => status # "ABSENT"
  /\ k.at = "status" => k.next \in OrderStatuses /\ status # "ABSENT"
  /\ k.at \in {"item", "update", "delete"} => k.line \in Lines
  /\ k.at = "update" =>
       /\ lines[k.line].state # "absent"
       /\ lines[k.line].state = "live" =>
            k.unit = [price |-> lines[k.line].price, delta |-> lines[k.line].delta]
  /\ k.at = "sum" /\ ~k.overtaken => k.off = discount
  /\ k.at = "totals" /\ ~k.overtaken => k.off = discount /\ k.sum = Subtotal(lines)

NoLinesYet == status = "ABSENT" => \A l \in Lines : lines[l].state = "absent"

IInv ==
  /\ TypeOK /\ LinesPriced /\ TotalsExactUnlessBehind /\ NoLinesYet
  /\ \A c \in Calls : Sane(calls[c])

-----------------------------------------------------------------------------
\* The operators of the model.

\* The subtotal of well-typed lines is an integer.
LEMMA SubtotalType ==
  ASSUME NEW S \in [Lines -> LineRecords]
  PROVE  Subtotal(S) \in Int
<1> DEFINE T == Live(S)
<1>1. IsFiniteSet(T) /\ T \subseteq Lines
  BY FS_Subset, TotalsAssumption DEF Live
<1>2. PICK f : f = [l \in T |-> S[l].total]
  OBVIOUS
<1>3. \A l \in T : f[l] = S[l].total /\ f[l] \in Int
  BY <1>1, <1>2 DEF LineRecords
<1> HIDE DEF T
<1>4. PICK g \in [SUBSET T -> Int] : IsSum(f, T, g)
  BY <1>1, <1>3, SumExists
<1> DEFINE iter == CHOOSE it : it = [s \in SUBSET T |->
                     IF s = {} THEN 0 ELSE S[First(s)].total + it[s \ {First(s)}]]
<1>5. IsSum(f, T, iter)
  <2>1. \A s \in SUBSET T : s # {} => f[First(s)] = S[First(s)].total
    <3>1. \A s \in SUBSET T : s # {} => First(s) \in T
      BY FirstIn
    <3> QED
      BY <1>3, <3>1
  <2>2. g = [s \in SUBSET T |-> IF s = {} THEN 0 ELSE S[First(s)].total + g[s \ {First(s)}]]
    BY <1>4, <2>1 DEF IsSum
  <2>3. iter = [s \in SUBSET T |-> IF s = {} THEN 0 ELSE S[First(s)].total + iter[s \ {First(s)}]]
    BY <2>2
  <2> HIDE DEF iter
  <2> QED
    BY <2>1, <2>3 DEF IsSum
<1>6. Subtotal(S) = iter[T]
  BY DEF Subtotal, MapThenSumSet, MapThenFoldSet, First, T
<1> HIDE DEF iter
<1>7. iter = g
  BY <1>1, <1>4, <1>5, SumUnique
<1> QED
  BY <1>4, <1>6, <1>7

\* Math.round of an integer rate gives an integer; so do the totals, the last of
\* them kept at zero or above.
LEMMA TaxType == ASSUME NEW s \in Int PROVE Tax(s) \in Int
<1>1. TaxPercent \in Int
  BY TotalsAssumption
<1>2. 2 * s * TaxPercent + 100 \in Int
  BY <1>1
<1> QED
  BY <1>2 DEF Tax

\* The totals written are integers, the last of them never negative.
LEMMA TotalsType ==
  ASSUME NEW s \in Int, NEW off \in Int
  PROVE  TotalsOf(s, off) \in [subtotal : Int, tax : Int, total : Nat]
  BY TaxType DEF TotalsOf

\* A line's total is an integer, and a new line is priced.
LEMMA LineTotalType ==
  ASSUME NEW unit \in [price : Int, delta : Int], NEW q \in Nat
  PROVE  LineTotal(unit, q) \in Int
<1>1. unit.price + unit.delta \in Int /\ q \in Int
  OBVIOUS
<1> QED
  BY <1>1 DEF LineTotal

\* A new line is priced.
LEMMA NewLineType ==
  ASSUME NEW unit \in [price : Int, delta : Int], NEW q \in Nat
  PROVE  /\ NewLine(unit, q) \in LineRecords
         /\ NewLine(unit, q).state = "live"
         /\ NewLine(unit, q).total
              = (NewLine(unit, q).price + NewLine(unit, q).delta) * NewLine(unit, q).qty
<1>1. LineTotal(unit, q) \in Int
  BY LineTotalType
<1>2. LineTotal(unit, q) = (unit.price + unit.delta) * q
  BY DEF LineTotal
<1> QED
  BY <1>1, <1>2 DEF NewLine, LineRecords

\* The empty slot and the line not yet written are well typed.
LEMMA IdleSane == Idle \in CallRecords /\ Idle.at = "idle"
  BY DEF Idle, CallRecords

\* A line not yet written is well typed.
LEMMA NoLineType == NoLine \in LineRecords
  BY DEF NoLine, LineRecords

-----------------------------------------------------------------------------
\* The invariant holds before the order exists.
LEMMA InitIInv == Init => IInv
<1> SUFFICES ASSUME Init PROVE IInv
  OBVIOUS
<1>1. TypeOK
  <2>1. calls \in [Calls -> CallRecords]
    BY IdleSane DEF Init
  <2>2. lines \in [Lines -> LineRecords]
    BY DEF Init, NoLine, LineRecords
  <2>3. totals \in [subtotal : Int, tax : Int, total : Nat]
    BY DEF Init
  <2>4. status = "ABSENT" /\ discount \in Int
    BY DEF Init
  <2>5. behind \in BOOLEAN
    BY Zenon DEF Init
  <2> QED
    BY <2>1, <2>2, <2>3, <2>4, <2>5 DEF TypeOK, CallRecords, LineRecords
<1>2. Live(lines) = {}
  BY DEF Init, Live, NoLine
<1>3. LinesPriced
  BY <1>2 DEF LinesPriced
<1>4. TotalsExactUnlessBehind /\ NoLinesYet
  BY DEF Init, TotalsExactUnlessBehind, NoLinesYet, NoLine
<1>5. \A c \in Calls : Sane(calls[c])
  BY IdleSane DEF Init, Sane
<1> QED
  BY <1>1, <1>3, <1>4, <1>5 DEF IInv

\* One slot moves and nothing else: the rows keep their invariant if the slot's
\* new record is sane and it has not dropped a recalculation it owes.
LEMMA SlotStep ==
  ASSUME IInv, NEW c \in Calls, NEW k \in CallRecords, Sane(k),
         Pending(c) => k.at \in PendingPoints,
         calls' = [calls EXCEPT ![c] = k], UNCHANGED <<status, money, behind>>
  PROVE  IInv'
<1> USE DEF money
<1>1. TypeOK'
  BY DEF IInv, TypeOK, CallRecords
<1>2. LinesPriced' /\ NoLinesYet'
  BY DEF IInv, LinesPriced, NoLinesYet, Live
<1>3. \A d \in Calls : calls'[d] = IF d = c THEN k ELSE calls[d]
  BY DEF IInv, TypeOK
<1>4. TotalsExactUnlessBehind'
  <2>1. (\A d \in Calls : ~Pending(d)') => \A d \in Calls : ~Pending(d)
    BY <1>3 DEF Pending, PendingPoints
  <2> QED
    BY <2>1 DEF IInv, TotalsExactUnlessBehind
<1>5. \A d \in Calls : Sane(calls[d])'
  BY <1>3 DEF IInv, Sane
<1> QED
  BY <1>1, <1>2, <1>4, <1>5 DEF IInv

\* A committed change of lines or discount: every other request's copies of the
\* discount and the sum are overtaken, and its copy of a line is still good.
LEMMA OvertakeStep ==
  ASSUME IInv, NEW c \in Calls, NEW pc \in {"audit", "recalculate"}, Overtake(c, pc),
         UNCHANGED <<totals, behind>>,
         status' \in OrderStatuses \cup {"ABSENT"}, status # "ABSENT" => status' # "ABSENT",
         lines' \in [Lines -> LineRecords], discount' \in Int,
         LinesPriced', NoLinesYet',
         \A l \in Lines : lines[l].state # "absent" =>
           /\ lines'[l].state # "absent"
           /\ lines'[l].state = "live" =>
                /\ lines[l].state = "live"
                /\ lines'[l].price = lines[l].price /\ lines'[l].delta = lines[l].delta
  PROVE  IInv'
<1> DEFINE moved == [Idle EXCEPT !.at = pc]
<1>1. calls \in [Calls -> CallRecords]
  BY DEF IInv, TypeOK, CallRecords
<1>2. moved \in CallRecords /\ moved.at = pc /\ moved.line = None
  BY IdleSane DEF CallRecords, Idle
<1> HIDE DEF moved
<1>3. \A d \in Calls :
        calls'[d] = IF d = c THEN moved
                    ELSE IF calls[d].at \in {"sum", "totals"}
                         THEN [calls[d] EXCEPT !.overtaken = TRUE] ELSE calls[d]
  BY DEF Overtake, moved
<1>4. \A d \in Calls : [calls[d] EXCEPT !.overtaken = TRUE] \in CallRecords
  <2> TAKE d \in Calls
  <2>1. calls[d] \in CallRecords
    BY <1>1
  <2> HIDE <1>1
  <2> QED
    BY <2>1 DEF CallRecords
<1>5. calls' \in [Calls -> CallRecords]
  <2>1. \A d \in Calls : calls'[d] \in CallRecords
    BY <1>1, <1>2, <1>3, <1>4
  <2> QED
    BY <2>1 DEF Overtake
<1>6. TypeOK'
  BY <1>5 DEF IInv, TypeOK, CallRecords, LineRecords
<1>7. TotalsExactUnlessBehind'
  <2>1. Pending(c)'
    BY <1>2, <1>3 DEF Pending
  <2> QED
    BY <2>1 DEF TotalsExactUnlessBehind
<1>8. ASSUME NEW d \in Calls
      PROVE  Sane(calls[d])'
  <2>1. CASE d = c
    BY <1>2, <1>3, <2>1 DEF Sane
  <2>2. CASE d # c /\ calls[d].at \in {"sum", "totals"}
    <3>1. /\ calls'[d].at = calls[d].at /\ calls'[d].overtaken = TRUE
      BY <1>1, <1>3, <2>2 DEF CallRecords
    <3> QED
      BY <2>2, <3>1 DEF Sane
  <2>3. CASE d # c /\ calls[d].at \notin {"sum", "totals"}
    <3>1. calls'[d] = calls[d] /\ Sane(calls[d])
      BY <1>3, <2>3 DEF IInv
    <3> QED
      BY <2>3, <3>1 DEF Sane
  <2> QED
    BY <2>1, <2>2, <2>3
<1> QED
  BY <1>6, <1>7, <1>8 DEF IInv

-----------------------------------------------------------------------------
\* One step per action.  First the steps that move a slot and leave the rows.

\* The slots hold request records.
LEMMA ShapeOf == ASSUME IInv PROVE calls \in [Calls -> CallRecords]
  BY DEF IInv, TypeOK, CallRecords

\* A request is accepted by a free slot.
LEMMA AcceptStep ==
  ASSUME IInv, NEW c \in Calls, NEW k \in CallRecords, Sane(k), Accept(c, k)
  PROVE  IInv'
<1>1. ~Pending(c)
  BY IdleSane DEF Accept, Pending
<1> QED
  BY <1>1, SlotStep DEF Accept

\* POST /orders passes its first test.
LEMMA PostOrderStep ==
  ASSUME IInv, NEW c \in Calls, NEW items \in BOOLEAN, PostOrder(c, items)
  PROVE  IInv'
<1> DEFINE k == IF items THEN [Idle EXCEPT !.at = "menu", !.next = "create"]
                         ELSE [Idle EXCEPT !.at = "insert", !.next = "empty"]
<1>1. /\ [Idle EXCEPT !.at = "menu", !.next = "create"] \in CallRecords
      /\ [Idle EXCEPT !.at = "insert", !.next = "empty"] \in CallRecords
  BY IdleSane DEF CallRecords
<1>2. k \in CallRecords /\ k.at \in {"menu", "insert"} /\ k.next \in {"create", "empty"}
  BY <1>1, IdleSane DEF CallRecords
<1>3. Accept(c, k)
  BY DEF PostOrder
<1> HIDE DEF k
<1>4. Sane(k)
  BY <1>2 DEF Sane
<1> QED
  BY <1>2, <1>3, <1>4, AcceptStep

\* POST /orders/:id/items passes its status test.
LEMMA RequestAddItemStep ==
  ASSUME IInv, NEW c \in Calls, RequestAddItem(c)
  PROVE  IInv'
<1> DEFINE k == [Idle EXCEPT !.at = "menu", !.next = "add"]
<1>1. k \in CallRecords /\ k.at = "menu"
  BY IdleSane DEF CallRecords
<1>2. Accept(c, k) /\ status # "ABSENT"
  BY DEF RequestAddItem, Editable, EDITABLE_STATUSES
<1> HIDE DEF k
<1>3. Sane(k)
  BY <1>1, <1>2 DEF Sane
<1> QED
  BY <1>1, <1>2, <1>3, AcceptStep

\* PATCH and DELETE on a line pass their status test.
LEMMA RequestItemStep ==
  ASSUME IInv, NEW c \in Calls, NEW l \in Lines, NEW next \in {"update", "delete"},
         RequestItem(c, l, next)
  PROVE  IInv'
<1> DEFINE k == [Idle EXCEPT !.at = "item", !.line = l, !.next = next]
<1>1. k \in CallRecords /\ k.at = "item" /\ k.line = l
  BY IdleSane DEF CallRecords
<1>2. Accept(c, k)
  BY DEF RequestItem
<1> HIDE DEF k
<1>3. Sane(k)
  BY <1>1 DEF Sane
<1> QED
  BY <1>1, <1>2, <1>3, AcceptStep

\* PATCH /orders/:id/discount passes its status test.
LEMMA RequestDiscountStep ==
  ASSUME IInv, NEW c \in Calls, RequestDiscount(c)
  PROVE  IInv'
<1> DEFINE k == [Idle EXCEPT !.at = "resolve"]
<1>1. k \in CallRecords /\ k.at = "resolve"
  BY IdleSane DEF CallRecords
<1>2. Accept(c, k)
  BY DEF RequestDiscount
<1> HIDE DEF k
<1>3. Sane(k)
  BY <1>1 DEF Sane
<1> QED
  BY <1>1, <1>2, <1>3, AcceptStep

\* POST /orders/:id/confirm passes its tests.
LEMMA RequestConfirmStep ==
  ASSUME IInv, NEW c \in Calls, RequestConfirm(c)
  PROVE  IInv'
<1> DEFINE k == [Idle EXCEPT !.at = "status", !.next = "PENDING"]
<1>1. k \in CallRecords /\ k.at = "status" /\ k.next = "PENDING"
  BY IdleSane DEF CallRecords, OrderStatuses
<1>2. Accept(c, k) /\ status # "ABSENT"
  BY DEF RequestConfirm
<1> HIDE DEF k
<1>3. Sane(k)
  BY <1>1, <1>2 DEF Sane, OrderStatuses
<1> QED
  BY <1>1, <1>2, <1>3, AcceptStep

\* PATCH /orders/:id/status passes the transition test.
LEMMA RequestStatusStep ==
  ASSUME IInv, NEW c \in Calls, NEW next \in Targets, RequestStatus(c, next)
  PROVE  IInv'
<1> DEFINE k == [Idle EXCEPT !.at = "status", !.next = next]
<1>1. next \in OrderStatuses
  BY TotalsAssumption
<1>2. k \in CallRecords /\ k.at = "status" /\ k.next = next
  BY <1>1, IdleSane DEF CallRecords
<1>3. Accept(c, k) /\ status # "ABSENT"
  BY DEF RequestStatus
<1> HIDE DEF k
<1>4. Sane(k)
  BY <1>1, <1>2, <1>3 DEF Sane
<1> QED
  BY <1>2, <1>3, <1>4, AcceptStep

\* The menu item and its modifiers are read.
LEMMA ReadMenuStep ==
  ASSUME IInv, NEW c \in Calls, ReadMenu(c)
  PROVE  IInv'
<1>1. PICK price \in Prices, delta \in Deltas :
        calls' = [calls EXCEPT ![c].at = "insert",
                               ![c].unit = [price |-> price, delta |-> delta]]
  BY DEF ReadMenu
<1> DEFINE k == [calls[c] EXCEPT !.at = "insert", !.unit = [price |-> price, delta |-> delta]]
<1>2. price \in Int /\ delta \in Int
  BY TotalsAssumption
<1>3. calls[c] \in CallRecords /\ calls[c].at = "menu" /\ Sane(calls[c])
  BY ShapeOf DEF ReadMenu, At, IInv
<1>4. k \in CallRecords /\ Sane(k)
  BY <1>2, <1>3 DEF CallRecords, Sane
<1>5. calls' = [calls EXCEPT ![c] = k] /\ ~Pending(c)
  BY <1>1, <1>3, ShapeOf DEF CallRecords, Pending
<1> HIDE DEF k
<1> QED
  BY <1>4, <1>5, SlotStep DEF ReadMenu

\* The line is read: from here its price is remembered.
LEMMA ReadItemStep ==
  ASSUME IInv, NEW c \in Calls, ReadItem(c)
  PROVE  IInv'
<1> DEFINE line == lines[calls[c].line]
<1>1. /\ calls[c] \in CallRecords /\ calls[c].at = "item" /\ calls[c].line \in Lines
      /\ line \in LineRecords /\ line.state = "live" /\ ~Pending(c)
  BY ShapeOf DEF ReadItem, At, IInv, Sane, TypeOK, LineRecords, Pending
<1>2. CASE calls[c].next = "delete" /\ Goto(c, "delete")
  <2> DEFINE k == [calls[c] EXCEPT !.at = "delete"]
  <2>1. k \in CallRecords /\ Sane(k)
    BY <1>1 DEF CallRecords, Sane
  <2>2. calls' = [calls EXCEPT ![c] = k]
    BY <1>2 DEF Goto
  <2> HIDE DEF k
  <2> QED
    BY <1>1, <2>1, <2>2, SlotStep DEF ReadItem
<1>3. ASSUME NEW q \in Quantities \cup {line.qty},
             calls' = [calls EXCEPT ![c].at = "update", ![c].qty = q,
                         ![c].unit = [price |-> line.price, delta |-> line.delta]]
      PROVE  IInv'
  <2> DEFINE k == [calls[c] EXCEPT !.at = "update", !.qty = q,
                     !.unit = [price |-> line.price, delta |-> line.delta]]
  <2>1. q \in Nat
    BY <1>1, TotalsAssumption DEF LineRecords
  <2>2. k \in CallRecords
    BY <1>1, <2>1 DEF CallRecords, LineRecords
  <2>3. k.at = "update" /\ k.line = calls[c].line /\ k.unit = [price |-> line.price, delta |-> line.delta]
    BY <1>1 DEF CallRecords
  <2>4. calls' = [calls EXCEPT ![c] = k]
    BY <1>3
  <2> HIDE DEF k
  <2>5. Sane(k)
    BY <1>1, <2>3 DEF Sane
  <2> QED
    BY <1>1, <2>2, <2>4, <2>5, SlotStep DEF ReadItem
<1> QED
  BY <1>2, <1>3 DEF ReadItem

\* The discount is resolved against the subtotal of the moment.
LEMMA ResolveDiscountStep ==
  ASSUME IInv, NEW c \in Calls, ResolveDiscount(c)
  PROVE  IInv'
<1>1. PICK d \in Discounts :
        calls' = [calls EXCEPT ![c].at = "apply", ![c].off = Resolved(d, Subtotal(lines))]
  BY DEF ResolveDiscount
<1>2. PICK s \in Int : s = Subtotal(lines)
  BY SubtotalType DEF IInv, TypeOK, LineRecords
<1>3. Resolved(d, s) \in Int
  <2>1. d.value \in Int
    BY TotalsAssumption
  <2>2. s * d.value \in Int
    BY <2>1
  <2> QED
    BY <2>1, <2>2 DEF Resolved
<1> DEFINE k == [calls[c] EXCEPT !.at = "apply", !.off = Resolved(d, s)]
<1>4. calls[c] \in CallRecords /\ calls[c].at = "resolve"
  BY ShapeOf DEF ResolveDiscount, At
<1>5. k \in CallRecords /\ Sane(k)
  BY <1>3, <1>4 DEF CallRecords, Sane
<1>6. calls' = [calls EXCEPT ![c] = k] /\ ~Pending(c)
  BY <1>1, <1>2, <1>4 DEF Pending
<1> HIDE DEF k
<1> QED
  BY <1>5, <1>6, SlotStep DEF ResolveDiscount

\* The audit row is written; the recalculation is still owed.
LEMMA LogDiscountStep ==
  ASSUME IInv, NEW c \in Calls, LogDiscount(c)
  PROVE  IInv'
<1> DEFINE k == [calls[c] EXCEPT !.at = "recalculate"]
<1>1. k \in CallRecords /\ k.at = "recalculate" /\ Sane(k)
  BY ShapeOf DEF CallRecords, Sane
<1>2. calls' = [calls EXCEPT ![c] = k] /\ k.at \in PendingPoints
  BY <1>1 DEF LogDiscount, Goto, PendingPoints
<1> HIDE DEF k
<1> QED
  BY <1>1, <1>2, SlotStep DEF LogDiscount

\* recalculateTotals reads the discount: the copy is current.
LEMMA ReadDiscountStep ==
  ASSUME IInv, NEW c \in Calls, ReadDiscount(c)
  PROVE  IInv'
<1> DEFINE k == [calls[c] EXCEPT !.at = "sum", !.off = discount, !.overtaken = FALSE]
<1>1. discount \in Int
  BY DEF IInv, TypeOK
<1>2. k \in CallRecords /\ k.at = "sum" /\ Sane(k)
  BY <1>1, ShapeOf, ZenonT(60) DEF CallRecords, Sane
<1>3. calls' = [calls EXCEPT ![c] = k] /\ k.at \in PendingPoints
  BY <1>2 DEF ReadDiscount, PendingPoints
<1> HIDE DEF k
<1> QED
  BY <1>2, <1>3, SlotStep DEF ReadDiscount

\* recalculateTotals sums the lines: unless overtaken both copies are current.
LEMMA SumLinesStep ==
  ASSUME IInv, NEW c \in Calls, SumLines(c)
  PROVE  IInv'
<1>1. PICK s \in Int : s = Subtotal(lines)
  BY SubtotalType DEF IInv, TypeOK, LineRecords
<1> DEFINE k == [calls[c] EXCEPT !.at = "totals", !.sum = s]
<1>2. calls[c] \in CallRecords /\ calls[c].at = "sum" /\ Sane(calls[c])
  BY ShapeOf DEF SumLines, At, IInv
<1>3. k \in CallRecords /\ k.at = "totals" /\ Sane(k)
  BY <1>1, <1>2 DEF CallRecords, Sane
<1>4. calls' = [calls EXCEPT ![c] = k] /\ k.at \in PendingPoints
  BY <1>1, <1>3 DEF SumLines, PendingPoints
<1> HIDE DEF k
<1> QED
  BY <1>3, <1>4, SlotStep DEF SumLines

-----------------------------------------------------------------------------
\* The steps that write a row.

\* A line written where there was none leaves every line priced.
LEMMA InsertLine ==
  ASSUME IInv, NEW c \in Calls, NEW l \in Lines, lines[l].state = "absent",
         NEW q \in Quantities, lines' = [lines EXCEPT ![l] = NewLine(calls[c].unit, q)]
  PROVE  /\ lines' \in [Lines -> LineRecords]
         /\ LinesPriced'
         /\ \A m \in Lines : m # l => lines'[m] = lines[m]
<1>1. calls[c].unit \in [price : Int, delta : Int] /\ q \in Nat
  BY ShapeOf, TotalsAssumption DEF CallRecords
<1>2. PICK new \in LineRecords : /\ new = NewLine(calls[c].unit, q)
                                /\ new.total = (new.price + new.delta) * new.qty
  BY <1>1, NewLineType
<1>3. lines \in [Lines -> LineRecords] /\ lines' = [lines EXCEPT ![l] = new]
  BY <1>2 DEF IInv, TypeOK, LineRecords
<1>4. lines' \in [Lines -> LineRecords] /\ \A m \in Lines : lines'[m] = IF m = l THEN new ELSE lines[m]
  BY <1>3
<1>5. LinesPriced'
  <2> SUFFICES ASSUME NEW m \in Live(lines')
               PROVE  lines'[m].total = (lines'[m].price + lines'[m].delta) * lines'[m].qty
    BY DEF LinesPriced
  <2>1. m \in Lines /\ lines'[m].state = "live"
    BY <1>4 DEF Live
  <2>2. CASE m = l
    BY <1>2, <1>4, <2>1, <2>2
  <2>3. CASE m # l
    <3>1. m \in Live(lines) /\ lines'[m] = lines[m]
      BY <1>3, <1>4, <2>1, <2>3 DEF Live
    <3> QED
      BY <3>1 DEF IInv, LinesPriced
  <2> QED
    BY <2>2, <2>3
<1> QED
  BY <1>4, <1>5

\* The order row is inserted, with or without a line.
LEMMA InsertOrderStep ==
  ASSUME IInv, NEW c \in Calls, InsertOrder(c)
  PROVE  IInv'
<1>1. /\ lines' \in [Lines -> LineRecords] /\ LinesPriced'
      /\ \A l \in Lines : lines[l].state = "absent"
  <2>1. \A l \in Lines : lines[l].state = "absent"
    BY DEF InsertOrder, IInv, NoLinesYet
  <2>2. CASE calls[c].next = "create"
    BY <2>1, <2>2, InsertLine DEF InsertOrder
  <2>3. CASE calls[c].next # "create"
    BY <2>1, <2>3 DEF InsertOrder, IInv, TypeOK, LineRecords, LinesPriced, Live
  <2> QED
    BY <2>1, <2>2, <2>3
<1>2. status' = "DRAFT" /\ status' \in OrderStatuses /\ discount' \in Int /\ NoLinesYet'
  BY DEF InsertOrder, IInv, TypeOK, OrderStatuses, NoLinesYet
<1> QED
  BY <1>1, <1>2, OvertakeStep DEF InsertOrder

\* A line is inserted into an order that exists.
LEMMA InsertItemStep ==
  ASSUME IInv, NEW c \in Calls, InsertItem(c)
  PROVE  IInv'
<1>1. status # "ABSENT"
  BY DEF InsertItem, At, IInv, Sane
<1>2. PICK l \in Lines, q \in Quantities :
        lines[l].state = "absent" /\ lines' = [lines EXCEPT ![l] = NewLine(calls[c].unit, q)]
  BY DEF InsertItem
<1>3. /\ lines' \in [Lines -> LineRecords] /\ LinesPriced'
      /\ \A m \in Lines : m # l => lines'[m] = lines[m]
  BY <1>2, InsertLine
<1>4. /\ status' \in OrderStatuses \cup {"ABSENT"} /\ status' # "ABSENT"
      /\ discount' \in Int /\ NoLinesYet'
  BY <1>1 DEF InsertItem, IInv, TypeOK, NoLinesYet
<1> QED
  BY <1>2, <1>3, <1>4, OvertakeStep DEF InsertItem

\* Quantity and line total are written from the line as it was read: a line
\* still live has kept the price that was read.
LEMMA UpdateItemStep ==
  ASSUME IInv, NEW c \in Calls, UpdateItem(c)
  PROVE  IInv'
<1>1. PICK l \in Lines : l = calls[c].line
  BY DEF UpdateItem, At, IInv, Sane
<1>2. PICK q \in Nat : q = calls[c].qty
  BY ShapeOf DEF CallRecords
<1>3. PICK unit \in [price : Int, delta : Int] : unit = calls[c].unit
  BY ShapeOf DEF CallRecords
<1>4. PICK total \in Int : total = LineTotal(unit, q) /\ total = (unit.price + unit.delta) * q
  BY LineTotalType DEF LineTotal
<1>5. lines \in [Lines -> LineRecords]
  BY DEF IInv, TypeOK, LineRecords
<1>6. lines' = [lines EXCEPT ![l].qty = q, ![l].total = total]
  BY <1>1, <1>2, <1>3, <1>4 DEF UpdateItem
<1>7. /\ lines' \in [Lines -> LineRecords]
      /\ \A m \in Lines : m # l => lines'[m] = lines[m]
      /\ lines'[l].state = lines[l].state /\ lines'[l].price = lines[l].price
      /\ lines'[l].delta = lines[l].delta /\ lines'[l].qty = q /\ lines'[l].total = total
  BY <1>5, <1>6 DEF LineRecords
<1>8. unit.price = lines[l].price /\ unit.delta = lines[l].delta /\ lines[l].state = "live"
  <2>1. calls[c].at = "update" /\ Sane(calls[c]) /\ lines[l].state = "live"
    BY <1>1 DEF UpdateItem, At, IInv
  <2>2. unit = [price |-> lines[l].price, delta |-> lines[l].delta]
    BY <1>1, <1>3, <2>1 DEF Sane
  <2> QED
    BY <2>1, <2>2
<1>9. LinesPriced'
  <2> SUFFICES ASSUME NEW m \in Live(lines')
               PROVE  lines'[m].total = (lines'[m].price + lines'[m].delta) * lines'[m].qty
    BY DEF LinesPriced
  <2>1. m \in Lines /\ lines'[m].state = "live"
    BY <1>7 DEF Live
  <2>2. CASE m = l
    BY <1>4, <1>7, <1>8, <2>2
  <2>3. CASE m # l
    <3>1. m \in Live(lines) /\ lines'[m] = lines[m]
      BY <1>5, <1>7, <2>1, <2>3 DEF Live
    <3> QED
      BY <3>1 DEF IInv, LinesPriced
  <2> QED
    BY <2>2, <2>3
<1>10. /\ status' \in OrderStatuses \cup {"ABSENT"} /\ status' = status
       /\ discount' \in Int /\ NoLinesYet'
  BY <1>7, <1>8 DEF UpdateItem, IInv, TypeOK, NoLinesYet
<1> QED
  BY <1>7, <1>8, <1>9, <1>10, OvertakeStep DEF UpdateItem

\* A line is deleted, for good.
LEMMA DeleteItemStep ==
  ASSUME IInv, NEW c \in Calls, DeleteItem(c)
  PROVE  IInv'
<1>1. PICK l \in Lines : l = calls[c].line
  BY DEF DeleteItem, At, IInv, Sane
<1>2. PICK gone \in LineRecords : gone = [NoLine EXCEPT !.state = "deleted"] /\ gone.state = "deleted"
  <2>1. [NoLine EXCEPT !.state = "deleted"] \in LineRecords
    BY NoLineType DEF LineRecords
  <2>2. [NoLine EXCEPT !.state = "deleted"].state = "deleted"
    BY NoLineType DEF LineRecords
  <2> QED
    BY <2>1, <2>2
<1>3. lines \in [Lines -> LineRecords] /\ lines' = [lines EXCEPT ![l] = gone]
  BY <1>1, <1>2 DEF DeleteItem, IInv, TypeOK, LineRecords
<1>4. /\ lines' \in [Lines -> LineRecords]
      /\ \A m \in Lines : lines'[m] = IF m = l THEN gone ELSE lines[m]
  BY <1>3
<1>5. LinesPriced'
  <2> SUFFICES ASSUME NEW m \in Live(lines')
               PROVE  lines'[m].total = (lines'[m].price + lines'[m].delta) * lines'[m].qty
    BY DEF LinesPriced
  <2>1. m \in Live(lines) /\ lines'[m] = lines[m]
    BY <1>2, <1>3, <1>4 DEF Live
  <2> QED
    BY <2>1 DEF IInv, LinesPriced
<1>6. lines[l].state = "live"
  BY <1>1 DEF DeleteItem
<1>7. /\ status' \in OrderStatuses \cup {"ABSENT"} /\ status' = status
      /\ discount' \in Int /\ NoLinesYet'
  BY <1>6 DEF DeleteItem, IInv, TypeOK, NoLinesYet
<1> QED
  BY <1>2, <1>4, <1>5, <1>7, OvertakeStep DEF DeleteItem

\* The discount is written.
LEMMA WriteDiscountStep ==
  ASSUME IInv, NEW c \in Calls, WriteDiscount(c)
  PROVE  IInv'
<1>1. discount' \in Int
  BY ShapeOf DEF WriteDiscount, CallRecords
<1>2. lines' = lines /\ lines' \in [Lines -> LineRecords] /\ LinesPriced' /\ NoLinesYet'
  BY DEF WriteDiscount, IInv, TypeOK, LineRecords, LinesPriced, Live, NoLinesYet
<1>3. status' \in OrderStatuses \cup {"ABSENT"} /\ status' = status
  BY DEF WriteDiscount, IInv, TypeOK
<1> QED
  BY <1>1, <1>2, <1>3, OvertakeStep DEF WriteDiscount

\* The other slots and the lines, when one slot ends its request.
LEMMA EndStep ==
  ASSUME IInv, NEW c \in Calls, calls' = [calls EXCEPT ![c] = Idle],
         UNCHANGED <<lines, discount>>, status' \in OrderStatuses \cup {"ABSENT"},
         (status = "ABSENT") <=> (status' = "ABSENT"),
         totals' \in [subtotal : Int, tax : Int, total : Nat], behind' \in BOOLEAN,
         TotalsExactUnlessBehind'
  PROVE  IInv'
<1>1. calls' \in [Calls -> CallRecords] /\ \A d \in Calls : calls'[d] = IF d = c THEN Idle ELSE calls[d]
  BY ShapeOf, IdleSane
<1>2. TypeOK'
  BY <1>1 DEF IInv, TypeOK, CallRecords
<1>3. LinesPriced' /\ NoLinesYet'
  BY DEF IInv, LinesPriced, Live, NoLinesYet
<1>4. \A d \in Calls : Sane(calls[d])'
  BY <1>1, IdleSane DEF IInv, Sane
<1> QED
  BY <1>2, <1>3, <1>4 DEF IInv

\* The totals are written: not overtaken, they are those of the lines and the
\* discount.
LEMMA WriteTotalsStep ==
  ASSUME IInv, NEW c \in Calls, WriteTotals(c)
  PROVE  IInv'
<1>1. calls[c].sum \in Int /\ calls[c].off \in Int /\ calls[c].overtaken \in BOOLEAN
  BY ShapeOf DEF CallRecords
<1>2. totals' \in [subtotal : Int, tax : Int, total : Nat] /\ behind' \in BOOLEAN
  BY <1>1, TotalsType DEF WriteTotals
<1>3. TotalsExactUnlessBehind'
  <2> SUFFICES ASSUME ~behind'
               PROVE  totals' = TotalsOf(Subtotal(lines'), discount')
    BY DEF TotalsExactUnlessBehind
  <2>1. calls[c].off = discount /\ calls[c].sum = Subtotal(lines)
    BY DEF WriteTotals, At, IInv, Sane
  <2> QED
    BY <2>1 DEF WriteTotals
<1>4. status' = status /\ status' \in OrderStatuses \cup {"ABSENT"}
  BY DEF WriteTotals, IInv, TypeOK
<1> QED
  BY <1>2, <1>3, <1>4, EndStep DEF WriteTotals

\* A status read and tested before is written.
LEMMA WriteStatusStep ==
  ASSUME IInv, NEW c \in Calls, WriteStatus(c)
  PROVE  IInv'
<1> USE DEF money
<1>1. ~Pending(c) /\ calls[c].next \in OrderStatuses /\ status # "ABSENT"
  BY DEF WriteStatus, At, IInv, Sane, Pending
<1>2. status' \in OrderStatuses /\ status' # "ABSENT"
  BY <1>1 DEF WriteStatus, OrderStatuses
<1>3. TotalsExactUnlessBehind'
  <2>1. (\A d \in Calls : ~Pending(d)') => \A d \in Calls : ~Pending(d)
    BY <1>1, ShapeOf DEF WriteStatus, Pending
  <2> QED
    BY <1>1, <2>1 DEF WriteStatus, IInv, TotalsExactUnlessBehind
<1>4. totals' \in [subtotal : Int, tax : Int, total : Nat] /\ behind' \in BOOLEAN
  BY DEF WriteStatus, IInv, TypeOK
<1> QED
  BY <1>1, <1>2, <1>3, <1>4, EndStep DEF WriteStatus

\* A request ends early; if it owed a recalculation, behind records it.
LEMMA AbandonStep ==
  ASSUME IInv, NEW c \in Calls, Abandon(c)
  PROVE  IInv'
<1> USE DEF money
<1>1. TotalsExactUnlessBehind'
  <2>1. ~behind' => ~behind /\ ~Pending(c)
    BY DEF Abandon
  <2>2. ~Pending(c) /\ (\A d \in Calls : ~Pending(d)') => \A d \in Calls : ~Pending(d)
    BY ShapeOf DEF Abandon, Pending
  <2> QED
    BY <2>1, <2>2 DEF Abandon, IInv, TotalsExactUnlessBehind
<1>2. behind' \in BOOLEAN
  BY DEF Abandon, IInv, TypeOK, Pending
<1>3. /\ totals' \in [subtotal : Int, tax : Int, total : Nat]
      /\ status' = status /\ status' \in OrderStatuses \cup {"ABSENT"}
  BY DEF Abandon, IInv, TypeOK
<1> QED
  BY <1>1, <1>2, <1>3, EndStep DEF Abandon

\* Every step preserves the invariant.
LEMMA NextStep == ASSUME IInv, [Next]_vars PROVE IInv'
<1>1. CASE UNCHANGED vars
  BY <1>1 DEF vars, IInv, TypeOK, LinesPriced, TotalsExactUnlessBehind, NoLinesYet, Sane,
              Live, Pending
<1>2. ASSUME NEW c \in Calls, LineStep(c)
      PROVE  IInv'
  BY <1>2, PostOrderStep, ReadMenuStep, InsertOrderStep, RequestAddItemStep, InsertItemStep,
     RequestItemStep, ReadItemStep, UpdateItemStep, DeleteItemStep DEF LineStep
<1>3. ASSUME NEW c \in Calls, MoneyStep(c)
      PROVE  IInv'
  BY <1>3, RequestDiscountStep, ResolveDiscountStep, WriteDiscountStep, LogDiscountStep,
     ReadDiscountStep, SumLinesStep, WriteTotalsStep DEF MoneyStep
<1>4. ASSUME NEW c \in Calls, StatusStep(c) \/ Abandon(c)
      PROVE  IInv'
  BY <1>4, RequestConfirmStep, RequestStatusStep, WriteStatusStep, AbandonStep DEF StatusStep
<1> QED
  BY <1>1, <1>2, <1>3, <1>4 DEF Next

\* The invariant always holds.
THEOREM Invariance == Spec => []IInv
  BY InitIInv, NextStep, PTL DEF Spec

\* Every variable keeps its type; in particular the subtotal of any set of lines
\* and the total after any discount are integers, the total never negative.
THEOREM TypeCorrect == Spec => []TypeOK
<1>1. IInv => TypeOK
  BY DEF IInv
<1> QED
  BY <1>1, Invariance, PTL

\* Every live line costs its own unit price and modifiers times its own quantity
\* (LinesPriced), although updateItemQuantity multiplies what it read earlier.
THEOREM EveryLinePriced == Spec => []LinesPriced
<1>1. IInv => LinesPriced
  BY DEF IInv
<1> QED
  BY <1>1, Invariance, PTL

\* The stored totals are those of the lines and the discount, unless the last
\* recalculation was overtaken or a request died before its own
\* (TotalsExactUnlessBehind).
THEOREM TotalsExact == Spec => []TotalsExactUnlessBehind
<1>1. IInv => TotalsExactUnlessBehind
  BY DEF IInv
<1> QED
  BY <1>1, Invariance, PTL

-----------------------------------------------------------------------------
\* Action properties.

\* PriceSnapshot of one step.
SnapshotKept ==
  \A l \in Live(lines) \cap Live(lines') :
    /\ lines'[l].price = lines[l].price
    /\ lines'[l].delta = lines[l].delta

\* One step keeps the price of every line that lives through it.
LEMMA SnapshotStep == ASSUME IInv, [Next]_vars PROVE SnapshotKept
<1>1. CASE UNCHANGED lines
  BY <1>1 DEF SnapshotKept
<1>2. ASSUME NEW c \in Calls, InsertOrder(c)
      PROVE  SnapshotKept
  <2>1. Live(lines) = {}
    BY <1>2 DEF InsertOrder, IInv, NoLinesYet, TypeOK, Live
  <2> QED
    BY <2>1 DEF SnapshotKept
<1>3. ASSUME NEW c \in Calls, InsertItem(c)
      PROVE  SnapshotKept
  <2>1. PICK l \in Lines, q \in Quantities :
          lines[l].state = "absent" /\ lines' = [lines EXCEPT ![l] = NewLine(calls[c].unit, q)]
    BY <1>3 DEF InsertItem
  <2>2. \A m \in Live(lines) : m \in Lines /\ m # l /\ lines'[m] = lines[m]
    BY <2>1 DEF IInv, TypeOK, Live
  <2> QED
    BY <2>2 DEF SnapshotKept
<1>4. ASSUME NEW c \in Calls, UpdateItem(c)
      PROVE  SnapshotKept
  <2>1. /\ calls[c].line \in Lines
        /\ lines' = [lines EXCEPT ![calls[c].line].qty = calls[c].qty,
                       ![calls[c].line].total = LineTotal(calls[c].unit, calls[c].qty)]
    BY <1>4 DEF UpdateItem, At, IInv, Sane
  <2>2. \A m \in Lines : lines'[m].price = lines[m].price /\ lines'[m].delta = lines[m].delta
    BY <2>1 DEF IInv, TypeOK
  <2>3. Live(lines) \subseteq Lines
    BY DEF IInv, TypeOK, Live
  <2> QED
    BY <2>2, <2>3 DEF SnapshotKept
<1>5. ASSUME NEW c \in Calls, DeleteItem(c)
      PROVE  SnapshotKept
  <2>1. PICK l \in Lines : lines' = [lines EXCEPT ![l] = [NoLine EXCEPT !.state = "deleted"]]
    BY <1>5 DEF DeleteItem, At, IInv, Sane
  <2>2. lines'[l].state = "deleted" /\ \A m \in Lines : m # l => lines'[m] = lines[m]
    BY <2>1, NoLineType DEF IInv, TypeOK, LineRecords
  <2>3. Live(lines) \subseteq Lines /\ l \notin Live(lines')
    BY <2>2 DEF IInv, TypeOK, Live
  <2> QED
    BY <2>2, <2>3 DEF SnapshotKept
<1> QED
  BY <1>1, <1>2, <1>3, <1>4, <1>5 DEF Next, LineStep, MoneyStep, StatusStep, vars, money,
     PostOrder, Accept, ReadMenu, RequestAddItem, RequestItem, ReadItem, RequestDiscount,
     ResolveDiscount, WriteDiscount, LogDiscount, ReadDiscount, SumLines, WriteTotals,
     RequestConfirm, RequestStatus, WriteStatus, Abandon

\* The price snapshot of a line never changes while the line exists
\* (PriceSnapshot).
THEOREM SnapshotNeverChanges == Spec => PriceSnapshot
<1>1. IInv /\ [Next]_vars => SnapshotKept
  BY SnapshotStep
<1> QED
  BY <1>1, Invariance, PTL DEF Spec, PriceSnapshot, SnapshotKept

\* Statuses past PENDING lead only to statuses past PENDING.
LEMMA NoWayBack ==
  ASSUME NEW s \in OrderStatuses \ EDITABLE_STATUSES, NEW t, canTransition(s, t)
  PROVE  t \in OrderStatuses \ EDITABLE_STATUSES
  BY DEF OrderStatuses, EDITABLE_STATUSES, canTransition, ORDER_STATUS_TRANSITIONS

\* One step leaves a frozen order frozen and its money as it is.
LEMMA FrozenStep ==
  ASSUME IInv, Frozen, [Next]_vars
  PROVE  Frozen' /\ UNCHANGED money
<1>1. status \in OrderStatuses \ EDITABLE_STATUSES
  BY DEF IInv, TypeOK, Frozen
<1>2. CASE UNCHANGED vars
  BY <1>2 DEF vars, money, Frozen, At
<1>3. ASSUME NEW c \in Calls
      PROVE  calls[c].at \in {"idle", "status"}
  BY IdleSane DEF Frozen, At
<1>4. ASSUME NEW c \in Calls
      PROVE  ~LineStep(c) /\ ~MoneyStep(c)
  <2>1. status # "ABSENT" /\ ~Editable
    BY <1>1 DEF Editable, OrderStatuses
  <2> QED
    BY <1>3, <2>1 DEF LineStep, MoneyStep, PostOrder, ReadMenu, InsertOrder, RequestAddItem,
       InsertItem, RequestItem, ReadItem, UpdateItem, DeleteItem, RequestDiscount,
       ResolveDiscount, WriteDiscount, LogDiscount, ReadDiscount, SumLines, WriteTotals, At
<1>5. ASSUME NEW c \in Calls, NEW next, canTransition(status, next),
             Accept(c, [Idle EXCEPT !.at = "status", !.next = next])
      PROVE  Frozen' /\ UNCHANGED money
  <2> DEFINE k == [Idle EXCEPT !.at = "status", !.next = next]
  <2>1. k.at = "status" /\ k.next = next /\ next \notin EDITABLE_STATUSES
    BY <1>1, <1>5, NoWayBack, IdleSane DEF CallRecords
  <2>2. calls' = [calls EXCEPT ![c] = k] /\ status' = status /\ UNCHANGED money
    BY <1>5 DEF Accept
  <2> HIDE DEF k
  <2>3. \A d \in Calls : calls'[d] = IF d = c THEN k ELSE calls[d]
    BY <2>2, ShapeOf
  <2> QED
    BY <2>1, <2>2, <2>3 DEF Frozen, At
<1>6. ASSUME NEW c \in Calls, WriteStatus(c)
      PROVE  Frozen' /\ UNCHANGED money
  <2>1. status' \in OrderStatuses \ EDITABLE_STATUSES
    BY <1>6, IdleSane DEF WriteStatus, At, IInv, Sane, Frozen
  <2>2. calls' = [calls EXCEPT ![c] = Idle] /\ UNCHANGED money
    BY <1>6 DEF WriteStatus
  <2>3. \A d \in Calls : calls'[d] = IF d = c THEN Idle ELSE calls[d]
    BY <2>2, ShapeOf
  <2> QED
    BY <2>1, <2>2, <2>3 DEF Frozen, At, OrderStatuses
<1>7. ASSUME NEW c \in Calls, Abandon(c)
      PROVE  Frozen' /\ UNCHANGED money
  <2>1. calls' = [calls EXCEPT ![c] = Idle] /\ status' = status /\ UNCHANGED money
    BY <1>7 DEF Abandon
  <2>2. \A d \in Calls : calls'[d] = IF d = c THEN Idle ELSE calls[d]
    BY <2>1, ShapeOf
  <2> QED
    BY <2>1, <2>2 DEF Frozen, At
<1> QED
  BY <1>2, <1>4, <1>5, <1>6, <1>7 DEF Next, StatusStep, RequestConfirm, RequestStatus

\* Past PENDING, with no earlier request still to write, the order is never
\* edited or reopened (FrozenOnceQuiet).
THEOREM FrozenStaysQuiet == Spec => FrozenOnceQuiet
<1>1. IInv /\ [Next]_vars => (Frozen => Frozen' /\ UNCHANGED money)
  BY FrozenStep
<1> QED
  BY <1>1, Invariance, PTL DEF Spec, FrozenOnceQuiet
=============================================================================
