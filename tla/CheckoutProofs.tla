--------------------------- MODULE CheckoutProofs ---------------------------
(***************************************************************************)
(* Proofs about Checkout, crashes included.                                *)
(*                                                                         *)
(* The first part is for any number of concurrent requests.  A payment row *)
(* says SUCCEEDED only because of an event, long after the event was sent  *)
(* and any number of deliveries later; so the invariant says of every      *)
(* event on its way, in the outbox or in a handler's memory, that it is    *)
(* true.                                                                   *)
(*                                                                         *)
(* The second part follows the history of CheckoutRaces.  What checkout    *)
(* and closeSession read in several statements still holds when they write *)
(* for every request that was not overtaken, however many others ran       *)
(* meanwhile; so RaceInv says it of exactly those, and of every closing,   *)
(* overtaken or not, that its figure is at most what was sold.             *)
(***************************************************************************)
EXTENDS CheckoutRaces, Folding

\* An event tells what happened at Stripe, about a payment that has a row.
Happened(e) == /\ e \in Events /\ payments[e.intent].status # "ABSENT"
               /\ e.kind = "succeeded" => stripe[e.intent] = "paid"

\* What a request holds at each point of its handler.
Sane(k) ==
  /\ k.at \in {"status", "edit", "session", "existing", "sell", "intent", "upsert", "order",
               "confirm"} => k.order \in Orders
  /\ k.at = "status" => k.next \in OrderStatuses
  /\ k.at \in {"aggregate", "close", "existing", "sell"} => k.session \in Sessions
  /\ k.at = "upsert" => k.intent \in Intents
  /\ k.at = "mark" => Happened(k.event)

IInv ==
  /\ TypeOK /\ SucceededMeansPaid
  /\ \A e \in outbox : Happened(e)
  /\ \A c \in Calls : Sane(calls[c])

\* The rows of the payments table, as TypeOK has them.
RowsOK ==
  /\ payments \in [Payments -> PaymentRecords]
  /\ \A p \in Payments : payments[p].status # "ABSENT" => payments[p].order # None
  /\ \A p \in Sales : payments[p].status # "ABSENT" => payments[p].session # None
  /\ \A i \in Intents : payments[i].session = None

\* No row is removed, what was paid at Stripe stays paid, and a payment becomes
\* SUCCEEDED only once it was.
Onward ==
  /\ stripe' \in [Intents -> {"absent", "created", "declined", "paid"}]
  /\ \A i \in Intents : stripe[i] = "paid" => stripe'[i] = "paid"
  /\ RowsOK'
  /\ \A p \in Payments : payments[p].status # "ABSENT" => payments'[p].status # "ABSENT"
  /\ \A i \in Intents : payments'[i].status = "SUCCEEDED" =>
       payments[i].status = "SUCCEEDED" \/ stripe[i] = "paid"

-----------------------------------------------------------------------------
\* The empty slot is well typed.
LEMMA IdleCall == Idle \in CallRecords /\ Idle.at = "idle"
  BY DEF CallRecords, Idle

\* The invariant holds before the first request.
LEMMA InitIInv == Init => IInv
<1> SUFFICES ASSUME Init PROVE IInv
  OBVIOUS
<1>1. NoPayment \in PaymentRecords /\ NoPayment.status = "ABSENT" /\ NoPayment.session = None
  BY DEF NoPayment, PaymentRecords
<1>2. payments = [p \in Payments |-> NoPayment] /\ RowsOK
  BY <1>1 DEF Init, RowsOK, Payments
<1>3. orders \in [Orders -> OrderRecords]
  BY CheckoutAssumption DEF Init, OrderRecords, OrderStatuses
<1>4. sessions \in [Sessions -> SessionRecords]
  BY DEF Init, SessionRecords
<1>5. calls \in [Calls -> CallRecords] /\ \A c \in Calls : calls[c].at = "idle"
  BY IdleCall DEF Init
<1>6. crashes \in 0..MaxCrashes
  BY CheckoutAssumption DEF Init
<1>7. TypeOK
  BY <1>2, <1>3, <1>4, <1>5, <1>6 DEF Init, TypeOK, RowsOK
<1>8. SucceededMeansPaid
  BY <1>1, <1>2 DEF SucceededMeansPaid, Payments
<1>9. (\A e \in outbox : Happened(e)) /\ \A c \in Calls : Sane(calls[c])
  BY <1>5 DEF Init, Sane
<1> QED
  BY <1>7, <1>8, <1>9 DEF IInv

\* What the invariant says of the slots and of the rows.
LEMMA Shapes ==
  ASSUME IInv
  PROVE  /\ calls \in [Calls -> CallRecords] /\ \A c \in Calls : Sane(calls[c])
         /\ RowsOK
  BY DEF IInv, TypeOK, RowsOK

\* True events stay true.
LEMMA HappenedStays == ASSUME Onward, NEW e, Happened(e) PROVE Happened(e)'
  BY DEF Happened, Onward, Events, Payments

\* A step of one request: it may learn of a true event, forget events, and mark
\* a payment that was made.
LEMMA SlotStep ==
  ASSUME IInv, NEW c \in Calls, NEW k \in CallRecords, Sane(k), Onward,
         calls' = [calls EXCEPT ![c] = k],
         orders' \in [Orders -> OrderRecords], sessions' \in [Sessions -> SessionRecords],
         outbox' \subseteq outbox, crashes' \in 0..MaxCrashes
  PROVE  IInv'
<1>1. calls' \in [Calls -> CallRecords] /\ \A d \in Calls : calls'[d] = IF d = c THEN k ELSE calls[d]
  BY Shapes
<1>2. TypeOK'
  BY <1>1 DEF IInv, TypeOK, Onward, RowsOK
<1>3. SucceededMeansPaid'
  BY DEF IInv, SucceededMeansPaid, Onward
<1>4. (\A e \in outbox : Happened(e))'
  BY HappenedStays DEF IInv
<1>5. ASSUME NEW d, Sane(d)
      PROVE  Sane(d)'
  <2>1. d.at = "mark" => Happened(d.event)'
    BY <1>5, HappenedStays DEF Sane
  <2> QED
    BY <1>5, <2>1 DEF Sane, Happened
<1>6. ASSUME NEW d \in Calls
      PROVE  Sane(calls[d])'
  <2>1. PICK r : r = calls'[d] /\ Sane(r)
    BY <1>1 DEF IInv
  <2>2. Sane(r)'
    BY <1>5, <2>1
  <2> QED
    BY <2>1, <2>2 DEF Sane, Happened
<1> QED
  BY <1>2, <1>3, <1>4, <1>6 DEF IInv

\* The same when payments and Stripe are left alone.
LEMMA QuietStep ==
  ASSUME IInv, NEW c \in Calls, NEW k \in CallRecords, Sane(k),
         calls' = [calls EXCEPT ![c] = k], UNCHANGED <<payments, stripe>>,
         orders' \in [Orders -> OrderRecords], sessions' \in [Sessions -> SessionRecords],
         outbox' \subseteq outbox, crashes' \in 0..MaxCrashes
  PROVE  IInv'
<1>1. Onward
  BY DEF IInv, TypeOK, Onward, RowsOK
<1> QED
  BY <1>1, SlotStep

\* The same when only the slot and the outbox move.
LEMMA MemoryStep ==
  ASSUME IInv, NEW c \in Calls, NEW k \in CallRecords, Sane(k),
         calls' = [calls EXCEPT ![c] = k], UNCHANGED <<store, stripe, crashes>>,
         outbox' \subseteq outbox
  PROVE  IInv'
<1>1. /\ UNCHANGED <<payments, stripe>> /\ orders' \in [Orders -> OrderRecords]
      /\ sessions' \in [Sessions -> SessionRecords] /\ crashes' \in 0..MaxCrashes
  BY DEF IInv, TypeOK, store
<1> QED
  BY <1>1, QuietStep

\* A request ends and its slot is free; the rest of the step is quiet.
LEMMA EndStep ==
  ASSUME IInv, NEW c \in Calls, Finish(c), UNCHANGED <<payments, stripe>>,
         orders' \in [Orders -> OrderRecords], sessions' \in [Sessions -> SessionRecords],
         outbox' \subseteq outbox, crashes' \in 0..MaxCrashes
  PROVE  IInv'
  BY IdleCall, QuietStep DEF Finish, Sane

\* A slot is free again and the rows are as they were.
LEMMA LeaveStep ==
  ASSUME IInv, NEW c \in Calls, Finish(c), UNCHANGED <<store, stripe, crashes>>,
         outbox' \subseteq outbox
  PROVE  IInv'
  BY IdleCall, MemoryStep DEF Finish, Sane

-----------------------------------------------------------------------------
\* A status change passes its test.
LEMMA RequestStatusKeeps ==
  ASSUME IInv, NEW c \in Calls, NEW o \in Orders, NEW next \in Targets, RequestStatus(c, o, next)
  PROVE  IInv'
<1> DEFINE k == [Idle EXCEPT !.at = "status", !.order = o, !.next = next]
<1>1. k \in CallRecords /\ k.at = "status" /\ k.order = o /\ k.next = next
  BY IdleCall, CheckoutAssumption DEF CallRecords
<1>2. calls' = [calls EXCEPT ![c] = k] /\ UNCHANGED <<store, provider, crashes>>
  BY DEF RequestStatus, Accept
<1> HIDE DEF k
<1>3. Sane(k)
  BY <1>1, CheckoutAssumption DEF Sane
<1> QED
  BY <1>1, <1>2, <1>3, MemoryStep DEF provider


\* An edit passes its test.
LEMMA RequestEditKeeps ==
  ASSUME IInv, NEW c \in Calls, NEW o \in Orders, RequestEdit(c, o)
  PROVE  IInv'
<1> DEFINE k == [Idle EXCEPT !.at = "edit", !.order = o]
<1>1. k \in CallRecords /\ k.at = "edit" /\ k.order = o
  BY IdleCall DEF CallRecords
<1>2. calls' = [calls EXCEPT ![c] = k] /\ UNCHANGED <<store, provider, crashes>>
  BY DEF RequestEdit, Accept
<1> HIDE DEF k
<1>3. Sane(k)
  BY <1>1 DEF Sane
<1> QED
  BY <1>1, <1>2, <1>3, MemoryStep DEF provider


\* No open session was found.
LEMMA RequestOpenSessionKeeps ==
  ASSUME IInv, NEW c \in Calls, RequestOpenSession(c)
  PROVE  IInv'
<1> DEFINE k == [Idle EXCEPT !.at = "open"]
<1>1. k \in CallRecords /\ k.at = "open"
  BY IdleCall DEF CallRecords
<1>2. calls' = [calls EXCEPT ![c] = k] /\ UNCHANGED <<store, provider, crashes>>
  BY DEF RequestOpenSession, Accept
<1> HIDE DEF k
<1>3. Sane(k)
  BY <1>1 DEF Sane
<1> QED
  BY <1>1, <1>2, <1>3, MemoryStep DEF provider


\* checkout() read a PENDING order and its total.
LEMMA RequestCheckoutKeeps ==
  ASSUME IInv, NEW c \in Calls, NEW o \in Orders, RequestCheckout(c, o)
  PROVE  IInv'
<1>1. PICK total \in Nat : total = orders[o].total
  BY DEF IInv, TypeOK, OrderRecords
<1> DEFINE k == [Idle EXCEPT !.at = "session", !.order = o, !.amount = total]
<1>2. k \in CallRecords /\ k.at = "session" /\ k.order = o
  BY IdleCall DEF CallRecords
<1>3. calls' = [calls EXCEPT ![c] = k] /\ UNCHANGED <<store, provider, crashes>>
  BY <1>1 DEF RequestCheckout, Accept
<1> HIDE DEF k
<1>4. Sane(k)
  BY <1>2 DEF Sane
<1> QED
  BY <1>2, <1>3, <1>4, MemoryStep DEF provider


\* createIntent() read a PENDING order and its total.
LEMMA RequestIntentKeeps ==
  ASSUME IInv, NEW c \in Calls, NEW o \in Orders, RequestIntent(c, o)
  PROVE  IInv'
<1>1. PICK total \in Nat : total = orders[o].total
  BY DEF IInv, TypeOK, OrderRecords
<1> DEFINE k == [Idle EXCEPT !.at = "intent", !.order = o, !.amount = total]
<1>2. k \in CallRecords /\ k.at = "intent" /\ k.order = o
  BY IdleCall DEF CallRecords
<1>3. calls' = [calls EXCEPT ![c] = k] /\ UNCHANGED <<store, provider, crashes>>
  BY <1>1 DEF RequestIntent, Accept
<1> HIDE DEF k
<1>4. Sane(k)
  BY <1>2 DEF Sane
<1> QED
  BY <1>2, <1>3, <1>4, MemoryStep DEF provider


\* closeSession() read the newest open session.
LEMMA RequestCloseSessionKeeps ==
  ASSUME IInv, NEW c \in Calls, RequestCloseSession(c)
  PROVE  IInv'
<1>1. PICK s \in Sessions : calls' = [calls EXCEPT ![c] = [Idle EXCEPT !.at = "aggregate", !.session = s]]
  BY DEF RequestCloseSession, Accept, Newest, OpenSessions
<1> DEFINE k == [Idle EXCEPT !.at = "aggregate", !.session = s]
<1>2. k \in CallRecords /\ k.at = "aggregate" /\ k.session = s
  BY IdleCall DEF CallRecords
<1>3. calls' = [calls EXCEPT ![c] = k]
  BY <1>1
<1> HIDE DEF k
<1>4. Sane(k)
  BY <1>2 DEF Sane
<1> QED
  BY <1>2, <1>3, <1>4, MemoryStep DEF RequestCloseSession, provider


\* What a session took in is a sum of payments, whatever function holds the rows.
Amounts(rows, S) == MapThenSumSet(LAMBDA p : rows[p].amount, S)

\* MapThenSumSet of the community modules is the sum that Folding reasons about.
LEMMA AmountsIsSum ==
  ASSUME NEW rows \in [Payments -> PaymentRecords], NEW S \in SUBSET Payments
  PROVE  Amounts(rows, S) = SumOver([p \in S |-> rows[p].amount], S)
<1>1. IsFiniteSet(S)
  BY FS_Subset, FS_Union, CheckoutAssumption DEF Payments
<1>2. PICK f : f = [p \in S |-> rows[p].amount]
  OBVIOUS
<1>3. \A p \in S : f[p] = rows[p].amount /\ f[p] \in Int
  BY <1>2 DEF PaymentRecords
<1>4. PICK g \in [SUBSET S -> Int] : IsSum(f, S, g)
  BY <1>1, <1>3, SumExists
<1> DEFINE iter == CHOOSE it : it = [s \in SUBSET S |->
                     IF s = {} THEN 0 ELSE rows[First(s)].amount + it[s \ {First(s)}]]
<1>5. IsSum(f, S, iter)
  <2>1. \A s \in SUBSET S : s # {} => f[First(s)] = rows[First(s)].amount
    <3>1. \A s \in SUBSET S : s # {} => First(s) \in S
      BY FirstIn
    <3> QED
      BY <1>3, <3>1
  <2>2. g = [s \in SUBSET S |-> IF s = {} THEN 0 ELSE rows[First(s)].amount + g[s \ {First(s)}]]
    BY <1>4, <2>1 DEF IsSum
  <2>3. iter = [s \in SUBSET S |-> IF s = {} THEN 0 ELSE rows[First(s)].amount + iter[s \ {First(s)}]]
    BY <2>2
  <2> HIDE DEF iter
  <2> QED
    BY <2>1, <2>3 DEF IsSum
<1>6. Amounts(rows, S) = iter[S]
  BY DEF Amounts, MapThenSumSet, MapThenFoldSet, First
<1> HIDE DEF iter
<1>7. SumOver(f, S) = g[S]
  BY <1>1, <1>4, SumWithin
<1>8. iter = g
  BY <1>1, <1>4, <1>5, SumUnique
<1> QED
  BY <1>2, <1>6, <1>7, <1>8

\* It is an amount, and depends on the amounts of those payments only.
LEMMA AmountsIsNat ==
  ASSUME NEW rows \in [Payments -> PaymentRecords], NEW S \in SUBSET Payments
  PROVE  Amounts(rows, S) \in Nat
<1>1. IsFiniteSet(S)
  BY FS_Subset, FS_Union, CheckoutAssumption DEF Payments
<1>2. PICK f : f = [p \in S |-> rows[p].amount]
  OBVIOUS
<1>3. \A p \in S : f[p] \in Nat
  BY <1>2 DEF PaymentRecords
<1> QED
  BY <1>1, <1>2, <1>3, AmountsIsSum, SumIsNat

\* Rows that agree on the payments of S agree on their sum.
LEMMA AmountsSame ==
  ASSUME NEW rows \in [Payments -> PaymentRecords], NEW other \in [Payments -> PaymentRecords],
         NEW S \in SUBSET Payments, \A p \in S : other[p] = rows[p]
  PROVE  Amounts(other, S) = Amounts(rows, S)
<1>1. PICK f : f = [p \in S |-> rows[p].amount]
  OBVIOUS
<1>2. f = [p \in S |-> other[p].amount]
  BY <1>1
<1> QED
  BY <1>1, <1>2, AmountsIsSum

\* The payments a session's takings are summed over.
Sold(s) == {p \in Payments : payments[p].status = "SUCCEEDED" /\ payments[p].session = s}

\* Takings is such a sum, in this state ...
LEMMA TakingsIsAmounts == \A s : Takings(s) = Amounts(payments, Sold(s))
  BY DEF Takings, Amounts, Sold

\* ... and in the next.
LEMMA TakingsIsAmountsNext == (\A s : Takings(s) = Amounts(payments, Sold(s)))'
  BY TakingsIsAmounts, PTL

\* What a session took in is an amount.
LEMMA TakingsType == ASSUME IInv, NEW s PROVE Takings(s) \in Nat
<1>1. Sold(s) \in SUBSET Payments
  BY DEF Sold
<1> QED
  BY <1>1, TakingsIsAmounts, AmountsIsNat, Shapes DEF RowsOK


\* A status is written to an order row.
LEMMA WriteStatusKeeps ==
  ASSUME IInv, NEW c \in Calls, WriteStatus(c)
  PROVE  IInv'
<1>1. calls[c].next \in OrderStatuses
  BY Shapes DEF WriteStatus, At, Sane
<1>2. orders' \in [Orders -> OrderRecords]
  BY <1>1 DEF WriteStatus, IInv, TypeOK, OrderRecords
<1> QED
  BY <1>2, EndStep DEF WriteStatus, provider, IInv, TypeOK


\* An edit writes a new total.
LEMMA WriteTotalKeeps ==
  ASSUME IInv, NEW c \in Calls, WriteTotal(c)
  PROVE  IInv'
<1>1. PICK total \in Nat : orders' = [orders EXCEPT ![calls[c].order].total = total]
  BY CheckoutAssumption DEF WriteTotal
<1>2. orders' \in [Orders -> OrderRecords]
  BY <1>1 DEF IInv, TypeOK, OrderRecords
<1> QED
  BY <1>2, EndStep DEF WriteTotal, provider, IInv, TypeOK


\* A session row is inserted.
LEMMA InsertSessionKeeps ==
  ASSUME IInv, NEW c \in Calls, InsertSession(c)
  PROVE  IInv'
<1>1. sessions' \in [Sessions -> SessionRecords]
  BY DEF InsertSession, IInv, TypeOK, SessionRecords
<1> QED
  BY <1>1, EndStep DEF InsertSession, provider, IInv, TypeOK


\* closeSession() sums what was sold.
LEMMA AggregateSessionKeeps ==
  ASSUME IInv, NEW c \in Calls, AggregateSession(c)
  PROVE  IInv'
<1>1. PICK total \in Nat : total = Takings(calls[c].session)
  BY TakingsType
<1> DEFINE k == [calls[c] EXCEPT !.at = "close", !.amount = total]
<1>2. k \in CallRecords /\ k.at = "close" /\ k.session = calls[c].session
  BY Shapes DEF CallRecords
<1>3. calls[c].session \in Sessions
  BY Shapes DEF AggregateSession, At, Sane
<1>4. calls' = [calls EXCEPT ![c] = k] /\ UNCHANGED <<store, provider, crashes>>
  BY <1>1 DEF AggregateSession, Continue
<1> HIDE DEF k
<1>5. Sane(k)
  BY <1>2, <1>3 DEF Sane
<1> QED
  BY <1>2, <1>4, <1>5, MemoryStep DEF provider


\* closeSession() writes the figure it summed.
LEMMA CloseSessionKeeps ==
  ASSUME IInv, NEW c \in Calls, CloseSession(c)
  PROVE  IInv'
<1>1. calls[c].amount \in Nat
  BY Shapes DEF CallRecords
<1>2. PICK row \in SessionRecords : row = [state |-> "closed", expected |-> calls[c].amount]
  BY <1>1 DEF SessionRecords
<1>3. sessions' = [sessions EXCEPT ![calls[c].session] = row]
  BY <1>2 DEF CloseSession
<1>4. sessions' \in [Sessions -> SessionRecords]
  BY <1>3 DEF IInv, TypeOK
<1> QED
  BY <1>4, EndStep DEF CloseSession, provider, IInv, TypeOK


\* checkout() finds the newest open session, or is rejected.
LEMMA ReadSessionKeeps ==
  ASSUME IInv, NEW c \in Calls, ReadSession(c)
  PROVE  IInv'
<1>1. CASE Finish(c)
  BY <1>1, LeaveStep DEF ReadSession, provider
<1>2. ASSUME NEW s \in Newest(OpenSessions),
             Continue(c, [calls[c] EXCEPT !.at = "existing", !.session = s])
      PROVE  IInv'
  <2> DEFINE k == [calls[c] EXCEPT !.at = "existing", !.session = s]
  <2>1. s \in Sessions
    BY DEF Newest, OpenSessions
  <2>2. k \in CallRecords /\ k.at = "existing" /\ k.session = s /\ k.order = calls[c].order
    BY <2>1, Shapes DEF CallRecords
  <2>3. calls[c].order \in Orders
    BY Shapes DEF ReadSession, At, Sane
  <2>4. calls' = [calls EXCEPT ![c] = k]
    BY <1>2 DEF Continue
  <2> HIDE DEF k
  <2>5. Sane(k)
    BY <2>1, <2>2, <2>3 DEF Sane
  <2> QED
    BY <2>2, <2>4, <2>5, MemoryStep DEF ReadSession, provider
<1> QED
  BY <1>1, <1>2 DEF ReadSession


\* checkout() looks for a payment that already succeeded.
LEMMA ReadExistingKeeps ==
  ASSUME IInv, NEW c \in Calls, ReadExisting(c)
  PROVE  IInv'
<1>1. CASE Finish(c)
  BY <1>1, LeaveStep DEF ReadExisting, provider
<1>2. CASE Continue(c, [calls[c] EXCEPT !.at = "sell"])
  <2> DEFINE k == [calls[c] EXCEPT !.at = "sell"]
  <2>1. /\ k \in CallRecords /\ k.at = "sell"
        /\ k.session = calls[c].session /\ k.order = calls[c].order
    BY Shapes DEF CallRecords
  <2>2. calls[c].order \in Orders /\ calls[c].session \in Sessions
    BY Shapes DEF ReadExisting, At, Sane
  <2>3. calls' = [calls EXCEPT ![c] = k]
    BY <1>2 DEF Continue
  <2> HIDE DEF k
  <2>4. Sane(k)
    BY <2>1, <2>2 DEF Sane
  <2> QED
    BY <2>1, <2>3, <2>4, MemoryStep DEF ReadExisting, provider
<1> QED
  BY <1>1, <1>2 DEF ReadExisting


\* A POS sale is a row of its own, never a Stripe payment's.
LEMMA CommitSaleKeeps ==
  ASSUME IInv, NEW c \in Calls, CommitSale(c)
  PROVE  IInv'
<1>1. /\ calls[c].order \in Orders /\ calls[c].session \in Sessions /\ calls[c].amount \in Nat
  BY Shapes DEF CommitSale, At, Sane, CallRecords
<1>2. calls[c].order # None /\ calls[c].session # None
  BY <1>1, CheckoutAssumption DEF Sessions
<1>3. PICK row \in PaymentRecords :
        /\ row = [order |-> calls[c].order, amount |-> calls[c].amount, status |-> "SUCCEEDED",
                  session |-> calls[c].session, lastEvent |-> None]
        /\ row.status = "SUCCEEDED" /\ row.order # None /\ row.session # None
  <2>1. [order |-> calls[c].order, amount |-> calls[c].amount, status |-> "SUCCEEDED",
         session |-> calls[c].session, lastEvent |-> None] \in PaymentRecords
    BY <1>1 DEF PaymentRecords
  <2> QED
    BY <1>2, <2>1
<1>4. PICK p \in Sales : payments' = [payments EXCEPT ![p] = row]
  BY <1>3 DEF CommitSale
<1>5. p \in Payments /\ p \notin Intents
  BY CheckoutAssumption DEF Payments
<1>6. /\ payments' \in [Payments -> PaymentRecords]
      /\ \A q \in Payments : payments'[q] = IF q = p THEN row ELSE payments[q]
  BY <1>4, <1>5, Shapes DEF RowsOK
<1>7. Onward
  BY <1>3, <1>5, <1>6, Shapes DEF Onward, RowsOK, Payments, CommitSale, provider, IInv, TypeOK
<1>8. orders' \in [Orders -> OrderRecords]
  BY DEF CommitSale, IInv, TypeOK, OrderRecords, OrderStatuses
<1>9. calls' = [calls EXCEPT ![c] = Idle] /\ Sane(Idle)
  BY IdleCall DEF CommitSale, Finish, Sane
<1> QED
  BY <1>7, <1>8, <1>9, IdleCall, SlotStep DEF CommitSale, provider, IInv, TypeOK


\* A new PaymentIntent was not paid before.
LEMMA CreateStripeIntentKeeps ==
  ASSUME IInv, NEW c \in Calls, CreateStripeIntent(c)
  PROVE  IInv'
<1>1. PICK i \in Intents : /\ stripe[i] = "absent"
                           /\ stripe' = [stripe EXCEPT ![i] = "created"]
                           /\ calls' = [calls EXCEPT ![c] = [calls[c] EXCEPT !.at = "upsert", !.intent = i]]
  BY DEF CreateStripeIntent, Continue
<1> DEFINE k == [calls[c] EXCEPT !.at = "upsert", !.intent = i]
<1>2. k \in CallRecords /\ k.at = "upsert" /\ k.intent = i /\ k.order = calls[c].order
  BY Shapes DEF CallRecords
<1>3. calls[c].order \in Orders
  BY Shapes DEF CreateStripeIntent, At, Sane
<1>4. calls' = [calls EXCEPT ![c] = k]
  BY <1>1
<1> HIDE DEF k
<1>5. Sane(k)
  BY <1>2, <1>3 DEF Sane
<1>6. Onward
  BY <1>1, Shapes DEF Onward, RowsOK, CreateStripeIntent, store, IInv, TypeOK
<1> QED
  BY <1>2, <1>4, <1>5, <1>6, SlotStep DEF CreateStripeIntent, store, IInv, TypeOK


\* The row of an intent starts, or starts again, unpaid.
LEMMA UpsertPaymentKeeps ==
  ASSUME IInv, NEW c \in Calls, UpsertPayment(c)
  PROVE  IInv'
<1>1. /\ calls[c].order \in Orders /\ calls[c].intent \in Intents /\ calls[c].amount \in Nat
  BY Shapes DEF UpsertPayment, At, Sane, CallRecords
<1>2. calls[c].order # None
  BY <1>1, CheckoutAssumption
<1>3. PICK row \in PaymentRecords :
        /\ row = [order |-> calls[c].order, amount |-> calls[c].amount,
                  status |-> "REQUIRES_PAYMENT", session |-> None, lastEvent |-> None]
        /\ row.status = "REQUIRES_PAYMENT" /\ row.order # None /\ row.session = None
  <2>1. [order |-> calls[c].order, amount |-> calls[c].amount,
         status |-> "REQUIRES_PAYMENT", session |-> None, lastEvent |-> None] \in PaymentRecords
    BY <1>1 DEF PaymentRecords
  <2> QED
    BY <1>2, <2>1
<1>4. PICK i \in Intents : payments' = [payments EXCEPT ![i] = row]
  BY <1>1, <1>3 DEF UpsertPayment
<1>5. i \in Payments /\ i \notin Sales
  BY CheckoutAssumption DEF Payments
<1>6. /\ payments' \in [Payments -> PaymentRecords]
      /\ \A q \in Payments : payments'[q] = IF q = i THEN row ELSE payments[q]
  BY <1>4, <1>5, Shapes DEF RowsOK
<1>7. Onward
  BY <1>3, <1>5, <1>6, Shapes DEF Onward, RowsOK, Payments, UpsertPayment, provider, IInv, TypeOK
<1>8. calls' = [calls EXCEPT ![c] = Idle] /\ Sane(Idle)
  BY IdleCall DEF UpsertPayment, Finish, Sane
<1> QED
  BY <1>7, <1>8, IdleCall, SlotStep DEF UpsertPayment, provider, IInv, TypeOK


\* Only the event of a success makes a payment SUCCEEDED.
LEMMA MarkPaymentKeeps ==
  ASSUME IInv, NEW c \in Calls, MarkPayment(c)
  PROVE  IInv'
<1>1. PICK e : e = calls[c].event /\ Happened(e) /\ e \in Events
  BY Shapes DEF MarkPayment, At, Sane, Happened
<1>2. PICK i \in Intents : i = e.intent
  BY <1>1 DEF Events
<1>3. i \in Payments /\ i \notin Sales /\ payments[i].status # "ABSENT"
  BY <1>1, <1>2, CheckoutAssumption DEF Payments, Happened
<1>4. PICK row \in PaymentRecords :
        /\ row = [payments[i] EXCEPT !.status = Outcome(e.kind), !.lastEvent = e]
        /\ row.status = Outcome(e.kind) /\ row.order = payments[i].order
        /\ row.session = payments[i].session
  <2>1. [payments[i] EXCEPT !.status = Outcome(e.kind), !.lastEvent = e] \in PaymentRecords
    BY <1>1, <1>3, Shapes DEF RowsOK, PaymentRecords, Outcome
  <2>2. payments[i] \in PaymentRecords
    BY <1>3, Shapes DEF RowsOK
  <2> QED
    BY <2>1, <2>2 DEF PaymentRecords
<1>5. payments' = [payments EXCEPT ![i] = row]
  BY <1>1, <1>2, <1>4 DEF MarkPayment
<1>6. /\ payments' \in [Payments -> PaymentRecords]
      /\ \A q \in Payments : payments'[q] = IF q = i THEN row ELSE payments[q]
  BY <1>3, <1>5, Shapes DEF RowsOK
<1>7. row.status # "ABSENT" /\ (row.status = "SUCCEEDED" => stripe[i] = "paid")
  BY <1>1, <1>2, <1>4 DEF Outcome, Happened
<1>8. row.order # None /\ row.session = None
  BY <1>3, <1>4, Shapes DEF RowsOK
<1>9. Onward
  <2>1. RowsOK'
    BY <1>3, <1>6, <1>8, Shapes DEF RowsOK, Payments
  <2>2. stripe' = stripe
    BY DEF MarkPayment
  <2>3. \A j \in Intents : payments'[j].status = "SUCCEEDED" =>
          payments[j].status = "SUCCEEDED" \/ stripe[j] = "paid"
    BY <1>6, <1>7 DEF Payments
  <2>4. \A q \in Payments : payments[q].status # "ABSENT" => payments'[q].status # "ABSENT"
    BY <1>6, <1>7
  <2> QED
    BY <2>1, <2>2, <2>3, <2>4 DEF Onward, IInv, TypeOK
<1>10. PICK k \in CallRecords : Sane(k) /\ calls' = [calls EXCEPT ![c] = k]
  <2>1. CASE calls' = [calls EXCEPT ![c] = Idle]
    BY <2>1, IdleCall DEF Sane
  <2>2. CASE calls' = [calls EXCEPT ![c] =
               [calls[c] EXCEPT !.at = "order", !.order = payments[i].order]]
    <3> DEFINE k == [calls[c] EXCEPT !.at = "order", !.order = payments[i].order]
    <3>1. payments[i].order \in Orders
      BY <1>3, Shapes DEF RowsOK, PaymentRecords
    <3>2. k \in CallRecords /\ k.at = "order" /\ k.order = payments[i].order
      BY <3>1, Shapes DEF CallRecords
    <3>3. calls' = [calls EXCEPT ![c] = k]
      BY <2>2
    <3> HIDE DEF k
    <3> QED
      BY <3>1, <3>2, <3>3 DEF Sane
  <2> QED
    BY <1>1, <1>2, <2>1, <2>2 DEF MarkPayment, Continue, Respond, Finish
<1>11. outbox' \subseteq outbox
  BY DEF MarkPayment, Respond
<1> QED
  BY <1>9, <1>10, <1>11, SlotStep DEF MarkPayment, IInv, TypeOK


\* markConfirmed() reads the order, and leaves it alone or goes on to write it.
LEMMA ReadOrderKeeps ==
  ASSUME IInv, NEW c \in Calls, ReadOrder(c)
  PROVE  IInv'
<1>1. CASE Finish(c) /\ outbox' \subseteq outbox
  BY <1>1, LeaveStep DEF ReadOrder
<1>2. CASE Continue(c, [calls[c] EXCEPT !.at = "confirm"]) /\ UNCHANGED outbox
  <2> DEFINE k == [calls[c] EXCEPT !.at = "confirm"]
  <2>1. k \in CallRecords /\ k.at = "confirm" /\ k.order = calls[c].order
    BY Shapes DEF CallRecords
  <2>2. calls[c].order \in Orders
    BY Shapes DEF ReadOrder, At, Sane
  <2>3. calls' = [calls EXCEPT ![c] = k]
    BY <1>2 DEF Continue
  <2> HIDE DEF k
  <2>4. Sane(k)
    BY <2>1, <2>2 DEF Sane
  <2> QED
    BY <1>2, <2>1, <2>3, <2>4, MemoryStep DEF ReadOrder
<1> QED
  BY <1>1, <1>2 DEF ReadOrder, Respond


\* markConfirmed() writes the order.
LEMMA WriteConfirmedKeeps ==
  ASSUME IInv, NEW c \in Calls, WriteConfirmed(c)
  PROVE  IInv'
<1>1. orders' \in [Orders -> OrderRecords]
  BY DEF WriteConfirmed, IInv, TypeOK, OrderRecords, OrderStatuses
<1>2. Finish(c) /\ outbox' \subseteq outbox
  BY DEF WriteConfirmed, Respond
<1> QED
  BY <1>1, <1>2, EndStep DEF WriteConfirmed, IInv, TypeOK


\* Stripe delivers an event it has sent.
LEMMA DeliverKeeps ==
  ASSUME IInv, NEW c \in Calls, NEW e \in outbox, Deliver(c, e)
  PROVE  IInv'
<1>1. CASE Finish(c) /\ outbox' \subseteq outbox
  BY <1>1, LeaveStep DEF Deliver
<1>2. CASE Continue(c, [Idle EXCEPT !.at = "mark", !.event = e]) /\ UNCHANGED outbox
  <2> DEFINE k == [Idle EXCEPT !.at = "mark", !.event = e]
  <2>1. Happened(e) /\ e \in Events
    BY DEF IInv, Happened
  <2>2. k \in CallRecords /\ k.at = "mark" /\ k.event = e
    BY <2>1, IdleCall DEF CallRecords
  <2>3. calls' = [calls EXCEPT ![c] = k]
    BY <1>2 DEF Continue
  <2> HIDE DEF k
  <2>4. Sane(k)
    BY <2>1, <2>2 DEF Sane
  <2> QED
    BY <1>2, <2>2, <2>3, <2>4, MemoryStep DEF Deliver
<1> QED
  BY <1>1, <1>2 DEF Deliver, Respond


\* What the customer does at Stripe is told by a true event.
LEMMA CustomerKeeps ==
  ASSUME IInv, NEW i \in Intents, Decline(i) \/ Pay(i)
  PROVE  IInv'
<1>1. UNCHANGED <<store, calls, crashes>> /\ payments' = payments
  BY DEF Decline, Pay, store
<1>2. Onward
  BY <1>1, Shapes DEF Onward, RowsOK, IInv, TypeOK, Decline, Pay
<1>3. PICK e : Happened(e)' /\ outbox' = outbox \cup {e}
  <2>1. CASE Decline(i)
    <3>1. PICK e : e = [intent |-> i, kind |-> "failed"]
      OBVIOUS
    <3> QED
      BY <1>1, <2>1, <3>1 DEF Decline, Happened, Events
  <2>2. CASE Pay(i)
    <3>1. PICK e : e = [intent |-> i, kind |-> "succeeded"]
      OBVIOUS
    <3> QED
      BY <1>1, <2>2, <3>1 DEF Pay, Happened, Events, IInv, TypeOK
  <2> QED
    BY <2>1, <2>2
<1>4. (\A f \in outbox : Happened(f))'
  BY <1>2, <1>3, HappenedStays DEF IInv
<1>5. ASSUME NEW c \in Calls
      PROVE  Sane(calls[c])'
  <2>1. PICK r : r = calls[c] /\ Sane(r)
    BY DEF IInv
  <2>2. r.at = "mark" => Happened(r.event)'
    BY <1>2, <2>1, HappenedStays DEF Sane
  <2> QED
    BY <1>1, <2>1, <2>2 DEF Sane, Happened
<1>6. TypeOK'
  <2>1. outbox' \subseteq Events
    BY <1>4 DEF Happened
  <2> QED
    BY <1>1, <1>2, <2>1 DEF IInv, TypeOK, Onward, RowsOK, store
<1>7. SucceededMeansPaid'
  BY <1>2 DEF Onward, IInv, SucceededMeansPaid
<1> QED
  BY <1>4, <1>5, <1>6, <1>7 DEF IInv


\* Every step preserves the invariant.
LEMMA NextKeepsIInv == ASSUME IInv, [Next]_vars PROVE IInv'
<1>1. CASE UNCHANGED vars
  BY <1>1 DEF vars, IInv, TypeOK, Happened, Sane, SucceededMeansPaid
<1>2. ASSUME NEW c \in Calls, Request(c)
      PROVE  IInv'
  BY <1>2, RequestStatusKeeps, RequestEditKeeps, RequestCheckoutKeeps, RequestIntentKeeps,
     RequestOpenSessionKeeps, RequestCloseSessionKeeps DEF Request
<1>3. ASSUME NEW c \in Calls, Handle(c)
      PROVE  IInv'
  <2>1. CASE SessionBound(c) \/ SaleBound(c) \/ IntentBound(c)
    BY <2>1, LeaveStep DEF SessionBound, SaleBound, IntentBound, provider
  <2> QED
    BY <1>3, <2>1, WriteStatusKeeps, WriteTotalKeeps, InsertSessionKeeps, AggregateSessionKeeps,
       CloseSessionKeeps, ReadSessionKeeps, ReadExistingKeeps, CommitSaleKeeps,
       CreateStripeIntentKeeps, UpsertPaymentKeeps, MarkPaymentKeeps, ReadOrderKeeps,
       WriteConfirmedKeeps DEF Handle
<1>4. ASSUME NEW c \in Calls, Crash(c)
      PROVE  IInv'
  <2>1. crashes' \in 0..MaxCrashes
    BY <1>4, CheckoutAssumption DEF Crash, IInv, TypeOK
  <2> QED
    BY <1>4, <2>1, EndStep DEF Crash, store, provider, IInv, TypeOK
<1>5. ASSUME NEW c \in Calls, NEW e \in outbox, Deliver(c, e)
      PROVE  IInv'
  BY <1>5, DeliverKeeps
<1>6. ASSUME NEW i \in Intents, Decline(i) \/ Pay(i)
      PROVE  IInv'
  BY <1>6, CustomerKeeps
<1> QED
  BY <1>1, <1>2, <1>3, <1>4, <1>5, <1>6 DEF Next


\* The invariant always holds.
THEOREM Invariance == Spec => []IInv
  BY InitIInv, NextKeepsIInv, PTL DEF Spec


\* Every row and every request keeps its type; in particular the figure written to
\* a closed session is a natural number, and no payment is without an order.
THEOREM TypeCorrect == Spec => []TypeOK
<1>1. IInv => TypeOK
  BY DEF IInv
<1> QED
  BY <1>1, Invariance, PTL


\* A Stripe payment is SUCCEEDED only if the customer's payment succeeded,
\* whatever requests and deliveries interleave and wherever a handler dies
\* (createIntent, checkout, onPaymentSucceeded, onPaymentFailed).
THEOREM SucceededPaymentsWerePaid == Spec => []SucceededMeansPaid
<1>1. IInv => SucceededMeansPaid
  BY DEF IInv
<1> QED
  BY <1>1, Invariance, PTL

-----------------------------------------------------------------------------
\* Requests that overlap.

\* What a request that was not overtaken may rely on, at each point of its handler.
Holds(k) ==
  /\ k.at \in {"aggregate", "close", "existing", "sell"} => k.session \in OpenSessions
  /\ k.at = "close" => k.amount = Takings(k.session)
  /\ k.at \in {"session", "existing", "sell"} =>
       orders[k.order].status = "PENDING" /\ k.amount = orders[k.order].total
  /\ k.at = "sell" => Succeeded(k.order) = {}

\* What a closing has summed was sold, even if more was sold since.
SumWasSold(k) == k.at = "close" => k.amount <= Takings(k.session)

RaceInv ==
  /\ IInv /\ ClosedSessionBalanced
  /\ \A c \in Calls : SumWasSold(calls[c])
  /\ \A c \in Calls \ overtaken : Holds(calls[c])

\* The invariant of the races holds before the first request.
LEMMA InitRaceInv == RaceInit => RaceInv
<1> SUFFICES ASSUME RaceInit PROVE RaceInv
  OBVIOUS
<1>1. IInv
  BY InitIInv DEF RaceInit
<1>2. ClosedSessionBalanced
  BY DEF RaceInit, Init, ClosedSessionBalanced
<1>3. \A c \in Calls : Holds(calls[c]) /\ SumWasSold(calls[c])
  BY IdleCall DEF RaceInit, Init, Holds, SumWasSold
<1> QED
  BY <1>1, <1>2, <1>3 DEF RaceInv

-----------------------------------------------------------------------------
\* What a step does to the register.

\* More payments, the old ones as they were, are no smaller a sum.
LEMMA AmountsGrow ==
  ASSUME NEW rows \in [Payments -> PaymentRecords], NEW other \in [Payments -> PaymentRecords],
         NEW S \in SUBSET Payments, NEW T \in SUBSET Payments, S \subseteq T,
         \A p \in S : other[p] = rows[p]
  PROVE  Amounts(rows, S) <= Amounts(other, T)
<1>1. IsFiniteSet(T) /\ IsFiniteSet(T \ S)
  BY FS_Subset, FS_Union, CheckoutAssumption DEF Payments
<1>2. PICK f : f = [p \in T |-> other[p].amount]
  OBVIOUS
<1>3. \A p \in T : f[p] \in Nat /\ f[p] \in Int
  BY <1>2 DEF PaymentRecords
<1>4. SumOver(f, T) = SumOver(f, S) + SumOver(f, T \ S)
  BY <1>1, <1>3, SumOfParts
<1>5. Amounts(other, T) = SumOver(f, T)
  BY <1>2, AmountsIsSum
<1>6. Amounts(rows, S) = SumOver(f, S)
  <2>1. PICK g : g = [p \in S |-> rows[p].amount]
    OBVIOUS
  <2>2. IsFiniteSet(S)
    BY <1>1, FS_Subset
  <2>3. \A p \in S : g[p] = f[p] /\ g[p] \in Int
    BY <1>2, <1>3, <2>1
  <2>4. SumOver(g, S) = SumOver(f, S)
    BY <2>2, <2>3, SumSame
  <2> QED
    BY <2>1, <2>4, AmountsIsSum
<1>7. SumOver(f, S) \in Nat /\ SumOver(f, T \ S) \in Nat
  <2>1. IsFiniteSet(S)
    BY <1>1, FS_Subset
  <2> QED
    BY <1>1, <1>3, <2>1, SumIsNat
<1> QED
  BY <1>4, <1>5, <1>6, <1>7

\* What a session took in changes only with the payments it is summed over.
LEMMA TakingsStay ==
  ASSUME IInv, IInv', NEW s, Sold(s)' = Sold(s), \A p \in Sold(s) : payments'[p] = payments[p]
  PROVE  Takings(s)' = Takings(s)
<1>1. Sold(s) \in SUBSET Payments
  BY DEF Sold
<1>2. /\ payments \in [Payments -> PaymentRecords]
      /\ payments' \in [Payments -> PaymentRecords]
  BY DEF IInv, TypeOK
<1>3. Takings(s)' = Amounts(payments', Sold(s)')
  BY TakingsIsAmountsNext
<1>4. Amounts(payments', Sold(s)) = Amounts(payments, Sold(s))
  BY <1>1, <1>2, AmountsSame
<1> QED
  BY <1>3, <1>4, TakingsIsAmounts

\* A session takes in no less when it has more sales.
LEMMA TakingsGrow ==
  ASSUME IInv, IInv', NEW s, Sold(s) \subseteq Sold(s)', \A p \in Sold(s) : payments'[p] = payments[p]
  PROVE  Takings(s) <= Takings(s)'
<1>1. PICK T \in SUBSET Payments : T = Sold(s)'
  BY DEF Sold
<1>2. Sold(s) \in SUBSET Payments
  BY DEF Sold
<1>3. /\ payments \in [Payments -> PaymentRecords]
      /\ payments' \in [Payments -> PaymentRecords]
  BY DEF IInv, TypeOK
<1>4. Takings(s)' = Amounts(payments', T)
  BY <1>1, TakingsIsAmountsNext
<1>5. Amounts(payments, Sold(s)) <= Amounts(payments', T)
  BY <1>1, <1>2, <1>3, AmountsGrow
<1> QED
  BY <1>4, <1>5, TakingsIsAmounts

\* The same payments make the same sum.
LEMMA TakingsSame == ASSUME UNCHANGED payments PROVE \A s : Takings(s)' = Takings(s)
<1>1. \A s : Sold(s)' = Sold(s)
  BY DEF Sold
<1> QED
  BY <1>1, TakingsIsAmounts, TakingsIsAmountsNext

\* A Stripe payment is in no session.
LEMMA IntentInNoSession ==
  ASSUME IInv, NEW i \in Intents, NEW s \in Sessions
  PROVE  i \in Payments /\ i \notin Sold(s) /\ None # s
<1>1. payments[i].session = None
  BY DEF IInv, TypeOK
<1>2. s \in Nat
  BY CheckoutAssumption DEF Sessions
<1> QED
  BY <1>1, <1>2, CheckoutAssumption DEF Payments, Sold

\* A payment row made or marked by Stripe moves no session's sum, nor a sale.
LEMMA IntentStep ==
  ASSUME IInv, IInv', NEW i \in Intents, NEW row, payments' = [payments EXCEPT ![i] = row]
  PROVE  /\ \A s \in Sessions : Takings(s)' = Takings(s)
         /\ \A p \in Sales : payments'[p] = payments[p]
<1>1. \A q \in Payments : q # i => payments'[q] = payments[q]
  BY DEF IInv, TypeOK
<1>2. \A s \in Sessions : i \in Payments /\ i \notin Sold(s)
  BY IntentInNoSession
<1>3. payments'[i].session = None
  BY DEF IInv, TypeOK
<1>4. \A s \in Sessions : None # s
  BY CheckoutAssumption DEF Sessions
<1>5. \A s \in Sessions : Sold(s)' = Sold(s)
  BY <1>1, <1>2, <1>3, <1>4 DEF Sold
<1>6. ASSUME NEW s \in Sessions
      PROVE  Takings(s)' = Takings(s)
  <2>1. \A p \in Sold(s) : payments'[p] = payments[p]
    BY <1>1, <1>2 DEF Sold
  <2> QED
    BY <1>5, <2>1, TakingsStay
<1>7. \A p \in Sales : p \in Payments /\ p # i
  BY CheckoutAssumption DEF Payments
<1> QED
  BY <1>1, <1>6, <1>7

\* What the transaction of checkout() does to the payments.
LEMMA SaleStep ==
  ASSUME IInv, IInv', NEW c \in Calls, CommitSale(c)
  PROVE  /\ \A s \in Sessions : \/ Takings(s)' = Takings(s)
                                \/ s = calls[c].session /\ Takings(s) <= Takings(s)'
         /\ \A q \in Sales : \/ payments'[q] = payments[q]
                             \/ /\ payments'[q].order = calls[c].order
                                /\ payments'[q].amount = calls[c].amount
                                /\ payments'[q].session = calls[c].session
<1>1. PICK p \in Sales :
        /\ payments[p].status = "ABSENT"
        /\ payments' = [payments EXCEPT ![p] =
             [order |-> calls[c].order, amount |-> calls[c].amount, status |-> "SUCCEEDED",
              session |-> calls[c].session, lastEvent |-> None]]
  BY DEF CommitSale
<1>2. PICK row : /\ payments' = [payments EXCEPT ![p] = row]
                 /\ row.session = calls[c].session /\ row.order = calls[c].order
                 /\ row.amount = calls[c].amount
  <2>1. PICK row : row = [order |-> calls[c].order, amount |-> calls[c].amount,
                          status |-> "SUCCEEDED", session |-> calls[c].session,
                          lastEvent |-> None]
    OBVIOUS
  <2>2. /\ row.session = calls[c].session /\ row.order = calls[c].order
        /\ row.amount = calls[c].amount
    BY <2>1
  <2>3. payments' = [payments EXCEPT ![p] = row]
    BY <1>1, <2>1
  <2> QED
    BY <2>2, <2>3
<1>3. p \in Payments /\ \A q \in Payments : payments'[q] = IF q = p THEN row ELSE payments[q]
  BY <1>2 DEF IInv, TypeOK, Payments
<1>4. ASSUME NEW s \in Sessions
      PROVE  /\ Sold(s) \subseteq Sold(s)' /\ \A q \in Sold(s) : payments'[q] = payments[q]
             /\ s # calls[c].session => Sold(s)' = Sold(s)
  BY <1>1, <1>2, <1>3 DEF Sold
<1>5. ASSUME NEW s \in Sessions
      PROVE  \/ Takings(s)' = Takings(s)
             \/ s = calls[c].session /\ Takings(s) <= Takings(s)'
  <2>1. CASE s = calls[c].session
    BY <1>4, <2>1, TakingsGrow
  <2>2. CASE s # calls[c].session
    BY <1>4, <2>2, TakingsStay
  <2> QED
    BY <2>1, <2>2
<1>6. \A q \in Sales : q \in Payments
  BY DEF Payments
<1> QED
  BY <1>2, <1>3, <1>5, <1>6
-----------------------------------------------------------------------------
\* What a step does to the memory of requests.

\* A step of c: nobody else's memory changes, and what c relied on, it still does.
Moves(c) ==
  /\ \A d \in Calls \ {c} : calls'[d] = calls[d]
  /\ \E k : calls'[c] = k /\ (Holds(calls[c]) => Holds(k)') /\ SumWasSold(k)'

\* What nobody touched still holds.
LEMMA AsBefore ==
  ASSUME NEW k, Sane(k), Holds(k), ~Touched(k)
  PROVE  Holds(k)'
<1>1. ASSUME k.order \in Orders
      PROVE  orders'[k.order] = orders[k.order] /\ Succeeded(k.order)' = Succeeded(k.order)
  BY <1>1 DEF Touched
<1>2. ASSUME k.session \in Sessions
      PROVE  /\ sessions'[k.session] = sessions[k.session]
             /\ k.at = "close" => Takings(k.session)' = Takings(k.session)
  BY <1>2 DEF Touched
<1>3. ASSUME k.at \in {"aggregate", "close", "existing", "sell"}
      PROVE  (k.session \in OpenSessions)'
  <2>1. k.session \in Sessions /\ k.session \in OpenSessions
    BY <1>3 DEF Sane, Holds
  <2> QED
    BY <1>2, <2>1 DEF OpenSessions
<1>4. ASSUME k.at = "close"
      PROVE  k.amount = Takings(k.session)'
  <2>1. k.session \in Sessions /\ k.amount = Takings(k.session)
    BY <1>4 DEF Sane, Holds
  <2> QED
    BY <1>2, <1>4, <2>1
<1>5. ASSUME k.at \in {"session", "existing", "sell"}
      PROVE  orders'[k.order].status = "PENDING" /\ k.amount = orders'[k.order].total
  BY <1>1, <1>5 DEF Sane, Holds
<1>6. ASSUME k.at = "sell"
      PROVE  Succeeded(k.order)' = {}
  BY <1>1, <1>6 DEF Sane, Holds
<1> QED
  BY <1>3, <1>4, <1>5, <1>6 DEF Holds

\* A request learns, and no row changes: what it has just read holds.
LEMMA Learns ==
  ASSUME IInv, NEW c \in Calls, NEW k, calls' = [calls EXCEPT ![c] = k], UNCHANGED store,
         Holds(calls[c]) => Holds(k), SumWasSold(k)
  PROVE  Moves(c)
<1>1. calls'[c] = k /\ \A d \in Calls \ {c} : calls'[d] = calls[d]
  BY Shapes
<1>2. UNCHANGED <<orders, payments, sessions>>
  BY DEF store
<1>3. OpenSessions' = OpenSessions /\ \A o : Succeeded(o)' = Succeeded(o)
  BY <1>2 DEF OpenSessions, Succeeded
<1>4. Takings(k.session)' = Takings(k.session)
  BY <1>2, TakingsSame
<1>5. Holds(k) => Holds(k)'
  BY <1>2, <1>3, <1>4 DEF Holds
<1>6. SumWasSold(k)'
  BY <1>4 DEF SumWasSold
<1> QED
  BY <1>1, <1>5, <1>6 DEF Moves

\* At the other points of a handler nothing is relied on.
LEMMA ReliesOnNothing ==
  ASSUME IInv, NEW c \in Calls, NEW k, calls' = [calls EXCEPT ![c] = k],
         k.at \in {"idle", "upsert", "order", "confirm"}
  PROVE  Moves(c)
<1>1. calls'[c] = k /\ \A d \in Calls \ {c} : calls'[d] = calls[d]
  BY Shapes
<1>2. Holds(k)' /\ SumWasSold(k)'
  BY DEF Holds, SumWasSold
<1> QED
  BY <1>1, <1>2 DEF Moves

\* A request ends.
LEMMA Ends == ASSUME IInv, NEW c \in Calls, Finish(c) PROVE Moves(c)
  BY IdleCall, ReliesOnNothing DEF Finish

\* A request is accepted with what it has just read.
LEMMA RequestMoves ==
  ASSUME IInv, NEW c \in Calls, Request(c)
  PROVE  Moves(c)
<1>1. UNCHANGED store
  BY DEF Request, RequestStatus, RequestEdit, RequestCheckout, RequestIntent, RequestOpenSession,
     RequestCloseSession
<1>2. PICK k : calls' = [calls EXCEPT ![c] = k] /\ Holds(k) /\ SumWasSold(k)
  <2>1. ASSUME NEW o \in Orders, NEW next \in Targets, RequestStatus(c, o, next)
        PROVE  \E k : calls' = [calls EXCEPT ![c] = k] /\ Holds(k) /\ SumWasSold(k)
    <3> DEFINE k == [Idle EXCEPT !.at = "status", !.order = o, !.next = next]
    <3>1. k.at = "status" /\ calls' = [calls EXCEPT ![c] = k]
      BY <2>1, IdleCall DEF CallRecords, RequestStatus, Accept
    <3> HIDE DEF k
    <3> QED
      BY <3>1 DEF Holds, SumWasSold
  <2>2. ASSUME NEW o \in Orders, RequestEdit(c, o)
        PROVE  \E k : calls' = [calls EXCEPT ![c] = k] /\ Holds(k) /\ SumWasSold(k)
    <3> DEFINE k == [Idle EXCEPT !.at = "edit", !.order = o]
    <3>1. k.at = "edit" /\ calls' = [calls EXCEPT ![c] = k]
      BY <2>2, IdleCall DEF CallRecords, RequestEdit, Accept
    <3> HIDE DEF k
    <3> QED
      BY <3>1 DEF Holds, SumWasSold
  <2>3. ASSUME NEW o \in Orders, RequestIntent(c, o)
        PROVE  \E k : calls' = [calls EXCEPT ![c] = k] /\ Holds(k) /\ SumWasSold(k)
    <3> DEFINE k == [Idle EXCEPT !.at = "intent", !.order = o, !.amount = orders[o].total]
    <3>1. k.at = "intent" /\ calls' = [calls EXCEPT ![c] = k]
      BY <2>3, IdleCall DEF CallRecords, RequestIntent, Accept
    <3> HIDE DEF k
    <3> QED
      BY <3>1 DEF Holds, SumWasSold
  <2>4. ASSUME NEW o \in Orders, RequestCheckout(c, o)
        PROVE  \E k : calls' = [calls EXCEPT ![c] = k] /\ Holds(k) /\ SumWasSold(k)
    <3> DEFINE k == [Idle EXCEPT !.at = "session", !.order = o, !.amount = orders[o].total]
    <3>1. k.at = "session" /\ k.order = o /\ k.amount = orders[o].total
      BY IdleCall DEF CallRecords
    <3>2. calls' = [calls EXCEPT ![c] = k] /\ orders[o].status = "PENDING"
      BY <2>4 DEF RequestCheckout, Accept
    <3> HIDE DEF k
    <3> QED
      BY <3>1, <3>2 DEF Holds, SumWasSold
  <2>5. CASE RequestOpenSession(c)
    <3> DEFINE k == [Idle EXCEPT !.at = "open"]
    <3>1. k.at = "open" /\ calls' = [calls EXCEPT ![c] = k]
      BY <2>5, IdleCall DEF CallRecords, RequestOpenSession, Accept
    <3> HIDE DEF k
    <3> QED
      BY <3>1 DEF Holds, SumWasSold
  <2>6. CASE RequestCloseSession(c)
    <3>1. PICK s \in OpenSessions :
            calls' = [calls EXCEPT ![c] = [Idle EXCEPT !.at = "aggregate", !.session = s]]
      BY <2>6 DEF RequestCloseSession, Accept, Newest
    <3> DEFINE k == [Idle EXCEPT !.at = "aggregate", !.session = s]
    <3>2. k.at = "aggregate" /\ k.session = s /\ calls' = [calls EXCEPT ![c] = k]
      BY <3>1, IdleCall DEF CallRecords
    <3> HIDE DEF k
    <3> QED
      BY <3>2 DEF Holds, SumWasSold
  <2> QED
    BY <2>1, <2>2, <2>3, <2>4, <2>5, <2>6 DEF Request, RequestStatus, RequestEdit,
       RequestCheckout, RequestIntent
<1> QED
  BY <1>1, <1>2, Learns

\* The figure is the sum of the session's sales.
LEMMA AggregateSessionMoves ==
  ASSUME IInv, NEW c \in Calls, AggregateSession(c)
  PROVE  Moves(c)
<1>1. PICK total : total = Takings(calls[c].session) /\ total \in Nat
  BY TakingsType
<1> DEFINE k == [calls[c] EXCEPT !.at = "close", !.amount = total]
<1>2. k.at = "close" /\ k.session = calls[c].session /\ k.amount = total
  BY Shapes DEF CallRecords
<1>3. calls' = [calls EXCEPT ![c] = k] /\ UNCHANGED store /\ calls[c].at = "aggregate"
  BY <1>1 DEF AggregateSession, Continue, At
<1> HIDE DEF k
<1>4. (Holds(calls[c]) => Holds(k)) /\ SumWasSold(k)
  BY <1>1, <1>2, <1>3 DEF Holds, SumWasSold
<1> QED
  BY <1>3, <1>4, Learns

\* checkout() finds an open session, or is rejected.
LEMMA ReadSessionMoves ==
  ASSUME IInv, NEW c \in Calls, ReadSession(c)
  PROVE  Moves(c)
<1>1. CASE Finish(c)
  BY <1>1, Ends
<1>2. ASSUME NEW s \in Newest(OpenSessions),
             Continue(c, [calls[c] EXCEPT !.at = "existing", !.session = s])
      PROVE  Moves(c)
  <2> DEFINE k == [calls[c] EXCEPT !.at = "existing", !.session = s]
  <2>1. /\ k.at = "existing" /\ k.session = s /\ k.order = calls[c].order
        /\ k.amount = calls[c].amount
    BY Shapes DEF CallRecords
  <2>2. calls' = [calls EXCEPT ![c] = k] /\ s \in OpenSessions
    BY <1>2 DEF Continue, Newest
  <2>3. calls[c].at = "session" /\ UNCHANGED store
    BY DEF ReadSession, At
  <2> HIDE DEF k
  <2>4. (Holds(calls[c]) => Holds(k)) /\ SumWasSold(k)
    BY <2>1, <2>2, <2>3 DEF Holds, SumWasSold
  <2> QED
    BY <2>2, <2>3, <2>4, Learns
<1> QED
  BY <1>1, <1>2 DEF ReadSession

\* checkout() found no payment for the order.
LEMMA ReadExistingMoves ==
  ASSUME IInv, NEW c \in Calls, ReadExisting(c)
  PROVE  Moves(c)
<1>1. CASE Finish(c)
  BY <1>1, Ends
<1>2. CASE Succeeded(calls[c].order) = {} /\ Continue(c, [calls[c] EXCEPT !.at = "sell"])
  <2> DEFINE k == [calls[c] EXCEPT !.at = "sell"]
  <2>1. /\ k.at = "sell" /\ k.session = calls[c].session /\ k.order = calls[c].order
        /\ k.amount = calls[c].amount
    BY Shapes DEF CallRecords
  <2>2. calls' = [calls EXCEPT ![c] = k]
    BY <1>2 DEF Continue
  <2>3. calls[c].at = "existing" /\ UNCHANGED store
    BY DEF ReadExisting, At
  <2> HIDE DEF k
  <2>4. (Holds(calls[c]) => Holds(k)) /\ SumWasSold(k)
    BY <1>2, <2>1, <2>3 DEF Holds, SumWasSold
  <2> QED
    BY <2>2, <2>3, <2>4, Learns
<1> QED
  BY <1>1, <1>2 DEF ReadExisting

\* The webhook marks the payment and goes on to the order, or answers.
LEMMA MarkPaymentMoves ==
  ASSUME IInv, NEW c \in Calls, MarkPayment(c)
  PROVE  Moves(c)
<1>1. CASE Finish(c)
  BY <1>1, Ends
<1>2. ASSUME NEW o, Continue(c, [calls[c] EXCEPT !.at = "order", !.order = o])
      PROVE  Moves(c)
  <2>1. [calls[c] EXCEPT !.at = "order", !.order = o].at = "order"
    BY Shapes DEF CallRecords
  <2> QED
    BY <1>2, <2>1, ReliesOnNothing DEF Continue
<1> QED
  BY <1>1, <1>2 DEF MarkPayment, Respond

\* A delivery is answered at once, or taken up.
LEMMA DeliverMoves ==
  ASSUME IInv, NEW c \in Calls, NEW e \in outbox, Deliver(c, e)
  PROVE  Moves(c)
<1>1. CASE Finish(c)
  BY <1>1, Ends
<1>2. CASE Continue(c, [Idle EXCEPT !.at = "mark", !.event = e])
  <2> DEFINE k == [Idle EXCEPT !.at = "mark", !.event = e]
  <2>1. k.at = "mark" /\ calls' = [calls EXCEPT ![c] = k] /\ UNCHANGED store
    BY <1>2, IdleCall DEF Continue, CallRecords, Deliver
  <2> HIDE DEF k
  <2>2. Holds(k) /\ SumWasSold(k)
    BY <2>1 DEF Holds, SumWasSold
  <2> QED
    BY <2>1, <2>2, Learns
<1> QED
  BY <1>1, <1>2 DEF Deliver, Respond

\* The ends of requests, and the steps towards Stripe and the order.
LEMMA OtherMoves ==
  ASSUME IInv, NEW c \in Calls,
         \/ WriteStatus(c) \/ WriteTotal(c) \/ WriteConfirmed(c) \/ Crash(c)
         \/ InsertSession(c) \/ CloseSession(c) \/ CommitSale(c) \/ UpsertPayment(c)
         \/ SessionBound(c) \/ SaleBound(c) \/ IntentBound(c) \/ CreateStripeIntent(c)
         \/ ReadOrder(c)
  PROVE  Moves(c)
<1>1. CASE Finish(c)
  BY <1>1, Ends
<1>2. CASE \E i \in Intents : Continue(c, [calls[c] EXCEPT !.at = "upsert", !.intent = i])
  <2>1. PICK i \in Intents : Continue(c, [calls[c] EXCEPT !.at = "upsert", !.intent = i])
    BY <1>2
  <2>2. [calls[c] EXCEPT !.at = "upsert", !.intent = i].at = "upsert"
    BY Shapes DEF CallRecords
  <2> QED
    BY <2>1, <2>2, ReliesOnNothing DEF Continue
<1>3. CASE Continue(c, [calls[c] EXCEPT !.at = "confirm"])
  <2>1. [calls[c] EXCEPT !.at = "confirm"].at = "confirm"
    BY Shapes DEF CallRecords
  <2> QED
    BY <1>3, <2>1, ReliesOnNothing DEF Continue
<1> QED
  BY <1>1, <1>2, <1>3 DEF WriteStatus, WriteTotal, WriteConfirmed, Crash, InsertSession,
     CloseSession, CommitSale, UpsertPayment, SessionBound, SaleBound, IntentBound,
     CreateStripeIntent, ReadOrder, Respond

\* Every step is one of some request, or leaves all their memory alone.
LEMMA OneMoves ==
  ASSUME IInv, [Next]_vars
  PROVE  (\E c \in Calls : Moves(c)) \/ UNCHANGED <<calls, store>>
<1>1. CASE UNCHANGED vars
  BY <1>1 DEF vars, store
<1>2. ASSUME NEW i \in Intents, Decline(i) \/ Pay(i)
      PROVE  UNCHANGED <<calls, store>>
  BY <1>2 DEF Decline, Pay
<1>3. ASSUME NEW c \in Calls, Request(c) \/ Handle(c) \/ Crash(c)
      PROVE  Moves(c)
  BY <1>3, RequestMoves, AggregateSessionMoves, ReadSessionMoves, ReadExistingMoves,
     MarkPaymentMoves, OtherMoves DEF Handle
<1>4. ASSUME NEW c \in Calls, NEW e \in outbox, Deliver(c, e)
      PROVE  Moves(c)
  BY <1>4, DeliverMoves
<1> QED
  BY <1>1, <1>2, <1>3, <1>4 DEF Next
-----------------------------------------------------------------------------
\* The invariant of the races.

\* Only a sale moves a session's sum, and makes it no smaller.
LEMMA TakingsMove ==
  ASSUME IInv, IInv', [Next]_vars, NEW s \in Sessions
  PROVE  \/ Takings(s)' = Takings(s)
         \/ \E c \in Calls : CommitSale(c) /\ s = calls[c].session /\ Takings(s) <= Takings(s)'
<1>1. CASE UNCHANGED payments
  BY <1>1, TakingsSame
<1>2. ASSUME NEW c \in Calls, CommitSale(c)
      PROVE  \/ Takings(s)' = Takings(s)
             \/ s = calls[c].session /\ Takings(s) <= Takings(s)'
  BY <1>2, SaleStep
<1>3. ASSUME NEW c \in Calls, UpsertPayment(c)
      PROVE  Takings(s)' = Takings(s)
  <2>1. calls[c].intent \in Intents
    BY <1>3, Shapes DEF UpsertPayment, At, Sane
  <2>2. PICK row : payments' = [payments EXCEPT ![calls[c].intent] = row]
    BY <1>3 DEF UpsertPayment
  <2> QED
    BY <2>1, <2>2, IntentStep
<1>4. ASSUME NEW c \in Calls, MarkPayment(c)
      PROVE  Takings(s)' = Takings(s)
  <2>1. calls[c].event.intent \in Intents
    BY <1>4, Shapes DEF MarkPayment, At, Sane, Happened, Events
  <2>2. PICK row : payments' = [payments EXCEPT ![calls[c].event.intent] = row]
    BY <1>4 DEF MarkPayment
  <2> QED
    BY <2>1, <2>2, IntentStep
<1>5. payments' = payments \/ \E c \in Calls : CommitSale(c) \/ UpsertPayment(c) \/ MarkPayment(c)
  BY DEF Next, vars, Request, Handle, Crash, Deliver, Decline, Pay, store, RequestStatus,
     RequestEdit, RequestCheckout, RequestIntent, RequestOpenSession, RequestCloseSession,
     WriteStatus, WriteTotal, InsertSession, SessionBound, AggregateSession, CloseSession,
     ReadSession, ReadExisting, SaleBound, CreateStripeIntent, IntentBound, ReadOrder,
     WriteConfirmed
<1> QED
  BY <1>1, <1>2, <1>3, <1>4, <1>5

\* So a session's sum never falls.
LEMMA TakingsNeverFall ==
  ASSUME IInv, IInv', [Next]_vars, NEW s \in Sessions
  PROVE  Takings(s) \in Nat /\ Takings(s)' \in Nat /\ Takings(s) <= Takings(s)'
<1>1. Takings(s) \in Nat
  BY TakingsType
<1>2. Takings(s)' \in Nat
  <2>1. PICK T \in SUBSET Payments : T = Sold(s)'
    BY DEF Sold
  <2>2. payments' \in [Payments -> PaymentRecords]
    BY DEF IInv, TypeOK
  <2>3. Takings(s)' = Amounts(payments', T)
    BY <2>1, TakingsIsAmountsNext
  <2> QED
    BY <2>1, <2>2, <2>3, AmountsIsNat
<1> QED
  BY <1>1, <1>2, TakingsMove

\* A session row is opened, or closed with what a closing has summed, or left.
LEMMA SessionsMove ==
  ASSUME IInv, [Next]_vars, NEW s \in Sessions
  PROVE  \/ sessions'[s] = sessions[s] \/ sessions'[s].state = "open"
         \/ \E c \in Calls : /\ CloseSession(c) /\ s = calls[c].session
                             /\ sessions'[s].expected = calls[c].amount
<1>1. ASSUME NEW c \in Calls, InsertSession(c)
      PROVE  sessions'[s] = sessions[s] \/ sessions'[s].state = "open"
  <2>1. PICK t \in Sessions : sessions' = [sessions EXCEPT ![t].state = "open"]
    BY <1>1 DEF InsertSession
  <2>2. sessions \in [Sessions -> SessionRecords]
    BY DEF IInv, TypeOK
  <2> QED
    BY <2>1, <2>2 DEF SessionRecords
<1>2. ASSUME NEW c \in Calls, CloseSession(c)
      PROVE  \/ sessions'[s] = sessions[s]
             \/ s = calls[c].session /\ sessions'[s].expected = calls[c].amount
  <2>1. PICK total : total = calls[c].amount
    OBVIOUS
  <2>2. PICK row : row = [state |-> "closed", expected |-> total]
    OBVIOUS
  <2>3. row.expected = calls[c].amount
    BY <2>1, <2>2
  <2>4. sessions' = [sessions EXCEPT ![calls[c].session] = row]
    BY <1>2, <2>1, <2>2 DEF CloseSession
  <2>5. sessions \in [Sessions -> SessionRecords]
    BY DEF IInv, TypeOK
  <2> QED
    BY <2>3, <2>4, <2>5
<1>3. sessions' = sessions \/ \E c \in Calls : InsertSession(c) \/ CloseSession(c)
  BY DEF Next, vars, Request, Handle, Crash, Deliver, Decline, Pay, store, RequestStatus,
     RequestEdit, RequestCheckout, RequestIntent, RequestOpenSession, RequestCloseSession,
     WriteStatus, WriteTotal, SessionBound, AggregateSession, ReadSession, ReadExisting,
     CommitSale, SaleBound, CreateStripeIntent, IntentBound, UpsertPayment, MarkPayment,
     ReadOrder, WriteConfirmed
<1> QED
  BY <1>1, <1>2, <1>3

\* A sale, or a closing that changes a row, writes.
LEMMA SaleWrites == ASSUME IInv, NEW c \in Calls, CommitSale(c) PROVE Writes(c)
<1>1. calls'[c] # calls[c]
  BY IdleCall, Shapes DEF CommitSale, At, Finish
<1>2. PICK p \in Sales :
        /\ payments[p].status = "ABSENT"
        /\ payments' = [payments EXCEPT ![p] =
             [order |-> calls[c].order, amount |-> calls[c].amount, status |-> "SUCCEEDED",
              session |-> calls[c].session, lastEvent |-> None]]
  BY DEF CommitSale
<1>3. p \in Payments /\ payments'[p].status = "SUCCEEDED"
  BY <1>2, Shapes DEF RowsOK, Payments
<1> QED
  BY <1>1, <1>2, <1>3 DEF Writes, store

\* ... and so does a closing that changes its row.
LEMMA CloseWrites ==
  ASSUME IInv, NEW c \in Calls, CloseSession(c), sessions' # sessions
  PROVE  Writes(c)
<1>1. calls'[c] # calls[c]
  BY IdleCall, Shapes DEF CloseSession, At, Finish
<1> QED
  BY <1>1 DEF Writes, store

\* Every closed session's figure keeps its bound, and is exact unless mistimed.
LEMMA NextKeepsBalance ==
  ASSUME RaceInv, IInv', RaceNext
  PROVE  ClosedSessionBalanced'
<1> SUFFICES ASSUME NEW s \in Sessions, sessions'[s].state = "closed"
             PROVE  /\ sessions'[s].expected <= Takings(s)'
                    /\ s \notin mistimed' => sessions'[s].expected = Takings(s)'
  BY DEF ClosedSessionBalanced
<1>1. IInv /\ [Next]_vars /\ Watch
  BY DEF RaceInv, RaceNext
<1>2. Takings(s) \in Nat /\ Takings(s)' \in Nat /\ Takings(s) <= Takings(s)'
  BY <1>1, TakingsNeverFall
<1>3. mistimed \subseteq mistimed'
  BY <1>1 DEF Watch
<1>4. \A c \in Calls : c \in overtaken /\ calls[c].session = s /\ Writes(c) => s \in mistimed'
  BY <1>1 DEF Watch
<1>5. CASE sessions'[s] = sessions[s]
  <2>1. /\ sessions[s].expected \in Nat /\ sessions[s].expected <= Takings(s)
        /\ s \notin mistimed => sessions[s].expected = Takings(s)
    BY <1>1, <1>5 DEF RaceInv, ClosedSessionBalanced, IInv, TypeOK, SessionRecords
  <2>2. CASE Takings(s)' = Takings(s)
    BY <1>3, <1>5, <2>1, <2>2
  <2>3. ASSUME NEW c \in Calls, CommitSale(c), s = calls[c].session
        PROVE  s \in mistimed'
    <3>1. Writes(c)
      BY <1>1, <2>3, SaleWrites
    <3>2. ~Holds(calls[c])
      BY <1>5, <2>3 DEF Holds, CommitSale, At, OpenSessions
    <3> QED
      BY <1>4, <2>3, <3>1, <3>2 DEF RaceInv
  <2> QED
    BY <1>1, <1>2, <1>5, <2>1, <2>2, <2>3, TakingsMove
<1>6. CASE sessions'[s] # sessions[s]
  <2>1. PICK c \in Calls : /\ CloseSession(c) /\ s = calls[c].session
                           /\ sessions'[s].expected = calls[c].amount
    BY <1>1, <1>6, SessionsMove
  <2>2. Takings(s)' = Takings(s)
    BY <2>1, TakingsSame DEF CloseSession
  <2>3. calls[c].at = "close"
    BY <2>1 DEF CloseSession, At
  <2>4. calls[c].amount <= Takings(s)
    BY <2>1, <2>3 DEF RaceInv, SumWasSold
  <2>5. CASE c \in overtaken
    <3>1. Writes(c)
      BY <1>1, <1>6, <2>1, CloseWrites
    <3> QED
      BY <1>4, <2>1, <2>2, <2>4, <2>5, <3>1
  <2>6. CASE c \notin overtaken
    <3>1. calls[c].amount = Takings(s)
      BY <2>1, <2>3, <2>6 DEF RaceInv, Holds
    <3> QED
      BY <1>2, <2>1, <2>2, <3>1
  <2> QED
    BY <2>5, <2>6
<1> QED
  BY <1>5, <1>6

\* What a closing has summed stays sold.
LEMMA NextKeepsSums ==
  ASSUME RaceInv, IInv', RaceNext, NEW c \in Calls
  PROVE  SumWasSold(calls[c])'
<1>1. IInv /\ [Next]_vars
  BY DEF RaceInv, RaceNext
<1>2. PICK k : k = calls'[c]
  OBVIOUS
<1>3. CASE Moves(c)
  BY <1>3 DEF Moves, SumWasSold
<1>4. CASE calls'[c] = calls[c]
  <2>1. Sane(k) /\ SumWasSold(k) /\ k \in CallRecords
    BY <1>1, <1>2, <1>4, Shapes DEF RaceInv
  <2>2. ASSUME k.at = "close"
        PROVE  k.amount <= Takings(k.session)'
    <3>1. k.session \in Sessions /\ k.amount \in Nat /\ k.amount <= Takings(k.session)
      BY <2>1, <2>2 DEF Sane, SumWasSold, CallRecords
    <3>2. /\ Takings(k.session) \in Nat /\ Takings(k.session)' \in Nat
          /\ Takings(k.session) <= Takings(k.session)'
      BY <1>1, <3>1, TakingsNeverFall
    <3> QED
      BY <3>1, <3>2
  <2>3. SumWasSold(k)'
    BY <2>2 DEF SumWasSold
  <2> QED
    BY <1>2, <2>3 DEF SumWasSold
<1> QED
  BY <1>1, <1>3, <1>4, OneMoves DEF Moves

\* A request that was not overtaken may go on relying on what it read.
LEMMA NextKeepsHolds ==
  ASSUME RaceInv, RaceNext, NEW c \in Calls, c \notin overtaken'
  PROVE  Holds(calls[c])'
<1>1. IInv /\ [Next]_vars /\ Watch
  BY DEF RaceInv, RaceNext
<1>2. PICK k : k = calls'[c]
  OBVIOUS
<1>3. Holds(k)'
  <2>1. CASE k = Idle
    BY <2>1, IdleCall DEF Holds
  <2>2. CASE k # Idle
    <3>1. c \notin overtaken /\ ~(calls'[c] = calls[c] /\ Touched(calls[c]))
      BY <1>1, <1>2, <2>2 DEF Watch
    <3>2. Holds(calls[c]) /\ Sane(calls[c])
      BY <1>1, <3>1, Shapes DEF RaceInv
    <3>3. CASE Moves(c)
      BY <1>2, <3>2, <3>3 DEF Moves
    <3>4. CASE calls'[c] = calls[c]
      <4>1. Sane(k) /\ Holds(k) /\ ~Touched(k)
        BY <1>2, <3>1, <3>2, <3>4
      <4> QED
        BY <4>1, AsBefore
    <3> QED
      BY <1>1, <3>3, <3>4, OneMoves DEF Moves
  <2> QED
    BY <2>1, <2>2
<1> QED
  BY <1>2, <1>3 DEF Holds

\* With nobody's memory and no row touched, all is as before.
LEMMA StillRaceInv == ASSUME RaceInv, UNCHANGED raceVars PROVE RaceInv'
<1>1. UNCHANGED vars /\ UNCHANGED <<orders, payments, sessions, calls, overtaken, mistimed>>
  BY DEF raceVars, vars
<1>2. IInv'
  BY <1>1, NextKeepsIInv DEF RaceInv
<1>3. OpenSessions' = OpenSessions /\ \A o : Succeeded(o)' = Succeeded(o)
  BY <1>1 DEF OpenSessions, Succeeded
<1>4. \A s : Takings(s)' = Takings(s)
  BY <1>1, TakingsSame
<1>5. ClosedSessionBalanced' /\ \A c \in Calls : SumWasSold(calls[c])'
  BY <1>1, <1>4 DEF RaceInv, ClosedSessionBalanced, SumWasSold
<1>6. \A c \in Calls \ overtaken' : Holds(calls[c])'
  BY <1>1, <1>3, <1>4 DEF RaceInv, Holds
<1> QED
  BY <1>2, <1>5, <1>6 DEF RaceInv

\* Every step preserves the invariant of the races.
LEMMA NextKeepsRaceInv == ASSUME RaceInv, [RaceNext]_raceVars PROVE RaceInv'
<1>1. CASE UNCHANGED raceVars
  BY <1>1, StillRaceInv
<1>2. CASE RaceNext
  <2>1. IInv'
    BY <1>2, NextKeepsIInv DEF RaceInv, RaceNext
  <2>2. ClosedSessionBalanced'
    BY <1>2, <2>1, NextKeepsBalance
  <2>3. \A c \in Calls : SumWasSold(calls[c])'
    BY <1>2, <2>1, NextKeepsSums
  <2>4. \A c \in Calls \ overtaken' : Holds(calls[c])'
    BY <1>2, NextKeepsHolds
  <2> QED
    BY <2>1, <2>2, <2>3, <2>4 DEF RaceInv
<1> QED
  BY <1>1, <1>2

\* However many requests overlap, one that was not overtaken may rely on what it
\* read, and every closed session is balanced as ClosedSessionBalanced says.
THEOREM RaceInvariance == RaceSpec => []RaceInv
<1>1. RaceInv /\ [RaceNext]_raceVars => RaceInv'
  BY NextKeepsRaceInv
<1> QED
  BY <1>1, InitRaceInv, PTL DEF RaceSpec

\* What a closed session expects in the drawer is never more than its sales, and
\* exactly their sum, for good, unless an overtaken checkout or closing wrote into
\* it (closeSession, checkout), for any number of overlapping requests.
THEOREM DrawerBalanced == RaceSpec => []ClosedSessionBalanced
<1>1. RaceInv => ClosedSessionBalanced
  BY DEF RaceInv
<1> QED
  BY <1>1, RaceInvariance, PTL

\* SaleIsSound of one step.
SoundSale ==
  \A p \in Sales : payments[p].status = "ABSENT" /\ payments'[p].status = "SUCCEEDED" =>
    \/ /\ orders[payments'[p].order].status = "PENDING"
       /\ Succeeded(payments'[p].order) = {}
       /\ payments'[p].amount = orders[payments'[p].order].total
       /\ sessions[payments'[p].session].state = "open"
    \/ \E c \in overtaken : calls[c].order = payments'[p].order /\ Writes(c)

\* Only a transaction of checkout() changes a POS sale.
LEMMA SalesMove ==
  ASSUME IInv, IInv', [Next]_vars
  PROVE  (\A p \in Sales : payments'[p] = payments[p]) \/ \E c \in Calls : CommitSale(c)
<1>1. ASSUME NEW c \in Calls, UpsertPayment(c)
      PROVE  \A p \in Sales : payments'[p] = payments[p]
  <2>1. calls[c].intent \in Intents
    BY <1>1, Shapes DEF UpsertPayment, At, Sane
  <2>2. PICK row : payments' = [payments EXCEPT ![calls[c].intent] = row]
    BY <1>1 DEF UpsertPayment
  <2> QED
    BY <2>1, <2>2, IntentStep
<1>2. ASSUME NEW c \in Calls, MarkPayment(c)
      PROVE  \A p \in Sales : payments'[p] = payments[p]
  <2>1. calls[c].event.intent \in Intents
    BY <1>2, Shapes DEF MarkPayment, At, Sane, Happened, Events
  <2>2. PICK row : payments' = [payments EXCEPT ![calls[c].event.intent] = row]
    BY <1>2 DEF MarkPayment
  <2> QED
    BY <2>1, <2>2, IntentStep
<1>3. payments' = payments \/ \E c \in Calls : CommitSale(c) \/ UpsertPayment(c) \/ MarkPayment(c)
  BY DEF Next, vars, Request, Handle, Crash, Deliver, Decline, Pay, store, RequestStatus,
     RequestEdit, RequestCheckout, RequestIntent, RequestOpenSession, RequestCloseSession,
     WriteStatus, WriteTotal, InsertSession, SessionBound, AggregateSession, CloseSession,
     ReadSession, ReadExisting, SaleBound, CreateStripeIntent, IntentBound, ReadOrder,
     WriteConfirmed
<1> QED
  BY <1>1, <1>2, <1>3

\* A step that records a sale is the transaction of a checkout whose reads still
\* hold, or that was overtaken.
LEMMA SoundSaleStep == ASSUME RaceInv, IInv', [Next]_vars PROVE SoundSale
<1>1. CASE \A p \in Sales : payments'[p] = payments[p]
  BY <1>1 DEF SoundSale
<1>2. ASSUME NEW c \in Calls, CommitSale(c)
      PROVE  SoundSale
  <2>1. IInv
    BY DEF RaceInv
  <2>2. \A p \in Sales : \/ payments'[p] = payments[p]
                         \/ /\ payments'[p].order = calls[c].order
                            /\ payments'[p].amount = calls[c].amount
                            /\ payments'[p].session = calls[c].session
    BY <1>2, <2>1, SaleStep
  <2>3. CASE c \in overtaken
    <3>1. Writes(c)
      BY <1>2, <2>1, SaleWrites
    <3> QED
      BY <2>2, <2>3, <3>1 DEF SoundSale
  <2>4. CASE c \notin overtaken
    <3>1. /\ orders[calls[c].order].status = "PENDING" /\ Succeeded(calls[c].order) = {}
          /\ calls[c].amount = orders[calls[c].order].total
          /\ sessions[calls[c].session].state = "open"
      BY <1>2, <2>4 DEF CommitSale, At, RaceInv, Holds, OpenSessions
    <3> QED
      BY <2>2, <3>1 DEF SoundSale
  <2> QED
    BY <2>3, <2>4
<1> QED
  BY <1>1, <1>2, SalesMove DEF RaceInv

\* A POS sale is recorded for a PENDING order nobody paid yet, at the total the
\* order has now, into a session that is open, unless its own checkout was
\* overtaken (SaleIsSound, checkout), for any number of overlapping requests.
THEOREM SalesAreSound == RaceSpec => SaleIsSound
<1>1. RaceInv /\ [RaceNext]_raceVars => [SoundSale]_raceVars
  <2> SUFFICES ASSUME RaceInv, RaceNext PROVE SoundSale
    OBVIOUS
  <2>1. [Next]_vars
    BY DEF RaceNext
  <2>2. IInv'
    BY <2>1, NextKeepsIInv DEF RaceInv
  <2> QED
    BY <2>1, <2>2, SoundSaleStep
<1>2. SaleIsSound <=> [][SoundSale]_raceVars
  BY DEF SaleIsSound, SoundSale
<1> QED
  BY <1>1, <1>2, RaceInvariance, PTL DEF RaceSpec
=============================================================================
