------------------------------ MODULE Reports ------------------------------
(***************************************************************************)
(* Sales reports (src/reports) over orders and payments that other         *)
(* requests write meanwhile.                                               *)
(*                                                                         *)
(* The clock counts instants, DayLength to a day, in UTC as the reports    *)
(* do; the last instant of a day stands for its last millisecond.  An      *)
(* order or a payment keeps the instant of its creation.  An edit and a    *)
(* change of status each test the order first and write some statements    *)
(* later without looking again; how a total comes about is in OrderTotals. *)
(* The best-selling report and the restaurant filter, the same in all      *)
(* reports, are left out.                                                  *)
(***************************************************************************)
EXTENDS Naturals, FiniteSets, FiniteSetsExt, OrderStatus, Sql

CONSTANTS Tickets,         \* ids an order may get
          Receipts,        \* ids a payment may get
          Amounts,         \* cents
          Methods,         \* payment methods
          DayLength,       \* instants in a day
          Days,            \* bound: days
          TicketTargets,   \* bound: statuses asked for
          TicketCalls      \* slots for concurrent requests that write an order

ASSUME ReportsAssumption ==
  /\ Amounts \subseteq Nat \ {0} /\ DayLength \in Nat \ {0} /\ Days \in Nat \ {0}
  /\ TicketTargets \subseteq OrderStatuses
  /\ IsFiniteSet(Tickets) /\ IsFiniteSet(Receipts) /\ Null \notin Tickets

VARIABLES now,        \* the current instant
          tickets,    \* order -> [status, total, created]; ABSENT before its creation
          receipts,   \* payment -> [status, amount, method, created]
          writers     \* request slot -> [order, write]: what it will write, a status or a total

reportVars == <<now, tickets, receipts, writers>>

NothingToWrite == [order |-> Null, write |-> "none"]

ReportsInit ==
  /\ now = 0
  /\ tickets = [o \in Tickets |-> [status |-> "ABSENT", total |-> 0, created |-> 0]]
  /\ receipts = [p \in Receipts |->
       [status |-> "ABSENT", amount |-> 0, method |-> Null, created |-> 0]]
  /\ writers = [c \in TicketCalls |-> NothingToWrite]

-----------------------------------------------------------------------------
\* What the other services write.

Tick ==
  /\ now < Days * DayLength - 1
  /\ now' = now + 1
  /\ UNCHANGED <<tickets, receipts, writers>>

OpenTicket(o, total) ==
  /\ tickets[o].status = "ABSENT"
  /\ tickets' = [tickets EXCEPT ![o] = [status |-> "DRAFT", total |-> total, created |-> now]]
  /\ UNCHANGED <<now, receipts, writers>>

Take(c, o, write) ==
  /\ writers[c] = NothingToWrite
  /\ writers' = [writers EXCEPT ![c] = [order |-> o, write |-> write]]
  /\ UNCHANGED <<now, tickets, receipts>>

\* An edit of lines or discount is let in; its total comes last.
TestEdit(c, o) ==
  /\ tickets[o].status \in EDITABLE_STATUSES
  /\ Take(c, o, "total")

\* Mutant: an order that is over may still be cancelled.
TestMoveAnyhow(c, o, next) ==
  /\ tickets[o].status \in OrderStatuses
  /\ canTransition(tickets[o].status, next) \/ next = "CANCELLED"
  /\ Take(c, o, next)

\* updateStatus, confirmOrder, markConfirmed and checkout test the status alike.
TestMove(c, o, next) ==
  /\ tickets[o].status \in OrderStatuses /\ canTransition(tickets[o].status, next)
  /\ Take(c, o, next)

EditTicket(c, total) ==
  /\ writers[c].write = "total"
  /\ tickets' = [tickets EXCEPT ![writers[c].order].total = total]
  /\ writers' = [writers EXCEPT ![c] = NothingToWrite]
  /\ UNCHANGED <<now, receipts>>

MoveTicket(c) ==
  /\ writers[c].write \in OrderStatuses
  /\ tickets' = [tickets EXCEPT ![writers[c].order].status = writers[c].write]
  /\ writers' = [writers EXCEPT ![c] = NothingToWrite]
  /\ UNCHANGED <<now, receipts>>

\* A later test rejects the request, or it dies before its write.
GiveUp(c) ==
  /\ writers[c] # NothingToWrite
  /\ writers' = [writers EXCEPT ![c] = NothingToWrite]
  /\ UNCHANGED <<now, tickets, receipts>>

\* A POS payment succeeds as it is created, a Stripe payment later or never.
CreateReceipt(p, amount, method) ==
  /\ receipts[p].status = "ABSENT"
  /\ receipts' = [receipts EXCEPT ![p] =
       [status |-> IF method = "STRIPE" THEN "REQUIRES_PAYMENT" ELSE "SUCCEEDED",
        amount |-> amount, method |-> method, created |-> now]]
  /\ UNCHANGED <<now, tickets, writers>>

\* The webhook writes whatever event comes last.
SettleReceipt(p) ==
  /\ receipts[p].status # "ABSENT" /\ receipts[p].method = "STRIPE"
  /\ \E status \in {"SUCCEEDED", "FAILED"} : receipts' = [receipts EXCEPT ![p].status = status]
  /\ UNCHANGED <<now, tickets, writers>>

ReportsNext ==
  \/ Tick
  \/ \E o \in Tickets, total \in Amounts : OpenTicket(o, total)
  \/ \E c \in TicketCalls, o \in Tickets :
       TestEdit(c, o) \/ \E next \in TicketTargets : TestMove(c, o, next)
  \/ \E c \in TicketCalls, total \in Amounts : EditTicket(c, total)
  \/ \E c \in TicketCalls : MoveTicket(c) \/ GiveUp(c)
  \/ \E p \in Receipts, amount \in Amounts, method \in Methods : CreateReceipt(p, amount, method)
  \/ \E p \in Receipts : SettleReceipt(p)

ReportsSpec == ReportsInit /\ [][ReportsNext]_reportVars

-----------------------------------------------------------------------------
\* ReportsService, each report as the value its query has now.  Days count from 0.

SALE_STATUSES == {"COMPLETED", "CONFIRMED"}

\* Midnight up to, but not including, the last instant.
dayRange(day) == [gte |-> day * DayLength, lt |-> day * DayLength + DayLength - 1]

DayOf(instant) == instant \div DayLength

SalesIn(first, last) ==
  {o \in Tickets : /\ tickets[o].status \in SALE_STATUSES
                   /\ tickets[o].created >= dayRange(first).gte
                   /\ tickets[o].created < dayRange(last).lt}

TotalOf(S) == MapThenSumSet(LAMBDA o : tickets[o].total, S)

\* Math.round of a quotient.
Rounded(a, b) == (2 * a + b) \div (2 * b)

Row(S) == [totalSalesCents |-> TotalOf(S), ticketCount |-> Cardinality(S),
           averageTicketCents |-> IF S = {} THEN 0 ELSE Rounded(TotalOf(S), Cardinality(S))]

getDailySummary(day) == Row(SalesIn(day, day))

\* Mutant: the day as it is west of Greenwich.
SoldOnLocal(first, last, day) ==
  {o \in SalesIn(first, last) : DayOf(tickets[o].created + DayLength - 1) = day + 1}

SoldOn(first, last, day) == {o \in SalesIn(first, last) : DayOf(tickets[o].created) = day}

\* The rows of a range: a function of the days that have sales in it.
DaysSold(first, last) == {DayOf(tickets[o].created) : o \in SalesIn(first, last)}
getDailySummaryRange(first, last) ==
  [day \in DaysSold(first, last) |-> Row(SoldOn(first, last, day))]
getTicketCountByDay(first, last) ==
  [day \in DaysSold(first, last) |-> Cardinality(SoldOn(first, last, day))]

getClosedTickets(first, last) ==
  {[id |-> o, totalCents |-> tickets[o].total] : o \in SalesIn(first, last)}

PaidIn(first, last, method) ==
  {p \in Receipts : /\ receipts[p].status = "SUCCEEDED" /\ receipts[p].method = method
                    /\ receipts[p].created >= dayRange(first).gte
                    /\ receipts[p].created < dayRange(last).lt}

AmountOf(S) == MapThenSumSet(LAMBDA p : receipts[p].amount, S)

\* Methods that took no money are left out.
getPaymentMethodBreakdownRange(first, last) ==
  LET taken == [m \in Methods |-> AmountOf(PaidIn(first, last, m))]
  IN [m \in {n \in Methods : taken[n] > 0} |-> taken[m]]
getPaymentMethodBreakdown(day) == getPaymentMethodBreakdownRange(day, day)

-----------------------------------------------------------------------------
\* Rows have their columns' types, and nothing is created in the future.
ReportsTypeOK ==
  /\ \A o \in Tickets : /\ tickets[o].status \in OrderStatuses \cup {"ABSENT"}
                        /\ tickets[o].created \in 0..now
  /\ \A p \in Receipts :
       /\ receipts[p].status \in {"ABSENT", "REQUIRES_PAYMENT", "SUCCEEDED", "FAILED"}
       /\ receipts[p].created \in 0..now
  /\ \A c \in TicketCalls :
       \/ writers[c] = NothingToWrite
       \/ writers[c].order \in Tickets /\ writers[c].write \in OrderStatuses \cup {"total"}

LastInstant(row) == row.created % DayLength = DayLength - 1

InLastInstant == \/ \E o \in Tickets : tickets[o].status # "ABSENT" /\ LastInstant(tickets[o])
                 \/ \E p \in Receipts : receipts[p].status # "ABSENT" /\ LastInstant(receipts[p])

AllDays == 0..(Days - 1)

\* The reports agree: the row a range has for a day is that day's own summary,
\* a day without a row sold nothing, tickets are counted alike, and the takings
\* of a range are those of its days.  They disagree only on what was created in
\* the last millisecond of a day, which is in a range but in no day.
RangeAgreesWithDays ==
  ~InLastInstant =>
    \A first \in AllDays, last \in AllDays : first <= last =>
      LET rows == getDailySummaryRange(first, last)
      IN /\ \A day \in first..last :
              IF day \in DOMAIN rows
              THEN rows[day] = getDailySummary(day)
                   /\ getTicketCountByDay(first, last)[day] = getDailySummary(day).ticketCount
              ELSE getDailySummary(day).ticketCount = 0
         /\ DOMAIN rows \subseteq first..last
         /\ getClosedTickets(first, last) = UNION {getClosedTickets(day, day) : day \in first..last}
         /\ \A m \in Methods :
              LET part(breakdown) == IF m \in DOMAIN breakdown THEN breakdown[m] ELSE 0
              IN part(getPaymentMethodBreakdownRange(first, last)) =
                   MapThenSumSet(LAMBDA day : part(getPaymentMethodBreakdown(day)), first..last)

OrdersOf(day) == {o \in Tickets : tickets[o].status # "ABSENT" /\ DayOf(tickets[o].created) = day}

\* The day is over, its orders are completed or cancelled, and no request that
\* began before they were is still going to write one of them.
Settled(day) ==
  /\ DayOf(now) > day
  /\ \A o \in OrdersOf(day) : tickets[o].status \in {"COMPLETED", "CANCELLED"}
  /\ \A c \in TicketCalls : writers[c].order \notin OrdersOf(day)

\* A settled day stays settled and its summary final, whatever requests, however
\* many, are made from then on.  A request under way when the last order ends is
\* the only one that can still change the day.
SettledDayIsFinal ==
  [][\A day \in AllDays : Settled(day) =>
       Settled(day)' /\ getDailySummary(day)' = getDailySummary(day)]_reportVars
=============================================================================
