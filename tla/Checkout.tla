------------------------------ MODULE Checkout ------------------------------
(***************************************************************************)
(* Taking money: POS checkout and the cash register, Stripe intents and    *)
(* the Stripe webhook (src/payments, src/cash-register).                   *)
(*                                                                         *)
(* As in Floor, a request in flight is a slot of calls and every await a   *)
(* scheduling point.  A webhook delivery is a request too: Stripe delivers *)
(* every event at least once, in any order, and again until it is answered *)
(* with a success.  A handler's own rejections end it in place; Crash ends *)
(* it between two statements.                                              *)
(*                                                                         *)
(* Freeing the table at checkout is in Floor; how the total comes about is *)
(* in OrderTotals.                                                         *)
(***************************************************************************)
EXTENDS Naturals, FiniteSets, FiniteSetsExt, OrderStatus

CONSTANTS Orders,        \* order ids
          Totals,        \* totals an order may have, in cents
          Intents,       \* Stripe PaymentIntents that may be created
          Sales,         \* ids a POS payment row may get
          MaxSessions,   \* bound: register sessions ever opened
          Calls,         \* slots for concurrent requests
          MaxCrashes,    \* bound: requests that die between two statements
          Targets,       \* bound: statuses that requests ask for
          None           \* SQL NULL

ASSUME CheckoutAssumption ==
  /\ IsFiniteSet(Intents) /\ IsFiniteSet(Sales)
  /\ Totals \subseteq Nat
  /\ MaxSessions \in Nat /\ MaxCrashes \in Nat
  /\ Targets \subseteq OrderStatuses
  /\ Intents \cap Sales = {}
  /\ None \notin Orders \cup Intents \cup Sales \cup Nat

VARIABLES orders,     \* order id -> [status, total]
          payments,   \* payment id -> row; a Stripe payment goes by its intent
          sessions,   \* session id -> [state, expected]; ids grow with openedAt
          stripe,     \* intent -> what happened to it at Stripe (external)
          outbox,     \* Stripe events not yet acknowledged (external)
          calls,      \* request slot -> the handler's position and memory
          crashes     \* crashes so far

vars == <<orders, payments, sessions, stripe, outbox, calls, crashes>>
store == <<orders, payments, sessions>>
provider == <<stripe, outbox>>

Payments == Intents \cup Sales
Sessions == 1..MaxSessions
Events == [intent : Intents, kind : {"succeeded", "failed"}]

NoPayment == [order |-> None, amount |-> 0, status |-> "ABSENT", session |-> None,
              lastEvent |-> None]

Idle == [at |-> "idle", order |-> None, amount |-> 0, session |-> None, intent |-> None,
         event |-> None, next |-> "none"]

Init ==
  /\ orders \in [Orders -> [status : {"DRAFT"}, total : Totals]]
  /\ payments = [p \in Payments |-> NoPayment]
  /\ sessions = [s \in Sessions |-> [state |-> "absent", expected |-> 0]]
  /\ stripe = [i \in Intents |-> "absent"]
  /\ outbox = {}
  /\ calls = [c \in Calls |-> Idle]
  /\ crashes = 0

\* The payments that brought money in for an order, or into a session.
Succeeded(o) == {p \in Payments : payments[p].status = "SUCCEEDED" /\ payments[p].order = o}
Takings(s) == MapThenSumSet(LAMBDA p : payments[p].amount,
  {p \in Payments : payments[p].status = "SUCCEEDED" /\ payments[p].session = s})

OpenSessions == {s \in Sessions : sessions[s].state = "open"}
Newest(S) == {s \in S : \A t \in S : t <= s}

-----------------------------------------------------------------------------
At(c, pc) == calls[c].at = pc
Accept(c, first) == calls[c] = Idle /\ calls' = [calls EXCEPT ![c] = first]
Continue(c, then) == calls' = [calls EXCEPT ![c] = then]
Finish(c) == calls' = [calls EXCEPT ![c] = Idle]

\* The process dies, or a statement fails and the request ends with it.
Crash(c) ==
  /\ calls[c] # Idle
  /\ crashes < MaxCrashes
  /\ crashes' = crashes + 1
  /\ Finish(c)
  /\ UNCHANGED <<store, provider>>

-----------------------------------------------------------------------------
\* Order edits by other endpoints, as far as payments see them.

RequestStatus(c, o, next) ==
  /\ canTransition(orders[o].status, next)
  /\ Accept(c, [Idle EXCEPT !.at = "status", !.order = o, !.next = next])
  /\ UNCHANGED <<store, provider, crashes>>

WriteStatus(c) ==
  /\ At(c, "status")
  /\ orders' = [orders EXCEPT ![calls[c].order].status = calls[c].next]
  /\ Finish(c)
  /\ UNCHANGED <<payments, sessions, provider, crashes>>

\* An edit of lines or discount ends with a new total.
RequestEdit(c, o) ==
  /\ orders[o].status \in EDITABLE_STATUSES
  /\ Accept(c, [Idle EXCEPT !.at = "edit", !.order = o])
  /\ UNCHANGED <<store, provider, crashes>>

WriteTotal(c) ==
  /\ At(c, "edit")
  /\ \E total \in Totals : orders' = [orders EXCEPT ![calls[c].order].total = total]
  /\ Finish(c)
  /\ UNCHANGED <<payments, sessions, provider, crashes>>

-----------------------------------------------------------------------------
\* CashRegisterService.

RequestOpenSession(c) ==
  /\ OpenSessions = {}
  /\ Accept(c, [Idle EXCEPT !.at = "open"])
  /\ UNCHANGED <<store, provider, crashes>>

InsertSession(c) ==
  /\ At(c, "open")
  /\ \E s \in Sessions :
       /\ sessions[s].state = "absent"
       /\ \A t \in Sessions : t < s => sessions[t].state # "absent"
       /\ sessions' = [sessions EXCEPT ![s].state = "open"]
  /\ Finish(c)
  /\ UNCHANGED <<orders, payments, provider, crashes>>

\* Beyond the bound on sessions the insert is not modelled: the request fails.
SessionBound(c) ==
  /\ At(c, "open")
  /\ \A s \in Sessions : sessions[s].state # "absent"
  /\ Finish(c)
  /\ UNCHANGED <<store, provider, crashes>>

\* closeSession reads the newest open session, sums its payments, and writes.
RequestCloseSession(c) ==
  /\ \E s \in Newest(OpenSessions) :
       Accept(c, [Idle EXCEPT !.at = "aggregate", !.session = s])
  /\ UNCHANGED <<store, provider, crashes>>

\* Mutant: the sales of every session are summed.
AggregateEverySession(c) ==
  /\ At(c, "aggregate")
  /\ \E total \in {MapThenSumSet(Takings, Sessions)} :
       Continue(c, [calls[c] EXCEPT !.at = "close", !.amount = total])
  /\ UNCHANGED <<store, provider, crashes>>

AggregateSession(c) ==
  /\ At(c, "aggregate")
  /\ Continue(c, [calls[c] EXCEPT !.at = "close", !.amount = Takings(calls[c].session)])
  /\ UNCHANGED <<store, provider, crashes>>

CloseSession(c) ==
  /\ At(c, "close")
  /\ sessions' = [sessions EXCEPT ![calls[c].session] =
       [state |-> "closed", expected |-> calls[c].amount]]
  /\ Finish(c)
  /\ UNCHANGED <<orders, payments, provider, crashes>>

-----------------------------------------------------------------------------
\* POST /payments/checkout.

RequestCheckout(c, o) ==
  /\ orders[o].status = "PENDING"
  /\ Accept(c, [Idle EXCEPT !.at = "session", !.order = o, !.amount = orders[o].total])
  /\ UNCHANGED <<store, provider, crashes>>

\* Mutant: a sale needs no session.
ReadSessionIfAny(c) ==
  /\ At(c, "session")
  /\ IF OpenSessions = {}
       THEN Continue(c, [calls[c] EXCEPT !.at = "existing"])
       ELSE \E s \in Newest(OpenSessions) :
              Continue(c, [calls[c] EXCEPT !.at = "existing", !.session = s])
  /\ UNCHANGED <<store, provider, crashes>>

\* Without an open session the request is rejected.
ReadSession(c) ==
  /\ At(c, "session")
  /\ IF OpenSessions = {}
       THEN Finish(c)
       ELSE \E s \in Newest(OpenSessions) :
              Continue(c, [calls[c] EXCEPT !.at = "existing", !.session = s])
  /\ UNCHANGED <<store, provider, crashes>>

\* Mutant: the payments already made are not looked at.
SkipExisting(c) ==
  /\ At(c, "existing")
  /\ Continue(c, [calls[c] EXCEPT !.at = "sell"])
  /\ UNCHANGED <<store, provider, crashes>>

\* An order that has a SUCCEEDED payment answers with it.  Otherwise the cash
\* handed over is compared with the total: too little is rejected.
ReadExisting(c) ==
  /\ At(c, "existing")
  /\ \/ Finish(c)
     \/ /\ Succeeded(calls[c].order) = {}
        /\ Continue(c, [calls[c] EXCEPT !.at = "sell"])
  /\ UNCHANGED <<store, provider, crashes>>

\* One transaction: the order is CONFIRMED and the sale recorded, with the
\* amount and the session read before.
CommitSale(c) ==
  /\ At(c, "sell")
  /\ orders' = [orders EXCEPT ![calls[c].order].status = "CONFIRMED"]
  /\ \E p \in Sales :
       /\ payments[p].status = "ABSENT"
       /\ payments' = [payments EXCEPT ![p] =
            [order |-> calls[c].order, amount |-> calls[c].amount, status |-> "SUCCEEDED",
             session |-> calls[c].session, lastEvent |-> None]]
  /\ Finish(c)
  /\ UNCHANGED <<sessions, provider, crashes>>

\* Beyond the bound on sales the transaction fails.
SaleBound(c) ==
  /\ At(c, "sell")
  /\ \A p \in Sales : payments[p].status # "ABSENT"
  /\ Finish(c)
  /\ UNCHANGED <<store, provider, crashes>>

-----------------------------------------------------------------------------
\* POST /payments/intent: the total goes to Stripe, then into a payment row.

RequestIntent(c, o) ==
  /\ orders[o].status = "PENDING"
  /\ Accept(c, [Idle EXCEPT !.at = "intent", !.order = o, !.amount = orders[o].total])
  /\ UNCHANGED <<store, provider, crashes>>

CreateStripeIntent(c) ==
  /\ At(c, "intent")
  /\ \E i \in Intents :
       /\ stripe[i] = "absent"
       /\ stripe' = [stripe EXCEPT ![i] = "created"]
       /\ Continue(c, [calls[c] EXCEPT !.at = "upsert", !.intent = i])
  /\ UNCHANGED <<store, outbox, crashes>>

\* Beyond the bound on intents the call to Stripe fails.
IntentBound(c) ==
  /\ At(c, "intent")
  /\ \A i \in Intents : stripe[i] # "absent"
  /\ Finish(c)
  /\ UNCHANGED <<store, provider, crashes>>

UpsertPayment(c) ==
  /\ At(c, "upsert")
  /\ payments' = [payments EXCEPT ![calls[c].intent] =
       [order |-> calls[c].order, amount |-> calls[c].amount,
        status |-> "REQUIRES_PAYMENT", session |-> None, lastEvent |-> None]]
  /\ Finish(c)
  /\ UNCHANGED <<orders, sessions, provider, crashes>>

\* The customer has the client secret only from the answer of createIntent.
\* A declined attempt may be followed by a successful one.
Decline(i) ==
  /\ payments[i].status # "ABSENT"
  /\ stripe[i] = "created"
  /\ stripe' = [stripe EXCEPT ![i] = "declined"]
  /\ outbox' = outbox \cup {[intent |-> i, kind |-> "failed"]}
  /\ UNCHANGED <<store, calls, crashes>>

Pay(i) ==
  /\ payments[i].status # "ABSENT"
  /\ stripe[i] \in {"created", "declined"}
  /\ stripe' = [stripe EXCEPT ![i] = "paid"]
  /\ outbox' = outbox \cup {[intent |-> i, kind |-> "succeeded"]}
  /\ UNCHANGED <<store, calls, crashes>>

-----------------------------------------------------------------------------
\* POST /payments/webhook.

\* The handler answered 200.  Stripe removes the event, unless the answer got
\* lost: then it delivers the event again.
Respond(c, e) ==
  /\ Finish(c)
  /\ outbox' \in {outbox, outbox \ {e}}

\* The payment is looked up by the event's intent; the event it processed last
\* is not processed again.
Deliver(c, e) ==
  /\ e \in outbox
  /\ calls[c] = Idle
  /\ IF payments[e.intent].status = "ABSENT" \/ payments[e.intent].lastEvent = e
       THEN Respond(c, e)
       ELSE Continue(c, [Idle EXCEPT !.at = "mark", !.event = e]) /\ UNCHANGED outbox
  /\ UNCHANGED <<store, stripe, crashes>>

\* Mutant: every event counts as a success.
OutcomeAlways(kind) == "SUCCEEDED"
Outcome(kind) == IF kind = "succeeded" THEN "SUCCEEDED" ELSE "FAILED"

\* The row takes the outcome and the event id.  A success goes on to
\* OrdersService.markConfirmed, a failure is answered.
MarkPayment(c) ==
  LET e == calls[c].event
  IN /\ At(c, "mark")
     /\ payments' = [payments EXCEPT ![e.intent].status = Outcome(e.kind),
                                     ![e.intent].lastEvent = e]
     /\ IF e.kind = "succeeded"
          THEN /\ Continue(c, [calls[c] EXCEPT !.at = "order",
                                               !.order = payments[e.intent].order])
               /\ UNCHANGED outbox
          ELSE Respond(c, e)
     /\ UNCHANGED <<orders, sessions, stripe, crashes>>

\* Mutant: an order still in DRAFT, not PENDING, is looked for.
ConfirmableDraft(o) == orders[o].status = "DRAFT"
Confirmable(o) == canTransition(orders[o].status, "CONFIRMED")

\* markConfirmed reads the order; one that cannot be CONFIRMED is left alone.
ReadOrder(c) ==
  /\ At(c, "order")
  /\ IF Confirmable(calls[c].order)
       THEN Continue(c, [calls[c] EXCEPT !.at = "confirm"]) /\ UNCHANGED outbox
       ELSE Respond(c, calls[c].event)
  /\ UNCHANGED <<store, stripe, crashes>>

WriteConfirmed(c) ==
  /\ At(c, "confirm")
  /\ orders' = [orders EXCEPT ![calls[c].order].status = "CONFIRMED"]
  /\ Respond(c, calls[c].event)
  /\ UNCHANGED <<payments, sessions, stripe, crashes>>

-----------------------------------------------------------------------------
\* A client sends a request to slot c.
Request(c) ==
  \/ \E o \in Orders, next \in Targets : RequestStatus(c, o, next)
  \/ \E o \in Orders : RequestEdit(c, o)
  \/ \E o \in Orders : RequestCheckout(c, o)
  \/ \E o \in Orders : RequestIntent(c, o)
  \/ RequestOpenSession(c)
  \/ RequestCloseSession(c)

\* Slot c goes on with the request it has.
Handle(c) ==
  \/ WriteStatus(c)
  \/ WriteTotal(c)
  \/ InsertSession(c)
  \/ SessionBound(c)
  \/ AggregateSession(c)
  \/ CloseSession(c)
  \/ ReadSession(c)
  \/ ReadExisting(c)
  \/ CommitSale(c)
  \/ SaleBound(c)
  \/ CreateStripeIntent(c)
  \/ IntentBound(c)
  \/ UpsertPayment(c)
  \/ MarkPayment(c)
  \/ ReadOrder(c)
  \/ WriteConfirmed(c)

Next ==
  \/ \E c \in Calls : Request(c) \/ Handle(c) \/ Crash(c)
  \/ \E c \in Calls, e \in outbox : Deliver(c, e)
  \/ \E i \in Intents : Decline(i) \/ Pay(i)

Spec == Init /\ [][Next]_vars

\* A handler that is running goes on, and Stripe goes on delivering an event
\* it has no answer for.  No client has to send anything.
Fairness ==
  /\ \A c \in Calls : WF_vars(Handle(c))
  /\ \A e \in Events : SF_vars(\E c \in Calls : Deliver(c, e))

FairSpec == Spec /\ Fairness

-----------------------------------------------------------------------------
OrderRecords == [status : OrderStatuses, total : Nat]

PaymentRecords ==
  [order : Orders \cup {None}, amount : Nat,
   status : {"ABSENT", "REQUIRES_PAYMENT", "SUCCEEDED", "FAILED"},
   session : Sessions \cup {None}, lastEvent : Events \cup {None}]

SessionRecords == [state : {"absent", "open", "closed"}, expected : Nat]

CallRecords ==
  [at : {"idle", "status", "edit", "open", "aggregate", "close", "session", "existing",
         "sell", "intent", "upsert", "mark", "order", "confirm"},
   order : Orders \cup {None}, amount : Nat, session : Sessions \cup {None},
   intent : Intents \cup {None}, event : Events \cup {None},
   next : OrderStatuses \cup {"none"}]

\* Rows have their columns' types; every payment names an order, a POS sale
\* also its session, and a Stripe payment none.
TypeOK ==
  /\ orders \in [Orders -> OrderRecords]
  /\ payments \in [Payments -> PaymentRecords]
  /\ sessions \in [Sessions -> SessionRecords]
  /\ stripe \in [Intents -> {"absent", "created", "declined", "paid"}]
  /\ outbox \subseteq Events
  /\ calls \in [Calls -> CallRecords]
  /\ crashes \in 0..MaxCrashes
  /\ \A p \in Payments : payments[p].status # "ABSENT" => payments[p].order # None
  /\ \A p \in Sales : payments[p].status # "ABSENT" => payments[p].session # None
  /\ \A i \in Intents : payments[i].session = None

-----------------------------------------------------------------------------
\* Properties of requests that interleave.

\* A Stripe payment is SUCCEEDED only if the customer's payment succeeded,
\* however often and in whatever order the events of its attempts arrive.
SucceededMeansPaid ==
  \A i \in Intents : payments[i].status = "SUCCEEDED" => stripe[i] = "paid"

\* The payment row does not know yet of a success Stripe has not seen answered.
Unheard(i) ==
  /\ [intent |-> i, kind |-> "succeeded"] \in outbox
  /\ payments[i].status # "SUCCEEDED"

\* An order the customer paid through Stripe leaves PENDING: the webhook is the
\* source of truth that confirms it.  It holds however deliveries of success
\* and decline interleave with each other and with staff, and is lost by a
\* single crash between the two writes of the webhook: the redelivered event
\* is then taken for a duplicate.
PaidIsConfirmed ==
  \A i \in Intents : Unheard(i) ~>
    \E o \in Orders : payments[i].order = o /\ orders[o].status # "PENDING"

\* The order of a paid intent is PENDING and no delivery is left to confirm it:
\* none is under way, and Stripe has its answer or a repetition would be taken
\* for a duplicate.
ConfirmationLost(i) ==
  LET success == [intent |-> i, kind |-> "succeeded"]
  IN /\ crashes > 0
     /\ \A o \in Orders : payments[i].order = o => orders[o].status = "PENDING"
     /\ success \notin outbox \/ payments[i].lastEvent = success
     /\ \A c \in Calls : calls[c].event # success

\* That crash is the only thing that can lose it: without one the confirmation
\* always comes, and one that hits any other request, or a delivery before its
\* first write, is made good by Stripe's repetition.
PaidIsConfirmedUnlessLost ==
  \A i \in Intents : Unheard(i) ~>
    \/ \E o \in Orders : payments[i].order = o /\ orders[o].status # "PENDING"
    \/ ConfirmationLost(i)

-----------------------------------------------------------------------------
\* What the repository says and the code does not keep.

\* checkout(): never double-charge an already-paid order.
NeverDoubleCharged == \A o \in Orders : Cardinality(Succeeded(o)) <= 1
=============================================================================
