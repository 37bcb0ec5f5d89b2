------------------------------ MODULE Billing ------------------------------
(***************************************************************************)
(* The restaurants' own subscriptions (src/billing): a table kept in step  *)
(* with Stripe by its webhook.                                             *)
(*                                                                         *)
(* Stripe (external) creates, updates and cancels subscriptions and sends  *)
(* an event for each change: at least once, in any order, and again until  *)
(* a delivery is acknowledged.  A delivery in flight is a slot of          *)
(* deliveries; its handler looks for a row and writes in a later           *)
(* statement.  current_period_end and planName are left out.               *)
(*                                                                         *)
(* History: latest is the last event of a subscription that reached its    *)
(* row; disordered tells whether one was dropped or came after a later one.*)
(***************************************************************************)
EXTENDS Naturals, FiniteSets, Sql

CONSTANTS Subs,          \* Stripe subscriptions
          Customer,      \* subscription -> its Stripe customer
          SubStatuses,   \* statuses an update may report
          MaxEvents,     \* bound: events of one subscription
          Deliveries     \* slots for deliveries in flight

ASSUME BillingAssumption ==
  /\ SubStatuses \subseteq STRING \ {"absent"}
  /\ MaxEvents \in Nat
  /\ Null \notin Subs

VARIABLES atStripe,        \* subscription -> [status, events sent] (external)
          billingOutbox,   \* events not acknowledged (external)
          subscriptions,   \* customer -> row [sub, status], or NoRow
          deliveries,      \* slot -> the handler's position and event
          latest, disordered

billingVars == <<atStripe, billingOutbox, subscriptions, deliveries, latest, disordered>>
billingHistory == <<latest, disordered>>

Customers == {Customer[s] : s \in Subs}
NoRow == [sub |-> Null, status |-> "absent"]
NoDelivery == [at |-> "idle", event |-> Null]

BillingInit ==
  /\ atStripe = [s \in Subs |-> [status |-> "absent", sent |-> 0]]
  /\ billingOutbox = {}
  /\ subscriptions = [k \in Customers |-> NoRow]
  /\ deliveries = [c \in Deliveries |-> NoDelivery]
  /\ latest = [s \in Subs |-> 0]
  /\ disordered = [s \in Subs |-> FALSE]

-----------------------------------------------------------------------------
\* Stripe.

StripeEvent(s, kind, status) ==
  /\ atStripe[s].sent < MaxEvents
  /\ atStripe' = [atStripe EXCEPT ![s] = [status |-> status, sent |-> @.sent + 1]]
  /\ billingOutbox' = billingOutbox \cup
       {[kind |-> kind, sub |-> s, status |-> status, no |-> atStripe[s].sent + 1]}
  /\ UNCHANGED <<subscriptions, deliveries, billingHistory>>

Started(s) == atStripe[s].status \notin {"absent", "canceled"}

StripeCreates(s) == atStripe[s].status = "absent" /\ \E status \in SubStatuses :
  StripeEvent(s, "created", status)
StripeUpdates(s) == Started(s) /\ \E status \in SubStatuses :
  StripeEvent(s, "updated", status)
StripeCancels(s) == Started(s) /\ StripeEvent(s, "deleted", "canceled")
InvoiceFails(s) == Started(s) /\ StripeEvent(s, "payment_failed", "past_due")

-----------------------------------------------------------------------------
\* BillingService.

Acknowledge(c) ==
  /\ billingOutbox' = billingOutbox \ {deliveries[c].event}
  /\ deliveries' = [deliveries EXCEPT ![c] = NoDelivery]

BillingGoTo(c, at, event) ==
  /\ deliveries' = [deliveries EXCEPT ![c] = [at |-> at, event |-> event]]
  /\ UNCHANGED <<atStripe, billingOutbox, subscriptions, billingHistory>>

Deliver(c, event) ==
  /\ deliveries[c] = NoDelivery
  /\ BillingGoTo(c, "find", event)

RowOf(s) == {k \in Customers : subscriptions[k].sub = s}

Reached(event) ==
  /\ latest' = [latest EXCEPT ![event.sub] = IF event.no > @ THEN event.no ELSE @]
  /\ disordered' = [disordered EXCEPT ![event.sub] = @ \/ event.no < latest[event.sub]]

\* Mutant: a creation is acknowledged before its row is inserted.
FindCustomerAndAnswer(c) ==
  /\ deliveries[c].at = "find" /\ deliveries[c].event.kind = "created"
  /\ subscriptions[Customer[deliveries[c].event.sub]] = NoRow
  /\ deliveries' = [deliveries EXCEPT ![c].at = "insert"]
  /\ billingOutbox' = billingOutbox \ {deliveries[c].event}
  /\ UNCHANGED <<atStripe, subscriptions, billingHistory>>

\* onSubscriptionCreated: a customer that has a row keeps it as it is.
FindCustomer(c) ==
  LET event == deliveries[c].event
  IN /\ deliveries[c].at = "find" /\ event.kind = "created"
     /\ subscriptions[Customer[event.sub]] = NoRow
     /\ BillingGoTo(c, "insert", event)

SkipCreated(c) ==
  LET event == deliveries[c].event
      row == subscriptions[Customer[event.sub]]
  IN /\ deliveries[c].at = "find" /\ event.kind = "created"
     /\ row # NoRow
     /\ disordered' = [disordered EXCEPT ![event.sub] = @ \/ row.sub # event.sub]
     /\ Acknowledge(c)
     /\ UNCHANGED <<atStripe, subscriptions, latest>>

\* createSubscription: active, whatever Stripe reported.  The unique columns
\* refuse a second row of a customer or of a subscription.
CreateSubscription(c) ==
  LET event == deliveries[c].event
  IN /\ deliveries[c].at = "insert"
     /\ subscriptions[Customer[event.sub]] = NoRow /\ RowOf(event.sub) = {}
     /\ subscriptions' = [subscriptions EXCEPT ![Customer[event.sub]] =
          [sub |-> event.sub, status |-> "active"]]
     /\ Reached(event)
     /\ Acknowledge(c)
     /\ UNCHANGED atStripe

\* updateSubscriptionStatus: an event of an unknown subscription is dropped ...
DropUnknown(c) ==
  LET event == deliveries[c].event
  IN /\ deliveries[c].at = "find" /\ event.kind # "created"
     /\ RowOf(event.sub) = {}
     /\ disordered' = [disordered EXCEPT ![event.sub] = TRUE]
     /\ Acknowledge(c)
     /\ UNCHANGED <<atStripe, subscriptions, latest>>

FindSubscription(c) ==
  LET event == deliveries[c].event
  IN /\ deliveries[c].at = "find" /\ event.kind # "created"
     /\ RowOf(event.sub) # {}
     /\ BillingGoTo(c, "update", event)

\* Mutant: a failed invoice leaves the status as it was created.
StatusIgnoringInvoices(event) == CASE event.kind = "deleted" -> "canceled"
                                   [] event.kind = "payment_failed" -> "active"
                                   [] OTHER -> event.status

StatusOf(event) == CASE event.kind = "deleted" -> "canceled"
                     [] event.kind = "payment_failed" -> "past_due"
                     [] OTHER -> event.status

\* ... any other one sets the status, whatever has been written meanwhile.
UpdateSubscription(c) ==
  LET event == deliveries[c].event
  IN /\ deliveries[c].at = "update"
     /\ \E k \in RowOf(event.sub) :
          subscriptions' = [subscriptions EXCEPT ![k].status = StatusOf(event)]
     /\ Reached(event)
     /\ Acknowledge(c)
     /\ UNCHANGED atStripe

\* A refused insert or a crash answers nothing: Stripe delivers again.
FailDelivery(c) ==
  /\ deliveries[c] # NoDelivery
  /\ BillingGoTo(c, "idle", Null)

-----------------------------------------------------------------------------
BillingNext ==
  \/ \E s \in Subs : StripeCreates(s) \/ StripeUpdates(s) \/ StripeCancels(s) \/ InvoiceFails(s)
  \/ \E c \in Deliveries :
       \/ \E event \in billingOutbox : Deliver(c, event)
       \/ FindCustomer(c) \/ SkipCreated(c) \/ CreateSubscription(c)
       \/ DropUnknown(c) \/ FindSubscription(c) \/ UpdateSubscription(c)
       \/ FailDelivery(c)

BillingSpec == BillingInit /\ [][BillingNext]_billingVars

-----------------------------------------------------------------------------
\* A customer's row is for one of the customer's subscriptions.
BillingTypeOK ==
  /\ \A k \in Customers : subscriptions[k] # NoRow =>
       /\ subscriptions[k].sub \in Subs /\ Customer[subscriptions[k].sub] = k
       /\ subscriptions[k].status \in SubStatuses \cup {"active", "past_due", "canceled"}
  /\ \A s \in Subs : latest[s] \in 0..MaxEvents /\ disordered[s] \in BOOLEAN

Pending(s) == \/ \E event \in billingOutbox : event.sub = s
              \/ \E c \in Deliveries : deliveries[c] # NoDelivery /\ deliveries[c].event.sub = s

\* Once every event of a subscription is acknowledged, its row has the status
\* Stripe has, although events are delivered again and by overlapping handlers;
\* unless one was dropped, or overtaken by a later one, or the creation is the
\* only one, which is recorded as active whatever it said.
InSyncInOrder ==
  \A s \in Subs : atStripe[s].sent > 1 /\ ~Pending(s) /\ ~disordered[s] =>
    subscriptions[Customer[s]] = [sub |-> s, status |-> atStripe[s].status]

\* A subscription whose creation was acknowledged left its customer with a row,
\* over failed and repeated deliveries and two subscriptions of one customer.
CreationHasRow ==
  \A s \in Subs :
    atStripe[s].sent > 0 /\ (\A event \in billingOutbox : event.sub = s => event.kind # "created")
    => subscriptions[Customer[s]] # NoRow
=============================================================================
