--------------------------- MODULE MCCheckoutRaces ---------------------------
EXTENDS MCCheckout, CheckoutRaces
\* Bound: two orders are worked on, or one order with Stripe.
Begun == {o \in Orders : orders[o].status # "DRAFT" \/ \E c \in Calls : calls[c].order = o}
StripeUsed == \/ \E i \in Intents : stripe[i] # "absent"
              \/ \E c \in Calls : calls[c].at = "intent"
OneOrderOrNoStripe == Cardinality(Begun) <= 1 \/ ~StripeUsed
BoundedSpec == RaceInit /\ [][RaceNext /\ OneOrderOrNoStripe']_raceVars
=============================================================================
