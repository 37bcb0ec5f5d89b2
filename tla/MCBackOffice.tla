---------------------------- MODULE MCBackOffice ----------------------------
(***************************************************************************)
(* The components of the back office in one run.  As none depends on what  *)
(* another does (BackOfficeProofs), their interleavings add nothing: every *)
(* behaviour explores one of them, the one that focus names, and leaves    *)
(* the others where they started.                                          *)
(***************************************************************************)
EXTENDS BackOffice, TLC

VARIABLE focus

CONSTANTS t1, r1, r2, r3,   \* rows; every table has its own, so they may go by the same ids
          c1, c2        \* requests

MCTables == {t1}
MCRows2 == {r1, r2}
MCRows3 == {r1, r2, r3}
MCOther == {r3}
MCCalls == {c1, c2}

\* Stock: one order of one line; StockProofs has any number of lines.
MCSaleLines == r3 :> <<[dish |-> r3, quantity |-> 2]>>

\* Menu: every list of up to two options.
MCSelections == {<<>>} \cup {<<m>> : m \in MCRows2} \cup {<<m, n>> : m \in MCRows2, n \in MCRows2}

\* Billing: one customer with two subscriptions.
MCCustomer == [s \in MCRows2 |-> "customer"]

\* Realtime: table t1 and order r3 of one restaurant; order r3 is a customer's.
MCRestaurantOf == t1 :> "here" @@ r3 :> "here"
MCCustomerOf == r3 :> "ana"
MCAccounts ==
  {[role |-> "WAITER", userId |-> "wim", restaurantId |-> "here"],
   [role |-> "KITCHEN", userId |-> "kim", restaurantId |-> "elsewhere"],
   [role |-> "CUSTOMER", userId |-> "ana", restaurantId |-> "here"],
   [role |-> "CUSTOMER", userId |-> "ben", restaurantId |-> "here"],
   [role |-> "UNHEARD_OF", userId |-> "una", restaurantId |-> "here"]}

\* Ids are interchangeable: no action singles one out.
Interchangeable == Permutations(MCRows2) \cup Permutations(MCCalls)

\* Reports: two orders, or an order and a payment.
TwoRows == Cardinality({o \in Tickets : tickets[o].status # "ABSENT"})
             + Cardinality({p \in Receipts : receipts[p].status # "ABSENT"}) <= 2

FocusedInit ==
  BackOfficeInit /\ focus \in {"stock", "menu", "access", "billing", "realtime", "reports"}

FocusedNext ==
  /\ \/ focus = "stock" /\ StockStep
     \/ focus = "menu" /\ MenuStep
     \/ focus = "access" /\ AccessStep
     \/ focus = "billing" /\ BillingStep
     \/ focus = "realtime" /\ RealtimeStep
     \/ focus = "reports" /\ ReportsStep /\ TwoRows'
  /\ UNCHANGED focus

FocusedSpec == FocusedInit /\ [][FocusedNext]_<<backOfficeVars, focus>>
=============================================================================
