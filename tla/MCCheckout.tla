----------------------------- MODULE MCCheckout -----------------------------
EXTENDS Checkout, TLC
CONSTANTS o1, o2, i1, i2, p1, p2, c1, c2
MCOrders1 == {o1}
MCOrders2 == {o1, o2}
MCIntents1 == {i1}
MCSales1 == {p1}
MCSales2 == {p1, p2}
MCCalls1 == {c1}
MCCalls2 == {c1, c2}
Interchangeable == Permutations(Orders) \cup Permutations(Sales) \cup Permutations(Calls)
=============================================================================
