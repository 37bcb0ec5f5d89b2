--------------------------- MODULE MCOrderTotals ---------------------------
EXTENDS OrderTotals, TLC
CONSTANTS l1, l2, c1, c2
MCLines == {l1, l2}
MCCalls == {c1, c2}
MCDeltas == {-1}
MCDiscounts == {[type |-> "PERCENTAGE", value |-> 50], [type |-> "FIXED", value |-> 1]}
Interchangeable == Permutations(Lines) \cup Permutations(Calls)
=============================================================================
