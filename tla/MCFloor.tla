------------------------------ MODULE MCFloor ------------------------------
EXTENDS Floor, TLC
CONSTANTS t1, t2, r1, r2, c1, c2
MCTables1 == {t1}
MCTables2 == {t1, t2}
MCReservations0 == {}
MCReservations1 == {r1}
MCReservations2 == {r1, r2}
MCCalls1 == {c1}
MCCalls2 == {c1, c2}
\* Ids are interchangeable: no action singles one out.
Interchangeable == Permutations(Tables) \cup Permutations(Reservations) \cup Permutations(Calls)
=============================================================================
