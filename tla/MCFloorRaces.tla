---------------------------- MODULE MCFloorRaces ----------------------------
EXTENDS MCFloor, FloorRaces
\* Bound: at most MaxRows orders and reservations are ever created.
MaxRows == 3
RowsUsed == Cardinality({o \in Orders : OrderRow(o)})
              + Cardinality({r \in Reservations : ReservationRow(r)})
FewRowsSpec == RaceInit /\ [][RaceNext /\ RowsUsed' <= MaxRows]_raceVars
=============================================================================
