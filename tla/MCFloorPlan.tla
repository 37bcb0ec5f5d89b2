---------------------------- MODULE MCFloorPlan ----------------------------
EXTENDS FloorPlan, TLC
CONSTANTS t1, t2, z1, c1, c2
MCTables == {t1, t2}
MCZones == {z1}
MCCalls == {c1, c2}
MCWords == {"PISO", "TERRAZA"}
MCPrefix == [PISO |-> "", TERRAZA |-> "TER"]
MCCodes == {[prefix |-> "TER", n |-> 1]}
MCName(n, spelling) == [code |-> [prefix |-> "", n |-> 1], no |-> n, spelling |-> spelling]
MCTableNames == {MCName(1, "plain"), MCName(1, "variant"), MCName(2, "plain")}
\* Ids are interchangeable: no action singles one out.
Interchangeable == Permutations(Tables) \cup Permutations(Zones) \cup Permutations(Calls)
=============================================================================
