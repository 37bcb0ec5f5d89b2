--------------------------- MODULE FloorPlanProofs ---------------------------
(***************************************************************************)
(* Proofs about FloorPlan, for any number of zones, tables and concurrent  *)
(* requests.  IInv says of every request in flight that what it tested is  *)
(* still so unless another request has written since: Fresh.               *)
(***************************************************************************)
EXTENDS FloorPlan, Folding

ZoneRecords == [state : {"absent", "live", "gone"}, word : Words, code : AllCodes]

TableRecords == [status : TableStatuses \cup {"ABSENT", "GONE"},
                 name : TableNames \cup {NoName}, zone : Zones \cup {None}]

CallRecords == [at : {"idle", "insertZone", "updateZone", "deleteTables", "deleteZone",
                      "insertTable", "rename", "move", "deleteTable"},
                table : Tables \cup {None}, zone : Zones \cup {None},
                word : Words \cup {None}, code : AllCodes \cup {None},
                name : AllNames \cup {None}, doomed : SUBSET Tables, overtaken : BOOLEAN]

\* What a request holds at each point of its handler.
Sane(k) ==
  /\ k.at = "insertZone" => k.word \in Words /\ k.code \in AllCodes
  /\ k.at \in {"insertTable", "rename"} => k.name \in TableNames

\* What a request tested still holds, unless it was overtaken.
Fresh(k) ==
  ~k.overtaken =>
    /\ k.at = "insertTable" => assertNameUnique(k.name, None)
    /\ k.at = "rename" => assertNameUnique(k.name, k.table)
    /\ k.at \in {"deleteTables", "deleteZone"} => BlockingTables(k.zone) = {}
    /\ k.at = "deleteZone" => k.doomed = TablesIn(k.zone)

\* A table's zone exists.
ZonesExist == \A t \in TableRows : tables[t].zone # None => tables[t].zone \in ZoneRows

RowsOK ==
  /\ tables \in [Tables -> TableRecords]
  /\ zones \in [Zones -> ZoneRecords]
  /\ ZonesExist
  /\ raced \in BOOLEAN

IInv ==
  /\ RowsOK
  /\ NamesDistinct
  /\ calls \in [Calls -> CallRecords]
  /\ \A c \in Calls : Sane(calls[c]) /\ Fresh(calls[c])

-----------------------------------------------------------------------------
\* Among one number more than there are things, one is not the number of any
\* thing.
LEMMA FreeNumber ==
  ASSUME NEW S, IsFiniteSet(S), NEW f \in [S -> Nat]
  PROVE  (1..(Cardinality(S) + 1)) \ {f[x] : x \in S} # {}
<1> DEFINE T == {f[x] : x \in S}
<1>1. f \in Surjection(S, T)
  BY DEF Surjection
<1>2. IsFiniteSet(T) /\ Cardinality(T) <= Cardinality(S)
  BY <1>1, FS_Surjection
<1>3. Cardinality(S) \in Nat /\ Cardinality(T) \in Nat
  BY <1>2, FS_CardinalityType
<1>4. PICK N \in Int : N = Cardinality(S) + 1
  BY <1>3
<1>5. N >= 1 /\ N > Cardinality(T)
  BY <1>2, <1>3, <1>4
<1>6. Cardinality(1..N) = N
  BY <1>5, FS_Interval
<1> HIDE DEF T
<1>7. (1..N) \in SUBSET T => Cardinality(1..N) <= Cardinality(T)
  BY <1>2, FS_Subset
<1>8. ~(1..N \subseteq T)
  BY <1>3, <1>5, <1>6, <1>7
<1> QED
  BY <1>4, <1>8 DEF T

\* So the least number that is free can be taken.
LEMMA LeastFree ==
  ASSUME NEW S, IsFiniteSet(S), NEW f \in [S -> Nat], NEW free \in SUBSET (1..(Cardinality(S) + 1)),
         (1..(Cardinality(S) + 1)) \ {f[x] : x \in S} \subseteq free
  PROVE  Min(free) \in free /\ Min(free) \in Nat \ {0}
<1>1. free # {}
  BY FreeNumber
<1>2. Cardinality(S) \in Nat
  BY FS_CardinalityType
<1>3. IsFiniteSet(1..(Cardinality(S) + 1))
  BY <1>2, FS_Interval
<1>4. IsFiniteSet(free)
  BY <1>3, FS_Subset
<1>5. free \in SUBSET Int
  BY <1>2
<1>6. Min(free) \in free
  BY <1>1, <1>4, <1>5, MinMax
<1>7. \A n \in free : n \in Nat \ {0}
  BY <1>2
<1> QED
  BY <1>6, <1>7

\* A code is computed for every word, whatever zones there are.
LEMMA CodeComputed ==
  ASSUME zones \in [Zones -> ZoneRecords], NEW word \in Words
  PROVE  computeZoneCode(word) \in AllCodes
<1> DEFINE used == {zones[z].code : z \in {y \in ZoneRows : word = Piso => zones[y].word = Piso}}
           free == {n \in 1..(Cardinality(Zones) + 1) :
                      [prefix |-> Prefix[word], n |-> n] \notin used}
<1>1. PICK f : f = [z \in Zones |-> zones[z].code.n]
  OBVIOUS
<1>2. f \in [Zones -> Nat]
  BY <1>1 DEF ZoneRecords, AllCodes
<1>3. (1..(Cardinality(Zones) + 1)) \ {f[z] : z \in Zones} \subseteq free
  <2>1. \A z \in Zones : zones[z].code = [prefix |-> zones[z].code.prefix, n |-> f[z]]
    BY <1>1 DEF ZoneRecords, AllCodes
  <2>2. \A n : [prefix |-> Prefix[word], n |-> n] \in used => n \in {f[z] : z \in Zones}
    BY <1>1, <2>1 DEF ZoneRows
  <2> QED
    BY <2>2
<1>4. IsFiniteSet(Zones)
  BY FloorPlanAssumption
<1>5. free \in SUBSET (1..(Cardinality(Zones) + 1))
  OBVIOUS
<1> HIDE DEF used, free
<1>6. Min(free) \in Nat \ {0}
  BY <1>2, <1>3, <1>4, <1>5, LeastFree
<1> QED
  BY <1>6 DEF computeZoneCode, AllCodes, used, free

\* The suggested number is no number that was seen.
LEMMA SuggestionUnseen ==
  ASSUME tables \in [Tables -> TableRecords], NEW z
  PROVE  NextTableName(z).no \notin Suffixes(z)
<1> DEFINE free == (1..(Cardinality(Tables) + 1)) \ Suffixes(z)
<1>0. NoName \in AllNames
  BY FloorPlanAssumption DEF NoName, NoCode, AllNames, AllCodes
<1>1. PICK f : f = [t \in Tables |-> tables[t].name.no]
  OBVIOUS
<1>2. f \in [Tables -> Nat]
  BY <1>0, <1>1, FloorPlanAssumption DEF TableRecords, AllNames
<1>3. (1..(Cardinality(Tables) + 1)) \ {f[t] : t \in Tables} \subseteq free
  BY <1>1 DEF Suffixes, NamesSeen, TableRows
<1>4. IsFiniteSet(Tables)
  BY FloorPlanAssumption
<1>5. free \in SUBSET (1..(Cardinality(Tables) + 1))
  OBVIOUS
<1> HIDE DEF free
<1>6. Min(free) \in free
  BY <1>2, <1>3, <1>4, <1>5, LeastFree
<1> QED
  BY <1>6 DEF free, NextTableName

-----------------------------------------------------------------------------
\* The empty slot.
LEMMA IdleCall ==
  /\ Idle \in CallRecords /\ Idle.at = "idle"
  /\ \A k : k.at = "idle" => Sane(k) /\ Fresh(k)
BY DEF Idle, CallRecords, Sane, Fresh

\* Rows that hold nothing.
LEMMA EmptyRows ==
  /\ \A status \in {"ABSENT", "GONE"} :
       NoTable(status) \in TableRecords /\ NoTable(status).status = status
  /\ \A state \in {"absent", "gone"} :
       NoZone(state) \in ZoneRecords /\ NoZone(state).state = state
BY FloorPlanAssumption DEF NoTable, NoZone, TableRecords, ZoneRecords, NoCode, AllCodes

\* The invariant holds before the first request.
LEMMA InitIInv == Init => IInv
<1> SUFFICES ASSUME Init PROVE IInv
  OBVIOUS
<1>1. RowsOK /\ TableRows = {}
  BY EmptyRows DEF Init, RowsOK, ZonesExist, TableRows, TableStatuses
<1>2. NamesDistinct
  BY <1>1 DEF NamesDistinct
<1>3. calls \in [Calls -> CallRecords] /\ \A c \in Calls : Sane(calls[c]) /\ Fresh(calls[c])
  BY IdleCall DEF Init
<1> QED
  BY <1>1, <1>2, <1>3 DEF IInv

\* A step that changes no row: the slot that moves is to a memory whose tests
\* hold now.
LEMMA ReadKeepsIInv ==
  ASSUME IInv, NEW c \in Calls, NEW k \in CallRecords, Sane(k), Fresh(k),
         calls' = [calls EXCEPT ![c] = k], UNCHANGED <<tables, zones, raced>>
  PROVE  IInv'
<1>1. RowsOK' /\ NamesDistinct'
  BY DEF IInv, RowsOK, ZonesExist, NamesDistinct, TableRows, ZoneRows
<1>2. calls' \in [Calls -> CallRecords]
  BY DEF IInv
<1>3. ASSUME NEW d \in Calls PROVE Sane(calls'[d]) /\ Fresh(calls'[d])
  BY DEF IInv
<1>4. \A m : Fresh(m) => Fresh(m)'
  BY DEF Fresh, assertNameUnique, BlockingTables, TablesIn, TableRows
<1>5. ASSUME NEW d \in Calls PROVE Sane(calls[d])' /\ Fresh(calls[d])'
  <2>1. PICK m : m = calls'[d]
    OBVIOUS
  <2>2. Sane(m) /\ Fresh(m)'
    BY <1>3, <1>4, <2>1
  <2> QED
    BY <2>1, <2>2 DEF Sane, Fresh
<1> QED
  BY <1>1, <1>2, <1>5 DEF IInv

\* After a write only overtaken requests are in flight.
LEMMA CommitShape ==
  ASSUME IInv, NEW c \in Calls, Commit(c)
  PROVE  /\ calls' \in [Calls -> CallRecords]
         /\ \A d \in Calls : Sane(calls[d])' /\ Fresh(calls[d])'
         /\ raced' \in BOOLEAN
         /\ ~raced' => ~raced /\ ~calls[c].overtaken
<1>0. calls \in [Calls -> CallRecords] /\ raced \in BOOLEAN
  BY DEF IInv, RowsOK
<1>1. ASSUME NEW d \in Calls
      PROVE  /\ calls'[d] \in CallRecords /\ Sane(calls'[d])
             /\ calls'[d].at = "idle" \/ calls'[d].overtaken
  <2>1. CASE d = c \/ calls[d] = Idle
    BY <2>1, IdleCall DEF Commit
  <2>2. CASE ~(d = c \/ calls[d] = Idle)
    <3>1. calls'[d] = [calls[d] EXCEPT !.overtaken = TRUE]
      BY <2>2 DEF Commit
    <3>2. calls[d] \in CallRecords /\ Sane(calls[d])
      BY DEF IInv
    <3> QED
      BY <3>1, <3>2, ZenonT(60) DEF Sane, CallRecords
  <2> QED
    BY <2>1, <2>2
<1>2. ASSUME NEW d \in Calls PROVE Sane(calls[d])' /\ Fresh(calls[d])'
  BY <1>1 DEF Sane, Fresh
<1>3. calls' = [d \in Calls |-> calls'[d]]
  BY DEF Commit
<1>4. raced' = (raced \/ calls[c].overtaken) /\ calls[c].overtaken \in BOOLEAN
  BY <1>0 DEF Commit, CallRecords
<1>5. raced' \in BOOLEAN /\ (~raced' => ~raced /\ ~calls[c].overtaken)
  BY <1>0, <1>4
<1> QED
  BY <1>1, <1>2, <1>3, <1>5

\* So a write keeps the invariant if its rows are right, and the names distinct
\* when its request was not overtaken.
LEMMA WriteKeepsIInv ==
  ASSUME IInv, NEW c \in Calls, Commit(c),
         tables' \in [Tables -> TableRecords], zones' \in [Zones -> ZoneRecords], ZonesExist',
         ~raced /\ ~calls[c].overtaken =>
           (\A t, u \in TableRows :
              normalizeName(tables[t].name) = normalizeName(tables[u].name) => t = u)'
  PROVE  IInv'
BY CommitShape DEF IInv, RowsOK, NamesDistinct

-----------------------------------------------------------------------------
\* A request of a zone is accepted, or reads before it writes.
LEMMA ZoneReadsKeepIInv ==
  ASSUME IInv, NEW c \in Calls
  PROVE  /\ \A word \in Words : PostZone(c, word) => IInv'
         /\ \A z \in Zones, word \in Words \cup {None}, code \in Codes \cup {None} :
              RequestZoneUpdate(c, z, word, code) => IInv'
         /\ \A z \in Zones : RequestZoneRemoval(c, z) => IInv'
         /\ DeleteZoneTables(c) => IInv'
<1>1. ASSUME NEW word \in Words, PostZone(c, word) PROVE IInv'
  <2> DEFINE k == [Idle EXCEPT !.at = "insertZone", !.word = word, !.code = computeZoneCode(word)]
  <2>1. computeZoneCode(word) \in AllCodes
    BY CodeComputed DEF IInv, RowsOK
  <2>2. k \in CallRecords /\ k.at = "insertZone" /\ k.word = word /\ k.code = computeZoneCode(word)
    BY <2>1, IdleCall DEF CallRecords
  <2>3. calls' = [calls EXCEPT ![c] = k] /\ UNCHANGED <<tables, zones, raced>>
    BY <1>1 DEF PostZone, Accept
  <2> HIDE DEF k
  <2>4. Sane(k) /\ Fresh(k)
    BY <2>1, <2>2 DEF Sane, Fresh
  <2> QED
    BY <2>2, <2>3, <2>4, ReadKeepsIInv
<1>2. ASSUME NEW z \in Zones, NEW word \in Words \cup {None}, NEW code \in Codes \cup {None},
             RequestZoneUpdate(c, z, word, code)
      PROVE  IInv'
  <2> DEFINE k == [Idle EXCEPT !.at = "updateZone", !.zone = z, !.word = word, !.code = code]
  <2>1. k \in CallRecords /\ k.at = "updateZone"
    BY IdleCall, FloorPlanAssumption DEF CallRecords
  <2>2. calls' = [calls EXCEPT ![c] = k] /\ UNCHANGED <<tables, zones, raced>>
    BY <1>2 DEF RequestZoneUpdate, Accept
  <2> HIDE DEF k
  <2>3. Sane(k) /\ Fresh(k)
    BY <2>1 DEF Sane, Fresh
  <2> QED
    BY <2>1, <2>2, <2>3, ReadKeepsIInv
<1>3. ASSUME NEW z \in Zones, RequestZoneRemoval(c, z) PROVE IInv'
  <2> DEFINE k == [Idle EXCEPT !.at = "deleteTables", !.zone = z]
  <2>1. k \in CallRecords /\ k.at = "deleteTables" /\ k.zone = z
    BY IdleCall DEF CallRecords
  <2>2. /\ calls' = [calls EXCEPT ![c] = k] /\ UNCHANGED <<tables, zones, raced>>
        /\ BlockingTables(z) = {}
    BY <1>3 DEF RequestZoneRemoval, Accept
  <2> HIDE DEF k
  <2>3. Sane(k) /\ Fresh(k)
    BY <2>1, <2>2 DEF Sane, Fresh
  <2> QED
    BY <2>1, <2>2, <2>3, ReadKeepsIInv
<1>4. ASSUME DeleteZoneTables(c) PROVE IInv'
  <2> DEFINE k == [calls[c] EXCEPT !.at = "deleteZone", !.doomed = TablesIn(calls[c].zone)]
  <2>0. calls \in [Calls -> CallRecords] /\ calls[c] \in CallRecords /\ Fresh(calls[c])
    BY DEF IInv
  <2>1. TablesIn(calls[c].zone) \in SUBSET Tables
    BY DEF TablesIn, TableRows
  <2>2. /\ k \in CallRecords /\ k.at = "deleteZone" /\ k.zone = calls[c].zone
        /\ k.doomed = TablesIn(calls[c].zone) /\ k.overtaken = calls[c].overtaken
    BY <2>0, <2>1 DEF CallRecords
  <2>3. calls' = [calls EXCEPT ![c] = k] /\ UNCHANGED <<tables, zones, raced>>
    BY <1>4, <2>0 DEF DeleteZoneTables, CallRecords
  <2>4. calls[c].at = "deleteTables"
    BY <1>4 DEF DeleteZoneTables, At
  <2> HIDE DEF k
  <2>5. Sane(k) /\ Fresh(k)
    BY <2>0, <2>2, <2>4 DEF Sane, Fresh
  <2> QED
    BY <2>2, <2>3, <2>5, ReadKeepsIInv
<1> QED
  BY <1>1, <1>2, <1>3, <1>4

\* A request of a table is accepted, or one of any kind ends without a write.
LEMMA TableReadsKeepIInv ==
  ASSUME IInv, NEW c \in Calls
  PROVE  /\ \A name \in TableNames : PostTable(c, name) => IInv'
         /\ \A t \in Tables, name \in TableNames : RequestRename(c, t, name) => IInv'
         /\ \A t \in Tables, z \in Zones \cup {None} : RequestMove(c, t, z) => IInv'
         /\ \A t \in Tables : RequestRemove(c, t) => IInv'
         /\ Abandon(c) => IInv'
<1>1. ASSUME NEW name \in TableNames, PostTable(c, name) PROVE IInv'
  <2> DEFINE k == [Idle EXCEPT !.at = "insertTable", !.name = name]
  <2>1. k \in CallRecords /\ k.at = "insertTable" /\ k.name = name
    BY IdleCall, FloorPlanAssumption DEF CallRecords
  <2>2. /\ calls' = [calls EXCEPT ![c] = k] /\ UNCHANGED <<tables, zones, raced>>
        /\ assertNameUnique(name, None)
    BY <1>1 DEF PostTable, Accept
  <2> HIDE DEF k
  <2>3. Sane(k) /\ Fresh(k)
    BY <2>1, <2>2 DEF Sane, Fresh
  <2> QED
    BY <2>1, <2>2, <2>3, ReadKeepsIInv
<1>2. ASSUME NEW t \in Tables, NEW name \in TableNames, RequestRename(c, t, name) PROVE IInv'
  <2> DEFINE k == [Idle EXCEPT !.at = "rename", !.table = t, !.name = name]
  <2>1. k \in CallRecords /\ k.at = "rename" /\ k.name = name /\ k.table = t
    BY IdleCall, FloorPlanAssumption DEF CallRecords
  <2>2. /\ calls' = [calls EXCEPT ![c] = k] /\ UNCHANGED <<tables, zones, raced>>
        /\ assertNameUnique(name, t)
    BY <1>2 DEF RequestRename, Accept
  <2> HIDE DEF k
  <2>3. Sane(k) /\ Fresh(k)
    BY <2>1, <2>2 DEF Sane, Fresh
  <2> QED
    BY <2>1, <2>2, <2>3, ReadKeepsIInv
<1>3. ASSUME NEW t \in Tables, NEW z \in Zones \cup {None}, RequestMove(c, t, z) PROVE IInv'
  <2> DEFINE k == [Idle EXCEPT !.at = "move", !.table = t, !.zone = z]
  <2>1. k \in CallRecords /\ k.at = "move"
    BY IdleCall DEF CallRecords
  <2>2. calls' = [calls EXCEPT ![c] = k] /\ UNCHANGED <<tables, zones, raced>>
    BY <1>3 DEF RequestMove, Accept
  <2> HIDE DEF k
  <2>3. Sane(k) /\ Fresh(k)
    BY <2>1 DEF Sane, Fresh
  <2> QED
    BY <2>1, <2>2, <2>3, ReadKeepsIInv
<1>4. ASSUME NEW t \in Tables, RequestRemove(c, t) PROVE IInv'
  <2> DEFINE k == [Idle EXCEPT !.at = "deleteTable", !.table = t]
  <2>1. k \in CallRecords /\ k.at = "deleteTable"
    BY IdleCall DEF CallRecords
  <2>2. calls' = [calls EXCEPT ![c] = k] /\ UNCHANGED <<tables, zones, raced>>
    BY <1>4 DEF RequestRemove, Accept
  <2> HIDE DEF k
  <2>3. Sane(k) /\ Fresh(k)
    BY <2>1 DEF Sane, Fresh
  <2> QED
    BY <2>1, <2>2, <2>3, ReadKeepsIInv
<1>5. ASSUME Abandon(c) PROVE IInv'
  BY <1>5, IdleCall, ReadKeepsIInv DEF Abandon
<1> QED
  BY <1>1, <1>2, <1>3, <1>4, <1>5

-----------------------------------------------------------------------------
\* The writes to the zones: table names stay as they are.
LEMMA ZoneWritesKeepIInv ==
  ASSUME IInv, NEW c \in Calls
  PROVE  /\ InsertZone(c) => IInv'
         /\ UpdateZone(c) => IInv'
         /\ DeleteZone(c) => IInv'
<1>0. /\ tables \in [Tables -> TableRecords] /\ zones \in [Zones -> ZoneRecords] /\ ZonesExist
      /\ NamesDistinct /\ calls[c] \in CallRecords /\ Sane(calls[c])
  BY DEF IInv, RowsOK
<1>1. ASSUME InsertZone(c) PROVE IInv'
  <2>1. PICK z \in Zones :
          zones' = [zones EXCEPT ![z] =
            [state |-> "live", word |-> calls[c].word, code |-> calls[c].code]]
    BY <1>1 DEF InsertZone
  <2>2. Commit(c) /\ tables' = tables /\ calls[c].word \in Words /\ calls[c].code \in AllCodes
    BY <1>0, <1>1 DEF InsertZone, Sane, At
  <2>3. zones' \in [Zones -> ZoneRecords]
    BY <1>0, <2>1, <2>2 DEF ZoneRecords
  <2>4. ZonesExist'
    BY <1>0, <2>1, <2>2 DEF ZonesExist, TableRows, ZoneRows
  <2>5. ~raced => (\A t, u \in TableRows :
                     normalizeName(tables[t].name) = normalizeName(tables[u].name) => t = u)'
    BY <1>0, <2>2 DEF NamesDistinct, TableRows
  <2> QED
    BY <1>0, <2>2, <2>3, <2>4, <2>5, WriteKeepsIInv
<1>2. ASSUME UpdateZone(c) PROVE IInv'
  <2>1. PICK z \in Zones : z = calls[c].zone
    BY <1>2 DEF UpdateZone, ZoneRows
  <2>2. PICK row : row = [state |-> "live",
                   word |-> IF calls[c].word = None THEN zones[z].word ELSE calls[c].word,
                   code |-> IF calls[c].code = None THEN zones[z].code ELSE calls[c].code]
    OBVIOUS
  <2>3. Commit(c) /\ tables' = tables /\ zones' = [zones EXCEPT ![z] = row]
    BY <1>2, <2>1, <2>2 DEF UpdateZone
  <2>4. row \in ZoneRecords /\ row.state = "live"
    BY <1>0, <2>2 DEF ZoneRecords, CallRecords
  <2>5. zones' \in [Zones -> ZoneRecords]
    BY <1>0, <2>3, <2>4
  <2>6. ZonesExist'
    BY <1>0, <2>3, <2>4 DEF ZonesExist, TableRows, ZoneRows
  <2>7. ~raced => (\A t, u \in TableRows :
                     normalizeName(tables[t].name) = normalizeName(tables[u].name) => t = u)'
    BY <1>0, <2>3 DEF NamesDistinct, TableRows
  <2> QED
    BY <1>0, <2>3, <2>5, <2>6, <2>7, WriteKeepsIInv
<1>3. ASSUME DeleteZone(c) PROVE IInv'
  <2>1. PICK z \in Zones : z = calls[c].zone
    BY <1>3 DEF DeleteZone, ZoneRows
  <2>2. /\ Commit(c) /\ zones' = [zones EXCEPT ![z] = NoZone("gone")]
        /\ tables' = [t \in Tables |->
             IF t \in calls[c].doomed THEN NoTable("GONE")
             ELSE IF tables[t].zone = z THEN [tables[t] EXCEPT !.zone = None]
             ELSE tables[t]]
    BY <1>3, <2>1 DEF DeleteZone
  <2>3. ASSUME NEW t \in Tables
        PROVE  /\ tables'[t] \in TableRecords
               /\ t \in TableRows' => /\ t \in TableRows /\ tables'[t].name = tables[t].name
                                      /\ tables'[t].zone \in {None, tables[t].zone} \ {z}
    <3>0. tables[t] \in TableRecords /\ z # None
      BY <1>0, FloorPlanAssumption
    <3>1. CASE t \in calls[c].doomed
      BY <2>2, <3>1, EmptyRows DEF TableRows, TableStatuses
    <3>2. CASE t \notin calls[c].doomed /\ tables[t].zone = z
      <4>1. tables'[t] = [tables[t] EXCEPT !.zone = None]
        BY <2>2, <3>2
      <4> QED
        BY <3>0, <4>1 DEF TableRecords, TableRows
    <3>3. CASE t \notin calls[c].doomed /\ tables[t].zone # z
      <4>1. tables'[t] = tables[t]
        BY <2>2, <3>3
      <4> QED
        BY <3>0, <3>3, <4>1 DEF TableRows
    <3> QED
      BY <3>1, <3>2, <3>3
  <2>4. tables' \in [Tables -> TableRecords]
    BY <2>2, <2>3
  <2>5. zones' \in [Zones -> ZoneRecords] /\ \A y \in ZoneRows \ {z} : y \in ZoneRows'
    BY <1>0, <2>2, EmptyRows DEF ZoneRows
  <2>6. \A t \in TableRows' : t \in Tables
    BY DEF TableRows
  <2>7. ZonesExist'
    BY <1>0, <2>3, <2>5, <2>6 DEF ZonesExist
  <2>8. ~raced => (\A t, u \in TableRows :
                     normalizeName(tables[t].name) = normalizeName(tables[u].name) => t = u)'
    BY <1>0, <2>3, <2>6 DEF NamesDistinct
  <2> QED
    BY <2>2, <2>4, <2>5, <2>7, <2>8, WriteKeepsIInv
<1> QED
  BY <1>1, <1>2, <1>3

\* The writes to one table, which has a name nobody else has, if its request was
\* not overtaken, and a zone that exists.
LEMMA TableWrite ==
  ASSUME IInv, NEW c \in Calls, Commit(c), zones' = zones,
         NEW t \in Tables, NEW row \in TableRecords, tables' = [tables EXCEPT ![t] = row],
         row.status \in TableStatuses =>
           /\ row.zone \in ZoneRows \cup {None}
           /\ ~raced /\ ~calls[c].overtaken => assertNameUnique(row.name, t)
  PROVE  IInv'
<1>0. /\ tables \in [Tables -> TableRecords] /\ zones \in [Zones -> ZoneRecords] /\ ZonesExist
      /\ NamesDistinct
  BY DEF IInv, RowsOK
<1>1. tables' \in [Tables -> TableRecords] /\ \A u \in Tables : tables'[u] = IF u = t THEN row ELSE tables[u]
  BY <1>0
<1>2. ZonesExist'
  BY <1>0, <1>1 DEF ZonesExist, TableRows, ZoneRows
<1>3. ASSUME ~raced, ~calls[c].overtaken
      PROVE  (\A u, v \in TableRows :
                normalizeName(tables[u].name) = normalizeName(tables[v].name) => u = v)'
  <2> SUFFICES ASSUME NEW u \in TableRows', NEW v \in TableRows',
                      normalizeName(tables'[u].name) = normalizeName(tables'[v].name)
               PROVE  u = v
    BY DEF normalizeName
  <2>1. u \in Tables /\ v \in Tables
    BY DEF TableRows
  <2>2. \A w \in TableRows' \ {t} : w \in TableRows /\ tables'[w] = tables[w]
    BY <1>1 DEF TableRows
  <2>3. t \in TableRows' =>
          \A w \in TableRows' \ {t} :
            normalizeName(tables'[w].name) # normalizeName(tables'[t].name)
    BY <1>1, <1>3, <2>2 DEF TableRows, assertNameUnique
  <2> QED
    BY <1>0, <1>3, <2>1, <2>2, <2>3 DEF NamesDistinct
<1> QED
  BY <1>0, <1>1, <1>2, <1>3, WriteKeepsIInv

\* The writes to the tables.
LEMMA TableWritesKeepIInv ==
  ASSUME IInv, NEW c \in Calls
  PROVE  /\ InsertTable(c) => IInv'
         /\ RenameTable(c) => IInv'
         /\ MoveTable(c) => IInv'
         /\ DeleteTable(c) => IInv'
         /\ \A t \in Tables : Serve(c, t) => IInv'
<1>0. /\ tables \in [Tables -> TableRecords] /\ ZonesExist /\ NamesDistinct
      /\ calls[c] \in CallRecords /\ Sane(calls[c]) /\ Fresh(calls[c])
  BY DEF IInv, RowsOK
<1>1. \A t \in TableRows : ~raced => assertNameUnique(tables[t].name, t)
  BY <1>0 DEF NamesDistinct, assertNameUnique
<1>2. \A t \in TableRows : tables[t].zone \in ZoneRows \cup {None}
  BY <1>0 DEF ZonesExist
<1>3. ASSUME InsertTable(c) PROVE IInv'
  <2>1. PICK t \in Tables :
          /\ tables[t].status = "ABSENT"
          /\ tables' = [tables EXCEPT ![t] =
               [status |-> "AVAILABLE", name |-> calls[c].name, zone |-> None]]
    BY <1>3 DEF InsertTable
  <2> DEFINE row == [status |-> "AVAILABLE", name |-> calls[c].name, zone |-> None]
  <2>2. calls[c].at = "insertTable" /\ Commit(c) /\ zones' = zones /\ calls[c].name \in TableNames
    BY <1>0, <1>3 DEF InsertTable, At, Sane
  <2>3. row \in TableRecords /\ row.zone = None /\ row.name = calls[c].name
    BY <2>2 DEF TableRecords, TableStatuses
  <2>4. ~calls[c].overtaken => assertNameUnique(row.name, t)
    BY <1>0, <2>1, <2>2, <2>3, FloorPlanAssumption
    DEF Fresh, assertNameUnique, TableRows, TableStatuses
  <2> HIDE DEF row
  <2> QED
    BY <2>1, <2>2, <2>3, <2>4, TableWrite DEF row
<1>4. ASSUME RenameTable(c) PROVE IInv'
  <2>1. PICK t \in TableRows : t = calls[c].table
    BY <1>4 DEF RenameTable
  <2> DEFINE row == [tables[t] EXCEPT !.name = calls[c].name]
  <2>2. /\ calls[c].at = "rename" /\ Commit(c) /\ zones' = zones /\ calls[c].name \in TableNames
        /\ t \in Tables /\ tables' = [tables EXCEPT ![t] = row]
    BY <1>0, <1>4, <2>1 DEF RenameTable, At, Sane, TableRows
  <2>3. row \in TableRecords /\ row.zone = tables[t].zone /\ row.name = calls[c].name
    BY <1>0, <2>2 DEF TableRecords
  <2>4. ~calls[c].overtaken => assertNameUnique(row.name, t)
    BY <1>0, <2>1, <2>2, <2>3 DEF Fresh
  <2> HIDE DEF row
  <2> QED
    BY <1>2, <2>1, <2>2, <2>3, <2>4, TableWrite
<1>5. ASSUME MoveTable(c) PROVE IInv'
  <2>1. PICK t \in TableRows : t = calls[c].table
    BY <1>5 DEF MoveTable
  <2> DEFINE row == [tables[t] EXCEPT !.zone = calls[c].zone]
  <2>2. /\ Commit(c) /\ zones' = zones /\ calls[c].zone \in ZoneRows \cup {None}
        /\ t \in Tables /\ tables' = [tables EXCEPT ![t] = row]
    BY <1>0, <1>5, <2>1 DEF MoveTable, TableRows
  <2>3. row \in TableRecords /\ row.zone = calls[c].zone /\ row.name = tables[t].name
    BY <1>0, <2>2 DEF TableRecords, ZoneRows
  <2> HIDE DEF row
  <2> QED
    BY <1>1, <2>1, <2>2, <2>3, TableWrite
<1>6. ASSUME DeleteTable(c) PROVE IInv'
  <2>1. PICK t \in Tables : t = calls[c].table
    BY <1>6 DEF DeleteTable, TableRows
  <2>2. Commit(c) /\ zones' = zones /\ tables' = [tables EXCEPT ![t] = NoTable("GONE")]
    BY <1>6, <2>1 DEF DeleteTable
  <2>3. NoTable("GONE") \in TableRecords /\ NoTable("GONE").status \notin TableStatuses
    BY EmptyRows DEF TableStatuses
  <2> QED
    BY <2>2, <2>3, TableWrite
<1>7. ASSUME NEW t \in Tables, Serve(c, t) PROVE IInv'
  <2>1. PICK status \in TableStatuses : tables' = [tables EXCEPT ![t].status = status]
    BY <1>7 DEF Serve
  <2> DEFINE row == [tables[t] EXCEPT !.status = status]
  <2>2. /\ Commit(c) /\ zones' = zones /\ t \in TableRows
        /\ tables' = [tables EXCEPT ![t] = row]
    BY <1>0, <1>7, <2>1 DEF Serve
  <2>3. row \in TableRecords /\ row.zone = tables[t].zone /\ row.name = tables[t].name
    BY <1>0 DEF TableRecords
  <2> HIDE DEF row
  <2> QED
    BY <1>1, <1>2, <2>2, <2>3, TableWrite
<1> QED
  BY <1>3, <1>4, <1>5, <1>6, <1>7

\* The invariant is inductive.
LEMMA NextKeepsIInv == IInv /\ [Next]_vars => IInv'
<1> SUFFICES ASSUME IInv, [Next]_vars PROVE IInv'
  OBVIOUS
<1>1. ASSUME NEW c \in Calls, ZoneStep(c) PROVE IInv'
  BY <1>1, ZoneReadsKeepIInv, ZoneWritesKeepIInv DEF ZoneStep
<1>2. ASSUME NEW c \in Calls, TableStep(c) PROVE IInv'
  BY <1>2, TableReadsKeepIInv, TableWritesKeepIInv DEF TableStep
<1>3. ASSUME NEW c \in Calls, Abandon(c) PROVE IInv'
  BY <1>3, TableReadsKeepIInv
<1>4. CASE UNCHANGED vars
  BY <1>4 DEF vars, IInv, RowsOK, ZonesExist, NamesDistinct, TableRows, ZoneRows, Sane, Fresh,
              assertNameUnique, BlockingTables, TablesIn
<1> QED
  BY <1>1, <1>2, <1>3, <1>4 DEF Next

\* The invariant holds in every reachable state.
THEOREM Invariance == Spec => []IInv
<1>1. Init => IInv
  BY InitIInv
<1>2. IInv /\ [Next]_vars => IInv'
  BY NextKeepsIInv
<1> QED
  BY <1>1, <1>2, PTL DEF Spec

\* Rows keep their columns' types, a code is found for every zone, and a table's
\* zone exists, whatever zones are deleted while tables move.
THEOREM TypeCorrect == Spec => []TypeOK
<1>1. IInv => TypeOK
  <2> SUFFICES ASSUME IInv PROVE TypeOK
    OBVIOUS
  <2>1. \A z \in Zones : /\ zones[z].state \in {"absent", "live", "gone"}
                         /\ zones[z].word \in Words
                         /\ zones[z].code.prefix \in {Prefix[w] : w \in Words}
                         /\ zones[z].code.n \in Nat
    BY DEF IInv, RowsOK, ZoneRecords, AllCodes
  <2>2. \A c \in Calls : calls[c].table \in Tables \cup {None}
    BY DEF IInv, CallRecords
  <2> QED
    BY <2>1, <2>2 DEF IInv, RowsOK, ZonesExist, TableRecords, TypeOK
<1> QED
  BY <1>1, Invariance, PTL

\* As long as no request was overtaken between its test and its write, table
\* names differ by more than case and spaces.
THEOREM TableNamesDiffer == Spec => []NamesDistinct
<1>1. IInv => NamesDistinct
  BY DEF IInv
<1> QED
  BY <1>1, Invariance, PTL

\* The table name suggested for a zone is nobody's name, wherever tables were
\* moved and whatever they are called: among as many numbers as there are tables
\* and one more, one is free.
THEOREM SuggestionsAreFree == Spec => []SuggestionFree
<1>1. IInv => SuggestionFree
  <2> SUFFICES ASSUME IInv, NEW z \in ZoneRows, NextTableName(z).no <= 99,
                      NameTaken(NextTableName(z), None)
               PROVE  FALSE
    BY DEF SuggestionFree
  <2>1. PICK t \in TableRows : tables[t].name = NextTableName(z)
    BY DEF NameTaken
  <2>2. /\ NextTableName(z).code = zones[z].code /\ NextTableName(z).spelling = "plain"
        /\ NextTableName(z).no \notin Suffixes(z)
    BY SuggestionUnseen DEF IInv, RowsOK, NextTableName
  <2> QED
    BY <2>1, <2>2 DEF Suffixes, NamesSeen
<1> QED
  BY <1>1, Invariance, PTL

\* One step that removes a zone and was not overtaken takes its tables along.
LEMMA StepRemovesCleanly ==
  ASSUME IInv, Next, ~raced', NEW z \in ZoneRows \ ZoneRows', NEW t \in TablesIn(z)
  PROVE  tables[t].status = "AVAILABLE" /\ tables'[t].status = "GONE"
<1>0. zones \in [Zones -> ZoneRecords] /\ tables \in [Tables -> TableRecords]
  BY DEF IInv, RowsOK
<1>1. zones' # zones
  BY DEF ZoneRows
<1>2. PICK c \in Calls : InsertZone(c) \/ UpdateZone(c) \/ DeleteZone(c)
  BY <1>1 DEF Next, ZoneStep, TableStep, PostZone, RequestZoneUpdate, RequestZoneRemoval,
              DeleteZoneTables, PostTable, InsertTable, RequestRename, RenameTable, RequestMove,
              MoveTable, RequestRemove, DeleteTable, Serve, Abandon, Accept
<1>3. CASE InsertZone(c) \/ UpdateZone(c)
  <2>1. PICK y \in Zones :
          \E row : row.state = "live" /\ zones' = [zones EXCEPT ![y] = row]
    BY <1>3 DEF InsertZone, UpdateZone, ZoneRows
  <2>2. PICK row : row.state = "live" /\ zones' = [zones EXCEPT ![y] = row]
    BY <2>1
  <2> QED
    BY <1>0, <2>2 DEF ZoneRows
<1>4. CASE DeleteZone(c)
  <2>1. /\ Fresh(calls[c]) /\ calls[c].at = "deleteZone" /\ ~calls[c].overtaken
        /\ zones' = [zones EXCEPT ![calls[c].zone] = NoZone("gone")]
        /\ tables' = [u \in Tables |->
             IF u \in calls[c].doomed THEN NoTable("GONE")
             ELSE IF tables[u].zone = calls[c].zone THEN [tables[u] EXCEPT !.zone = None]
             ELSE tables[u]]
    BY <1>4, CommitShape DEF IInv, DeleteZone, At
  <2>2. calls[c].zone = z
    BY <1>0, <2>1 DEF ZoneRows
  <2>3. t \in calls[c].doomed /\ t \notin BlockingTables(z) /\ t \in Tables
    BY <2>1, <2>2 DEF Fresh, TablesIn, TableRows
  <2>4. tables'[t].status = "GONE"
    BY <2>1, <2>3, EmptyRows
  <2>5. tables[t].status \in TableStatuses \ {"RESERVED", "OCCUPIED"}
    BY <2>3 DEF BlockingTables, TablesIn, TableRows
  <2> QED
    BY <2>4, <2>5 DEF TableStatuses
<1> QED
  BY <1>2, <1>3, <1>4

\* Deleting a zone that was not raced deletes all its tables, and none of them
\* was reserved or occupied.
THEOREM ZonesGoCleanly == Spec => ZoneRemovalClean
<1>1. IInv /\ [Next]_vars =>
        [~raced' => \A z \in ZoneRows \ ZoneRows' : \A t \in TablesIn(z) :
            tables[t].status = "AVAILABLE" /\ tables'[t].status = "GONE"]_vars
  BY StepRemovesCleanly
<1> QED
  BY <1>1, Invariance, PTL DEF Spec, ZoneRemovalClean
=============================================================================
