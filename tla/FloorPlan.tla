----------------------------- MODULE FloorPlan -----------------------------
(***************************************************************************)
(* The floor plan: zones, the tables in them, and the names of both        *)
(* (src/zones, and the naming and layout side of src/tables).              *)
(*                                                                         *)
(* Requests are slots of calls as in Floor.  A zone's code and a table's   *)
(* name are tested against the other rows in one statement and written in  *)
(* a later one, where only the database's unique index, which compares     *)
(* spellings, looks again.  Who is served at a table is Floor's business;  *)
(* here its status just changes (Serve).                                   *)
(*                                                                         *)
(* Codes are in capitals, and their prefixes are letters, so a prefix and  *)
(* a number make one code; a name is what normalisation leaves of it and   *)
(* one bit of its spelling.  Two history variables: a request is overtaken *)
(* when another one writes between its test and its own write, and raced   *)
(* tells whether such a write was made.                                    *)
(***************************************************************************)
EXTENDS Naturals, FiniteSets, FiniteSetsExt

CONSTANTS Tables,       \* ids a table row may get
          Zones,        \* ids a zone row may get
          Calls,        \* slots for concurrent requests
          Words,        \* leading words of zone names
          Piso,         \* the word whose zones are numbered without a prefix
          Prefix,       \* word -> the letters its zone codes start with
          Codes,        \* codes a client may send for a zone
          TableNames,   \* names a client may send for a table
          None          \* SQL NULL

AllCodes == [prefix : {Prefix[w] : w \in Words}, n : Nat \ {0}]

\* A table name is a zone code and two digits, spelled as they are ("plain") or
\* with other case and spaces ("variant").
AllNames == [code : AllCodes, no : Nat \ {0}, spelling : {"plain", "variant"}]

ASSUME FloorPlanAssumption ==
  /\ IsFiniteSet(Zones) /\ IsFiniteSet(Tables)
  /\ Piso \in Words
  /\ Codes \subseteq AllCodes
  /\ TableNames \subseteq AllNames
  /\ None \notin Tables \cup Zones \cup Words

VARIABLES tables,   \* table id -> [status, name, zone]
          zones,    \* zone id -> [state, word, code]
          calls,    \* request slot -> the handler's position and memory
          raced     \* history: a request wrote although it was overtaken

vars == <<tables, zones, calls, raced>>

TableStatuses == {"AVAILABLE", "RESERVED", "OCCUPIED"}

NoCode == [prefix |-> Prefix[Piso], n |-> 1]
NoName == [code |-> NoCode, no |-> 1, spelling |-> "plain"]

NoTable(status) == [status |-> status, name |-> NoName, zone |-> None]
NoZone(state) == [state |-> state, word |-> Piso, code |-> NoCode]

Idle == [at |-> "idle", table |-> None, zone |-> None, word |-> None, code |-> None,
         name |-> None, doomed |-> {}, overtaken |-> FALSE]

Init ==
  /\ tables = [t \in Tables |-> NoTable("ABSENT")]
  /\ zones = [z \in Zones |-> NoZone("absent")]
  /\ calls = [c \in Calls |-> Idle]
  /\ raced = FALSE

TableRows == {t \in Tables : tables[t].status \in TableStatuses}
ZoneRows == {z \in Zones : zones[z].state = "live"}
TablesIn(z) == {t \in TableRows : tables[t].zone = z}

\* Case and runs of spaces do not distinguish names.
normalizeName(name) == [code |-> name.code, no |-> name.no]

-----------------------------------------------------------------------------
At(c, pc) == calls[c].at = pc

\* A request passed its tests; it changes no row yet.
Accept(c, first) ==
  /\ calls[c] = Idle
  /\ calls' = [calls EXCEPT ![c] = first]
  /\ UNCHANGED <<tables, zones, raced>>

\* The request of slot c, if it has one, wrote and is over.
Commit(c) ==
  /\ calls' = [d \in Calls |-> IF d = c \/ calls[d] = Idle THEN Idle
                               ELSE [calls[d] EXCEPT !.overtaken = TRUE]]
  /\ raced' = (raced \/ calls[c].overtaken)

\* A request ends early: a unique index or a missing row stopped its write, or
\* the process died.  An open transaction is rolled back.
Abandon(c) ==
  /\ calls[c] # Idle
  /\ calls' = [calls EXCEPT ![c] = Idle]
  /\ UNCHANGED <<tables, zones, raced>>

\* Rows an open transaction deleted are locked until it ends.
Unlocked(t) == \A c \in Calls : t \notin calls[c].doomed

-----------------------------------------------------------------------------
\* ZonesService.

\* The smallest free number after the word's prefix.  A Piso zone looks at the
\* codes of Piso zones only, any other zone at all codes.
computeZoneCode(word) ==
  LET used == {zones[z].code : z \in {y \in ZoneRows : word = Piso => zones[y].word = Piso}}
      free == {n \in 1..(Cardinality(Zones) + 1) : [prefix |-> Prefix[word], n |-> n] \notin used}
  IN [prefix |-> Prefix[word], n |-> Min(free)]

PostZone(c, word) ==
  Accept(c, [Idle EXCEPT !.at = "insertZone", !.word = word, !.code = computeZoneCode(word)])

CodeTaken(code, z) == \E y \in ZoneRows \ {z} : zones[y].code = code

InsertZone(c) ==
  /\ At(c, "insertZone")
  /\ ~CodeTaken(calls[c].code, None)
  /\ \E z \in Zones :
       /\ zones[z].state = "absent"
       /\ zones' = [zones EXCEPT ![z] =
            [state |-> "live", word |-> calls[c].word, code |-> calls[c].code]]
  /\ Commit(c)
  /\ UNCHANGED tables

\* PATCH /zones/:id renames a zone, gives it a code, or both; what is not sent
\* stays as the row has it when it is written.
RequestZoneUpdate(c, z, word, code) ==
  /\ z \in ZoneRows
  /\ code # None => ~CodeTaken(code, z)
  /\ Accept(c, [Idle EXCEPT !.at = "updateZone", !.zone = z, !.word = word, !.code = code])

UpdateZone(c) ==
  LET z == calls[c].zone
  IN /\ At(c, "updateZone")
     /\ z \in ZoneRows
     /\ ~CodeTaken(calls[c].code, z)
     /\ zones' = [zones EXCEPT ![z] =
          [state |-> "live",
           word |-> IF calls[c].word = None THEN zones[z].word ELSE calls[c].word,
           code |-> IF calls[c].code = None THEN zones[z].code ELSE calls[c].code]]
     /\ Commit(c)
     /\ UNCHANGED tables

\* Mutant: a reserved table does not stop the deletion of its zone.
OccupiedIn(z) == {t \in TablesIn(z) : tables[t].status = "OCCUPIED"}
BlockingTables(z) == {t \in TablesIn(z) : tables[t].status \in {"RESERVED", "OCCUPIED"}}

\* DELETE /zones/:id tests the zone's tables once ...
RequestZoneRemoval(c, z) ==
  /\ z \in ZoneRows
  /\ BlockingTables(z) = {}
  /\ Accept(c, [Idle EXCEPT !.at = "deleteTables", !.zone = z])

\* ... then a transaction deletes the tables the zone has by then ...
DeleteZoneTables(c) ==
  /\ At(c, "deleteTables")
  /\ \A t \in TablesIn(calls[c].zone) : Unlocked(t)
  /\ calls' = [calls EXCEPT ![c].at = "deleteZone", ![c].doomed = TablesIn(calls[c].zone)]
  /\ UNCHANGED <<tables, zones, raced>>

\* Mutant: the zone goes, its tables stay as they are.
DeleteZoneOnly(c) ==
  /\ At(c, "deleteZone")
  /\ calls[c].zone \in ZoneRows
  /\ zones' = [zones EXCEPT ![calls[c].zone] = NoZone("gone")]
  /\ Commit(c)
  /\ UNCHANGED tables

\* ... and the zone itself; a table moved in meanwhile is left without a zone.
DeleteZone(c) ==
  LET z == calls[c].zone
  IN /\ At(c, "deleteZone")
     /\ z \in ZoneRows
     /\ zones' = [zones EXCEPT ![z] = NoZone("gone")]
     /\ tables' = [t \in Tables |->
          IF t \in calls[c].doomed THEN NoTable("GONE")
          ELSE IF tables[t].zone = z THEN [tables[t] EXCEPT !.zone = None]
          ELSE tables[t]]
     /\ Commit(c)

\* Mutant: only the zone's own tables are looked at.
NamesInZone(z) == {tables[t].name : t \in TablesIn(z)}
\* GET /zones/:id/next-table-name looks at the names of all tables, wherever
\* they are: those made of the zone's code and two digits.
NamesSeen(z) == {tables[t].name : t \in TableRows}

Suffixes(z) == {name.no : name \in {m \in NamesSeen(z) :
  m.code = zones[z].code /\ m.spelling = "plain" /\ m.no <= 99}}

NextTableName(z) ==
  [code |-> zones[z].code, no |-> Min((1..(Cardinality(Tables) + 1)) \ Suffixes(z)),
   spelling |-> "plain"]

-----------------------------------------------------------------------------
\* TablesService.

\* Mutant: names are compared letter by letter, like the index does.
assertSpellingUnique(name, t) == \A u \in TableRows \ {t} : tables[u].name # name
assertNameUnique(name, t) ==
  \A u \in TableRows \ {t} : normalizeName(tables[u].name) # normalizeName(name)

\* The unique index on tables compares spellings.
NameTaken(name, t) == \E u \in TableRows \ {t} : tables[u].name = name

PostTable(c, name) ==
  /\ assertNameUnique(name, None)
  /\ Accept(c, [Idle EXCEPT !.at = "insertTable", !.name = name])

InsertTable(c) ==
  /\ At(c, "insertTable")
  /\ ~NameTaken(calls[c].name, None)
  /\ \E t \in Tables :
       /\ tables[t].status = "ABSENT"
       /\ tables' = [tables EXCEPT ![t] =
            [status |-> "AVAILABLE", name |-> calls[c].name, zone |-> None]]
  /\ Commit(c)
  /\ UNCHANGED zones

\* Only an AVAILABLE table is renamed; the test keeps to that first read.
RequestRename(c, t, name) ==
  /\ tables[t].status = "AVAILABLE"
  /\ assertNameUnique(name, t)
  /\ Accept(c, [Idle EXCEPT !.at = "rename", !.table = t, !.name = name])

RenameTable(c) ==
  LET t == calls[c].table
  IN /\ At(c, "rename")
     /\ t \in TableRows /\ Unlocked(t)
     /\ ~NameTaken(calls[c].name, t)
     /\ tables' = [tables EXCEPT ![t].name = calls[c].name]
     /\ Commit(c)
     /\ UNCHANGED zones

\* PATCH /tables/:id/layout moves a table of any status into a zone, or out of
\* its zone.
RequestMove(c, t, z) ==
  /\ t \in TableRows /\ z \in ZoneRows \cup {None}
  /\ Accept(c, [Idle EXCEPT !.at = "move", !.table = t, !.zone = z])

MoveTable(c) ==
  LET t == calls[c].table
  IN /\ At(c, "move")
     /\ t \in TableRows /\ Unlocked(t)
     /\ calls[c].zone \in ZoneRows \cup {None}
     /\ tables' = [tables EXCEPT ![t].zone = calls[c].zone]
     /\ Commit(c)
     /\ UNCHANGED zones

RequestRemove(c, t) ==
  /\ tables[t].status = "AVAILABLE"
  /\ Accept(c, [Idle EXCEPT !.at = "deleteTable", !.table = t])

DeleteTable(c) ==
  LET t == calls[c].table
  IN /\ At(c, "deleteTable")
     /\ t \in TableRows /\ Unlocked(t)
     /\ tables' = [tables EXCEPT ![t] = NoTable("GONE")]
     /\ Commit(c)
     /\ UNCHANGED zones

\* Orders, payments and reservations change a table's status (Floor).
Serve(c, t) ==
  /\ calls[c] = Idle
  /\ t \in TableRows /\ Unlocked(t)
  /\ \E status \in TableStatuses \ {tables[t].status} :
       tables' = [tables EXCEPT ![t].status = status]
  /\ Commit(c)
  /\ UNCHANGED zones

-----------------------------------------------------------------------------
ZoneStep(c) ==
  \/ \E word \in Words : PostZone(c, word)
  \/ InsertZone(c)
  \/ \E z \in Zones, word \in Words \cup {None}, code \in Codes \cup {None} :
       RequestZoneUpdate(c, z, word, code)
  \/ UpdateZone(c)
  \/ \E z \in Zones : RequestZoneRemoval(c, z)
  \/ DeleteZoneTables(c)
  \/ DeleteZone(c)

TableStep(c) ==
  \/ \E name \in TableNames : PostTable(c, name)
  \/ InsertTable(c)
  \/ \E t \in Tables, name \in TableNames : RequestRename(c, t, name)
  \/ RenameTable(c)
  \/ \E t \in Tables, z \in Zones \cup {None} : RequestMove(c, t, z)
  \/ MoveTable(c)
  \/ \E t \in Tables : RequestRemove(c, t)
  \/ DeleteTable(c)
  \/ \E t \in Tables : Serve(c, t)

Next == \E c \in Calls : ZoneStep(c) \/ TableStep(c) \/ Abandon(c)

Spec == Init /\ [][Next]_vars

-----------------------------------------------------------------------------
\* Rows have their columns' types, and a table's zone exists.
TypeOK ==
  /\ tables \in [Tables -> [status : TableStatuses \cup {"ABSENT", "GONE"},
                            name : TableNames \cup {NoName}, zone : Zones \cup {None}]]
  /\ \A z \in Zones : /\ zones[z].state \in {"absent", "live", "gone"}
                      /\ zones[z].word \in Words
                      /\ zones[z].code.prefix \in {Prefix[w] : w \in Words}
                      /\ zones[z].code.n \in Nat
  /\ \A c \in Calls : calls[c].table \in Tables \cup {None}
  /\ raced \in BOOLEAN
  /\ \A t \in TableRows : tables[t].zone # None => tables[t].zone \in ZoneRows

\* As long as no request was overtaken between its test and its write, no two
\* tables have names that differ by case or spaces only, through creations,
\* renamings and deletions; the unique index alone would allow it.
NamesDistinct ==
  ~raced => \A t, u \in TableRows :
    normalizeName(tables[t].name) = normalizeName(tables[u].name) => t = u

\* Deleting a zone that was not raced deletes all its tables, and none of them
\* was reserved or occupied.
ZoneRemovalClean ==
  [][~raced' => \A z \in ZoneRows \ ZoneRows' : \A t \in TablesIn(z) :
        tables[t].status = "AVAILABLE" /\ tables'[t].status = "GONE"]_vars

\* The table name suggested for a zone is no table's name, also when tables with
\* the zone's code were moved to another zone or lost theirs: otherwise every
\* creation that follows the suggestion would be refused.
SuggestionFree ==
  \A z \in ZoneRows : NextTableName(z).no <= 99 => ~NameTaken(NextTableName(z), None)
=============================================================================
