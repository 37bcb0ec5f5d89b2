----------------------------- MODULE FloorRaces -----------------------------
(***************************************************************************)
(* Floor with a memory of who was overtaken.  A handler tests what it read *)
(* and writes some statements later without looking again, so it may act   *)
(* on something stale only when another request changed one of the rows it *)
(* goes by in between.  The two history variables say to which requests    *)
(* that happened and which tables they then wrote about.  Whatever else    *)
(* happens, with any number of requests overlapping and cut short, must be *)
(* as if requests came one after another.                                  *)
(*                                                                         *)
(* The history only watches: every behaviour of Floor is one of RaceSpec.  *)
(***************************************************************************)
EXTENDS Floor

VARIABLES overtaken,   \* requests with a row that changed since they began
          raced        \* tables about which an overtaken request has written

raceVars == <<vars, overtaken, raced>>

RaceInit == Init /\ overtaken = {} /\ raced = {}

\* This step changes a row that request k goes by: its order, its reservation,
\* its table, or which active orders its table has.
Touched(k) ==
  \/ \E o \in Orders : k.order = o /\ orders'[o] # orders[o]
  \/ \E r \in Reservations : k.res = r /\ reservations'[r] # reservations[r]
  \/ \E t \in Tables : /\ k.table = t
                       /\ tables'[t] # tables[t] \/ ActiveOrders(t)' # ActiveOrders(t)

\* The tables that request k is about.
About(k) ==
  {t \in Tables : \/ k.table = t
                  \/ \E o \in Orders : k.order = o /\ orders[o].table = t
                  \/ \E r \in Reservations : k.res = r /\ reservations[r].table = t}

\* This step is one of request c, and it writes.
Writes(c) ==
  /\ calls'[c] # calls[c]
  /\ ~UNCHANGED <<tables, orders, reservations>>

Watch ==
  /\ overtaken' = {c \in Calls : /\ calls'[c] # Idle
                                 /\ \/ c \in overtaken
                                    \/ calls'[c] = calls[c] /\ Touched(calls[c])}
  /\ raced' = raced \cup UNION {About(calls[c]) : c \in {d \in overtaken : Writes(d)}}

RaceNext == Next /\ Watch

RaceSpec == RaceInit /\ [][RaceNext]_raceVars

-----------------------------------------------------------------------------
\* Orders move along ORDER_STATUS_TRANSITIONS, whichever of the five writers of
\* Order.status is used: only a request that was overtaken can break the
\* machine, and only for the order it is about.
StatusFollowsMachine ==
  [][\A o \in Orders :
        OrderRow(o) => \/ orders'[o].status = orders[o].status
                       \/ canTransition(orders[o].status, orders'[o].status)
                       \/ \E c \in overtaken : calls[c].order = o /\ Writes(c)]_raceVars

\* SEATED, NO_SHOW and CANCELLED are final for a reservation, except for a
\* request of its own that was overtaken.
TerminalIsFinal ==
  [][\A r \in Reservations :
        reservations[r].status \in TERMINAL_STATUSES =>
          \/ reservations'[r].status = reservations[r].status
          \/ \E c \in overtaken : calls[c].res = r /\ Writes(c)]_raceVars

\* A RESERVED table is held for some party that paid and is still expected, so
\* a table cannot stay blocked after its reservations ended.
HeldForSomeone(t) ==
  tables[t] = "RESERVED" =>
    \E r \in Reservations : /\ reservations[r].status = "CONFIRMED"
                            /\ reservations[r].type \in PAID_TYPES
                            /\ reservations[r].table = t

\* No table stays blocked after its reservations ended, whatever else is under
\* way, unless an overtaken request wrote about that table.
HoldHasReservation == \A t \in Tables \ raced : HeldForSomeone(t)

-----------------------------------------------------------------------------
\* A deposit or a pre-order names the table.
Promised(t) == \E r \in Reservations : reservations[r].type \in PAID_TYPES /\ reservations[r].table = t

\* A table for walk-in guests: nobody paid for it in advance, and no overtaken
\* request wrote about it.
WalkInTables == {t \in Tables \ raced : ~Promised(t)}

\* As long as an order of a walk-in table is unpaid the table stays OCCUPIED, so
\* that staff are sent back to that order and the table cannot be deleted, and
\* it is the only unpaid order there.
UnpaidKeepsTable ==
  \A t \in WalkInTables : \A o \in ticket[t] : tables[t] = "OCCUPIED" /\ ticket[t] = {o}

BookOf(W) == INSTANCE TicketBook WITH
  Tables <- W, Tickets <- Orders, ticket <- [t \in W |-> ticket[t]]

\* Walk-in tables keep the book of TicketBook while the rest of the floor is
\* reserved, raced over and cut short around them: on every set of tables that
\* are walk-in tables, a step not made by an overtaken request opens a ticket on
\* an empty table, settles one for good, or changes nothing.
BookKept ==
  /\ \A W \in SUBSET Tables : BookOf(W)!Init
  /\ [][\A W \in SUBSET Tables :
          W \subseteq WalkInTables =>
            \/ BookOf(W)!Next
            \/ UNCHANGED <<[t \in W |-> ticket[t]], settled>>
            \/ \E c \in overtaken : Writes(c)]_raceVars
=============================================================================
