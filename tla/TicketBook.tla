----------------------------- MODULE TicketBook -----------------------------
(***************************************************************************)
(* What walk-in service promises about unpaid orders, without requests or  *)
(* table statuses: a table has at most one open ticket, a ticket opens on  *)
(* an empty table, leaves its table exactly once, and never comes back.    *)
(***************************************************************************)
CONSTANTS Tables, Tickets

VARIABLES ticket,    \* table -> the set of its open tickets
          settled    \* tickets paid, confirmed or cancelled

Init ==
  /\ ticket = [t \in Tables |-> {}]
  /\ settled = {}

OpenTicket(t, o) ==
  /\ ticket[t] = {}
  /\ o \notin settled
  /\ \A u \in Tables : o \notin ticket[u]
  /\ ticket' = [ticket EXCEPT ![t] = {o}]
  /\ UNCHANGED settled

CloseTicket(t, o) ==
  /\ o \in ticket[t]
  /\ ticket' = [ticket EXCEPT ![t] = {}]
  /\ settled' = settled \cup {o}

\* Takeaway and delivery orders settle without a table.
SettleElsewhere(o) ==
  /\ \A t \in Tables : o \notin ticket[t]
  /\ settled' = settled \cup {o}
  /\ UNCHANGED ticket

Next ==
  \/ \E t \in Tables, o \in Tickets : OpenTicket(t, o) \/ CloseTicket(t, o)
  \/ \E o \in Tickets : SettleElsewhere(o)

Spec == Init /\ [][Next]_<<ticket, settled>>
=============================================================================
