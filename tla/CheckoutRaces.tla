---------------------------- MODULE CheckoutRaces ----------------------------
(***************************************************************************)
(* Checkout with a memory of who was overtaken, as FloorRaces has it for   *)
(* Floor.  checkout() goes by three statements before its transaction, and *)
(* closeSession() by two before its write; neither looks again, so either  *)
(* may write something stale when another request changed what it goes by. *)
(* The history says to which requests that happened and into which         *)
(* register sessions they then wrote.                                      *)
(*                                                                         *)
(* It only watches: every behaviour of Checkout is one of RaceSpec.        *)
(***************************************************************************)
EXTENDS Checkout

VARIABLES overtaken,   \* requests with something that changed since they began
          mistimed     \* register sessions into which an overtaken request wrote

raceVars == <<vars, overtaken, mistimed>>

RaceInit == Init /\ overtaken = {} /\ mistimed = {}

\* This step changes what request k goes by: its order or whether that is paid,
\* its session, or what it summed to close the session with.
Touched(k) ==
  \/ \E o \in Orders : k.order = o /\ (orders'[o] # orders[o] \/ Succeeded(o)' # Succeeded(o))
  \/ \E s \in Sessions : /\ k.session = s
                         /\ \/ sessions'[s] # sessions[s]
                            \/ k.at = "close" /\ Takings(s)' # Takings(s)

\* This step is one of request c, and it writes.
Writes(c) == calls'[c] # calls[c] /\ ~UNCHANGED store

Watch ==
  /\ overtaken' = {c \in Calls : /\ calls'[c] # Idle
                                 /\ \/ c \in overtaken
                                    \/ calls'[c] = calls[c] /\ Touched(calls[c])}
  /\ mistimed' = mistimed \cup
       {s \in Sessions : \E c \in overtaken : calls[c].session = s /\ Writes(c)}

RaceNext == Next /\ Watch

RaceSpec == RaceInit /\ [][RaceNext]_raceVars

-----------------------------------------------------------------------------
\* A POS sale is recorded for a PENDING order nobody paid yet, at the total the
\* order has now, into a session that is open: four facts checkout reads in
\* three statements before the transaction that relies on them.  Only a checkout
\* that was overtaken can break one, and only for its own order.
SaleIsSound ==
  [][\A p \in Sales : payments[p].status = "ABSENT" /\ payments'[p].status = "SUCCEEDED" =>
       \/ /\ orders[payments'[p].order].status = "PENDING"
          /\ Succeeded(payments'[p].order) = {}
          /\ payments'[p].amount = orders[payments'[p].order].total
          /\ sessions[payments'[p].session].state = "open"
       \/ \E c \in overtaken : calls[c].order = payments'[p].order /\ Writes(c)]_raceVars

\* A closed session never expects more in the drawer than was sold in it, however
\* checkouts and closings overlap; and it expects exactly that, for good, unless
\* an overtaken checkout or closing wrote into that very session.
ClosedSessionBalanced ==
  \A s \in Sessions : sessions[s].state = "closed" =>
    /\ sessions[s].expected <= Takings(s)
    /\ s \notin mistimed => sessions[s].expected = Takings(s)
=============================================================================
