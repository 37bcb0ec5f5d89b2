------------------------------- MODULE Access -------------------------------
(***************************************************************************)
(* Sessions: registration, login, rotation of refresh tokens and logout    *)
(* (src/auth).                                                             *)
(*                                                                         *)
(* A session row and the refresh token issued with it have one id and one  *)
(* expiry.  The hash of a token is taken by bcrypt from its first 72 bytes *)
(* (bcryptjs, external), which hold the token's header and the start of    *)
(* the user's id only: a token fits any session of its user, and findMany  *)
(* has no order, so the first fit is any of them.                          *)
(*                                                                         *)
(* History: logins counts the logins of a user, registration included,     *)
(* since the last logout; crossed tells whether a rotation was crossed by  *)
(* another one of the same session or by a logout.                         *)
(***************************************************************************)
EXTENDS Naturals, FiniteSets, Sql

CONSTANTS Users,          \* ids a user may get
          SessionIds,     \* ids a session may get
          AccessCalls     \* slots for concurrent requests

ASSUME AccessAssumption ==
  /\ IsFiniteSet(SessionIds) /\ IsFiniteSet(AccessCalls)
  /\ Null \notin Users

VARIABLES users,          \* user -> "absent", "active" or "inactive"
          refreshRows,    \* session -> [state, user]
          accessCalls,    \* request slot -> the handler's position and memory
          logins, crossed

accessVars == <<users, refreshRows, accessCalls, logins, crossed>>

NoAccessCall == [at |-> "idle", user |-> Null, session |-> Null]

AccessInit ==
  /\ users = [u \in Users |-> "absent"]
  /\ refreshRows = [s \in SessionIds |-> [state |-> "absent", user |-> Null]]
  /\ accessCalls = [c \in AccessCalls |-> NoAccessCall]
  /\ logins = [u \in Users |-> 0]
  /\ crossed = [u \in Users |-> FALSE]

LiveSessions(u) == {s \in SessionIds : refreshRows[s] = [state |-> "live", user |-> u]}

AccessGoTo(c, at, u, s) ==
  accessCalls' = [accessCalls EXCEPT ![c] = [at |-> at, user |-> u, session |-> s]]

\* A manager switches a user off or on again.  (No handler of this repository
\* does; the handlers here read the flag.)
SwitchUser(u) ==
  /\ users[u] # "absent"
  /\ users' = [users EXCEPT ![u] = IF @ = "active" THEN "inactive" ELSE "active"]
  /\ UNCHANGED <<refreshRows, accessCalls, logins, crossed>>

\* Time passes: a session and its token expire together.
ExpireSession(s) ==
  /\ refreshRows[s].state = "live"
  /\ refreshRows' = [refreshRows EXCEPT ![s].state = "expired"]
  /\ UNCHANGED <<users, accessCalls, logins, crossed>>

Register(c, u) ==
  /\ accessCalls[c] = NoAccessCall
  /\ users[u] = "absent"
  /\ users' = [users EXCEPT ![u] = "active"]
  /\ AccessGoTo(c, "issueLogin", u, Null)
  /\ UNCHANGED <<refreshRows, logins, crossed>>

Login(c, u) ==
  /\ accessCalls[c] = NoAccessCall
  /\ users[u] = "active"
  /\ AccessGoTo(c, "issueLogin", u, Null)
  /\ UNCHANGED <<users, refreshRows, logins, crossed>>

\* POST /auth/refresh with the token of session t, revoked or not, picks a live
\* session of the token's user that it fits.
RequestRefresh(c, t) ==
  /\ accessCalls[c] = NoAccessCall
  /\ refreshRows[t].state \in {"live", "revoked"}
  /\ \E s \in LiveSessions(refreshRows[t].user) :
       AccessGoTo(c, "revoke", refreshRows[t].user, s)
  /\ UNCHANGED <<users, refreshRows, logins, crossed>>

\* Mutant: the session that was used is left as it is.
RevokeNothing(c) ==
  /\ accessCalls[c].at = "revoke"
  /\ AccessGoTo(c, "readUser", accessCalls[c].user, accessCalls[c].session)
  /\ UNCHANGED <<users, refreshRows, logins, crossed>>

\* The row is updated by its id, whether it is still live or not.
RevokeSession(c) ==
  LET u == accessCalls[c].user
      s == accessCalls[c].session
  IN /\ accessCalls[c].at = "revoke"
     /\ refreshRows' = [refreshRows EXCEPT ![s].state = "revoked"]
     /\ crossed' = [crossed EXCEPT ![u] = @ \/ refreshRows[s].state = "revoked"]
     /\ AccessGoTo(c, "readUser", u, s)
     /\ UNCHANGED <<users, logins>>

\* The flag is read after the revocation; an inactive user ends with no session.
ReadUser(c) ==
  /\ accessCalls[c].at = "readUser"
  /\ users[accessCalls[c].user] = "active"
  /\ AccessGoTo(c, "issueRefresh", accessCalls[c].user, accessCalls[c].session)
  /\ UNCHANGED <<users, refreshRows, logins, crossed>>

IssueTokens(c) ==
  LET u == accessCalls[c].user
  IN /\ accessCalls[c].at \in {"issueLogin", "issueRefresh"}
     /\ \E s \in SessionIds :
          /\ refreshRows[s].state = "absent"
          /\ refreshRows' = [refreshRows EXCEPT ![s] = [state |-> "live", user |-> u]]
     /\ logins' = IF accessCalls[c].at = "issueLogin" THEN [logins EXCEPT ![u] = @ + 1] ELSE logins
     /\ accessCalls' = [accessCalls EXCEPT ![c] = NoAccessCall]
     /\ UNCHANGED <<users, crossed>>

\* Every unrevoked session of the user, expired ones too.
Logout(u) ==
  /\ users[u] = "active"
  /\ refreshRows' = [s \in SessionIds |->
       IF refreshRows[s].user = u THEN [refreshRows[s] EXCEPT !.state = "revoked"]
       ELSE refreshRows[s]]
  /\ logins' = [logins EXCEPT ![u] = 0]
  /\ crossed' = [crossed EXCEPT ![u] =
       \E c \in AccessCalls : accessCalls[c].user = u /\
         accessCalls[c].at \in {"readUser", "issueRefresh"}]
  /\ UNCHANGED <<users, accessCalls>>

AbandonAccess(c) ==
  /\ accessCalls[c] # NoAccessCall
  /\ accessCalls' = [accessCalls EXCEPT ![c] = NoAccessCall]
  /\ UNCHANGED <<users, refreshRows, logins, crossed>>

AccessNext ==
  \/ \E u \in Users : SwitchUser(u) \/ Logout(u)
  \/ \E s \in SessionIds : ExpireSession(s)
  \/ \E c \in AccessCalls :
       \/ \E u \in Users : Register(c, u) \/ Login(c, u)
       \/ \E t \in SessionIds : RequestRefresh(c, t)
       \/ RevokeSession(c) \/ ReadUser(c) \/ IssueTokens(c)
       \/ AbandonAccess(c)

AccessSpec == AccessInit /\ [][AccessNext]_accessVars

-----------------------------------------------------------------------------
\* Rows have their columns' types.
AccessTypeOK ==
  /\ \A u \in Users : users[u] \in {"absent", "active", "inactive"} /\ logins[u] \in Nat
  /\ \A s \in SessionIds : /\ refreshRows[s].state \in {"absent", "live", "revoked", "expired"}
                           /\ refreshRows[s].user \in Users \cup {Null}
  /\ \A c \in AccessCalls : /\ accessCalls[c].user \in Users \cup {Null}
                            /\ accessCalls[c].session \in SessionIds \cup {Null}

\* A user has at most as many live sessions as logins since the last logout: a
\* rotation replaces a session and never adds one, whichever of the user's
\* tokens was presented, and after a logout none is left.  Excepted are users
\* with a rotation that another one of its session, or a logout, crossed.
LiveWithinLogins == \A u \in Users : ~crossed[u] => Cardinality(LiveSessions(u)) <= logins[u]
=============================================================================
