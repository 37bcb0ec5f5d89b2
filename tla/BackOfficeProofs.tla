----------------------------- MODULE BackOfficeProofs -----------------------
(***************************************************************************)
(* Proofs about components of the back office, each with its own inductive *)
(* invariant: the auth sessions (Access), the subscriptions (Billing), the *)
(* screens (Realtime) and the reports (Reports); and about all of them     *)
(* side by side (BackOffice).  Stock and Menu have modules of their own.   *)
(***************************************************************************)
EXTENDS BackOffice, StockProofs, MenuProofs, FiniteSetTheorems, TLAPS

-----------------------------------------------------------------------------
(***************************************************************************)
(* Proofs about Access, for any finite number of sessions and of           *)
(* concurrent requests. The live sessions alone are not inductive: a       *)
(* rotation takes a session away before it adds the next one, and an       *)
(* expired session that a rotation has already picked is replaced too. So  *)
(* AccessInv counts what may become a live session, the rows that are not  *)
(* revoked and the rotations under way, against the logins.                *)
(***************************************************************************)
RowStates == {"absent", "live", "revoked", "expired"}
AccessSteps == {"idle", "issueLogin", "revoke", "readUser", "issueRefresh"}

AccessShapes ==
  /\ users \in [Users -> {"absent", "active", "inactive"}]
  /\ refreshRows \in [SessionIds -> [state : RowStates, user : Users \cup {Null}]]
  /\ accessCalls \in [AccessCalls ->
       [at : AccessSteps, user : Users \cup {Null}, session : SessionIds \cup {Null}]]
  /\ logins \in [Users -> Nat]
  /\ crossed \in [Users -> BOOLEAN]

\* A request is of some user, and revokes a session of that user only.
CallsOwnSession ==
  \A c \in AccessCalls :
    /\ accessCalls[c].at # "idle" => accessCalls[c].user \in Users
    /\ accessCalls[c].at = "revoke" =>
         /\ accessCalls[c].session \in SessionIds
         /\ refreshRows[accessCalls[c].session].user = accessCalls[c].user
         /\ refreshRows[accessCalls[c].session].state # "absent"

RowsOfUsers ==
  \A s \in SessionIds : refreshRows[s].state = "absent" <=> refreshRows[s].user = Null

Kept(u) == {s \in SessionIds : refreshRows[s].user = u /\ refreshRows[s].state \in {"live", "expired"}}
Rotating(u) == {c \in AccessCalls :
                  accessCalls[c].user = u /\ accessCalls[c].at \in {"readUser", "issueRefresh"}}

ChainsWithinLogins ==
  \A u \in Users : ~crossed[u] => Cardinality(Kept(u)) + Cardinality(Rotating(u)) <= logins[u]

AccessInv == AccessShapes /\ CallsOwnSession /\ RowsOfUsers /\ ChainsWithinLogins

-----------------------------------------------------------------------------
\* What the invariant counts is finite.
LEMMA Counted ==
  /\ \A u \in Users : /\ IsFiniteSet(Kept(u)) /\ Cardinality(Kept(u)) \in Nat
                      /\ IsFiniteSet(Rotating(u)) /\ Cardinality(Rotating(u)) \in Nat
  /\ (\A u \in Users : /\ IsFiniteSet(Kept(u)) /\ Cardinality(Kept(u)) \in Nat
                       /\ IsFiniteSet(Rotating(u)) /\ Cardinality(Rotating(u)) \in Nat)'
<1>1. \A S \in SUBSET SessionIds : IsFiniteSet(S) /\ Cardinality(S) \in Nat
  BY AccessAssumption, FS_Subset, FS_CardinalityType DEF AccessAssumption
<1>2. \A S \in SUBSET AccessCalls : IsFiniteSet(S) /\ Cardinality(S) \in Nat
  BY AccessAssumption, FS_Subset, FS_CardinalityType DEF AccessAssumption
<1>3. \A u \in Users : Kept(u) \subseteq SessionIds /\ Rotating(u) \subseteq AccessCalls
  BY DEF Kept, Rotating
<1>4. (\A u \in Users : Kept(u) \subseteq SessionIds /\ Rotating(u) \subseteq AccessCalls)'
  BY DEF Kept, Rotating
<1> QED
  BY <1>1, <1>2, <1>3, <1>4

\* A step that adds neither a session nor a rotation keeps the count.
LEMMA NothingAdded ==
  ASSUME AccessInv, AccessShapes',
         \A u \in Users : Kept(u)' \subseteq Kept(u) /\ Rotating(u)' \subseteq Rotating(u),
         UNCHANGED <<logins, crossed>>
  PROVE  ChainsWithinLogins'
<1> SUFFICES ASSUME NEW u \in Users, ~crossed[u]
             PROVE  Cardinality(Kept(u)') + Cardinality(Rotating(u)') <= logins[u]
  BY DEF ChainsWithinLogins
<1>1. /\ Cardinality(Kept(u)') <= Cardinality(Kept(u))
      /\ Cardinality(Rotating(u)') <= Cardinality(Rotating(u))
  BY Counted, FS_Subset
<1>2. Cardinality(Kept(u)) + Cardinality(Rotating(u)) <= logins[u]
  BY DEF AccessInv, ChainsWithinLogins
<1> QED
  BY <1>1, <1>2, Counted DEF AccessInv, AccessShapes

\* The invariant holds before anyone registered.
LEMMA InitAccessInv == AccessInit => AccessInv
<1> SUFFICES ASSUME AccessInit PROVE AccessInv
  OBVIOUS
<1>1. AccessShapes
  BY DEF AccessInit, AccessShapes, NoAccessCall, RowStates, AccessSteps
<1>2. CallsOwnSession
  BY DEF AccessInit, CallsOwnSession, NoAccessCall
<1>3. \A u \in Users : Kept(u) = {} /\ Rotating(u) = {}
  BY DEF AccessInit, Kept, Rotating, NoAccessCall
<1>4. ChainsWithinLogins
  BY <1>3, FS_EmptySet DEF AccessInit, ChainsWithinLogins
<1>5. RowsOfUsers
  BY DEF AccessInit, RowsOfUsers
<1> QED
  BY <1>1, <1>2, <1>4, <1>5 DEF AccessInv

\* A request that takes a step without touching a session.
LEMMA StepKeepsAccessInv ==
  ASSUME AccessInv, NEW c \in AccessCalls, NEW at \in AccessSteps,
         NEW u \in Users \cup {Null}, NEW s \in SessionIds \cup {Null},
         AccessGoTo(c, at, u, s),
         users' \in [Users -> {"absent", "active", "inactive"}],
         UNCHANGED <<refreshRows, logins, crossed>>,
         at # "idle" => u \in Users,
         at = "revoke" => s \in SessionIds /\ refreshRows[s].user = u /\ refreshRows[s].state # "absent",
         at \in {"readUser", "issueRefresh"} => c \in Rotating(u)
  PROVE  AccessInv'
<1>1. \A d \in AccessCalls : accessCalls'[d] =
        IF d = c THEN [at |-> at, user |-> u, session |-> s] ELSE accessCalls[d]
  BY DEF AccessGoTo, AccessInv, AccessShapes
<1>2. AccessShapes'
  BY DEF AccessGoTo, AccessInv, AccessShapes
<1>3. CallsOwnSession'
  BY <1>1 DEF AccessInv, CallsOwnSession
<1>4. \A v \in Users : Kept(v)' \subseteq Kept(v) /\ Rotating(v)' \subseteq Rotating(v)
  BY <1>1 DEF Kept, Rotating
<1>5. ChainsWithinLogins'
  BY <1>2, <1>4, NothingAdded
<1>6. RowsOfUsers'
  BY DEF AccessInv, RowsOfUsers
<1> QED
  BY <1>2, <1>3, <1>5, <1>6 DEF AccessInv

\* A rotation trades the session it revokes for itself.
LEMMA RevokeKeepsAccessInv ==
  ASSUME AccessInv, NEW c \in AccessCalls, RevokeSession(c)
  PROVE  AccessInv'
<1>1. PICK u \in Users, s \in SessionIds :
        /\ accessCalls[c].at = "revoke" /\ u = accessCalls[c].user /\ s = accessCalls[c].session
        /\ refreshRows[s].user = u /\ refreshRows[s].state # "absent"
  BY DEF RevokeSession, AccessInv, CallsOwnSession
<1>2. /\ refreshRows' = [refreshRows EXCEPT ![s].state = "revoked"]
      /\ crossed' = [crossed EXCEPT ![u] = @ \/ refreshRows[s].state = "revoked"]
      /\ accessCalls' = [accessCalls EXCEPT ![c] = [at |-> "readUser", user |-> u, session |-> s]]
      /\ UNCHANGED <<users, logins>>
  BY <1>1 DEF RevokeSession, AccessGoTo
<1>3. /\ \A t \in SessionIds : refreshRows'[t].user = refreshRows[t].user
      /\ \A t \in SessionIds \ {s} : refreshRows'[t] = refreshRows[t]
      /\ refreshRows'[s].state = "revoked"
      /\ \A d \in AccessCalls \ {c} : accessCalls'[d] = accessCalls[d]
      /\ accessCalls'[c] = [at |-> "readUser", user |-> u, session |-> s]
  BY <1>2 DEF AccessInv, AccessShapes
<1>4. AccessShapes'
  BY <1>2 DEF AccessInv, AccessShapes, RowStates, AccessSteps
<1>5. CallsOwnSession'
  <2> SUFFICES ASSUME NEW d \in AccessCalls
               PROVE  /\ accessCalls'[d].at # "idle" => accessCalls'[d].user \in Users
                      /\ accessCalls'[d].at = "revoke" =>
                           /\ accessCalls'[d].session \in SessionIds
                           /\ refreshRows'[accessCalls'[d].session].user = accessCalls'[d].user
                           /\ refreshRows'[accessCalls'[d].session].state # "absent"
    BY DEF CallsOwnSession
  <2>1. CASE d = c
    BY <1>3, <2>1
  <2>2. CASE d # c
    BY <1>3, <2>2 DEF AccessInv, CallsOwnSession
  <2> QED
    BY <2>1, <2>2
<1>6. ChainsWithinLogins'
  <2> SUFFICES ASSUME NEW v \in Users, ~crossed'[v]
               PROVE  Cardinality(Kept(v)') + Cardinality(Rotating(v)') <= logins[v]
    BY <1>2 DEF ChainsWithinLogins
  <2>1. ~crossed[v] /\ (v = u => refreshRows[s].state # "revoked")
    BY <1>2 DEF AccessInv, AccessShapes
  <2>2. Cardinality(Kept(v)) + Cardinality(Rotating(v)) <= logins[v]
    BY <2>1 DEF AccessInv, ChainsWithinLogins
  <2>3. CASE v = u
    <3>1. refreshRows[s].state \in {"live", "expired"}
      BY <1>1, <2>1, <2>3 DEF AccessInv, AccessShapes, RowStates
    <3>2. s \in Kept(v) /\ Kept(v)' = Kept(v) \ {s}
      BY <1>1, <1>3, <2>3, <3>1 DEF Kept
    <3>3. c \notin Rotating(v) /\ Rotating(v)' = Rotating(v) \cup {c}
      BY <1>1, <1>3, <2>3 DEF Rotating
    <3>4. Cardinality(Kept(v)') = Cardinality(Kept(v)) - 1
      BY <3>2, Counted, FS_RemoveElement
    <3>5. Cardinality(Rotating(v)') = Cardinality(Rotating(v)) + 1
      BY <3>3, Counted, FS_AddElement
    <3> QED
      BY <2>2, <3>4, <3>5, Counted DEF AccessInv, AccessShapes
  <2>4. CASE v # u
    <3>1. Kept(v)' = Kept(v) /\ Rotating(v)' = Rotating(v)
      BY <1>1, <1>3, <2>4 DEF Kept, Rotating
    <3> QED
      BY <2>2, <3>1
  <2> QED
    BY <2>3, <2>4
<1>7. RowsOfUsers'
  BY <1>1, <1>3 DEF AccessInv, RowsOfUsers
<1> QED
  BY <1>4, <1>5, <1>6, <1>7 DEF AccessInv

\* A rotation trades itself for the session it adds, a login counts.
LEMMA IssueKeepsAccessInv ==
  ASSUME AccessInv, NEW c \in AccessCalls, IssueTokens(c)
  PROVE  AccessInv'
<1>1. PICK u \in Users : u = accessCalls[c].user /\ accessCalls[c].at \in {"issueLogin", "issueRefresh"}
  BY DEF IssueTokens, AccessInv, CallsOwnSession
<1>2. PICK s \in SessionIds :
        /\ refreshRows[s].state = "absent"
        /\ refreshRows' = [refreshRows EXCEPT ![s] = [state |-> "live", user |-> u]]
        /\ logins' = IF accessCalls[c].at = "issueLogin" THEN [logins EXCEPT ![u] = @ + 1] ELSE logins
        /\ accessCalls' = [accessCalls EXCEPT ![c] = NoAccessCall]
        /\ UNCHANGED <<users, crossed>>
  BY <1>1 DEF IssueTokens
<1>3. /\ \A t \in SessionIds \ {s} : refreshRows'[t] = refreshRows[t]
      /\ refreshRows'[s] = [state |-> "live", user |-> u]
      /\ \A d \in AccessCalls \ {c} : accessCalls'[d] = accessCalls[d]
      /\ accessCalls'[c] = NoAccessCall
  BY <1>2 DEF AccessInv, AccessShapes
<1>4. AccessShapes'
  <2>1. logins' \in [Users -> Nat]
    BY <1>2 DEF AccessInv, AccessShapes
  <2>2. accessCalls' \in [AccessCalls ->
          [at : AccessSteps, user : Users \cup {Null}, session : SessionIds \cup {Null}]]
    BY <1>2 DEF AccessInv, AccessShapes, NoAccessCall, AccessSteps
  <2> QED
    BY <1>2, <2>1, <2>2 DEF AccessInv, AccessShapes, RowStates
<1>5. CallsOwnSession'
  BY <1>2, <1>3 DEF AccessInv, CallsOwnSession, NoAccessCall
<1>6. ChainsWithinLogins'
  <2> SUFFICES ASSUME NEW v \in Users, ~crossed[v]
               PROVE  Cardinality(Kept(v)') + Cardinality(Rotating(v)') <= logins'[v]
    BY <1>2 DEF ChainsWithinLogins
  <2>1. Cardinality(Kept(v)) + Cardinality(Rotating(v)) <= logins[v]
    BY DEF AccessInv, ChainsWithinLogins
  <2>2. CASE v = u
    <3>1. s \notin Kept(v) /\ Kept(v)' = Kept(v) \cup {s}
      BY <1>2, <1>3, <2>2 DEF Kept
    <3>2. Rotating(v)' = Rotating(v) \ {c}
      BY <1>3 DEF Rotating, NoAccessCall
    <3>3. Cardinality(Kept(v)') = Cardinality(Kept(v)) + 1
      BY <3>1, Counted, FS_AddElement
    <3>4. CASE accessCalls[c].at = "issueLogin"
      <4>1. c \notin Rotating(v)
        BY <3>4 DEF Rotating
      <4>2. Cardinality(Rotating(v)') = Cardinality(Rotating(v))
        BY <3>2, <4>1
      <4>3. logins'[v] = logins[v] + 1
        BY <1>2, <2>2, <3>4 DEF AccessInv, AccessShapes
      <4> QED
        BY <2>1, <3>3, <4>2, <4>3, Counted DEF AccessInv, AccessShapes
    <3>5. CASE accessCalls[c].at = "issueRefresh"
      <4>1. c \in Rotating(v)
        BY <1>1, <2>2, <3>5 DEF Rotating
      <4>2. Cardinality(Rotating(v)') = Cardinality(Rotating(v)) - 1
        BY <3>2, <4>1, Counted, FS_RemoveElement
      <4>3. logins'[v] = logins[v]
        BY <1>2, <3>5
      <4> QED
        BY <2>1, <3>3, <4>2, <4>3, Counted DEF AccessInv, AccessShapes
    <3> QED
      BY <1>1, <3>4, <3>5
  <2>3. CASE v # u
    <3>1. Kept(v)' = Kept(v)
      BY <1>2, <1>3, <2>3 DEF Kept
    <3>2. Rotating(v)' = Rotating(v)
      BY <1>1, <1>3, <2>3, AccessAssumption DEF Rotating, NoAccessCall, AccessAssumption
    <3>3. logins'[v] = logins[v]
      BY <1>2, <2>3 DEF AccessInv, AccessShapes
    <3> QED
      BY <2>1, <3>1, <3>2, <3>3
  <2> QED
    BY <2>2, <2>3
<1>7. RowsOfUsers'
  BY <1>3, AccessAssumption DEF AccessInv, RowsOfUsers, AccessAssumption
<1> QED
  BY <1>4, <1>5, <1>6, <1>7 DEF AccessInv

\* A logout leaves nothing that may become a live session, unless a rotation is
\* under way.
LEMMA LogoutKeepsAccessInv ==
  ASSUME AccessInv, NEW u \in Users, Logout(u)
  PROVE  AccessInv'
<1>1. /\ \A s \in SessionIds : refreshRows'[s] =
           IF refreshRows[s].user = u THEN [refreshRows[s] EXCEPT !.state = "revoked"] ELSE refreshRows[s]
      /\ refreshRows' \in [SessionIds -> [state : RowStates, user : Users \cup {Null}]]
  BY DEF Logout, AccessInv, AccessShapes, RowStates
<1>2. /\ UNCHANGED <<users, accessCalls>>
      /\ logins' = [logins EXCEPT ![u] = 0]
      /\ crossed' = [crossed EXCEPT ![u] = Rotating(u) # {}]
  BY DEF Logout, Rotating
<1>3. AccessShapes'
  BY <1>1, <1>2 DEF AccessInv, AccessShapes
<1>4. \A s \in SessionIds :
        /\ refreshRows'[s].user = refreshRows[s].user
        /\ refreshRows[s].state # "absent" => refreshRows'[s].state # "absent"
  BY <1>1 DEF AccessInv, AccessShapes
<1>5. CallsOwnSession'
  BY <1>2, <1>4 DEF AccessInv, CallsOwnSession
<1>7. RowsOfUsers'
  BY <1>1, <1>4, AccessAssumption DEF AccessInv, RowsOfUsers, AccessShapes, AccessAssumption
<1>6. ChainsWithinLogins'
  <2> SUFFICES ASSUME NEW v \in Users, ~crossed'[v]
               PROVE  Cardinality(Kept(v)') + Cardinality(Rotating(v)') <= logins'[v]
    BY DEF ChainsWithinLogins
  <2>1. Rotating(v)' = Rotating(v)
    BY <1>2 DEF Rotating
  <2>2. CASE v = u
    <3>1. Kept(v)' = {}
      BY <1>1, <2>2 DEF Kept, AccessInv, AccessShapes
    <3>2. Rotating(v)' = {} /\ logins'[v] = 0
      BY <1>2, <2>1, <2>2 DEF AccessInv, AccessShapes
    <3> QED
      BY <3>1, <3>2, FS_EmptySet
  <2>3. CASE v # u
    <3>1. Kept(v)' = Kept(v)
      BY <1>1, <2>3 DEF Kept, AccessInv, AccessShapes
    <3>2. ~crossed[v] /\ logins'[v] = logins[v]
      BY <1>2, <2>3 DEF AccessInv, AccessShapes
    <3> QED
      BY <2>1, <3>1, <3>2 DEF AccessInv, ChainsWithinLogins
  <2> QED
    BY <2>2, <2>3
<1> QED
  BY <1>3, <1>5, <1>6, <1>7 DEF AccessInv

\* Every step preserves the invariant.
LEMMA NextKeepsAccessInv == AccessInv /\ [AccessNext]_accessVars => AccessInv'
<1> SUFFICES ASSUME AccessInv, [AccessNext]_accessVars PROVE AccessInv'
  OBVIOUS
<1>1. ASSUME NEW u \in Users, SwitchUser(u)
      PROVE  AccessInv'
  <2>1. UNCHANGED <<refreshRows, accessCalls, logins, crossed>>
        /\ users' \in [Users -> {"absent", "active", "inactive"}]
    BY <1>1 DEF SwitchUser, AccessInv, AccessShapes
  <2> QED
    BY <2>1 DEF AccessInv, AccessShapes, CallsOwnSession, RowsOfUsers, ChainsWithinLogins, Kept, Rotating
<1>2. ASSUME NEW s \in SessionIds, ExpireSession(s)
      PROVE  AccessInv'
  <2>1. /\ refreshRows[s].state = "live"
        /\ \A t \in SessionIds : refreshRows'[t] =
             IF t = s THEN [refreshRows[s] EXCEPT !.state = "expired"] ELSE refreshRows[t]
        /\ UNCHANGED <<users, accessCalls, logins, crossed>>
    BY <1>2 DEF ExpireSession, AccessInv, AccessShapes
  <2>2. AccessShapes'
    BY <1>2 DEF ExpireSession, AccessInv, AccessShapes, RowStates
  <2>3. \A t \in SessionIds :
          /\ refreshRows'[t].user = refreshRows[t].user
          /\ refreshRows'[t].state # refreshRows[t].state =>
               t = s /\ refreshRows'[t].state = "expired"
    BY <2>1 DEF AccessInv, AccessShapes
  <2>4. CallsOwnSession'
    BY <2>1, <2>3 DEF AccessInv, CallsOwnSession
  <2>5. \A u \in Users : Kept(u)' \subseteq Kept(u) /\ Rotating(u)' \subseteq Rotating(u)
    BY <2>1, <2>3 DEF Kept, Rotating
  <2>6. RowsOfUsers'
    BY <2>1, <2>3 DEF AccessInv, RowsOfUsers
  <2> QED
    BY <2>1, <2>2, <2>4, <2>5, <2>6, NothingAdded DEF AccessInv
<1>3. ASSUME NEW c \in AccessCalls, NEW u \in Users, Register(c, u) \/ Login(c, u)
      PROVE  AccessInv'
  <2>1. /\ AccessGoTo(c, "issueLogin", u, Null)
        /\ UNCHANGED <<refreshRows, logins, crossed>>
        /\ users' \in [Users -> {"absent", "active", "inactive"}]
    BY <1>3 DEF Register, Login, AccessInv, AccessShapes
  <2> QED
    BY <2>1, StepKeepsAccessInv DEF AccessSteps
<1>4. ASSUME NEW c \in AccessCalls, NEW t \in SessionIds, RequestRefresh(c, t)
      PROVE  AccessInv'
  <2>1. PICK s \in LiveSessions(refreshRows[t].user) : AccessGoTo(c, "revoke", refreshRows[t].user, s)
    BY <1>4 DEF RequestRefresh
  <2>2. UNCHANGED <<users, refreshRows, logins, crossed>> /\ refreshRows[t].state \in {"live", "revoked"}
    BY <1>4 DEF RequestRefresh
  <2>3. /\ s \in SessionIds /\ refreshRows[s].user = refreshRows[t].user
        /\ refreshRows[s].state # "absent"
    BY <2>1 DEF LiveSessions
  <2>4. refreshRows[t].user \in Users
    BY <2>2 DEF AccessInv, RowsOfUsers, AccessShapes
  <2> QED
    BY <2>1, <2>2, <2>3, <2>4, StepKeepsAccessInv DEF AccessSteps, AccessInv, AccessShapes
<1>5. ASSUME NEW c \in AccessCalls, ReadUser(c)
      PROVE  AccessInv'
  <2>1. PICK u \in Users, s \in SessionIds \cup {Null} :
          /\ u = accessCalls[c].user /\ s = accessCalls[c].session
          /\ accessCalls[c].at = "readUser"
          /\ AccessGoTo(c, "issueRefresh", u, s)
          /\ UNCHANGED <<users, refreshRows, logins, crossed>>
    BY <1>5 DEF ReadUser, AccessInv, AccessShapes, CallsOwnSession
  <2>2. c \in Rotating(u) /\ users' \in [Users -> {"absent", "active", "inactive"}]
    BY <2>1 DEF Rotating, AccessInv, AccessShapes
  <2> QED
    BY <2>1, <2>2, StepKeepsAccessInv DEF AccessSteps
<1>6. ASSUME NEW c \in AccessCalls, AbandonAccess(c)
      PROVE  AccessInv'
  <2>1. AccessGoTo(c, "idle", Null, Null) /\ UNCHANGED <<users, refreshRows, logins, crossed>>
    BY <1>6 DEF AbandonAccess, AccessGoTo, NoAccessCall
  <2> QED
    BY <2>1, StepKeepsAccessInv DEF AccessSteps, AccessInv, AccessShapes
<1>7. CASE UNCHANGED accessVars
  BY <1>7 DEF accessVars, AccessInv, AccessShapes, CallsOwnSession, RowsOfUsers, ChainsWithinLogins, Kept, Rotating
<1> QED
  BY <1>1, <1>2, <1>3, <1>4, <1>5, <1>6, <1>7, RevokeKeepsAccessInv, IssueKeepsAccessInv, LogoutKeepsAccessInv
     DEF AccessNext

-----------------------------------------------------------------------------
\* The invariant holds in every state of the session handlers.
THEOREM AccessInvariance == AccessSpec => []AccessInv
<1>1. AccessInit => AccessInv
  BY InitAccessInv
<1>2. AccessInv /\ [AccessNext]_accessVars => AccessInv'
  BY NextKeepsAccessInv
<1> QED
  BY <1>1, <1>2, PTL DEF AccessSpec

\* The rows of the auth tables have their columns' types.
THEOREM AccessTypeCorrect == AccessSpec => []AccessTypeOK
<1>1. AccessInv => AccessTypeOK
  BY DEF AccessInv, AccessShapes, AccessTypeOK, RowStates
<1> QED
  BY <1>1, AccessInvariance, PTL

\* The refresh of auth.service.ts replaces a session and never adds one, for any
\* number of users, sessions and overlapping requests.
THEOREM RotationAddsNoSession == AccessSpec => []LiveWithinLogins
<1>1. AccessInv => LiveWithinLogins
  <2> SUFFICES ASSUME AccessInv, NEW u \in Users, ~crossed[u]
               PROVE  Cardinality(LiveSessions(u)) <= logins[u]
    BY DEF LiveWithinLogins
  <2>1. LiveSessions(u) \subseteq Kept(u)
    BY DEF LiveSessions, Kept
  <2>2. /\ Cardinality(LiveSessions(u)) <= Cardinality(Kept(u))
        /\ Cardinality(LiveSessions(u)) \in Nat
    BY <2>1, Counted, FS_Subset, FS_CardinalityType
  <2>3. Cardinality(Kept(u)) + Cardinality(Rotating(u)) <= logins[u]
    BY DEF AccessInv, ChainsWithinLogins
  <2> QED
    BY <2>2, <2>3, Counted DEF AccessInv, AccessShapes
<1> QED
  BY <1>1, AccessInvariance, PTL

-----------------------------------------------------------------------------
(***************************************************************************)
(* Proofs about Billing, for any number of subscriptions, customers,       *)
(* events and overlapping deliveries. BillingInv is the inductive          *)
(* invariant: an event in flight is one that Stripe sent; an event that is *)
(* not in the outbox any more reached the row, or its subscription is      *)
(* disordered; and a row that the last event reached has the status of     *)
(* Stripe.                                                                 *)
(***************************************************************************)
SubscriptionStatuses == SubStatuses \cup {"absent", "active", "past_due", "canceled"}
EventKinds == {"created", "updated", "deleted", "payment_failed"}
BillingSteps == {"idle", "find", "insert", "update"}
StripeEvents == [kind : EventKinds, sub : Subs, status : SubscriptionStatuses, no : Nat]

BillingShapes ==
  /\ atStripe \in [Subs -> [status : SubscriptionStatuses, sent : Nat]]
  /\ billingOutbox \subseteq StripeEvents
  /\ subscriptions \in [Customers -> [sub : Subs \cup {Null}, status : SubscriptionStatuses]]
  /\ deliveries \in [Deliveries -> [at : BillingSteps, event : StripeEvents \cup {Null}]]
  /\ \A c \in Deliveries :
       deliveries[c] = NoDelivery \/ (deliveries[c].at # "idle" /\ deliveries[c].event \in StripeEvents)
  /\ latest \in [Subs -> Nat]
  /\ disordered \in [Subs -> BOOLEAN]

\* An event that Stripe sent: only the first one is a creation, and the last one
\* leads to the status the subscription has, a creation excepted.
Genuine(e) ==
  /\ 1 <= e.no /\ e.no <= atStripe[e.sub].sent
  /\ e.kind = "created" <=> e.no = 1
  /\ e.no = atStripe[e.sub].sent /\ e.no # 1 => StatusOf(e) = atStripe[e.sub].status

EventsGenuine ==
  /\ \A e \in billingOutbox : Genuine(e)
  /\ \A c \in Deliveries : deliveries[c].at # "idle" => Genuine(deliveries[c].event)
  /\ \A c \in Deliveries : deliveries[c].at = "insert" => deliveries[c].event.kind = "created"
  /\ \A s \in Subs : atStripe[s].status = "absent" <=> atStripe[s].sent = 0

\* A row is of its customer, and the events that reached a subscription are why
\* there is one.
RowsReached ==
  /\ \A k \in Customers :
       \/ subscriptions[k] = NoRow
       \/ (subscriptions[k].sub \in Subs /\ Customer[subscriptions[k].sub] = k)
  /\ \A s \in Subs : latest[s] >= 1 <=> subscriptions[Customer[s]].sub = s
  /\ \A s \in Subs : latest[s] <= atStripe[s].sent

InOutbox(s, n) == \E e \in billingOutbox : e.sub = s /\ e.no = n

\* No event disappears before it has reached its row.
NothingLost ==
  \A s \in Subs : ~disordered[s] =>
    \A n \in 1..atStripe[s].sent : n <= latest[s] \/ InOutbox(s, n)

LatestInRow ==
  \A s \in Subs :
    ~disordered[s] /\ latest[s] > 1 /\ latest[s] = atStripe[s].sent
      => subscriptions[Customer[s]].status = atStripe[s].status

BillingInv ==
  /\ BillingShapes /\ EventsGenuine /\ RowsReached /\ NothingLost /\ LatestInRow
  /\ CreationHasRow

-----------------------------------------------------------------------------
\* The invariant holds before any subscription.
LEMMA InitBillingInv == BillingInit => BillingInv
<1> SUFFICES ASSUME BillingInit PROVE BillingInv
  OBVIOUS
<1> USE DEF BillingInit
<1>1. \A s \in Subs : Customer[s] \in Customers
  BY DEF Customers
<1>2. BillingShapes
  <2>1. /\ atStripe \in [Subs -> [status : SubscriptionStatuses, sent : Nat]]
        /\ billingOutbox \subseteq StripeEvents
        /\ latest \in [Subs -> Nat]
        /\ disordered \in [Subs -> BOOLEAN]
    BY DEF SubscriptionStatuses
  <2>2. subscriptions \in [Customers -> [sub : Subs \cup {Null}, status : SubscriptionStatuses]]
    BY DEF NoRow, SubscriptionStatuses
  <2>3. NoDelivery \in [at : BillingSteps, event : StripeEvents \cup {Null}]
    BY DEF NoDelivery, BillingSteps
  <2>4. /\ deliveries \in [Deliveries -> [at : BillingSteps, event : StripeEvents \cup {Null}]]
        /\ \A c \in Deliveries : deliveries[c] = NoDelivery
    BY <2>3
  <2> QED
    BY <2>1, <2>2, <2>4 DEF BillingShapes
<1>3. EventsGenuine
  BY DEF EventsGenuine, NoDelivery
<1>4. RowsReached
  BY <1>1, BillingAssumption DEF RowsReached, NoRow, BillingAssumption
<1>5. NothingLost /\ LatestInRow /\ CreationHasRow
  BY DEF NothingLost, LatestInRow, CreationHasRow
<1> QED
  BY <1>2, <1>3, <1>4, <1>5 DEF BillingInv

\* A handler that only moves on, or gives up, changes nothing.
LEMMA MoveKeepsBillingInv ==
  ASSUME BillingInv, NEW c \in Deliveries, NEW at \in BillingSteps,
         NEW event, BillingGoTo(c, at, event),
         at = "idle" => event = Null,
         at # "idle" => event \in StripeEvents /\ Genuine(event),
         at = "insert" => event.kind = "created"
  PROVE  BillingInv'
<1> USE DEF BillingInv
<1>1. /\ UNCHANGED <<atStripe, billingOutbox, subscriptions, latest, disordered>>
      /\ deliveries' = [deliveries EXCEPT ![c] = [at |-> at, event |-> event]]
  BY DEF BillingGoTo, billingHistory
<1>2. BillingShapes'
  <2>1. [at |-> at, event |-> event] \in [at : BillingSteps, event : StripeEvents \cup {Null}]
    OBVIOUS
  <2>2. deliveries' \in [Deliveries -> [at : BillingSteps, event : StripeEvents \cup {Null}]]
    BY <1>1, <2>1 DEF BillingShapes
  <2>3. \A d \in Deliveries :
          deliveries'[d] = IF d = c THEN [at |-> at, event |-> event] ELSE deliveries[d]
    BY <1>1 DEF BillingShapes
  <2>4. \A d \in Deliveries :
          \/ deliveries'[d] = NoDelivery
          \/ deliveries'[d].at # "idle" /\ deliveries'[d].event \in StripeEvents
    BY <2>3 DEF BillingShapes, NoDelivery
  <2> QED
    BY <1>1, <2>2, <2>4 DEF BillingShapes
<1>3. EventsGenuine'
  BY <1>1, <1>2 DEF EventsGenuine, Genuine, BillingShapes
<1>4. RowsReached' /\ NothingLost' /\ LatestInRow' /\ CreationHasRow'
  BY <1>1 DEF RowsReached, NothingLost, InOutbox, LatestInRow, CreationHasRow
<1> QED
  BY <1>2, <1>3, <1>4

\* Stripe sends an event with the next number.
LEMMA SendKeepsBillingInv ==
  ASSUME BillingInv, NEW s \in Subs, NEW kind \in EventKinds, NEW status \in SubscriptionStatuses,
         StripeEvent(s, kind, status),
         status # "absent",
         kind = "created" <=> atStripe[s].sent = 0,
         kind = "deleted" => status = "canceled",
         kind = "payment_failed" => status = "past_due"
  PROVE  BillingInv'
<1> USE DEF BillingInv
<1>1. PICK e :
        /\ e = [kind |-> kind, sub |-> s, status |-> status, no |-> atStripe[s].sent + 1]
        /\ UNCHANGED <<subscriptions, deliveries, latest, disordered>>
        /\ billingOutbox' = billingOutbox \cup {e}
        /\ atStripe' = [atStripe EXCEPT ![s] = [status |-> status, sent |-> @.sent + 1]]
  BY DEF StripeEvent, billingHistory
<1>2. BillingShapes'
  BY <1>1 DEF BillingShapes, StripeEvents
<1>3. /\ atStripe'[s].sent = atStripe[s].sent + 1 /\ atStripe'[s].status = status
      /\ \A r \in Subs \ {s} : atStripe'[r] = atStripe[r]
      /\ \A r \in Subs : atStripe[r].sent \in Nat /\ latest[r] \in Nat
  BY <1>1 DEF BillingShapes
<1>4. e \in StripeEvents /\ e.sub = s /\ e.no = atStripe[s].sent + 1 /\ e.kind = kind /\ StatusOf(e) = status
  BY <1>1, <1>3 DEF StripeEvents, StatusOf
<1>5. \A f \in StripeEvents : Genuine(f) => Genuine(f)'
  BY <1>3 DEF Genuine, StripeEvents
<1>6. Genuine(e)'
  BY <1>3, <1>4 DEF Genuine
<1>7. EventsGenuine'
  <2>1. \A c \in Deliveries : deliveries[c].at # "idle" => deliveries[c].event \in StripeEvents
    BY DEF BillingShapes, NoDelivery
  <2>2. (\A f \in billingOutbox : Genuine(f))'
    <3> SUFFICES ASSUME NEW f \in billingOutbox' PROVE Genuine(f)'
      OBVIOUS
    <3>1. CASE f = e
      BY <3>1, <1>6
    <3>2. CASE f \in billingOutbox
      BY <3>2, <1>5 DEF EventsGenuine, BillingShapes
    <3> QED
      BY <1>1, <3>1, <3>2
  <2>4. (\A c \in Deliveries : deliveries[c].at # "idle" => Genuine(deliveries[c].event))'
    <3> SUFFICES ASSUME NEW c \in Deliveries, deliveries'[c].at # "idle"
                 PROVE  Genuine(deliveries[c].event)'
      OBVIOUS
    <3>1. PICK f \in StripeEvents : f = deliveries[c].event /\ Genuine(f)
      BY <1>1, <2>1 DEF EventsGenuine
    <3>2. Genuine(f)' /\ f = deliveries'[c].event
      BY <1>1, <1>5, <3>1
    <3> QED
      BY <3>2 DEF Genuine
  <2>3. \A r \in Subs : atStripe'[r].status = "absent" <=> atStripe'[r].sent = 0
    BY <1>3 DEF EventsGenuine
  <2> QED
    BY <1>1, <2>2, <2>3, <2>4 DEF EventsGenuine
<1>8. RowsReached'
  BY <1>1, <1>3 DEF RowsReached
<1>9. NothingLost'
  BY <1>1, <1>3, <1>4 DEF NothingLost, InOutbox
<1>10. LatestInRow'
  BY <1>1, <1>3 DEF LatestInRow, RowsReached
<1>11. CreationHasRow'
  BY <1>1, <1>3, <1>4 DEF CreationHasRow
<1> QED
  BY <1>2, <1>7, <1>8, <1>9, <1>10, <1>11

\* An acknowledged event leaves the outbox alone; every other one is kept.
LEMMA AcknowledgeKeeps ==
  ASSUME BillingInv, NEW c \in Deliveries, deliveries[c].at # "idle", Acknowledge(c),
         UNCHANGED atStripe
  PROVE  /\ billingOutbox' \subseteq StripeEvents
         /\ deliveries' \in [Deliveries -> [at : BillingSteps, event : StripeEvents \cup {Null}]]
         /\ \A d \in Deliveries :
              \/ deliveries'[d] = NoDelivery
              \/ deliveries'[d].at # "idle" /\ deliveries'[d].event \in StripeEvents
         /\ EventsGenuine'
         /\ deliveries[c].event \in StripeEvents /\ Genuine(deliveries[c].event)
         /\ \A s \in Subs, n \in Nat :
              InOutbox(s, n) =>
                InOutbox(s, n)' \/ (s = deliveries[c].event.sub /\ n = deliveries[c].event.no)
<1> USE DEF BillingInv
<1>1. deliveries[c].event \in StripeEvents /\ Genuine(deliveries[c].event)
  BY DEF BillingShapes, EventsGenuine, NoDelivery
<1>2. /\ billingOutbox' = billingOutbox \ {deliveries[c].event}
      /\ \A d \in Deliveries : deliveries'[d] = IF d = c THEN NoDelivery ELSE deliveries[d]
      /\ deliveries' = [deliveries EXCEPT ![c] = NoDelivery]
  BY DEF Acknowledge, BillingShapes
<1>3. NoDelivery \in [at : BillingSteps, event : StripeEvents \cup {Null}] /\ NoDelivery.at = "idle"
  BY DEF NoDelivery, BillingSteps
<1>4. EventsGenuine'
  BY <1>2, <1>3 DEF EventsGenuine, Genuine
<1>5. \A s \in Subs, n \in Nat :
        InOutbox(s, n) =>
          InOutbox(s, n)' \/ (s = deliveries[c].event.sub /\ n = deliveries[c].event.no)
  BY <1>2 DEF InOutbox
<1> QED
  BY <1>1, <1>2, <1>3, <1>4, <1>5 DEF BillingShapes

\* An event of an unknown subscription, and a creation for a customer with a
\* row, are acknowledged without effect.
LEMMA DropKeepsBillingInv ==
  ASSUME BillingInv, NEW c \in Deliveries, DropUnknown(c) \/ SkipCreated(c)
  PROVE  BillingInv'
<1> USE DEF BillingInv
<1>1. /\ deliveries[c].at = "find" /\ Acknowledge(c)
      /\ UNCHANGED <<atStripe, subscriptions, latest>>
  BY DEF DropUnknown, SkipCreated
<1>2. PICK e \in StripeEvents : e = deliveries[c].event /\ Genuine(e)
  BY <1>1, AcknowledgeKeeps
<1>3. \/ /\ DropUnknown(c) /\ e.kind # "created"
         /\ disordered' = [disordered EXCEPT ![e.sub] = TRUE]
      \/ /\ SkipCreated(c) /\ e.kind = "created"
         /\ subscriptions[Customer[e.sub]] # NoRow
         /\ disordered' = [disordered EXCEPT ![e.sub] =
              @ \/ subscriptions[Customer[e.sub]].sub # e.sub]
  BY <1>2 DEF DropUnknown, SkipCreated
<1>4. e.sub \in Subs /\ e.no \in Nat
  BY DEF StripeEvents
<1>5. BillingShapes' /\ EventsGenuine'
  BY <1>1, <1>3, <1>4, AcknowledgeKeeps DEF BillingShapes
<1>6. RowsReached'
  BY <1>1 DEF RowsReached
<1>7. \A s \in Subs : ~disordered'[s] => ~disordered[s]
  BY <1>3, <1>4 DEF BillingShapes
<1>8. LatestInRow'
  BY <1>1, <1>7 DEF LatestInRow
<1>9. ~disordered'[e.sub] => e.no <= latest[e.sub]
  <2> SUFFICES ASSUME ~disordered'[e.sub] PROVE e.no <= latest[e.sub]
    OBVIOUS
  <2>1. disordered \in [Subs -> BOOLEAN]
    BY DEF BillingShapes
  <2>2. CASE e.kind # "created"
    BY <1>3, <1>4, <2>1, <2>2
  <2>3. CASE e.kind = "created"
    <3>1. e.no = 1
      BY <1>2, <2>3 DEF Genuine
    <3>2. subscriptions[Customer[e.sub]].sub = e.sub
      BY <1>3, <1>4, <2>1, <2>3
    <3>3. latest[e.sub] >= 1
      BY <1>4, <3>2 DEF RowsReached
    <3> QED
      BY <3>1, <3>3
  <2> QED
    BY <2>2, <2>3
<1>10. NothingLost'
  <2> SUFFICES ASSUME NEW s \in Subs, ~disordered'[s], NEW n \in 1..atStripe[s].sent
               PROVE  n <= latest[s] \/ InOutbox(s, n)'
    BY <1>1 DEF NothingLost
  <2>1. n \in Nat
    OBVIOUS
  <2> QED
    BY <1>1, <1>2, <1>7, <1>9, <2>1, AcknowledgeKeeps DEF NothingLost
<1>11. CreationHasRow'
  BY <1>1, <1>2, <1>3 DEF CreationHasRow, Acknowledge
<1> QED
  BY <1>5, <1>6, <1>8, <1>10, <1>11

\* An event that reaches the row of its subscription.
LEMMA ReachKeepsBillingInv ==
  ASSUME BillingInv, NEW c \in Deliveries, CreateSubscription(c) \/ UpdateSubscription(c)
  PROVE  BillingInv'
<1> USE DEF BillingInv
<1>1. deliveries[c].at # "idle" /\ Acknowledge(c) /\ UNCHANGED atStripe
  BY DEF CreateSubscription, UpdateSubscription
<1>2. PICK e \in StripeEvents : e = deliveries[c].event /\ Genuine(e)
  BY <1>1, AcknowledgeKeeps
<1>3. e.sub \in Subs /\ e.no \in Nat /\ StatusOf(e) \in SubscriptionStatuses /\ Customer[e.sub] \in Customers
  BY DEF StripeEvents, StatusOf, SubscriptionStatuses, Customers
<1>4. /\ \A s \in Subs : latest'[s] = IF s = e.sub /\ e.no > latest[s] THEN e.no ELSE latest[s]
      /\ \A s \in Subs : disordered'[s] = (disordered[s] \/ (s = e.sub /\ e.no < latest[s]))
      /\ latest' \in [Subs -> Nat] /\ disordered' \in [Subs -> BOOLEAN]
      /\ \A s \in Subs : latest[s] \in Nat /\ atStripe[s].sent \in Nat
  BY <1>2, <1>3 DEF CreateSubscription, UpdateSubscription, Reached, BillingShapes
<1>5. \A k \in Customers, s \in Subs : subscriptions[k].sub = s => k = Customer[s]
  BY BillingAssumption DEF RowsReached, NoRow, BillingAssumption
<1>6. PICK status \in SubscriptionStatuses :
        /\ status = StatusOf(e) \/ e.no = 1
        /\ subscriptions' = [subscriptions EXCEPT ![Customer[e.sub]] = [sub |-> e.sub, status |-> status]]
        /\ subscriptions[Customer[e.sub]] = NoRow \/ subscriptions[Customer[e.sub]].sub = e.sub
  <2>1. CASE CreateSubscription(c)
    <3>1. e.no = 1
      BY <1>2, <2>1 DEF CreateSubscription, EventsGenuine, Genuine
    <3> QED
      BY <1>2, <2>1, <3>1 DEF CreateSubscription, SubscriptionStatuses
  <2>2. CASE UpdateSubscription(c)
    <3>1. PICK k \in Customers : subscriptions[k].sub = e.sub
              /\ subscriptions' = [subscriptions EXCEPT ![k].status = StatusOf(e)]
      BY <1>2, <2>2 DEF UpdateSubscription, RowOf
    <3>2. k = Customer[e.sub]
      BY <1>3, <1>5, <3>1
    <3>3. [subscriptions[k] EXCEPT !.status = StatusOf(e)] = [sub |-> e.sub, status |-> StatusOf(e)]
      BY <1>3, <3>1 DEF BillingShapes
    <3> QED
      BY <1>3, <3>1, <3>2, <3>3 DEF BillingShapes
  <2> QED
    BY <2>1, <2>2
<1>7. /\ \A k \in Customers : subscriptions'[k] =
           IF k = Customer[e.sub] THEN [sub |-> e.sub, status |-> status] ELSE subscriptions[k]
      /\ subscriptions' \in [Customers -> [sub : Subs \cup {Null}, status : SubscriptionStatuses]]
  BY <1>3, <1>6 DEF BillingShapes
<1>8. BillingShapes' /\ EventsGenuine'
  BY <1>1, <1>4, <1>7, AcknowledgeKeeps DEF BillingShapes
<1>9. /\ \A s \in Subs : Customer[s] \in Customers
      /\ \A s \in Subs \ {e.sub} : subscriptions'[Customer[s]].sub = s <=> subscriptions[Customer[s]].sub = s
      /\ subscriptions'[Customer[e.sub]].sub = e.sub
  BY <1>3, <1>6, <1>7, BillingAssumption DEF Customers, NoRow, BillingAssumption
<1>10. RowsReached'
  BY <1>1, <1>2, <1>3, <1>4, <1>7, <1>9 DEF RowsReached, Genuine
<1>11. NothingLost'
  <2> SUFFICES ASSUME NEW s \in Subs, ~disordered'[s], NEW n \in 1..atStripe[s].sent
               PROVE  n <= latest'[s] \/ InOutbox(s, n)'
    BY <1>1 DEF NothingLost
  <2>1. n \in Nat
    OBVIOUS
  <2> QED
    BY <1>1, <1>2, <1>3, <1>4, <2>1, AcknowledgeKeeps DEF NothingLost
<1>12. LatestInRow'
  <2> SUFFICES ASSUME NEW s \in Subs, ~disordered'[s], latest'[s] > 1, latest'[s] = atStripe[s].sent
               PROVE  subscriptions'[Customer[s]].status = atStripe[s].status
    BY <1>1 DEF LatestInRow
  <2>1. CASE s = e.sub
    <3>1. latest'[s] = e.no
      BY <1>3, <1>4, <2>1
    <3>2. status = StatusOf(e)
      BY <1>3, <1>6, <3>1
    <3>3. StatusOf(e) = atStripe[s].status
      BY <1>2, <1>3, <2>1, <3>1 DEF Genuine
    <3>4. subscriptions'[Customer[e.sub]] = [sub |-> e.sub, status |-> status]
      BY <1>3, <1>7
    <3> QED
      BY <2>1, <3>2, <3>3, <3>4
  <2>2. CASE s # e.sub
    <3>1. subscriptions[Customer[s]].sub = s
      BY <1>4, <2>2 DEF RowsReached
    <3>2. Customer[s] # Customer[e.sub]
      BY <1>6, <2>2, <3>1, BillingAssumption DEF NoRow, BillingAssumption
    <3> QED
      BY <1>4, <1>7, <1>9, <2>2, <3>2 DEF LatestInRow
  <2> QED
    BY <2>1, <2>2
<1>13. CreationHasRow'
  BY <1>1, <1>2, <1>3, <1>7, <1>9, BillingAssumption
     DEF CreationHasRow, Acknowledge, NoRow, BillingAssumption
<1> QED
  BY <1>8, <1>10, <1>11, <1>12, <1>13

\* Every step preserves the invariant.
LEMMA NextKeepsBillingInv == BillingInv /\ [BillingNext]_billingVars => BillingInv'
<1> SUFFICES ASSUME BillingInv, [BillingNext]_billingVars PROVE BillingInv'
  OBVIOUS
<1>1. ASSUME NEW s \in Subs,
             StripeCreates(s) \/ StripeUpdates(s) \/ StripeCancels(s) \/ InvoiceFails(s)
      PROVE  BillingInv'
  <2>1. /\ atStripe[s].status = "absent" <=> atStripe[s].sent = 0
        /\ \A status \in SubStatuses : status \in SubscriptionStatuses /\ status # "absent"
    BY BillingAssumption DEF BillingInv, EventsGenuine, SubscriptionStatuses, BillingAssumption
  <2>2. {"created", "updated", "deleted", "payment_failed"} \subseteq EventKinds
        /\ {"canceled", "past_due"} \subseteq SubscriptionStatuses
    BY DEF EventKinds, SubscriptionStatuses
  <2>3. CASE StripeCreates(s)
    BY <2>1, <2>2, <2>3, SendKeepsBillingInv DEF StripeCreates
  <2>4. CASE StripeUpdates(s)
    BY <2>1, <2>2, <2>4, SendKeepsBillingInv DEF StripeUpdates, Started
  <2>5. CASE StripeCancels(s)
    BY <2>1, <2>2, <2>5, SendKeepsBillingInv DEF StripeCancels, Started
  <2>6. CASE InvoiceFails(s)
    BY <2>1, <2>2, <2>6, SendKeepsBillingInv DEF InvoiceFails, Started
  <2> QED
    BY <1>1, <2>3, <2>4, <2>5, <2>6
<1>2. ASSUME NEW c \in Deliveries, NEW event \in billingOutbox, Deliver(c, event)
      PROVE  BillingInv'
  <2>1. BillingGoTo(c, "find", event) /\ event \in StripeEvents /\ Genuine(event)
    BY <1>2 DEF Deliver, BillingInv, EventsGenuine, BillingShapes
  <2> QED
    BY <2>1, MoveKeepsBillingInv DEF BillingSteps
<1>3. ASSUME NEW c \in Deliveries,
             FindCustomer(c) \/ FindSubscription(c) \/ FailDelivery(c)
      PROVE  BillingInv'
  <2>1. deliveries[c].at # "idle" =>
          deliveries[c].event \in StripeEvents /\ Genuine(deliveries[c].event)
    BY DEF BillingInv, EventsGenuine, BillingShapes, NoDelivery
  <2>2. CASE FindCustomer(c)
    BY <2>1, <2>2, MoveKeepsBillingInv DEF FindCustomer, BillingSteps
  <2>3. CASE FindSubscription(c)
    BY <2>1, <2>3, MoveKeepsBillingInv DEF FindSubscription, BillingSteps
  <2>4. CASE FailDelivery(c)
    BY <2>4, MoveKeepsBillingInv DEF FailDelivery, BillingSteps
  <2> QED
    BY <1>3, <2>2, <2>3, <2>4
<1>4. CASE UNCHANGED billingVars
  BY <1>4 DEF BillingInv, BillingShapes, EventsGenuine, Genuine, RowsReached, NothingLost, InOutbox,
     LatestInRow, CreationHasRow, billingVars
<1> QED
  BY <1>1, <1>2, <1>3, <1>4, DropKeepsBillingInv, ReachKeepsBillingInv DEF BillingNext

-----------------------------------------------------------------------------
\* The invariant holds in every state of the billing webhook: whatever Stripe
\* sends, in whatever order, and however often a delivery fails.
THEOREM BillingInvariance == BillingSpec => []BillingInv
<1>1. BillingInit => BillingInv
  BY InitBillingInv
<1>2. BillingInv /\ [BillingNext]_billingVars => BillingInv'
  BY NextKeepsBillingInv
<1> QED
  BY <1>1, <1>2, PTL DEF BillingSpec

\* What BillingInv leaves out of the types: a row, and an event, has a status that
\* Stripe reports, and there are no more events than the bound.
BillingTyped ==
  /\ \A s \in Subs : atStripe[s].sent <= MaxEvents
  /\ \A event \in billingOutbox : event.status # "absent"
  /\ \A c \in Deliveries : deliveries[c].at # "idle" => deliveries[c].event.status # "absent"
  /\ \A k \in Customers : subscriptions[k] # NoRow => subscriptions[k].status # "absent"

\* It is preserved too.
LEMMA NextKeepsBillingTyped ==
  ASSUME BillingInv, BillingTyped, [BillingNext]_billingVars
  PROVE  BillingTyped'
<1> USE DEF BillingTyped
<1>1. ASSUME NEW s \in Subs, NEW kind, NEW status, status # "absent", StripeEvent(s, kind, status)
      PROVE  BillingTyped'
  <2>1. \A r \in Subs : atStripe'[r].sent =
          IF r = s THEN atStripe[s].sent + 1 ELSE atStripe[r].sent
    BY <1>1 DEF StripeEvent, BillingInv, BillingShapes
  <2>2. atStripe[s].sent + 1 <= MaxEvents
    BY <1>1, BillingAssumption DEF StripeEvent, BillingInv, BillingShapes, BillingAssumption
  <2>3. \A event \in billingOutbox' : event \in billingOutbox \/ event.status = status
    BY <1>1 DEF StripeEvent
  <2> QED
    BY <1>1, <2>1, <2>2, <2>3 DEF StripeEvent
<1>2. ASSUME NEW s \in Subs,
             StripeCreates(s) \/ StripeUpdates(s) \/ StripeCancels(s) \/ InvoiceFails(s)
      PROVE  BillingTyped'
  <2>1. \A status \in SubStatuses : status # "absent"
    BY BillingAssumption DEF BillingAssumption
  <2> QED
    BY <1>1, <1>2, <2>1 DEF StripeCreates, StripeUpdates, StripeCancels, InvoiceFails
<1>3. ASSUME NEW c \in Deliveries, NEW at, NEW event, BillingGoTo(c, at, event),
             at = "idle" \/ event.status # "absent"
      PROVE  BillingTyped'
  <2>1. \A d \in Deliveries :
          deliveries'[d] = IF d = c THEN [at |-> at, event |-> event] ELSE deliveries[d]
    BY <1>3 DEF BillingGoTo, BillingInv, BillingShapes
  <2>2. \A d \in Deliveries : deliveries'[d].at # "idle" => deliveries'[d].event.status # "absent"
    BY <1>3, <2>1
  <2> QED
    BY <1>3, <2>2 DEF BillingGoTo
<1>4. ASSUME NEW c \in Deliveries, NEW event \in billingOutbox, Deliver(c, event)
      PROVE  BillingTyped'
  BY <1>3, <1>4 DEF Deliver
<1>5. ASSUME NEW c \in Deliveries,
             FindCustomer(c) \/ FindSubscription(c) \/ FailDelivery(c)
      PROVE  BillingTyped'
  <2>1. CASE FindCustomer(c)
    BY <1>3, <2>1 DEF FindCustomer
  <2>2. CASE FindSubscription(c)
    BY <1>3, <2>2 DEF FindSubscription
  <2>3. CASE FailDelivery(c)
    BY <1>3, <2>3 DEF FailDelivery
  <2> QED
    BY <1>5, <2>1, <2>2, <2>3
<1>6. ASSUME NEW c \in Deliveries, Acknowledge(c), UNCHANGED atStripe,
             \A k \in Customers : subscriptions'[k] = subscriptions[k]
                                    \/ subscriptions'[k].status # "absent"
      PROVE  BillingTyped'
  <2>1. \A d \in Deliveries : deliveries'[d] = IF d = c THEN NoDelivery ELSE deliveries[d]
    BY <1>6 DEF Acknowledge, BillingInv, BillingShapes
  <2>2. \A d \in Deliveries : deliveries'[d].at # "idle" => deliveries'[d].event.status # "absent"
    BY <2>1 DEF NoDelivery
  <2>3. billingOutbox' \subseteq billingOutbox
    BY <1>6 DEF Acknowledge
  <2>4. \A k \in Customers : subscriptions'[k] # NoRow => subscriptions'[k].status # "absent"
    BY <1>6
  <2> QED
    BY <1>6, <2>2, <2>3, <2>4
<1>7. ASSUME NEW c \in Deliveries, SkipCreated(c) \/ DropUnknown(c) PROVE BillingTyped'
  BY <1>6, <1>7 DEF SkipCreated, DropUnknown
<1>8. ASSUME NEW c \in Deliveries, CreateSubscription(c) PROVE BillingTyped'
  <2>1. PICK x, row : row.status = "active" /\ subscriptions' = [subscriptions EXCEPT ![x] = row]
    BY <1>8 DEF CreateSubscription
  <2>2. \A k \in Customers : subscriptions'[k] = subscriptions[k]
                               \/ subscriptions'[k].status # "absent"
    BY <2>1 DEF BillingInv, BillingShapes
  <2> QED
    BY <1>6, <1>8, <2>2 DEF CreateSubscription
<1>9. ASSUME NEW c \in Deliveries, UpdateSubscription(c) PROVE BillingTyped'
  <2>1. PICK status : status = StatusOf(deliveries[c].event)
    OBVIOUS
  <2>2. status # "absent"
    BY <1>9, <2>1 DEF UpdateSubscription, StatusOf
  <2>3. PICK x \in Customers : subscriptions' = [subscriptions EXCEPT ![x].status = status]
    BY <1>9, <2>1 DEF UpdateSubscription, RowOf
  <2>4. \A k \in Customers : subscriptions'[k] = subscriptions[k]
                               \/ subscriptions'[k].status # "absent"
    BY <2>2, <2>3 DEF BillingInv, BillingShapes
  <2> QED
    BY <1>6, <1>9, <2>4 DEF UpdateSubscription
<1>10. CASE UNCHANGED billingVars
  BY <1>10 DEF billingVars
<1> QED
  BY <1>2, <1>4, <1>5, <1>7, <1>8, <1>9, <1>10 DEF BillingNext

\* A customer's row is for one of the customer's subscriptions, and has a status
\* that Stripe reports.
THEOREM BillingTypeCorrect == BillingSpec => []BillingTypeOK
<1>1. BillingInit => BillingTyped
  BY BillingAssumption DEF BillingInit, BillingTyped, NoDelivery, BillingAssumption
<1>2. BillingInv /\ BillingTyped /\ [BillingNext]_billingVars => BillingTyped'
  BY NextKeepsBillingTyped
<1>3. BillingInv /\ BillingTyped => BillingTypeOK
  <2> SUFFICES ASSUME BillingInv, BillingTyped PROVE BillingTypeOK
    OBVIOUS
  <2>1. ASSUME NEW k \in Customers, subscriptions[k] # NoRow
        PROVE  /\ subscriptions[k].sub \in Subs /\ Customer[subscriptions[k].sub] = k
               /\ subscriptions[k].status \in SubStatuses \cup {"active", "past_due", "canceled"}
    BY <2>1 DEF BillingInv, BillingTyped, BillingShapes, RowsReached, SubscriptionStatuses
  <2>2. ASSUME NEW s \in Subs PROVE latest[s] \in 0..MaxEvents /\ disordered[s] \in BOOLEAN
    <3>1. latest[s] \in Nat /\ atStripe[s].sent \in Nat /\ disordered[s] \in BOOLEAN
      BY DEF BillingInv, BillingShapes
    <3>2. latest[s] <= atStripe[s].sent /\ atStripe[s].sent <= MaxEvents /\ MaxEvents \in Nat
      BY BillingAssumption DEF BillingInv, RowsReached, BillingTyped, BillingAssumption
    <3>3. latest[s] \in 0..MaxEvents
      BY <3>1, <3>2
    <3> QED
      BY <3>1, <3>3
  <2> QED
    BY <2>1, <2>2 DEF BillingTypeOK
<1> QED
  BY <1>1, <1>2, <1>3, BillingInvariance, PTL DEF BillingSpec

\* A creation is only acknowledged (billing.service.ts handleWebhook returns)
\* when its customer has a row in subscriptions.
THEOREM CreationLeavesRow == BillingSpec => []CreationHasRow
<1>1. BillingInv => CreationHasRow
  BY DEF BillingInv
<1> QED
  BY <1>1, BillingInvariance, PTL

\* Rows that saw every event in order agree with Stripe once the outbox is
\* empty: the update of billing.service.ts is the only writer of the status.
THEOREM RowsInSync == BillingSpec => []InSyncInOrder
<1>1. BillingInv => InSyncInOrder
  <2> SUFFICES ASSUME BillingInv, NEW s \in Subs, atStripe[s].sent > 1, ~Pending(s), ~disordered[s]
               PROVE  subscriptions[Customer[s]] = [sub |-> s, status |-> atStripe[s].status]
    BY DEF InSyncInOrder
  <2>1. ~InOutbox(s, atStripe[s].sent)
    BY DEF InOutbox, Pending
  <2>2. atStripe[s].sent \in Nat /\ latest[s] \in Nat /\ Customer[s] \in Customers
    BY DEF BillingInv, BillingShapes, Customers
  <2>3. latest[s] = atStripe[s].sent
    <3>1. atStripe[s].sent \in 1..atStripe[s].sent
      BY <2>2
    <3>2. latest[s] <= atStripe[s].sent
      BY DEF BillingInv, RowsReached
    <3> QED
      BY <2>1, <2>2, <3>1, <3>2 DEF BillingInv, NothingLost
  <2>4. /\ subscriptions[Customer[s]].sub = s
        /\ subscriptions[Customer[s]].status = atStripe[s].status
    BY <2>2, <2>3 DEF BillingInv, RowsReached, LatestInRow
  <2> QED
    BY <2>2, <2>4 DEF BillingInv, BillingShapes
<1> QED
  BY <1>1, BillingInvariance, PTL

-----------------------------------------------------------------------------
(***************************************************************************)
(* Proofs about Realtime, for any number of screens, accounts, tables,     *)
(* orders and handlers. RealtimeInv is the inductive invariant: the rooms  *)
(* a socket is in are those of its account, and what a screen shows is     *)
(* current unless an emission is on its way or the subject is behind.      *)
(***************************************************************************)
\* A screen without a socket shows nothing, one with a socket is in the rooms
\* of its account.
SocketsInOrder ==
  \A s \in Screens :
    \/ screens[s] = NoSocket /\ \A x \in Subjects : knows[s][x] = Null
    \/ \E account \in Accounts :
         screens[s] = [account |-> account, rooms |-> joinRooms(account)]

ScreenShapes ==
  /\ shown = [x \in Subjects |-> shown[x]]
  /\ screens = [s \in Screens |-> screens[s]]
  /\ knows = [s \in Screens |-> [x \in Subjects |-> knows[s][x]]]
  /\ emitters = [c \in Emitters |-> emitters[c]]
  /\ \A c \in Emitters : emitters[c] # NothingToEmit => emitters[c].subject \in Subjects

\* Subject x is written and not yet emitted.
OnItsWay(x) == \E c \in Emitters : emitters[c] # NothingToEmit /\ emitters[c].subject = x

CurrentUnlessOnItsWay == \A x \in Subjects \ behindTimes : ~OnItsWay(x) => UpToDate(x)

RealtimeInv == ScreenShapes /\ SocketsInOrder /\ CurrentUnlessOnItsWay /\ ScreensOnlyOwn

\* The rooms of a subject are the rooms of those who may read it: an account is
\* in one of them if and only if it may read the subject and joins a room.
LEMMA RoomsMatchReaders ==
  ASSUME NEW account \in Accounts, NEW x \in Subjects
  PROVE  joinRooms(account) \cap RoomsFor(x) # {}
           <=> joinRooms(account) # {} /\ MayRead(account, x)
<1>1. CASE account.role \in STAFF_ROLES
  <2>1. joinRooms(account) = {staffRoom(account.restaurantId)}
    BY <1>1 DEF joinRooms
  <2>2. account.role # "CUSTOMER"
    BY <1>1 DEF STAFF_ROLES
  <2>3. staffRoom(account.restaurantId) \in RoomsFor(x)
          <=> account.restaurantId = RestaurantOf[x.id]
    BY DEF RoomsFor, staffRoom, customerRoom
  <2> QED
    BY <1>1, <2>1, <2>2, <2>3 DEF MayRead
<1>2. CASE account.role \notin STAFF_ROLES /\ account.role = "CUSTOMER"
  <2>1. joinRooms(account) = {customerRoom(account.userId)}
    BY <1>2 DEF joinRooms
  <2>2. customerRoom(account.userId) \in RoomsFor(x)
          <=> \E o \in LiveOrders : x.id = o /\ CustomerOf[o] # Null /\ CustomerOf[o] = account.userId
    BY DEF RoomsFor, staffRoom, customerRoom
  <2>3. (\E o \in LiveOrders : x.id = o) <=> x \in OrderSubjects
    BY RealtimeAssumption DEF RealtimeAssumption, Subjects, OrderSubjects, TableSubject,
       StatusSubject, TotalsSubject
  <2>4. account.userId # Null
    BY RealtimeAssumption DEF RealtimeAssumption
  <2>5. ASSUME x.id \in LiveOrders, CustomerOf[x.id] = account.userId
        PROVE  RestaurantOf[x.id] = account.restaurantId
    BY <2>5, RealtimeAssumption DEF RealtimeAssumption
  <2>6. customerRoom(account.userId) \in RoomsFor(x) <=> MayRead(account, x)
    BY <1>2, <2>2, <2>3, <2>4, <2>5 DEF MayRead
  <2> QED
    BY <2>1, <2>6
<1>3. CASE account.role \notin STAFF_ROLES /\ account.role # "CUSTOMER"
  BY <1>3 DEF joinRooms
<1> QED
  BY <1>1, <1>2, <1>3

-----------------------------------------------------------------------------
\* Nothing is shown before a socket joins, and nothing is on its way.
LEMMA InitRealtimeInv == RealtimeInit => RealtimeInv
BY DEF RealtimeInit, RealtimeInv, ScreenShapes, SocketsInOrder, CurrentUnlessOnItsWay, ScreensOnlyOwn,
   Unknown, UpToDate

\* A screen that joins loads what it may read, and nothing else.
LEMMA ConnectKeepsRealtimeInv ==
  ASSUME RealtimeInv, NEW s \in Screens, NEW account \in Accounts, handleConnection(s, account)
  PROVE  RealtimeInv'
<1> USE DEF RealtimeInv, handleConnection
<1>1. ScreenShapes'
  BY DEF ScreenShapes
<1>2. /\ \A z \in Screens \ {s} : screens'[z] = screens[z] /\ knows'[z] = knows[z]
      /\ screens'[s] = [account |-> account, rooms |-> joinRooms(account)]
      /\ \A x \in Subjects : knows'[s][x] =
           IF joinRooms(account) # {} /\ MayRead(account, x) THEN shown[x] ELSE Null
  BY DEF ScreenShapes
<1>3. screens'[s] # NoSocket /\ screens'[s].account = account
  BY <1>2, RealtimeAssumption DEF RealtimeAssumption, NoSocket
<1>4. SocketsInOrder'
  BY <1>2 DEF SocketsInOrder
<1>5. CurrentUnlessOnItsWay'
  <2> SUFFICES ASSUME NEW x \in Subjects \ behindTimes, ~OnItsWay(x)
               PROVE  UpToDate(x)'
    BY DEF CurrentUnlessOnItsWay, OnItsWay
  <2> SUFFICES ASSUME NEW z \in Screens, screens'[z] # NoSocket,
                      joinRooms(screens'[z].account) # {}, MayRead(screens'[z].account, x)
               PROVE  knows'[z][x] = shown[x]
    BY DEF UpToDate
  <2>1. CASE z = s
    BY <2>1, <1>2, <1>3
  <2>2. CASE z # s
    BY <2>2, <1>2 DEF CurrentUnlessOnItsWay, UpToDate
  <2> QED
    BY <2>1, <2>2
<1>6. ScreensOnlyOwn'
  BY <1>2, <1>3 DEF ScreensOnlyOwn
<1> QED
  BY <1>1, <1>4, <1>5, <1>6

\* A socket that is gone shows nothing any more.
LEMMA DisconnectKeepsRealtimeInv ==
  ASSUME RealtimeInv, NEW s \in Screens, Disconnect(s)
  PROVE  RealtimeInv'
<1> USE DEF RealtimeInv, Disconnect
<1>1. ScreenShapes'
  BY DEF ScreenShapes, Unknown
<1>2. /\ \A z \in Screens \ {s} : screens'[z] = screens[z] /\ knows'[z] = knows[z]
      /\ screens'[s] = NoSocket
      /\ \A x \in Subjects : knows'[s][x] = Null
  BY DEF ScreenShapes, Unknown
<1>3. SocketsInOrder'
  BY <1>2 DEF SocketsInOrder
<1>4. CurrentUnlessOnItsWay'
  BY <1>2, SMTT(40) DEF CurrentUnlessOnItsWay, OnItsWay, UpToDate
<1>5. ScreensOnlyOwn'
  BY <1>2 DEF ScreensOnlyOwn
<1> QED
  BY <1>1, <1>3, <1>4, <1>5

\* What a handler writes is on its way until it is emitted.
LEMMA WriteKeepsRealtimeInv ==
  ASSUME RealtimeInv, NEW c \in Emitters, NEW x \in Subjects, NEW value, WriteAndEmit(c, x, value)
  PROVE  RealtimeInv'
<1> USE DEF RealtimeInv, WriteAndEmit
<1>1. ScreenShapes'
  BY DEF ScreenShapes
<1>2. /\ \A y \in Subjects \ {x} : shown'[y] = shown[y]
      /\ \A d \in Emitters \ {c} : emitters'[d] = emitters[d]
      /\ emitters'[c] # NothingToEmit /\ emitters'[c].subject = x
  BY RealtimeAssumption DEF ScreenShapes, NothingToEmit, RealtimeAssumption
<1>3. \A y \in Subjects : OnItsWay(y)' <=> y = x \/ OnItsWay(y)
  BY <1>2 DEF OnItsWay
<1>4. CurrentUnlessOnItsWay'
  BY <1>2, <1>3 DEF CurrentUnlessOnItsWay, UpToDate
<1>5. SocketsInOrder' /\ ScreensOnlyOwn'
  BY DEF SocketsInOrder, ScreensOnlyOwn
<1> QED
  BY <1>1, <1>4, <1>5

\* A status that is written without an event leaves its subject behind.
LEMMA ConfirmKeepsRealtimeInv ==
  ASSUME RealtimeInv, NEW o \in LiveOrders, ConfirmWithoutEvent(o)
  PROVE  RealtimeInv'
<1> DEFINE x == StatusSubject(o)
<1> USE DEF RealtimeInv
<1>1. x \in Subjects
  BY DEF Subjects, OrderSubjects
<1>2. PICK next : shown' = [shown EXCEPT ![x] = next]
  BY DEF ConfirmWithoutEvent
<1>3. behindTimes' = behindTimes \cup {x} /\ UNCHANGED <<screens, knows, emitters>>
  BY DEF ConfirmWithoutEvent
<1> HIDE DEF x
<1>4. ScreenShapes'
  BY <1>1, <1>2, <1>3 DEF ScreenShapes
<1>5. \A y \in Subjects \ {x} : shown'[y] = shown[y]
  BY <1>1, <1>2 DEF ScreenShapes
<1>6. CurrentUnlessOnItsWay'
  BY <1>3, <1>5 DEF CurrentUnlessOnItsWay, UpToDate, OnItsWay
<1>7. SocketsInOrder' /\ ScreensOnlyOwn'
  BY <1>3 DEF SocketsInOrder, ScreensOnlyOwn
<1> QED
  BY <1>4, <1>6, <1>7

\* An emission tells all who may read the subject and no one else.
LEMMA EmitKeepsRealtimeInv ==
  ASSUME RealtimeInv, NEW c \in Emitters, Emit(c)
  PROVE  RealtimeInv'
<1> USE DEF RealtimeInv
<1>1. PICK x, value : x \in Subjects /\ x = emitters[c].subject /\ value = emitters[c].value
  BY DEF Emit, ScreenShapes
<1>2. ScreenShapes'
  BY DEF Emit, ScreenShapes
<1>3. \A s \in Screens, y \in Subjects :
        knows'[s][y] = IF y = x /\ screens[s] # NoSocket /\ screens[s].rooms \cap RoomsFor(x) # {}
                       THEN value ELSE knows[s][y]
  BY <1>1 DEF Emit, ScreenShapes
<1>4. ASSUME NEW s \in Screens, screens[s] # NoSocket
      PROVE  /\ screens[s].account \in Accounts
             /\ screens[s].rooms = joinRooms(screens[s].account)
  <2>1. PICK account \in Accounts :
          screens[s] = [account |-> account, rooms |-> joinRooms(account)]
    BY <1>4 DEF SocketsInOrder
  <2>2. screens[s].account = account /\ screens[s].rooms = joinRooms(account)
    BY <2>1
  <2> QED
    BY <2>2
<1>5. SocketsInOrder'
  <2>1. UNCHANGED screens
    BY DEF Emit
  <2> QED
    BY <2>1, <1>3 DEF SocketsInOrder
<1>6. ScreensOnlyOwn'
  <2>1. UNCHANGED screens
    BY DEF Emit
  <2> QED
    BY <2>1, <1>1, <1>3, <1>4, RoomsMatchReaders DEF ScreensOnlyOwn
<1>7. CurrentUnlessOnItsWay'
  <2>1. UNCHANGED <<shown, screens>>
        /\ behindTimes' = IF value = shown[x] THEN behindTimes \ {x} ELSE behindTimes \cup {x}
    BY <1>1 DEF Emit
  <2>2. \A y \in Subjects \ {x} : OnItsWay(y)' <=> OnItsWay(y)
    BY <1>1 DEF Emit, OnItsWay, ScreenShapes, NothingToEmit
  <2>3. ASSUME NEW y \in Subjects \ {x}, UpToDate(y)
        PROVE  UpToDate(y)'
    BY <1>3, <2>1, <2>3 DEF UpToDate
  <2>4. ASSUME value = shown[x]
        PROVE  UpToDate(x)'
    <3> SUFFICES ASSUME NEW s \in Screens, screens[s] # NoSocket,
                        joinRooms(screens[s].account) # {}, MayRead(screens[s].account, x)
                 PROVE  knows'[s][x] = shown[x]
      BY <2>1 DEF UpToDate
    <3>1. screens[s].rooms \cap RoomsFor(x) # {}
      BY <1>1, <1>4, RoomsMatchReaders
    <3> QED
      BY <1>1, <1>3, <2>4, <3>1
  <2> QED
    BY <2>1, <2>2, <2>3, <2>4 DEF CurrentUnlessOnItsWay
<1> QED
  BY <1>2, <1>5, <1>6, <1>7

\* An emission that is lost leaves its subject behind.
LEMMA LoseKeepsRealtimeInv ==
  ASSUME RealtimeInv, NEW c \in Emitters, LoseEmission(c)
  PROVE  RealtimeInv'
<1> USE DEF RealtimeInv
<1>1. PICK x \in Subjects : x = emitters[c].subject
  BY DEF LoseEmission, ScreenShapes
<1>2. ScreenShapes'
  BY DEF LoseEmission, ScreenShapes
<1>3. behindTimes' = behindTimes \cup {x} /\ UNCHANGED <<shown, screens, knows>>
  BY <1>1 DEF LoseEmission
<1>4. \A y \in Subjects \ {x} : OnItsWay(y)' <=> OnItsWay(y)
  BY <1>1 DEF LoseEmission, OnItsWay, ScreenShapes, NothingToEmit
<1>5. CurrentUnlessOnItsWay'
  BY <1>3, <1>4 DEF CurrentUnlessOnItsWay, UpToDate
<1>6. SocketsInOrder' /\ ScreensOnlyOwn'
  BY <1>3 DEF SocketsInOrder, ScreensOnlyOwn
<1> QED
  BY <1>2, <1>5, <1>6

\* Every step preserves the invariant.
LEMMA NextKeepsRealtimeInv == RealtimeInv /\ [RealtimeNext]_realtimeVars => RealtimeInv'
<1> SUFFICES ASSUME RealtimeInv, [RealtimeNext]_realtimeVars
             PROVE  RealtimeInv'
  OBVIOUS
<1>1. ASSUME NEW s \in Screens, Disconnect(s)
      PROVE  RealtimeInv'
  BY <1>1, DisconnectKeepsRealtimeInv
<1>2. ASSUME NEW s \in Screens, NEW account \in Accounts, handleConnection(s, account)
      PROVE  RealtimeInv'
  BY <1>2, ConnectKeepsRealtimeInv
<1>3. ASSUME NEW c \in Emitters, NEW t \in LiveTables, SetTable(c, t)
      PROVE  RealtimeInv'
  <2>1. TableSubject(t) \in Subjects
    BY DEF Subjects
  <2> QED
    BY <1>3, <2>1, WriteKeepsRealtimeInv DEF SetTable
<1>4. ASSUME NEW c \in Emitters, NEW o \in LiveOrders, SetStatus(c, o)
      PROVE  RealtimeInv'
  <2>1. StatusSubject(o) \in Subjects
    BY DEF Subjects, OrderSubjects
  <2> QED
    BY <1>4, <2>1, WriteKeepsRealtimeInv DEF SetStatus
<1>5. ASSUME NEW c \in Emitters, NEW o \in LiveOrders, SetTotals(c, o)
      PROVE  RealtimeInv'
  <2>1. TotalsSubject(o) \in Subjects
    BY DEF Subjects, OrderSubjects
  <2> QED
    BY <1>5, <2>1, WriteKeepsRealtimeInv DEF SetTotals
<1>6. ASSUME NEW c \in Emitters, Emit(c)
      PROVE  RealtimeInv'
  BY <1>6, EmitKeepsRealtimeInv
<1>7. ASSUME NEW c \in Emitters, LoseEmission(c)
      PROVE  RealtimeInv'
  BY <1>7, LoseKeepsRealtimeInv
<1>8. ASSUME NEW o \in LiveOrders, ConfirmWithoutEvent(o)
      PROVE  RealtimeInv'
  BY <1>8, ConfirmKeepsRealtimeInv
<1>9. CASE UNCHANGED realtimeVars
  BY <1>9 DEF realtimeVars, RealtimeInv, ScreenShapes, SocketsInOrder, CurrentUnlessOnItsWay, OnItsWay,
     UpToDate, ScreensOnlyOwn
<1> QED
  BY <1>1, <1>2, <1>3, <1>4, <1>5, <1>6, <1>7, <1>8, <1>9 DEF RealtimeNext

\* The inductive invariant holds in every reachable state.
THEOREM RealtimeInvariance == RealtimeSpec => []RealtimeInv
BY InitRealtimeInv, NextKeepsRealtimeInv, PTL DEF RealtimeSpec

\* Only what exists is behind the times.
BehindTyped == behindTimes \subseteq Subjects

\* A socket is in one room at most, and only rows that exist are emitted.
THEOREM RealtimeTypeCorrect == RealtimeSpec => []RealtimeTypeOK
<1>1. RealtimeInit => BehindTyped
  BY DEF RealtimeInit, BehindTyped
<1>2. RealtimeInv /\ BehindTyped /\ [RealtimeNext]_realtimeVars => BehindTyped'
  <2> SUFFICES ASSUME RealtimeInv, behindTimes \subseteq Subjects, [RealtimeNext]_realtimeVars
               PROVE  behindTimes' \subseteq Subjects
    BY DEF BehindTyped
  <2>1. \A c \in Emitters : emitters[c] # NothingToEmit => emitters[c].subject \in Subjects
    BY DEF RealtimeInv, ScreenShapes
  <2>2. ASSUME NEW s \in Screens,
               Disconnect(s) \/ \E account \in Accounts : handleConnection(s, account)
        PROVE  behindTimes' = behindTimes
    BY <2>2 DEF Disconnect, handleConnection
  <2>3. ASSUME NEW c \in Emitters,
               \/ \E t \in LiveTables : SetTable(c, t)
               \/ \E o \in LiveOrders : SetStatus(c, o) \/ SetTotals(c, o)
        PROVE  behindTimes' = behindTimes
    BY <2>3 DEF SetTable, SetStatus, SetTotals, WriteAndEmit
  <2>4. ASSUME NEW c \in Emitters, Emit(c) \/ LoseEmission(c) PROVE behindTimes' \subseteq Subjects
    BY <2>1, <2>4 DEF Emit, LoseEmission
  <2>5. ASSUME NEW o \in LiveOrders, ConfirmWithoutEvent(o) PROVE behindTimes' \subseteq Subjects
    BY <2>5 DEF ConfirmWithoutEvent, Subjects, OrderSubjects
  <2>6. CASE UNCHANGED realtimeVars
    BY <2>6 DEF realtimeVars
  <2> QED
    BY <2>2, <2>3, <2>4, <2>5, <2>6 DEF RealtimeNext
<1>3. RealtimeInv /\ BehindTyped => RealtimeTypeOK
  <2> SUFFICES ASSUME RealtimeInv, behindTimes \subseteq Subjects PROVE RealtimeTypeOK
    BY DEF BehindTyped
  <2>1. ASSUME NEW s \in Screens, screens[s] # NoSocket
        PROVE  screens[s].account \in Accounts /\ Cardinality(screens[s].rooms) <= 1
    <3>1. PICK account \in Accounts : screens[s] = [account |-> account, rooms |-> joinRooms(account)]
      <4>1. \/ screens[s] = NoSocket
            \/ \E account \in Accounts :
                 screens[s] = [account |-> account, rooms |-> joinRooms(account)]
        BY DEF RealtimeInv, SocketsInOrder
      <4> QED
        BY <2>1, <4>1
    <3>2. PICK room : joinRooms(account) \in {{room}, {}}
      BY DEF joinRooms
    <3>3. Cardinality({room}) = 1 /\ Cardinality({}) = 0
      BY FS_Singleton, FS_EmptySet
    <3>4. Cardinality(joinRooms(account)) <= 1
      BY <3>2, <3>3
    <3> QED
      BY <3>1, <3>4
  <2> QED
    BY <2>1 DEF RealtimeInv, ScreenShapes, RealtimeTypeOK
<1> QED
  BY <1>1, <1>2, <1>3, RealtimeInvariance, PTL DEF RealtimeSpec

\* No screen is ever told of what its account may not read, whatever the rooms,
\* orders and restaurants.
THEOREM ScreensSeeOnlyTheirOwn == RealtimeSpec => []ScreensOnlyOwn
<1>1. RealtimeInv => ScreensOnlyOwn
  BY DEF RealtimeInv
<1> QED
  BY <1>1, RealtimeInvariance, PTL

\* Screens are current whenever nothing is left to emit, except about subjects
\* whose last emission was lost, late or missing.
THEOREM ScreensAreCurrent == RealtimeSpec => []ScreensCurrent
<1>1. RealtimeInv => ScreensCurrent
  BY DEF RealtimeInv, ScreensCurrent, Quiet, CurrentUnlessOnItsWay, OnItsWay
<1> QED
  BY <1>1, RealtimeInvariance, PTL

-----------------------------------------------------------------------------
(***************************************************************************)
(* Proofs about Reports, for any number of orders, payments and days and   *)
(* days of any length.                                                     *)
(***************************************************************************)
ReceiptStates == {"ABSENT", "REQUIRES_PAYMENT", "SUCCEEDED", "FAILED"}
TicketRows == [status : OrderStatuses \cup {"ABSENT"}, total : Nat, created : Nat]
ReceiptRows == [status : ReceiptStates, amount : Nat, method : Methods \cup {Null}, created : Nat]

Assignments == {NothingToWrite} \cup [order : Tickets, write : OrderStatuses \cup {"total"}]

ReportsInv ==
  /\ now \in Nat
  /\ tickets \in [Tickets -> TicketRows]
  /\ receipts \in [Receipts -> ReceiptRows]
  /\ writers \in [TicketCalls -> Assignments]
  /\ \A o \in Tickets : tickets[o].created <= now
  /\ \A p \in Receipts : receipts[p].created <= now
  /\ \A c \in TicketCalls : writers[c] # NothingToWrite => tickets[writers[c].order].status # "ABSENT"

\* The reports start with no orders and no payments.
LEMMA InitReportsInv == ReportsInit => ReportsInv
  BY DEF ReportsInit, ReportsInv, TicketRows, ReceiptRows, ReceiptStates, Assignments

\* A request that writes has an order to write.
LEMMA WriterHasOrder ==
  ASSUME ReportsInv, NEW c \in TicketCalls,
         writers[c].write \in OrderStatuses \cup {"total"}
  PROVE  writers[c].order \in Tickets /\ tickets[writers[c].order].status # "ABSENT"
<1>1. NothingToWrite.write = "none"
  BY DEF NothingToWrite
<1>2. "none" \notin OrderStatuses \cup {"total"}
  BY DEF OrderStatuses
<1> QED
  BY <1>1, <1>2 DEF ReportsInv, Assignments

\* A request takes an order on, having tested it.
LEMMA TakeKeeps ==
  ASSUME ReportsInv, NEW c \in TicketCalls, NEW o \in Tickets,
         NEW w \in OrderStatuses \cup {"total"}, Take(c, o, w), tickets[o].status # "ABSENT"
  PROVE  ReportsInv'
<1>1. PICK task : task = [order |-> o, write |-> w]
  OBVIOUS
<1>2. task \in Assignments /\ task.order = o
  BY <1>1 DEF Assignments
<1>3. writers' = [writers EXCEPT ![c] = task]
  BY <1>1 DEF Take
<1> QED
  BY <1>2, <1>3 DEF Take, ReportsInv

\* Every step of the other services keeps rows typed and dated.
LEMMA NextKeepsReportsInv == ReportsInv /\ [ReportsNext]_reportVars => ReportsInv'
<1> SUFFICES ASSUME ReportsInv, [ReportsNext]_reportVars PROVE ReportsInv'
  OBVIOUS
<1> USE ReportsAssumption DEF ReportsAssumption
<1>1. CASE Tick
  <2>1. now' \in Nat /\ now <= now'
    BY <1>1 DEF Tick, ReportsInv
  <2>2. \A i \in Nat : i <= now => i <= now'
    BY <2>1 DEF ReportsInv
  <2> QED
    BY <1>1, <2>1, <2>2 DEF Tick, ReportsInv, TicketRows, ReceiptRows
<1>2. ASSUME NEW o \in Tickets, NEW row \in TicketRows, row.created <= now, row.status # "ABSENT",
             tickets' = [tickets EXCEPT ![o] = row], UNCHANGED <<now, receipts>>,
             writers' \in [TicketCalls -> Assignments],
             \A c \in TicketCalls : writers'[c] = writers[c] \/ writers'[c] = NothingToWrite
      PROVE  ReportsInv'
  <2>1. \A x \in Tickets : tickets'[x] = IF x = o THEN row ELSE tickets[x]
    BY <1>2 DEF ReportsInv
  <2>2. \A c \in TicketCalls : writers[c] # NothingToWrite => writers[c].order \in Tickets
    BY DEF ReportsInv, Assignments
  <2>3. \A c \in TicketCalls : writers'[c] # NothingToWrite => tickets'[writers'[c].order].status # "ABSENT"
    BY <1>2, <2>1, <2>2 DEF ReportsInv
  <2> QED
    BY <1>2, <2>1, <2>3 DEF ReportsInv
<1>3. ASSUME NEW p \in Receipts, NEW row \in ReceiptRows, row.created <= now,
             receipts' = [receipts EXCEPT ![p] = row], UNCHANGED <<now, tickets, writers>>
      PROVE  ReportsInv'
  BY <1>3 DEF ReportsInv
<1>4. ASSUME NEW o \in Tickets, NEW total \in Amounts, OpenTicket(o, total)
      PROVE  ReportsInv'
  <2>1. PICK row : row = [status |-> "DRAFT", total |-> total, created |-> now]
    OBVIOUS
  <2>2. row \in TicketRows /\ row.created <= now
    BY <2>1 DEF TicketRows, ReportsInv, OrderStatuses
  <2>3. writers' \in [TicketCalls -> Assignments] /\ writers' = writers
    BY <1>4 DEF OpenTicket, ReportsInv
  <2>4. row.status # "ABSENT"
    BY <2>1
  <2> QED
    BY <1>2, <1>4, <2>1, <2>2, <2>3, <2>4 DEF OpenTicket
<1>5. ASSUME NEW c \in TicketCalls, writers' = [writers EXCEPT ![c] = NothingToWrite]
      PROVE  /\ writers' \in [TicketCalls -> Assignments]
             /\ \A d \in TicketCalls : writers'[d] = writers[d] \/ writers'[d] = NothingToWrite
  BY <1>5 DEF ReportsInv, Assignments
<1>6. ASSUME NEW c \in TicketCalls, NEW total \in Amounts, EditTicket(c, total)
      PROVE  ReportsInv'
  <2>1. PICK o \in Tickets : o = writers[c].order /\ tickets[o].status # "ABSENT"
    BY <1>6, WriterHasOrder DEF EditTicket
  <2>2. PICK row : row = [tickets[o] EXCEPT !.total = total]
    OBVIOUS
  <2>3. row \in TicketRows /\ row.created <= now /\ row.status # "ABSENT"
    BY <2>1, <2>2 DEF TicketRows, ReportsInv
  <2>4. tickets' = [tickets EXCEPT ![o] = row]
    BY <1>6, <2>1, <2>2 DEF EditTicket, ReportsInv
  <2> QED
    BY <1>2, <1>5, <1>6, <2>3, <2>4 DEF EditTicket
<1>7. ASSUME NEW c \in TicketCalls, MoveTicket(c)
      PROVE  ReportsInv'
  <2>1. PICK o \in Tickets : o = writers[c].order
    BY <1>7, WriterHasOrder DEF MoveTicket
  <2>2. PICK next \in OrderStatuses : next = writers[c].write
    BY <1>7 DEF MoveTicket
  <2>3. PICK row : row = [tickets[o] EXCEPT !.status = next]
    OBVIOUS
  <2>4. row \in TicketRows /\ row.created <= now /\ row.status # "ABSENT"
    BY <2>2, <2>3 DEF TicketRows, ReportsInv, OrderStatuses
  <2>5. tickets' = [tickets EXCEPT ![o] = row]
    BY <1>7, <2>1, <2>2, <2>3 DEF MoveTicket, ReportsInv
  <2> QED
    BY <1>2, <1>5, <1>7, <2>4, <2>5 DEF MoveTicket
<1>8. ASSUME NEW c \in TicketCalls, GiveUp(c)
      PROVE  ReportsInv'
  <2>1. /\ writers' \in [TicketCalls -> Assignments] /\ UNCHANGED <<now, tickets, receipts>>
        /\ \A d \in TicketCalls : writers'[d] = writers[d] \/ writers'[d] = NothingToWrite
    BY <1>5, <1>8 DEF GiveUp
  <2> QED
    BY <2>1 DEF ReportsInv
<1>9. ASSUME NEW c \in TicketCalls, NEW o \in Tickets,
             TestEdit(c, o) \/ \E next \in TicketTargets : TestMove(c, o, next)
      PROVE  ReportsInv'
  <2>1. "ABSENT" \notin OrderStatuses /\ "ABSENT" \notin EDITABLE_STATUSES
    BY DEF OrderStatuses, EDITABLE_STATUSES
  <2> QED
    BY <1>9, <2>1, TakeKeeps DEF TestEdit, TestMove
<1>10. ASSUME NEW p \in Receipts, NEW amount \in Amounts, NEW method \in Methods,
             CreateReceipt(p, amount, method)
      PROVE  ReportsInv'
  <2>1. PICK status : status = IF method = "STRIPE" THEN "REQUIRES_PAYMENT" ELSE "SUCCEEDED"
    OBVIOUS
  <2>2. PICK row : row = [status |-> status, amount |-> amount, method |-> method, created |-> now]
    OBVIOUS
  <2>3. row \in ReceiptRows /\ row.created <= now
    BY <2>1, <2>2 DEF ReceiptRows, ReceiptStates, ReportsInv
  <2> QED
    BY <1>3, <1>10, <2>1, <2>2, <2>3 DEF CreateReceipt
<1>11. ASSUME NEW p \in Receipts, SettleReceipt(p) PROVE ReportsInv'
  <2>1. PICK status \in {"SUCCEEDED", "FAILED"} : receipts' = [receipts EXCEPT ![p].status = status]
    BY <1>11 DEF SettleReceipt
  <2>2. PICK row : row = [receipts[p] EXCEPT !.status = status]
    OBVIOUS
  <2>3. row \in ReceiptRows /\ row.created <= now
    BY <2>2 DEF ReceiptRows, ReceiptStates, ReportsInv
  <2>4. receipts' = [receipts EXCEPT ![p] = row]
    BY <2>1, <2>2 DEF ReportsInv
  <2> QED
    BY <1>3, <1>11, <2>3, <2>4 DEF SettleReceipt
<1>12. CASE UNCHANGED reportVars
  BY <1>12 DEF reportVars, ReportsInv
<1> QED
  BY <1>1, <1>4, <1>6, <1>7, <1>8, <1>9, <1>10, <1>11, <1>12 DEF ReportsNext

\* Every row has its columns' types, and none is created in the future.
THEOREM ReportsInvariance == ReportsSpec => []ReportsInv
BY InitReportsInv, NextKeepsReportsInv, PTL DEF ReportsSpec

\* The rows that the reports read have their types, and dates that are over.
THEOREM ReportsTypeCorrect == ReportsSpec => []ReportsTypeOK
<1>1. ReportsInv => ReportsTypeOK
  BY DEF ReportsInv, ReportsTypeOK, TicketRows, ReceiptRows, ReceiptStates, Assignments
<1> QED
  BY <1>1, ReportsInvariance, PTL

-----------------------------------------------------------------------------
\* The query of a day, and of a range of days, by the day an instant is in.

\* Instants ordered by days.
LEMMA DayOrder ==
  ASSUME NEW L \in Nat \ {0}, NEW q \in Nat, NEW r \in 0..(L - 1), NEW day \in Nat
  PROVE  /\ q * L + r >= day * L <=> q >= day
         /\ q * L + r < day * L + L - 1 => q <= day
         /\ r # L - 1 /\ q <= day => q * L + r < day * L + L - 1
<1>1. q * L \in Nat /\ day * L \in Nat
  OBVIOUS
<1>2. CASE q >= day
  <2>1. PICK k \in Nat : q = day + k
    BY <1>2
  <2>2. k * L \in Nat /\ q * L = day * L + k * L
    BY <2>1
  <2>3. k >= 1 => k * L >= L
    <3>1. CASE k >= 1
      <4>1. PICK j \in Nat : k = j + 1
        BY <3>1
      <4>2. k * L = j * L + L /\ j * L \in Nat
        BY <4>1
      <4> QED
        BY <4>2
    <3> QED
      BY <3>1
  <2>4. q * L + r < day * L + L - 1 => k = 0
    BY <1>1, <2>2, <2>3
  <2>5. q <= day => k = 0
    BY <2>1
  <2>6. k = 0 => q = day
    BY <2>1
  <2>7. r # L - 1 /\ k = 0 => q * L + r < day * L + L - 1
    <3>1. k = 0 => q * L = day * L
      BY <2>6
    <3> QED
      BY <1>1, <3>1
  <2> QED
    BY <1>1, <1>2, <2>2, <2>4, <2>5, <2>6, <2>7
<1>3. CASE q < day
  <2>1. PICK k \in Nat : day = q + 1 + k
    <3>1. day - q - 1 \in Nat /\ day = q + 1 + (day - q - 1)
      BY <1>3
    <3> QED
      BY <3>1
  <2>2. k * L \in Nat /\ day * L = q * L + L + k * L
    BY <2>1
  <2> QED
    BY <1>1, <1>3, <2>2
<1> QED
  BY <1>2, <1>3

\* An instant is in a range of days, by its day; the last instant of a day is in
\* every range in which its day is not the last.
LEMMA InRange ==
  ASSUME NEW i \in Nat, NEW first \in Nat, NEW last \in Nat
  PROVE  /\ DayOf(i) \in Nat
         /\ i >= dayRange(first).gte <=> DayOf(i) >= first
         /\ i < dayRange(last).lt => DayOf(i) <= last
         /\ i % DayLength # DayLength - 1 /\ DayOf(i) <= last => i < dayRange(last).lt
<1>1. PICK L \in Nat \ {0} : L = DayLength
  BY ReportsAssumption DEF ReportsAssumption
<1>2. PICK q, r : q = i \div L /\ r = i % L
  OBVIOUS
<1>3. q \in Nat /\ r \in 0..(L - 1) /\ i = q * L + r
  BY <1>2
<1>4. /\ q * L + r >= first * L <=> q >= first
      /\ q * L + r < last * L + L - 1 => q <= last
      /\ r # L - 1 /\ q <= last => q * L + r < last * L + L - 1
  BY <1>3, DayOrder
<1>5. dayRange(first).gte = first * L /\ dayRange(last).lt = last * L + L - 1
  BY <1>1 DEF dayRange
<1>6. DayOf(i) = q /\ i % DayLength = r
  BY <1>1, <1>2 DEF DayOf
<1> QED
  BY <1>1, <1>3, <1>4, <1>5, <1>6

-----------------------------------------------------------------------------
\* The sums of the reports.

\* What a set of payments took.
LEMMA AmountIsSum ==
  ASSUME ReportsInv, NEW S \in SUBSET Receipts, NEW f, f = [p \in Receipts |-> receipts[p].amount]
  PROVE  /\ AmountOf(S) = SumOver(f, S) /\ AmountOf(S) \in Nat
         /\ IsFiniteSet(S) /\ \A p \in S : f[p] \in Int
<1>1. IsFiniteSet(S)
  BY FS_Subset, ReportsAssumption DEF ReportsAssumption
<1>2. \A p \in S : f[p] = receipts[p].amount /\ f[p] \in Nat /\ f[p] \in Int
  BY DEF ReportsInv, ReceiptRows
<1>3. PICK g \in [SUBSET S -> Int] : IsSum(f, S, g)
  BY <1>1, <1>2, SumExists
<1> DEFINE iter == CHOOSE it : it = [s \in SUBSET S |->
                     IF s = {} THEN 0 ELSE receipts[First(s)].amount + it[s \ {First(s)}]]
<1>4. IsSum(f, S, iter)
  <2>1. \A s \in SUBSET S : s # {} => f[First(s)] = receipts[First(s)].amount
    <3>1. \A s \in SUBSET S : s # {} => First(s) \in S
      BY FirstIn
    <3> QED
      BY <1>2, <3>1
  <2>2. g = [s \in SUBSET S |->
               IF s = {} THEN 0 ELSE receipts[First(s)].amount + g[s \ {First(s)}]]
    BY <1>3, <2>1 DEF IsSum
  <2>3. iter = [s \in SUBSET S |->
                  IF s = {} THEN 0 ELSE receipts[First(s)].amount + iter[s \ {First(s)}]]
    BY <2>2
  <2> HIDE DEF iter
  <2> QED
    BY <2>1, <2>3 DEF IsSum
<1>5. AmountOf(S) = iter[S]
  BY DEF AmountOf, MapThenSumSet, MapThenFoldSet, First
<1> HIDE DEF iter
<1>6. SumOver(f, S) = g[S]
  BY <1>1, <1>3, SumWithin
<1>7. iter = g
  BY <1>1, <1>3, <1>4, SumUnique
<1>8. SumOver(f, S) \in Nat
  BY <1>1, <1>2, SumIsNat
<1> QED
  BY <1>1, <1>2, <1>5, <1>6, <1>7, <1>8

\* What a day took by a method; a method without takings is left out of the
\* breakdown.
TakenOn(first, last, m) ==
  IF m \in DOMAIN getPaymentMethodBreakdownRange(first, last)
  THEN getPaymentMethodBreakdownRange(first, last)[m] ELSE 0

\* The breakdown says what was taken, whether it leaves the method out or not.
LEMMA BreakdownIsAmount ==
  ASSUME ReportsInv, NEW first, NEW last, NEW m \in Methods
  PROVE  TakenOn(first, last, m) = AmountOf(PaidIn(first, last, m))
<1>1. PICK taken : taken = [n \in Methods |-> AmountOf(PaidIn(first, last, n))]
  OBVIOUS
<1>2. taken[m] \in Nat
  <2>1. PICK S : S = PaidIn(first, last, m)
    OBVIOUS
  <2>2. S \in SUBSET Receipts
    BY <2>1 DEF PaidIn
  <2>3. AmountOf(S) \in Nat
    BY <2>2, AmountIsSum
  <2> QED
    BY <1>1, <2>1, <2>3
<1>3. getPaymentMethodBreakdownRange(first, last) = [n \in {x \in Methods : taken[x] > 0} |-> taken[n]]
  BY <1>1 DEF getPaymentMethodBreakdownRange
<1>4. m \in DOMAIN getPaymentMethodBreakdownRange(first, last) <=> taken[m] > 0
  BY <1>3
<1>5. taken[m] > 0 => getPaymentMethodBreakdownRange(first, last)[m] = taken[m]
  BY <1>3
<1>6. TakenOn(first, last, m) = taken[m]
  BY <1>2, <1>4, <1>5 DEF TakenOn
<1> QED
  BY <1>1, <1>6

\* A sum over days, as the community modules write it.
LEMMA SumOfDays ==
  ASSUME ReportsInv, NEW D, IsFiniteSet(D), NEW m \in Methods,
         NEW h, h = [day \in D |-> TakenOn(day, day, m)], \A day \in D : h[day] \in Int
  PROVE  MapThenSumSet(LAMBDA day : TakenOn(day, day, m), D) = SumOver(h, D)
<1>1. \A day \in D : h[day] = TakenOn(day, day, m)
  OBVIOUS
<1>2. PICK g \in [SUBSET D -> Int] : IsSum(h, D, g)
  BY SumExists
<1> DEFINE iter == CHOOSE it : it = [s \in SUBSET D |->
                     IF s = {} THEN 0 ELSE TakenOn(First(s), First(s), m) + it[s \ {First(s)}]]
<1>3. IsSum(h, D, iter)
  <2>1. \A s \in SUBSET D : s # {} => h[First(s)] = TakenOn(First(s), First(s), m)
    <3>1. \A s \in SUBSET D : s # {} => First(s) \in D
      BY FirstIn
    <3> QED
      BY <1>1, <3>1
  <2>2. g = [s \in SUBSET D |->
               IF s = {} THEN 0 ELSE TakenOn(First(s), First(s), m) + g[s \ {First(s)}]]
    BY <1>2, <2>1 DEF IsSum
  <2>3. iter = [s \in SUBSET D |->
                  IF s = {} THEN 0 ELSE TakenOn(First(s), First(s), m) + iter[s \ {First(s)}]]
    BY <2>2
  <2> HIDE DEF iter
  <2> QED
    BY <2>1, <2>3 DEF IsSum
<1>4. MapThenSumSet(LAMBDA day : TakenOn(day, day, m), D) = iter[D]
  BY DEF MapThenSumSet, MapThenFoldSet, First
<1> HIDE DEF iter
<1>5. SumOver(h, D) = g[D]
  BY <1>2, SumWithin
<1>6. iter = g
  BY <1>2, <1>3, SumUnique
<1> QED
  BY <1>4, <1>5, <1>6

-----------------------------------------------------------------------------
\* The reports of a range agree with those of its days.

\* The sales of a range are those of its days, when none is in the last instant
\* of its day.
LEMMA SalesByDay ==
  ASSUME ReportsInv, ~InLastInstant, NEW first \in Nat, NEW last \in Nat
  PROVE  SalesIn(first, last) = {o \in Tickets : /\ tickets[o].status \in SALE_STATUSES
                                                 /\ DayOf(tickets[o].created) \in first..last}
<1>1. ASSUME NEW o \in Tickets, tickets[o].status \in SALE_STATUSES
      PROVE  (/\ tickets[o].created >= dayRange(first).gte
              /\ tickets[o].created < dayRange(last).lt)
               <=> DayOf(tickets[o].created) \in first..last
  <2>1. PICK i \in Nat : i = tickets[o].created
    BY DEF ReportsInv, TicketRows
  <2>2. i % DayLength # DayLength - 1
    BY <1>1, <2>1 DEF InLastInstant, LastInstant, SALE_STATUSES
  <2>3. /\ DayOf(i) \in Nat
        /\ i >= dayRange(first).gte <=> DayOf(i) >= first
        /\ i < dayRange(last).lt <=> DayOf(i) <= last
    BY <2>2, InRange
  <2> QED
    BY <2>1, <2>3
<1> QED
  BY <1>1 DEF SalesIn

\* And so are the payments.
LEMMA PaidByDay ==
  ASSUME ReportsInv, ~InLastInstant, NEW first \in Nat, NEW last \in Nat, NEW m
  PROVE  PaidIn(first, last, m) =
           {p \in Receipts : /\ receipts[p].status = "SUCCEEDED" /\ receipts[p].method = m
                             /\ DayOf(receipts[p].created) \in first..last}
<1>1. ASSUME NEW p \in Receipts, receipts[p].status = "SUCCEEDED"
      PROVE  (/\ receipts[p].created >= dayRange(first).gte
              /\ receipts[p].created < dayRange(last).lt)
               <=> DayOf(receipts[p].created) \in first..last
  <2>1. PICK i \in Nat : i = receipts[p].created
    BY DEF ReportsInv, ReceiptRows
  <2>2. i % DayLength # DayLength - 1
    BY <1>1, <2>1 DEF InLastInstant, LastInstant
  <2>3. /\ DayOf(i) \in Nat
        /\ i >= dayRange(first).gte <=> DayOf(i) >= first
        /\ i < dayRange(last).lt <=> DayOf(i) <= last
    BY <2>2, InRange
  <2> QED
    BY <2>1, <2>3
<1> QED
  BY <1>1 DEF PaidIn

\* What a range took by a method is what its days took.
LEMMA TakingsByDay ==
  ASSUME ReportsInv, ~InLastInstant, NEW first \in Nat, NEW last \in Nat, first <= last,
         NEW m \in Methods
  PROVE  TakenOn(first, last, m) = MapThenSumSet(LAMBDA day : TakenOn(day, day, m), first..last)
<1>1. PICK f : f = [p \in Receipts |-> receipts[p].amount]
  OBVIOUS
<1>2. PICK S : S = PaidIn(first, last, m)
  OBVIOUS
<1>3. PICK D : D = first..last
  OBVIOUS
<1>4. PICK k : k = [p \in S |-> DayOf(receipts[p].created)]
  OBVIOUS
<1>5. S \in SUBSET Receipts
  BY <1>2 DEF PaidIn
<1>6. AmountOf(S) = SumOver(f, S) /\ IsFiniteSet(S) /\ \A p \in S : f[p] \in Int
  BY <1>1, <1>5, AmountIsSum
<1>7. k \in [S -> D]
  BY <1>2, <1>3, <1>4, PaidByDay
<1>8. PICK h : h = [day \in D |-> TakenOn(day, day, m)]
  OBVIOUS
<1>9. ASSUME NEW day \in D PROVE h[day] = SumOver(f, {p \in S : k[p] = day}) /\ h[day] \in Int
  <2>1. day \in Nat /\ day \in first..last
    BY <1>3
  <2>2. PICK A : A = {p \in S : k[p] = day}
    OBVIOUS
  <2>3. PaidIn(day, day, m) = A
    <3>1. PaidIn(day, day, m) =
            {p \in Receipts : /\ receipts[p].status = "SUCCEEDED" /\ receipts[p].method = m
                              /\ DayOf(receipts[p].created) \in day..day}
      BY <2>1, PaidByDay
    <3>2. S = {p \in Receipts : /\ receipts[p].status = "SUCCEEDED" /\ receipts[p].method = m
                                /\ DayOf(receipts[p].created) \in first..last}
      BY <1>2, PaidByDay
    <3>3. \A n : n \in day..day <=> n = day
      BY <2>1
    <3>4. PaidIn(day, day, m) = {p \in S : DayOf(receipts[p].created) = day}
      BY <2>1, <3>1, <3>2, <3>3
    <3> QED
      BY <1>4, <2>2, <3>4
  <2>4. h[day] = AmountOf(A)
    BY <1>8, <2>3, BreakdownIsAmount
  <2>5. A \in SUBSET Receipts
    BY <1>5, <2>2
  <2>6. AmountOf(A) = SumOver(f, A) /\ AmountOf(A) \in Nat
    BY <1>1, <2>5, AmountIsSum
  <2> QED
    BY <2>2, <2>4, <2>6
<1>10. IsFiniteSet(D)
  BY <1>3, FS_Interval
<1>11. SumOver(f, S) = SumOver(h, D)
  BY <1>6, <1>7, <1>9, <1>10, SumOfClasses
<1>12. MapThenSumSet(LAMBDA day : TakenOn(day, day, m), D) = SumOver(h, D)
  BY <1>8, <1>9, <1>10, SumOfDays
<1>13. TakenOn(first, last, m) = AmountOf(S)
  BY <1>2, BreakdownIsAmount
<1> QED
  BY <1>3, <1>6, <1>11, <1>12, <1>13

\* The row of a day in a range is the day's summary, and a day without a row has
\* no sales.
LEMMA RowsByDay ==
  ASSUME ReportsInv, ~InLastInstant, NEW first \in Nat, NEW last \in Nat, NEW day \in first..last
  PROVE  /\ SoldOn(first, last, day) = SalesIn(day, day)
         /\ day \notin DaysSold(first, last) => SalesIn(day, day) = {}
<1>1. day \in Nat
  OBVIOUS
<1>2. \A n : n \in day..day <=> n = day
  BY <1>1
<1>3. SalesIn(day, day) = {o \in Tickets : /\ tickets[o].status \in SALE_STATUSES
                                           /\ DayOf(tickets[o].created) \in day..day}
  BY <1>1, SalesByDay
<1>4. SalesIn(first, last) = {o \in Tickets : /\ tickets[o].status \in SALE_STATUSES
                                              /\ DayOf(tickets[o].created) \in first..last}
  BY SalesByDay
<1>5. SalesIn(day, day) = {o \in SalesIn(first, last) : DayOf(tickets[o].created) = day}
  BY <1>2, <1>3, <1>4
<1> QED
  BY <1>5 DEF SoldOn, DaysSold

\* The closed tickets of a range are those of its days.
LEMMA TicketsByDay ==
  ASSUME ReportsInv, ~InLastInstant, NEW first \in Nat, NEW last \in Nat
  PROVE  getClosedTickets(first, last) = UNION {getClosedTickets(day, day) : day \in first..last}
<1>1. SalesIn(first, last) = {o \in Tickets : /\ tickets[o].status \in SALE_STATUSES
                                              /\ DayOf(tickets[o].created) \in first..last}
  BY SalesByDay
<1>2. \A day \in first..last :
        SalesIn(day, day) = {o \in SalesIn(first, last) : DayOf(tickets[o].created) = day}
  BY RowsByDay DEF SoldOn
<1>3. SalesIn(first, last) = UNION {SalesIn(day, day) : day \in first..last}
  BY <1>1, <1>2
<1> QED
  BY <1>3 DEF getClosedTickets

\* Reports of a range agree with the reports of its days (reports.service.ts sums
\* and counts the same rows in five queries), when no sale and no payment is in
\* the last millisecond of a day.
THEOREM RangesAgreeWithDays == ReportsSpec => []RangeAgreesWithDays
<1>1. ASSUME ReportsInv PROVE RangeAgreesWithDays
  <2> SUFFICES ASSUME ~InLastInstant, NEW first \in AllDays, NEW last \in AllDays, first <= last,
                      NEW rows, rows = getDailySummaryRange(first, last)
               PROVE  /\ \A day \in first..last :
                           IF day \in DOMAIN rows
                           THEN rows[day] = getDailySummary(day)
                                /\ getTicketCountByDay(first, last)[day]
                                     = getDailySummary(day).ticketCount
                           ELSE getDailySummary(day).ticketCount = 0
                      /\ DOMAIN rows \subseteq first..last
                      /\ getClosedTickets(first, last)
                           = UNION {getClosedTickets(day, day) : day \in first..last}
                      /\ \A m \in Methods :
                           LET part(breakdown) == IF m \in DOMAIN breakdown THEN breakdown[m] ELSE 0
                           IN part(getPaymentMethodBreakdownRange(first, last)) =
                                MapThenSumSet(LAMBDA day : part(getPaymentMethodBreakdown(day)),
                                              first..last)
    BY DEF RangeAgreesWithDays
  <2>1. first \in Nat /\ last \in Nat
    BY DEF AllDays
  <2>2. DOMAIN rows = DaysSold(first, last)
    BY DEF getDailySummaryRange
  <2>3. DOMAIN rows \subseteq first..last
    BY <1>1, <2>1, <2>2, SalesByDay DEF DaysSold
  <2>4. ASSUME NEW day \in first..last
        PROVE  IF day \in DOMAIN rows
               THEN rows[day] = getDailySummary(day)
                    /\ getTicketCountByDay(first, last)[day] = getDailySummary(day).ticketCount
               ELSE getDailySummary(day).ticketCount = 0
    <3>1. PICK S : S = SalesIn(day, day)
      OBVIOUS
    <3>2. SoldOn(first, last, day) = S /\ (day \notin DOMAIN rows => S = {})
      BY <1>1, <2>1, <2>2, <3>1, RowsByDay
    <3>3. getDailySummary(day) = Row(S) /\ Row(S).ticketCount = Cardinality(S)
      BY <3>1 DEF getDailySummary, Row
    <3>4. CASE day \in DOMAIN rows
      <4>1. rows[day] = Row(S)
        BY <2>2, <3>2, <3>4 DEF getDailySummaryRange
      <4>2. getTicketCountByDay(first, last)[day] = Cardinality(S)
        BY <2>2, <3>2, <3>4 DEF getTicketCountByDay
      <4> QED
        BY <3>3, <3>4, <4>1, <4>2
    <3>5. CASE day \notin DOMAIN rows
      BY <3>2, <3>3, <3>5, FS_EmptySet
    <3> QED
      BY <3>4, <3>5
  <2>5. getClosedTickets(first, last) = UNION {getClosedTickets(day, day) : day \in first..last}
    BY <1>1, <2>1, TicketsByDay
  <2>6. ASSUME NEW m \in Methods
        PROVE  LET part(breakdown) == IF m \in DOMAIN breakdown THEN breakdown[m] ELSE 0
               IN part(getPaymentMethodBreakdownRange(first, last)) =
                    MapThenSumSet(LAMBDA day : part(getPaymentMethodBreakdown(day)), first..last)
    <3>1. TakenOn(first, last, m) = MapThenSumSet(LAMBDA day : TakenOn(day, day, m), first..last)
      BY <1>1, <2>1, TakingsByDay
    <3> QED
      BY <3>1 DEF TakenOn, getPaymentMethodBreakdown
  <2> QED
    BY <2>3, <2>4, <2>5, <2>6
<1> QED
  BY <1>1, ReportsInvariance, PTL

-----------------------------------------------------------------------------
\* A day that is settled is final.

\* What a set of orders comes to with these rows.
TotalWith(rows, S) == MapThenSumSet(LAMBDA o : rows[o].total, S)

\* It is the sum of their totals.
LEMMA TotalIsSum ==
  ASSUME NEW rows, NEW S, IsFiniteSet(S), NEW f, \A o \in S : f[o] = rows[o].total /\ f[o] \in Int
  PROVE  TotalWith(rows, S) = SumOver(f, S)
<1>1. PICK g \in [SUBSET S -> Int] : IsSum(f, S, g)
  BY SumExists
<1> DEFINE iter == CHOOSE it : it = [s \in SUBSET S |->
                     IF s = {} THEN 0 ELSE rows[First(s)].total + it[s \ {First(s)}]]
<1>2. IsSum(f, S, iter)
  <2>1. \A s \in SUBSET S : s # {} => f[First(s)] = rows[First(s)].total
    <3>1. \A s \in SUBSET S : s # {} => First(s) \in S
      BY FirstIn
    <3> QED
      BY <3>1
  <2>2. g = [s \in SUBSET S |-> IF s = {} THEN 0 ELSE rows[First(s)].total + g[s \ {First(s)}]]
    BY <1>1, <2>1 DEF IsSum
  <2>3. iter = [s \in SUBSET S |->
                  IF s = {} THEN 0 ELSE rows[First(s)].total + iter[s \ {First(s)}]]
    BY <2>2
  <2> HIDE DEF iter
  <2> QED
    BY <2>1, <2>3 DEF IsSum
<1>3. TotalWith(rows, S) = iter[S]
  BY DEF TotalWith, MapThenSumSet, MapThenFoldSet, First
<1> HIDE DEF iter
<1>4. SumOver(f, S) = g[S]
  BY <1>1, SumWithin
<1>5. iter = g
  BY <1>1, <1>2, SumUnique
<1> QED
  BY <1>3, <1>4, <1>5

\* Orders that keep their totals come to the same.
LEMMA SameTotals ==
  ASSUME ReportsInv, NEW S \in SUBSET Tickets, \A o \in S : tickets'[o].total = tickets[o].total
  PROVE  TotalOf(S)' = TotalOf(S)
<1>1. IsFiniteSet(S)
  BY FS_Subset, ReportsAssumption DEF ReportsAssumption
<1>2. PICK f : f = [o \in S |-> tickets[o].total]
  OBVIOUS
<1>3. \A o \in S : f[o] = tickets[o].total /\ f[o] \in Int
  BY <1>2 DEF ReportsInv, TicketRows
<1>4. PICK rows : rows = tickets'
  OBVIOUS
<1>5. TotalWith(rows, S) = SumOver(f, S)
  BY <1>1, <1>3, <1>4, TotalIsSum
<1>6. TotalOf(S)' = SumOver(f, S)
  BY <1>4, <1>5 DEF TotalOf, TotalWith, MapThenSumSet, MapThenFoldSet
<1>7. PICK old : old = tickets
  OBVIOUS
<1>8. TotalWith(old, S) = SumOver(f, S)
  BY <1>1, <1>3, <1>7, TotalIsSum
<1>9. TotalOf(S) = SumOver(f, S)
  BY <1>7, <1>8 DEF TotalOf, TotalWith, MapThenSumSet, MapThenFoldSet
<1> QED
  BY <1>6, <1>9

\* A day's sales that stay the same orders with the same totals have the same
\* summary.
LEMMA SameSummary ==
  ASSUME ReportsInv, NEW day, SalesIn(day, day)' = SalesIn(day, day),
         \A o \in SalesIn(day, day) : tickets'[o].total = tickets[o].total
  PROVE  getDailySummary(day)' = getDailySummary(day)
<1>1. PICK S : S = SalesIn(day, day)
  OBVIOUS
<1>2. S \in SUBSET Tickets
  BY <1>1 DEF SalesIn
<1>3. TotalOf(S)' = TotalOf(S)
  BY <1>1, <1>2, SameTotals
<1>4. Row(S)' = Row(S)
  BY <1>3 DEF Row
<1> QED
  BY <1>1, <1>4 DEF getDailySummary, Row

\* A day's sales are among its orders.
LEMMA SalesAreOrders ==
  ASSUME ReportsInv, NEW day \in Nat
  PROVE  SalesIn(day, day) = {o \in OrdersOf(day) : /\ tickets[o].status \in SALE_STATUSES
                                                    /\ tickets[o].created >= dayRange(day).gte
                                                    /\ tickets[o].created < dayRange(day).lt}
<1> SUFFICES ASSUME NEW o \in SalesIn(day, day) PROVE o \in OrdersOf(day)
  BY DEF SalesIn, OrdersOf
<1>1. PICK i \in Nat : i = tickets[o].created
  BY DEF ReportsInv, TicketRows, SalesIn
<1>2. i >= dayRange(day).gte /\ i < dayRange(day).lt
  BY <1>1 DEF SalesIn
<1>3. DayOf(i) = day
  BY <1>2, InRange
<1> QED
  BY <1>1, <1>3 DEF SalesIn, OrdersOf, SALE_STATUSES

\* The same orders with the same rows have the same summary.
LEMMA SameOrders ==
  ASSUME ReportsInv, ReportsInv', NEW day \in Nat, OrdersOf(day)' = OrdersOf(day),
         \A o \in OrdersOf(day) : tickets'[o] = tickets[o]
  PROVE  getDailySummary(day)' = getDailySummary(day)
<1>1. dayRange(day)' = dayRange(day)
  BY DEF dayRange
<1>2. SalesIn(day, day)' = {o \in OrdersOf(day)' : /\ tickets'[o].status \in SALE_STATUSES
                                                   /\ tickets'[o].created >= dayRange(day).gte
                                                   /\ tickets'[o].created < dayRange(day).lt}
  <2> SUFFICES ASSUME NEW o \in SalesIn(day, day)' PROVE o \in OrdersOf(day)'
    BY <1>1 DEF SalesIn, OrdersOf
  <2>1. PICK i \in Nat : i = tickets'[o].created
    BY DEF ReportsInv, TicketRows, SalesIn
  <2>2. i >= dayRange(day).gte /\ i < dayRange(day).lt
    BY <1>1, <2>1 DEF SalesIn
  <2>3. DayOf(i) = day
    BY <2>2, InRange
  <2> QED
    BY <2>1, <2>3 DEF SalesIn, OrdersOf, SALE_STATUSES, DayOf
<1>3. SalesIn(day, day)' = SalesIn(day, day)
  BY <1>2, SalesAreOrders
<1>4. \A o \in SalesIn(day, day) : tickets'[o].total = tickets[o].total
  BY SalesAreOrders
<1> QED
  BY <1>3, <1>4, SameSummary

\* A step leaves the orders of a settled day alone, and adds none to them.
LEMMA OrdersOfDayStay ==
  ASSUME ReportsInv, [ReportsNext]_reportVars, NEW day \in Nat, Settled(day)
  PROVE  OrdersOf(day)' = OrdersOf(day) /\ \A o \in OrdersOf(day) : tickets'[o] = tickets[o]
<1>1. CASE UNCHANGED tickets
  BY <1>1 DEF OrdersOf, DayOf
<1>2. ASSUME NEW o \in Tickets, NEW total \in Amounts, OpenTicket(o, total)
      PROVE  OrdersOf(day)' = OrdersOf(day) /\ \A x \in OrdersOf(day) : tickets'[x] = tickets[x]
  <2>1. PICK row : row = [status |-> "DRAFT", total |-> total, created |-> now]
    OBVIOUS
  <2>5. row.created = now
    BY <2>1
  <2>2. tickets' = [tickets EXCEPT ![o] = row] /\ tickets[o].status = "ABSENT"
    BY <1>2, <2>1 DEF OpenTicket
  <2>3. \A x \in Tickets : tickets'[x] = IF x = o THEN row ELSE tickets[x]
    BY <2>2 DEF ReportsInv
  <2>4. DayOf(now) # day
    <3>1. DayOf(now) \in Nat /\ DayOf(now) > day
      BY InRange DEF ReportsInv, Settled
    <3> QED
      BY <3>1
  <2> QED
    BY <2>2, <2>3, <2>4, <2>5 DEF OrdersOf, DayOf
<1>3. ASSUME NEW o \in Tickets, o \notin OrdersOf(day), tickets[o].status # "ABSENT",
             NEW row, row.created = tickets[o].created, tickets' = [tickets EXCEPT ![o] = row]
      PROVE  OrdersOf(day)' = OrdersOf(day) /\ \A x \in OrdersOf(day) : tickets'[x] = tickets[x]
  <2>1. \A x \in Tickets : tickets'[x] = IF x = o THEN row ELSE tickets[x]
    BY <1>3 DEF ReportsInv
  <2>2. DayOf(row.created) # day
    BY <1>3 DEF OrdersOf
  <2> QED
    BY <1>3, <2>1, <2>2 DEF OrdersOf, DayOf
<1>4. ASSUME NEW c \in TicketCalls, NEW total \in Amounts, EditTicket(c, total)
      PROVE  OrdersOf(day)' = OrdersOf(day) /\ \A x \in OrdersOf(day) : tickets'[x] = tickets[x]
  <2>1. PICK o \in Tickets : o = writers[c].order /\ tickets[o].status # "ABSENT"
    BY <1>4, WriterHasOrder DEF EditTicket
  <2>2. PICK row : row = [tickets[o] EXCEPT !.total = total]
    OBVIOUS
  <2>3. tickets' = [tickets EXCEPT ![o] = row]
    BY <1>4, <2>1, <2>2 DEF EditTicket, ReportsInv
  <2>4. row.created = tickets[o].created
    BY <2>2 DEF ReportsInv, TicketRows
  <2>5. o \notin OrdersOf(day)
    BY <2>1 DEF Settled
  <2> QED
    BY <1>3, <2>1, <2>3, <2>4, <2>5
<1>5. ASSUME NEW c \in TicketCalls, MoveTicket(c)
      PROVE  OrdersOf(day)' = OrdersOf(day) /\ \A x \in OrdersOf(day) : tickets'[x] = tickets[x]
  <2>1. PICK o \in Tickets : o = writers[c].order /\ tickets[o].status # "ABSENT"
    BY <1>5, WriterHasOrder DEF MoveTicket
  <2>2. PICK row : row = [tickets[o] EXCEPT !.status = writers[c].write]
    OBVIOUS
  <2>3. tickets' = [tickets EXCEPT ![o] = row]
    BY <1>5, <2>1, <2>2 DEF MoveTicket, ReportsInv
  <2>4. row.created = tickets[o].created
    BY <2>2 DEF ReportsInv, TicketRows
  <2>5. o \notin OrdersOf(day)
    BY <2>1 DEF Settled
  <2> QED
    BY <1>3, <2>1, <2>3, <2>4, <2>5
<1> QED
  BY <1>1, <1>2, <1>4, <1>5
     DEF ReportsNext, reportVars, Tick, CreateReceipt, SettleReceipt, TestEdit, TestMove, Take, GiveUp

\* No later request is let in for an order of a settled day: the status machine
\* leads on from neither end, and an order that ended may not be edited.
LEMMA NoNewWriters ==
  ASSUME ReportsInv, [ReportsNext]_reportVars, NEW day \in Nat, Settled(day), NEW c \in TicketCalls
  PROVE  \/ writers'[c] = writers[c] \/ writers'[c] = NothingToWrite
         \/ writers'[c].order \notin OrdersOf(day)
<1>1. CASE UNCHANGED writers
  BY <1>1
<1>2. ASSUME NEW d \in TicketCalls, writers' = [writers EXCEPT ![d] = NothingToWrite]
      PROVE  writers'[c] = writers[c] \/ writers'[c] = NothingToWrite
  BY <1>2 DEF ReportsInv
<1>3. ASSUME NEW d \in TicketCalls, NEW o \in Tickets, NEW w, Take(d, o, w), o \notin OrdersOf(day)
      PROVE  writers'[c] = writers[c] \/ writers'[c].order \notin OrdersOf(day)
  <2>1. PICK task : task = [order |-> o, write |-> w]
    OBVIOUS
  <2>2. task.order = o
    BY <2>1
  <2>3. writers' = [writers EXCEPT ![d] = task]
    BY <1>3, <2>1 DEF Take
  <2> QED
    BY <1>3, <2>2, <2>3 DEF ReportsInv
<1>4. ASSUME NEW d \in TicketCalls, NEW o \in Tickets,
             TestEdit(d, o) \/ \E next \in TicketTargets : TestMove(d, o, next)
      PROVE  o \notin OrdersOf(day)
  <2>1. tickets[o].status \notin {"COMPLETED", "CANCELLED"}
    BY <1>4 DEF TestEdit, TestMove, EDITABLE_STATUSES, canTransition, ORDER_STATUS_TRANSITIONS
  <2> QED
    BY <2>1 DEF Settled
<1>5. ASSUME NEW d \in TicketCalls, NEW o \in Tickets,
             TestEdit(d, o) \/ \E next \in TicketTargets : TestMove(d, o, next)
      PROVE  writers'[c] = writers[c] \/ writers'[c].order \notin OrdersOf(day)
  BY <1>3, <1>4, <1>5 DEF TestEdit, TestMove
<1>6. \/ UNCHANGED writers
      \/ \E d \in TicketCalls : writers' = [writers EXCEPT ![d] = NothingToWrite]
      \/ \E d \in TicketCalls, o \in Tickets :
           TestEdit(d, o) \/ \E next \in TicketTargets : TestMove(d, o, next)
  BY DEF ReportsNext, reportVars, Tick, OpenTicket, CreateReceipt, SettleReceipt, EditTicket,
     MoveTicket, GiveUp
<1> QED
  BY <1>1, <1>2, <1>5, <1>6

\* Whatever happens next, a settled day stays settled and its summary the same.
LEMMA SettledStays ==
  ASSUME ReportsInv, [ReportsNext]_reportVars, NEW day \in AllDays, Settled(day)
  PROVE  Settled(day)' /\ getDailySummary(day)' = getDailySummary(day)
<1>1. day \in Nat /\ ReportsInv'
  BY NextKeepsReportsInv DEF AllDays
<1>2. OrdersOf(day)' = OrdersOf(day) /\ \A o \in OrdersOf(day) : tickets'[o] = tickets[o]
  BY <1>1, OrdersOfDayStay
<1>3. getDailySummary(day)' = getDailySummary(day)
  BY <1>1, <1>2, SameOrders
<1>4. DayOf(now') > day
  <2>1. now \in Nat /\ now' \in Nat /\ now <= now'
    <3>1. now' = now \/ now' = now + 1
      BY DEF ReportsNext, reportVars, Tick, OpenTicket, EditTicket, MoveTicket, GiveUp, TestEdit,
         TestMove, Take, CreateReceipt, SettleReceipt
    <3>2. now \in Nat
      BY DEF ReportsInv
    <3> QED
      BY <3>1, <3>2
  <2>2. PICK next \in Nat : next = day + 1
    BY <1>1
  <2>3. DayOf(now) \in Nat /\ (now >= dayRange(next).gte <=> DayOf(now) >= next)
    BY <2>1, <2>2, InRange
  <2>4. PICK later \in Nat : later = now'
    BY <2>1
  <2>5. DayOf(later) \in Nat /\ (later >= dayRange(next).gte <=> DayOf(later) >= next)
    BY <2>2, InRange
  <2>6. DayOf(now) >= next
    BY <1>1, <2>2, <2>3 DEF Settled
  <2>7. dayRange(next).gte \in Nat
    BY ReportsAssumption DEF ReportsAssumption, dayRange
  <2>8. DayOf(later) >= next
    BY <2>1, <2>3, <2>4, <2>5, <2>6, <2>7
  <2> QED
    BY <1>1, <2>2, <2>4, <2>5, <2>8
<1>5. \A c \in TicketCalls : writers'[c].order \notin OrdersOf(day)
  <2>1. NothingToWrite.order \notin OrdersOf(day)
    BY ReportsAssumption DEF ReportsAssumption, NothingToWrite, OrdersOf
  <2> QED
    BY <1>1, <2>1, NoNewWriters DEF Settled
<1>6. Settled(day)'
  BY <1>2, <1>4, <1>5 DEF Settled, DayOf
<1> QED
  BY <1>3, <1>6

\* Once a day is over, its orders completed or cancelled and no request under way
\* on any of them, nothing changes its summary any more: no later request passes
\* the tests of updateStatus, confirmOrder, markConfirmed, checkout or an edit.
THEOREM SettledDaysAreFinal == ReportsSpec => SettledDayIsFinal
<1>1. ASSUME ReportsInv, [ReportsNext]_reportVars
      PROVE  \A day \in AllDays : Settled(day) =>
               Settled(day)' /\ getDailySummary(day)' = getDailySummary(day)
  BY <1>1, SettledStays
<1> QED
  BY <1>1, ReportsInvariance, PTL DEF ReportsSpec, SettledDayIsFinal

-----------------------------------------------------------------------------
(***************************************************************************)
(* The back office as a whole: a component's steps are its own, whatever   *)
(* the others do in between, so what is proved of each holds of all.       *)
(***************************************************************************)
\* Every component goes by its own specification.
LEMMA ComponentsGoTheirWay ==
  BackOfficeSpec => /\ StockSpec /\ MenuSpec /\ AccessSpec
                    /\ BillingSpec /\ RealtimeSpec /\ ReportsSpec
<1>1. BackOfficeInit => /\ StockInit /\ MenuInit /\ AccessInit
                        /\ BillingInit /\ RealtimeInit /\ ReportsInit
  BY DEF BackOfficeInit
<1>2. [BackOfficeNext]_backOfficeVars =>
        /\ [StockNext]_stockVars /\ [MenuNext]_menuVars /\ [AccessNext]_accessVars
        /\ [BillingNext]_billingVars /\ [RealtimeNext]_realtimeVars /\ [ReportsNext]_reportVars
  BY DEF BackOfficeNext, backOfficeVars, StockStep, MenuStep, AccessStep, BillingStep,
         RealtimeStep, ReportsStep
<1> QED
  BY <1>1, <1>2, PTL DEF BackOfficeSpec, StockSpec, MenuSpec, AccessSpec, BillingSpec,
     RealtimeSpec, ReportsSpec

\* The rows and requests of every component are typed, in every interleaving.
THEOREM BackOfficeTypeCorrect == BackOfficeSpec => []BackOfficeTypeOK
<1>1. StockTypeOK /\ MenuTypeOK /\ AccessTypeOK /\ BillingTypeOK /\ RealtimeTypeOK /\ ReportsTypeOK
        => BackOfficeTypeOK
  BY DEF BackOfficeTypeOK
<1> QED
  BY <1>1, ComponentsGoTheirWay, StockTypeCorrect, MenuTypeCorrect, AccessTypeCorrect,
     BillingTypeCorrect, RealtimeTypeCorrect, ReportsTypeCorrect, PTL
=============================================================================
