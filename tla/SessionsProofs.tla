--------------------------- MODULE SessionsProofs ---------------------------
(***************************************************************************)
(* Proofs about the user sessions, for any users, any logind sessions and  *)
(* any length of the queues.                                               *)
(***************************************************************************)
EXTENDS Sessions, TLAPS

\* A Session object carries the id of a logind session of its own user.
OwnIds == \A u \in Users : sess[u] # NoId => sess[u] \in Ids /\ Owner[sess[u]] = u

\* The part of the state the invariants of the sessions are about.
Core ==
  /\ sess \in [Users -> Ids \cup {NoId}]
  /\ active \in Users \cup {Dde, NoUser}
  /\ enabled \subseteq Users
  /\ OwnIds
  /\ ActiveIsListed
  /\ OnlyActiveEnabled

\* What EndedSessionLocks asks of one step.
EndLocks == (active \in Users /\ active' = NoUser) => locked'

\* Handing the active session to another user, or failing to, keeps the
\* sockets and the ids consistent.
LEMMA UpdateKeeps ==
  ASSUME Core, NEW id \in Ids, NEW ok \in BOOLEAN,
         UpdateActiveUserSession(Owner[id], id, ok)
  PROVE  Core' /\ (active' # NoUser \/ active' = active)
<1> DEFINE u == Owner[id]
<1>1. u \in Users BY SessionsAssumption
<1>2. CASE sess[u] = NoId /\ ~ok
  BY <1>2 DEF UpdateActiveUserSession, session, Core, OwnIds, ActiveIsListed, OnlyActiveEnabled
<1>3. CASE ~(sess[u] = NoId /\ ~ok)
  <2>1. /\ sess' = [sess EXCEPT ![u] = IF sess[u] = NoId THEN id ELSE sess[u]]
        /\ active' = u
        /\ enabled' = (enabled \ {active}) \cup {u}
    BY <1>3 DEF UpdateActiveUserSession, EnsureSession
  <2>2. /\ sess' \in [Users -> Ids \cup {NoId}] /\ active' \in Users
        /\ enabled' \subseteq Users /\ active' # NoUser
    BY <1>1, <2>1, SessionsAssumption DEF Core
  <2>3. OwnIds' BY <1>1, <2>1, SessionsAssumption DEF Core, OwnIds
  <2>4. ActiveIsListed'
    BY <1>1, <2>1, SessionsAssumption DEF Core, OwnIds, ActiveIsListed
  <2>5. OnlyActiveEnabled' BY <1>1, <2>1 DEF Core, OnlyActiveEnabled
  <2> QED BY <2>2, <2>3, <2>4, <2>5 DEF Core
<1> QED BY <1>2, <1>3

\* The end of a logind session removes the session that carries its id, and
\* locks if it was the active one.
LEMMA RemoveKeeps ==
  ASSUME Core, NEW id \in Ids, OnSessionRemoved(id)
  PROVE  Core' /\ EndLocks
<1>1. CASE \E u \in Users : sess[u] = id
  <2> DEFINE c == CHOOSE u \in Users : sess[u] = id
  <2>1. c \in Users /\ sess[c] = id BY <1>1
  <2> HIDE DEF c
  <2>2. RemoveSession(c) /\ (active = c => locked')
    BY <1>1, <2>1 DEF OnSessionRemoved, c
  <2>3. /\ sess' = [sess EXCEPT ![c] = NoId]
        /\ active' = IF active = c THEN NoUser ELSE active
        /\ enabled' = enabled \ {c}
    BY <2>2 DEF RemoveSession
  <2>4. /\ sess' \in [Users -> Ids \cup {NoId}]
        /\ active' \in Users \cup {Dde, NoUser} /\ enabled' \subseteq Users
    BY <2>1, <2>3 DEF Core
  <2>5. OwnIds' BY <2>1, <2>3 DEF Core, OwnIds
  <2>6. ActiveIsListed' BY <2>1, <2>3, SessionsAssumption DEF Core, ActiveIsListed
  <2>7. OnlyActiveEnabled' BY <2>1, <2>3, SessionsAssumption DEF Core, OnlyActiveEnabled
  <2>8. EndLocks BY <2>2, <2>3, SessionsAssumption DEF EndLocks
  <2> QED BY <2>4, <2>5, <2>6, <2>7, <2>8 DEF Core
<1>2. CASE ~\E u \in Users : sess[u] = id
  <2>1. UNCHANGED session BY <1>2 DEF OnSessionRemoved
  <2> QED
    BY <2>1, SessionsAssumption
    DEF session, Core, OwnIds, ActiveIsListed, OnlyActiveEnabled, EndLocks
<1> QED BY <1>1, <1>2

\* Every step keeps the sessions consistent and locks when the active one ends.
LEMMA SessionStep == TypeOK /\ Core /\ [Next]_vars => Core' /\ (EndLocks \/ UNCHANGED vars)
<1> SUFFICES ASSUME TypeOK, Core, [Next]_vars PROVE Core' /\ (EndLocks \/ UNCHANGED vars)
  OBVIOUS
<1>s. ASSUME UNCHANGED session PROVE Core' /\ EndLocks
  BY <1>s, SessionsAssumption
  DEF session, Core, OwnIds, ActiveIsListed, OnlyActiveEnabled, EndLocks
<1>u. ASSUME NEW id \in Ids, NEW ok \in BOOLEAN,
             UpdateActiveUserSession(Owner[id], id, ok)
      PROVE  Core' /\ EndLocks
  <2>1. Core' /\ (active' # NoUser \/ active' = active) BY <1>u, UpdateKeeps
  <2> QED BY <2>1, SessionsAssumption DEF EndLocks
<1>1. ASSUME NEW id \in Ids, NEW ok \in BOOLEAN, OnSessionNew(id, ok)
      PROVE  Core' /\ EndLocks
  BY <1>1, <1>u DEF OnSessionNew
<1>2. ASSUME NEW id \in Ids, OnSessionRemoved(id) PROVE Core' /\ EndLocks
  BY <1>2, RemoveKeeps
<1>3. ASSUME NEW m \in Messages, DdmSend(m) PROVE Core' /\ EndLocks
  BY <1>3, <1>s DEF DdmSend
<1>4. ASSUME NEW ok \in BOOLEAN, UserActivate(ok) \/ UserLoggedIn(ok)
      PROVE  Core' /\ EndLocks
  <2>1. inbox # <<>> /\ UpdateActiveUserSession(Owner[Head(inbox)[2]], Head(inbox)[2], ok)
    BY <1>4 DEF UserActivate, UserLoggedIn
  <2>2. Head(inbox) \in Messages BY <2>1 DEF TypeOK
  <2>3. Head(inbox)[2] \in Ids BY <2>2 DEF Messages
  <2> QED BY <1>u, <2>1, <2>3
<1>5. ASSUME NEW u \in Users, SetCurrentUserName(u) PROVE Core' /\ EndLocks
  BY <1>5, <1>s DEF SetCurrentUserName
<1>6. CASE Lock \/ LocalUnlock BY <1>6, <1>s DEF Lock, LocalUnlock
<1>7. ASSUME NEW kind \in Kinds, NEW id \in Ids, OnSignal(kind, id)
      PROVE  Core' /\ EndLocks
  BY <1>7, <1>s DEF OnSignal
<1>8. ASSUME NEW j \in Jobs, Worker(j) PROVE Core' /\ EndLocks
  BY <1>8, <1>s DEF Worker
<1>9. CASE PostedCall BY <1>9, <1>s DEF PostedCall
<1>10. CASE UNCHANGED vars BY <1>10, <1>s DEF vars, session
<1> QED
  BY <1>1, <1>2, <1>3, <1>4, <1>5, <1>6, <1>7, <1>8, <1>9, <1>10 DEF Next

\* The queues only ever hold what they are meant to.
LEMMA TypeStep == TypeOK /\ Core /\ Core' /\ [Next]_vars => TypeOK'
<1> SUFFICES ASSUME TypeOK, Core, Core', [Next]_vars PROVE TypeOK'
  OBVIOUS
<1> USE DEF TypeOK
<1>0. /\ sess' \in [Users -> Ids \cup {NoId}]
      /\ active' \in Users \cup {Dde, NoUser} /\ enabled' \subseteq Users
  BY DEF Core
<1>o. \A id \in Ids : Owner[id] \in Users BY SessionsAssumption
<1>m. inbox # <<>> =>
        /\ Tail(inbox) \in Seq(Messages) /\ Head(inbox) \in Messages
        /\ Head(inbox)[2] \in Ids
  <2>1. inbox # <<>> => Tail(inbox) \in Seq(Messages) /\ Head(inbox) \in Messages
    OBVIOUS
  <2> QED BY <2>1 DEF Messages
<1>1. ASSUME NEW id \in Ids, NEW ok \in BOOLEAN, OnSessionNew(id, ok) PROVE TypeOK'
  BY <1>0, <1>1 DEF OnSessionNew
<1>2. ASSUME NEW id \in Ids, OnSessionRemoved(id) PROVE TypeOK'
  BY <1>0, <1>2 DEF OnSessionRemoved
<1>3. ASSUME NEW m \in Messages, DdmSend(m) PROVE TypeOK'
  BY <1>0, <1>3 DEF DdmSend, session
<1>4. ASSUME NEW ok \in BOOLEAN, UserActivate(ok) PROVE TypeOK'
  BY <1>0, <1>m, <1>o, <1>4 DEF UserActivate
<1>5. ASSUME NEW ok \in BOOLEAN, UserLoggedIn(ok) PROVE TypeOK'
  <2>1. <<"wire", Head(inbox)[2]>> \in Jobs BY <1>m, <1>5 DEF UserLoggedIn, Jobs
  <2> QED BY <1>0, <1>m, <1>5, <2>1 DEF UserLoggedIn
<1>6. ASSUME NEW u \in Users, SetCurrentUserName(u) PROVE TypeOK'
  BY <1>0, <1>6 DEF SetCurrentUserName
<1>7. CASE Lock \/ LocalUnlock BY <1>0, <1>7 DEF Lock, LocalUnlock
<1>8. ASSUME NEW kind \in Kinds, NEW id \in Ids, OnSignal(kind, id) PROVE TypeOK'
  <2>1. <<kind, id>> \in Jobs BY DEF Jobs
  <2> QED BY <1>0, <1>8, <2>1 DEF OnSignal
<1>9. ASSUME NEW j \in Jobs, Worker(j) PROVE TypeOK'
  <2>1. j[2] \in Ids BY DEF Jobs
  <2>2. calls' \in Seq(Kinds) BY <1>9 DEF Worker
  <2> QED BY <1>0, <1>9, <2>1, <2>2 DEF Worker
<1>10. CASE PostedCall
  <2>1. calls' \in Seq(Kinds) /\ locked' \in BOOLEAN BY <1>10 DEF PostedCall
  <2> QED BY <1>0, <1>10, <2>1 DEF PostedCall
<1>11. CASE UNCHANGED vars BY <1>0, <1>11 DEF vars
<1> QED
  BY <1>1, <1>2, <1>3, <1>4, <1>5, <1>6, <1>7, <1>8, <1>9, <1>10, <1>11 DEF Next

\* The compositor starts with the session of "dde" only.
LEMMA InitEstablishes == Init => TypeOK /\ Core
<1> SUFFICES ASSUME Init PROVE TypeOK /\ Core
  OBVIOUS
<1>a. calls \in Seq(Kinds) /\ inbox \in Seq(Messages) BY DEF Init
<1>b. sess \in [Users -> Ids \cup {NoId}] /\ logind \subseteq Ids
  BY DEF Init
<1>c. pool \subseteq Jobs /\ wired \subseteq Ids /\ enabled \subseteq Users
  BY DEF Init
<1>1. TypeOK BY <1>a, <1>b, <1>c DEF Init, TypeOK
<1>2. OwnIds /\ ActiveIsListed /\ OnlyActiveEnabled
  BY SessionsAssumption DEF Init, OwnIds, ActiveIsListed, OnlyActiveEnabled
<1> QED BY <1>1, <1>2 DEF Core, TypeOK

\* The invariant and its strengthening hold throughout.
LEMMA CoreHolds == Spec => [](TypeOK /\ Core)
<1>2. (TypeOK /\ Core) /\ [Next]_vars => (TypeOK /\ Core)'
  BY SessionStep, TypeStep
<1> QED BY <1>2, InitEstablishes, PTL DEF Spec

\* Sessions, jobs, posted calls and messages of DDM keep their types.
THEOREM SessionTypes == Spec => []TypeOK
BY CoreHolds, PTL

\* At any time only the active session has an enabled socket and the active
\* session is a listed one that belongs to its user, for any users, sessions
\* and number of pending jobs, calls and messages.
THEOREM SessionSafety == Spec => []ActiveSessionServed
<1>1. TypeOK /\ Core => ActiveSessionServed BY DEF Core, ActiveSessionServed
<1> QED BY <1>1, CoreHolds, PTL

\* The greeter is locked in the step in which the active session ends.
THEOREM EndOfSessionLocks == Spec => EndedSessionLocks
<1>1. (TypeOK /\ Core) /\ [Next]_vars
        => (TypeOK /\ Core)' /\ [(active \in Users /\ active' = NoUser) => locked']_vars
  BY SessionStep, TypeStep DEF EndLocks
<1> QED BY <1>1, InitEstablishes, PTL DEF Spec, EndedSessionLocks

=============================================================================
