------------------------------ MODULE Sessions ------------------------------
(***************************************************************************)
(* The user sessions of SessionManager and the listeners of GreeterProxy   *)
(* that keep them in step with logind (over D-Bus) and with DDM (over a    *)
(* socket).  The two channels are not ordered with respect to each other.  *)
(*                                                                         *)
(* Lock and Unlock signals are handled on worker threads of the global     *)
(* thread pool, which look at the active session and post a call back to   *)
(* the main thread; what the lock screen does then is in module LockScreen.*)
(***************************************************************************)
EXTENDS Naturals, Sequences, FiniteSets

CONSTANTS
  Users,     \* the users of UserModel
  Ids,       \* logind session ids
  Owner,     \* the user a logind session belongs to
  Dde,       \* the greeter's user, whose session has no logind session
  NoUser,    \* no active session, or an empty current user name
  NoId,      \* the user has no Session object
  MaxJobs,   \* bound on jobs in the thread pool and calls posted by them
  MaxInbox   \* bound on the messages of DDM under way

ASSUME SessionsAssumption ==
  /\ Owner \in [Ids -> Users]
  /\ Dde \notin Users /\ NoUser \notin Users /\ NoUser # Dde /\ NoId \notin Ids
  /\ MaxJobs \in Nat /\ MaxInbox \in Nat

VARIABLES
  logind,     \* sessions alive in logind
  sess,       \* Session::m_id of the session of a user in m_sessions
  active,     \* the user of m_activeSession
  enabled,    \* users whose WSocket is enabled (that of "dde" always is)
  current,    \* UserModel::currentUserName()
  hasActive,  \* GreeterProxy::m_hasActiveSession
  locked,     \* GreeterProxy::m_isLocked
  wired,      \* sessions whose Lock and Unlock signals reach GreeterProxy
  pool,       \* jobs in the thread pool
  calls,      \* calls posted to the main thread
  inbox       \* messages of DDM not read yet

session == <<sess, active, enabled>>
vars == <<logind, session, current, hasActive, locked, wired, pool, calls, inbox>>

Kinds    == {"lock", "unlock"}
Jobs     == (Kinds \cup {"wire"}) \X Ids
Messages == {"activate", "loggedIn"} \X Ids

TypeOK ==
  /\ logind \subseteq Ids
  /\ sess \in [Users -> Ids \cup {NoId}]
  /\ active \in Users \cup {Dde, NoUser}
  /\ enabled \subseteq Users
  /\ current \in Users \cup {Dde, NoUser}
  /\ hasActive \in BOOLEAN
  /\ locked \in BOOLEAN
  /\ wired \subseteq Ids
  /\ pool \subseteq Jobs
  /\ calls \in Seq(Kinds)
  /\ inbox \in Seq(Messages)

\* The sessions of users that were there before the compositor (re)started are
\* alive; the compositor itself starts with the session of "dde".
Init ==
  /\ logind \in SUBSET Ids
  /\ sess = [u \in Users |-> NoId]
  /\ active = Dde
  /\ enabled = {}
  /\ current \in Users \cup {Dde}
  /\ hasActive = FALSE
  /\ locked = FALSE
  /\ wired = {}
  /\ pool = {}
  /\ calls = <<>>
  /\ inbox = <<>>

-----------------------------------------------------------------------------
\* activeSession()->id(), NoId for no session; the session of "dde" has an id
\* no logind session has.
ActiveId == IF active \in Users THEN sess[active] ELSE NoId

\* The users in SessionManager::m_sessions.
Listed(s) == {Dde} \cup {u \in Users : s[u] # NoId}

\* ensureSession: reuse the session of the user whatever its id, or create one.
EnsureSession(u, id) == [sess EXCEPT ![u] = IF @ = NoId THEN id ELSE @]

\* Fault: the socket of the previous session stays enabled.
UpdateActiveKeepsPrevious(u, id, ok) ==
  IF sess[u] = NoId /\ ~ok
  THEN UNCHANGED session
  ELSE /\ sess' = EnsureSession(u, id)
       /\ active' = u
       /\ enabled' = enabled \cup {u}

\* prepareActiveUserSession and commitActiveUserSession: if the session is
\* there or its creation succeeds (ok), hand the socket over to it.
UpdateActiveUserSession(u, id, ok) ==
  IF sess[u] = NoId /\ ~ok
  THEN UNCHANGED session
  ELSE /\ sess' = EnsureSession(u, id)
       /\ active' = u
       /\ enabled' = (enabled \ {active}) \cup {u}

\* removeSession.
RemoveSession(u) ==
  /\ sess' = [sess EXCEPT ![u] = NoId]
  /\ active' = IF active = u THEN NoUser ELSE active
  /\ enabled' = enabled \ {u}
-----------------------------------------------------------------------------
\* logind announces a session DDM started: GreeterProxy::onSessionNew.
OnSessionNew(id, ok) ==
  LET u == Owner[id]
  IN /\ id \notin logind
     /\ logind' = logind \cup {id}
     /\ UpdateActiveUserSession(u, id, ok)
     /\ wired' = wired \cup {id}
     /\ locked' = (locked /\ current # u)
     /\ hasActive' = TRUE
     /\ UNCHANGED <<current, pool, calls, inbox>>

\* Fault: the active session is compared after it was removed.
OnSessionRemovedLate(id) ==
  /\ id \in logind
  /\ logind' = logind \ {id}
  /\ wired' = wired \ {id}
  /\ IF \E u \in Users : sess[u] = id
     THEN RemoveSession(CHOOSE u \in Users : sess[u] = id)
     ELSE UNCHANGED session
  /\ locked' = (locked \/ \E u \in Users : sess[u] = id /\ active' = u)
  /\ hasActive' = (hasActive /\ Listed(sess') # {})
  /\ UNCHANGED <<current, pool, calls, inbox>>

\* A session ends: GreeterProxy::onSessionRemoved.
OnSessionRemoved(id) ==
  /\ id \in logind
  /\ logind' = logind \ {id}
  /\ wired' = wired \ {id}
  /\ IF \E u \in Users : sess[u] = id
     THEN RemoveSession(CHOOSE u \in Users : sess[u] = id)
     ELSE UNCHANGED session
  /\ locked' = (locked \/ \E u \in Users : sess[u] = id /\ active = u)
  /\ hasActive' = (hasActive /\ Listed(sess') # {})
  /\ UNCHANGED <<current, pool, calls, inbox>>

\* DDM writes a message about a session that is alive now.
DdmSend(m) ==
  /\ m[2] \in logind
  /\ Len(inbox) < MaxInbox
  /\ inbox' = Append(inbox, m)
  /\ UNCHANGED <<logind, session, current, hasActive, locked, wired, pool, calls>>

\* readyRead, UserActivateMessage: WaylandServer::activateUserSession.
UserActivate(ok) ==
  /\ inbox # <<>>
  /\ inbox' = Tail(inbox)
  /\ Head(inbox)[1] = "activate"
  /\ LET id == Head(inbox)[2]
         u  == Owner[id]
     IN /\ UpdateActiveUserSession(u, id, ok)
        /\ current' = IF sess[u] = NoId /\ ~ok THEN current ELSE u
  /\ UNCHANGED <<logind, hasActive, locked, wired, pool, calls>>

\* readyRead, UserLoggedIn: the session is made active, its signals are
\* connected by a job of the thread pool.
UserLoggedIn(ok) ==
  /\ inbox # <<>>
  /\ inbox' = Tail(inbox)
  /\ Head(inbox)[1] = "loggedIn"
  /\ Cardinality(pool) + Len(calls) < MaxJobs
  /\ LET id == Head(inbox)[2]
     IN /\ UpdateActiveUserSession(Owner[id], id, ok)
        /\ pool' = pool \cup {<<"wire", id>>}
  /\ UNCHANGED <<logind, current, hasActive, locked, wired, calls>>

\* setCurrentUserName, from LastLogin and from the ddm protocol.
SetCurrentUserName(u) ==
  /\ current' = u
  /\ UNCHANGED <<logind, session, hasActive, locked, wired, pool, calls, inbox>>

\* GreeterProxy::lock: without a user session setLock(true), otherwise only a
\* request to DDM.
Lock ==
  /\ active \notin Users
  /\ locked' = TRUE
  /\ UNCHANGED <<logind, session, current, hasActive, wired, pool, calls, inbox>>

\* login and unlock check the password themselves when DDM is not there.
LocalUnlock ==
  /\ locked' = FALSE
  /\ UNCHANGED <<logind, session, current, hasActive, wired, pool, calls, inbox>>
-----------------------------------------------------------------------------
\* onSessionLock and onSessionUnlock: a job asks logind for the session.
OnSignal(kind, id) ==
  /\ id \in logind \cap wired
  /\ Cardinality(pool) + Len(calls) < MaxJobs
  /\ pool' = pool \cup {<<kind, id>>}
  /\ UNCHANGED <<logind, session, current, hasActive, locked, wired, calls, inbox>>

\* Fault: the job that connects the signals posts a call, too.
WorkerPostsAll(j) ==
  /\ j \in pool
  /\ pool' = pool \ {j}
  /\ calls' = IF j[2] \in logind /\ ActiveId = j[2] THEN Append(calls, j[1]) ELSE calls
  /\ wired' = IF j[1] = "wire" /\ j[2] \in logind THEN wired \cup {j[2]} ELSE wired
  /\ UNCHANGED <<logind, session, current, hasActive, locked, inbox>>

\* Fault: the Lock signal is never passed on.
WorkerDropsLock(j) ==
  /\ j \in pool
  /\ pool' = pool \ {j}
  /\ calls' = IF j[1] = "unlock" /\ j[2] \in logind /\ ActiveId = j[2]
              THEN Append(calls, j[1]) ELSE calls
  /\ wired' = IF j[1] = "wire" /\ j[2] \in logind THEN wired \cup {j[2]} ELSE wired
  /\ UNCHANGED <<logind, session, current, hasActive, locked, inbox>>

\* A worker thread runs a job: the signals of the active session are passed on
\* to the main thread, others are ignored (or answered with a Lock request).
Worker(j) ==
  /\ j \in pool
  /\ pool' = pool \ {j}
  /\ calls' = IF j[1] \in Kinds /\ j[2] \in logind /\ ActiveId = j[2]
              THEN Append(calls, j[1]) ELSE calls
  /\ wired' = IF j[1] = "wire" /\ j[2] \in logind THEN wired \cup {j[2]} ELSE wired
  /\ UNCHANGED <<logind, session, current, hasActive, locked, inbox>>

\* The main thread runs the calls in the order they were posted.
PostedCall ==
  /\ calls # <<>>
  /\ calls' = Tail(calls)
  /\ locked' = (Head(calls) = "lock")
  /\ UNCHANGED <<logind, session, current, hasActive, wired, pool, inbox>>

Next ==
  \/ \E id \in Ids, ok \in BOOLEAN : OnSessionNew(id, ok)
  \/ \E id \in Ids : OnSessionRemoved(id)
  \/ \E m \in Messages : DdmSend(m)
  \/ \E ok \in BOOLEAN : UserActivate(ok) \/ UserLoggedIn(ok)
  \/ \E u \in Users : SetCurrentUserName(u)
  \/ Lock \/ LocalUnlock
  \/ \E kind \in Kinds, id \in Ids : OnSignal(kind, id)
  \/ \E j \in Jobs : Worker(j)
  \/ PostedCall

\* The thread pool runs every job and the event loop every posted call.
Fairness ==
  /\ \A j \in Jobs : WF_vars(Worker(j))
  /\ WF_vars(PostedCall)

Spec == Init /\ [][Next]_vars /\ Fairness
-----------------------------------------------------------------------------
\* At any time at most the active session has an enabled socket (and that of
\* the greeter), through logins, switches, failures and removals: clients of a
\* session that is not active are frozen.
OnlyActiveEnabled == enabled = {active} \cap Users

\* The active session is one of m_sessions and belongs to its user, so the id
\* a worker thread compares is that of a session that is still there.
ActiveIsListed ==
  active \in Users => sess[active] # NoId /\ Owner[sess[active]] = active

\* The two together, through overlapping sessions of a user, creations that
\* fail and messages that come late.
ActiveSessionServed == OnlyActiveEnabled /\ ActiveIsListed

\* When the active session goes away the greeter is locked in the same step.
EndedSessionLocks ==
  [][(active \in Users /\ active' = NoUser) => locked']_vars

\* A Lock signal of a session that is and stays active locks the greeter,
\* whatever other signals the thread pool handles before or after it.
LockSignalHonoured ==
  \A id \in Ids :
    [](<<"lock", id>> \in pool /\ [](ActiveId = id /\ id \in logind) => <>locked)

\* greeterproxy.h describes hasActiveSession as whether there is an active user
\* session; onSessionRemoved means to clear the flag with the last one.
LastSessionClearsFlag ==
  [][(Listed(sess) # {Dde} /\ Listed(sess') = {Dde}) => ~hasActive']_vars
=============================================================================
