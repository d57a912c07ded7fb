----------------------------- MODULE UserConfig -----------------------------
(***************************************************************************)
(* The per-user configuration switch of DConfigManager, together with the  *)
(* parts of Treeland, UserModel and WaylandServer it works with.           *)
(*                                                                         *)
(* Every user has two DConfig objects, one for the user and one for the    *)
(* user on the default seat; both are created on first use and cached for  *)
(* ever, and both are loaded by another process.  Treeland starts once the *)
(* objects of its first user are loaded; afterwards every change of the    *)
(* current user makes DConfigManager wait for the objects of the new user  *)
(* and hand them to WaylandServer, whatever else happens in between.       *)
(***************************************************************************)
EXTENDS FiniteSets

CONSTANTS
  Users,    \* the user names the session can be switched to
  Dde,      \* the user name of the greeter, "dde" in the code
  NoUser    \* the empty user name, and the null pending configuration

ASSUME UsersAssumption == NoUser \notin Users

VARIABLES
  phase,        \* "boot", "waiting", "running" or "stopped"
  currentUser,  \* UserModel::currentUserName()
  cfg,          \* loading state of the cached DConfig object of a user
  config,       \* the user whose object is WaylandServer::m_config
  seatUser,     \* InputManager::m_userName
  pending,      \* the user of m_pendingUserName / -UserConfig / -SeatConfig
  watch         \* objects whose init signals are connected to the manager

vars == <<phase, currentUser, cfg, config, seatUser, pending, watch>>

Kinds   == {"user", "seat"}
Results == {"succeeded", "failed"}
Objects == Users \X Kinds

TypeOK ==
  /\ phase \in {"boot", "waiting", "running", "stopped"}
  /\ currentUser \in Users \cup {NoUser}
  /\ cfg \in [Objects -> {"absent", "loading"} \cup Results]
  /\ config \in Users \cup {NoUser}
  /\ seatUser \in Users \cup {NoUser}
  /\ pending \in Users \cup {NoUser}
  /\ watch \subseteq Objects

Of(u) == {u} \X Kinds

\* userConfigInitializationFinished and seatConfigInitializationFinished.
Finished(c, u) == \A o \in Of(u) : c[o] \in Results

\* Fault: the lookup of an empty name caches an object for it.
CreatedUnknown(u) ==
  [o \in Objects \cup Of(u) |->
     IF o \in Of(u) /\ (o \notin Objects \/ cfg[o] = "absent") THEN "loading" ELSE cfg[o]]

\* userConfig() and userSeatConfig(): create the object once, then reuse it.
Created(u) ==
  [o \in Objects |-> IF o \in Of(u) /\ cfg[o] = "absent" THEN "loading" ELSE cfg[o]]

Init ==
  /\ phase = "boot"
  /\ currentUser \in Users
  /\ cfg = [o \in Objects |-> "absent"]
  /\ config = NoUser
  /\ seatUser = NoUser
  /\ pending = NoUser
  /\ watch = {}

-----------------------------------------------------------------------------
\* configReady and its only receiver, WaylandServer::applyCurrentUserConfig.
\* The greeter's user takes the early return before the seat configuration.
Apply(u) ==
  /\ config' = u
  /\ seatUser' = IF u = Dde THEN seatUser ELSE u

\* Fault: the current user is not compared with the pending one.
OnPendingNoStaleCheck(p, cur, c, w) ==
  IF ~Finished(c, p)
  THEN pending' = p /\ watch' = w /\ UNCHANGED <<config, seatUser>>
  ELSE pending' = NoUser /\ watch' = w /\ Apply(p)

\* Fault: the seat object of the pending user is not waited for.
OnPendingUserOnly(p, cur, c, w) ==
  IF c[<<p, "user">>] \notin Results
  THEN pending' = p /\ watch' = w /\ UNCHANGED <<config, seatUser>>
  ELSE /\ pending' = NoUser /\ watch' = w
       /\ IF cur = p THEN Apply(p) ELSE UNCHANGED <<config, seatUser>>

\* onPendingUserConfigInitialized, for pending user p, current user cur,
\* object states c and connections w.
OnPendingUserConfigInitialized(p, cur, c, w) ==
  IF ~Finished(c, p)
  THEN /\ pending' = p
       /\ watch' = w
       /\ UNCHANGED <<config, seatUser>>
  ELSE /\ pending' = NoUser
       /\ watch' = w
       /\ IF cur = p THEN Apply(p) ELSE UNCHANGED <<config, seatUser>>

\* Fault: the objects of the previous pending user stay connected.
UpdateCurrentUserNoDisconnect(u, conf, c) ==
  IF u = NoUser
  THEN UNCHANGED <<config, seatUser, pending, watch>>
  ELSE OnPendingUserConfigInitialized(u, u, c,
         watch \cup {o \in Of(u) : c[o] \notin Results})

\* Fault: a second switch is ignored while one is pending.
UpdateCurrentUserBusy(u, conf, c) ==
  IF u = NoUser \/ pending # NoUser
  THEN UNCHANGED <<config, seatUser, pending, watch>>
  ELSE OnPendingUserConfigInitialized(u, u, c,
         {o \in Of(u) : c[o] \notin Results})

\* updateCurrentUser, for new current user u, served config conf and objects c.
UpdateCurrentUser(u, conf, c) ==
  IF u = NoUser
  THEN UNCHANGED <<config, seatUser, pending, watch>>
  ELSE IF u = conf /\ u = pending
       THEN Apply(u) /\ UNCHANGED <<pending, watch>>
       ELSE OnPendingUserConfigInitialized(u, u, c,
              (watch \ Of(pending)) \cup {o \in Of(u) : c[o] \notin Results})

-----------------------------------------------------------------------------
\* TreelandPrivate::init: ask for the objects of the first user.
Boot ==
  /\ phase = "boot"
  /\ phase' = "waiting"
  /\ cfg' = Created(currentUser)
  /\ UNCHANGED <<currentUser, config, seatUser, pending, watch>>

\* initializeWhenReady: once both objects are loaded, construct WaylandServer
\* with the first user's object as m_config and follow the current user.
StartServer(c) ==
  IF Finished(c, currentUser)
  THEN /\ phase' = "running"
       /\ UpdateCurrentUser(currentUser, currentUser, c)
  ELSE UNCHANGED <<phase, config, seatUser, pending, watch>>

\* An object reports the end of its initialization (configInitializeSucceed or
\* configInitializeFailed); whoever is connected to it runs at once.
ConfigInitialized(o, result) ==
  /\ cfg[o] = "loading"
  /\ cfg' = [cfg EXCEPT ![o] = result]
  /\ UNCHANGED currentUser
  /\ \/ phase = "waiting" /\ StartServer(cfg')
     \/ /\ phase \in {"running", "stopped"}
        /\ UNCHANGED phase
        /\ IF o \in watch /\ o \in Of(pending)
           THEN OnPendingUserConfigInitialized(pending, currentUser, cfg', watch \ {o})
           ELSE watch' = watch \ {o} /\ UNCHANGED <<config, seatUser, pending>>

\* UserModel::setCurrentUserName: from DDM's messages (LastLogin,
\* UserActivateMessage) and from the ddm protocol, whose name may be empty.
SetCurrentUserName(u) ==
  /\ phase = "running"
  /\ currentUser' = u
  /\ cfg' = Created(u)
  /\ UpdateCurrentUser(u, config, cfg')
  /\ UNCHANGED phase

\* stopActiveUserConfig, from the destructor of WaylandServer.
StopActiveUserConfig ==
  /\ phase = "running"
  /\ phase' = "stopped"
  /\ pending' = NoUser
  /\ watch' = watch \ Of(pending)
  /\ UNCHANGED <<currentUser, cfg, config, seatUser>>

Next ==
  \/ Boot
  \/ \E o \in Objects, r \in Results : ConfigInitialized(o, r)
  \/ \E u \in Users \cup {NoUser} : SetCurrentUserName(u)
  \/ StopActiveUserConfig

Fairness ==
  /\ WF_vars(Boot)
  /\ \A o \in Objects : WF_vars(\E r \in Results : ConfigInitialized(o, r))

Spec == Init /\ [][Next]_vars /\ Fairness
-----------------------------------------------------------------------------
\* The manager is connected to exactly the objects it still waits for: those
\* of the pending user that are loading.  A signal of an abandoned switch
\* (updateCurrentUser disconnects the previous pending pair) reaches nobody.
WatchesOnlyPending ==
  watch = IF pending = NoUser THEN {} ELSE {o \in Of(pending) : cfg[o] = "loading"}

\* A pending switch is one that has to wait, for the current user (or for the
\* one before an empty name), and never for the user already served: the
\* shortcut of updateCurrentUser for an unchanged configuration cannot hand
\* out a seat object that is still loading.
PendingIsUnfinished ==
  pending # NoUser =>
    /\ ~Finished(cfg, pending)
    /\ pending # config
    /\ currentUser \in {pending, NoUser}

\* The two together: a pending switch is watched until it is finished, and
\* nothing else is.
PendingIsWatched == WatchesOnlyPending /\ PendingIsUnfinished

\* WaylandServer and InputManager only ever serve users whose two objects have
\* both finished loading (or failed, leaving the generated defaults).
ServesLoadedConfig ==
  /\ config # NoUser => Finished(cfg, config)
  /\ seatUser # NoUser => Finished(cfg, seatUser)

\* applyCurrentUserConfig never installs the configuration of a user who is no
\* longer the current one, however late the objects finish.
NoStaleSwitch ==
  [][config' # config => config' = currentUser']_vars

\* Once the current user stops changing, its configuration and its seat
\* configuration are the ones in use.  The greeter's user keeps the seat
\* configuration of the user before it.
SwitchCompletes ==
  \A u \in Users :
    <>[](phase = "running" /\ currentUser = u)
      => <>[](config = u /\ (u = Dde \/ seatUser = u))
=============================================================================
