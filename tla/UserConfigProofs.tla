-------------------------- MODULE UserConfigProofs --------------------------
(***************************************************************************)
(* Proofs about UserConfig, for any set of users.                          *)
(***************************************************************************)
EXTENDS UserConfig, TLAPS

\* Between the start of Treeland and the construction of WaylandServer nobody
\* is served and nothing is pending, and the current user's objects exist.
StartInv ==
  /\ phase \in {"boot", "waiting"} => config = NoUser /\ seatUser = NoUser /\ pending = NoUser
  /\ phase = "stopped" => pending = NoUser
  /\ phase # "boot" /\ currentUser # NoUser => \A o \in Of(currentUser) : cfg[o] # "absent"
  /\ pending # NoUser => \A o \in Of(pending) : cfg[o] # "absent"

IInv ==
  /\ TypeOK
  /\ StartInv
  /\ WatchesOnlyPending
  /\ PendingIsUnfinished
  /\ ServesLoadedConfig

\* The initial state satisfies the inductive invariant.
LEMMA InitIInv == Init => IInv
BY UsersAssumption DEF Init, IInv, TypeOK, StartInv, WatchesOnlyPending,
   PendingIsUnfinished, ServesLoadedConfig, Objects, Results, Of, Finished

\* Every step of the configuration switch preserves the inductive invariant.
LEMMA NextIInv == IInv /\ [Next]_vars => IInv'
<1> SUFFICES ASSUME IInv, [Next]_vars PROVE IInv'
  OBVIOUS
<1> USE UsersAssumption DEF IInv, TypeOK, StartInv, WatchesOnlyPending,
      PendingIsUnfinished, ServesLoadedConfig, Objects, Kinds, Results, Of, Finished
<1>1. CASE Boot
  BY <1>1 DEF Boot, Created
<1>2. ASSUME NEW o \in Objects, NEW r \in Results, ConfigInitialized(o, r)
      PROVE  IInv'
  <2>1. CASE phase = "waiting" /\ StartServer(cfg')
    BY <1>2, <2>1 DEF ConfigInitialized, StartServer, UpdateCurrentUser,
       OnPendingUserConfigInitialized, Apply
  <2>2. CASE phase \in {"running", "stopped"} /\ o \in watch /\ o \in Of(pending)
    BY <1>2, <2>2 DEF ConfigInitialized, OnPendingUserConfigInitialized, Apply
  <2>3. CASE phase \in {"running", "stopped"} /\ o \notin watch
    BY <1>2, <2>3 DEF ConfigInitialized
  <2> QED
    BY <1>2, <2>1, <2>2, <2>3 DEF ConfigInitialized
<1>3. ASSUME NEW u \in Users \cup {NoUser}, SetCurrentUserName(u)
      PROVE  IInv'
  <2>1. /\ phase = "running" /\ phase' = phase
        /\ currentUser' = u
        /\ cfg' = Created(u)
        /\ UpdateCurrentUser(u, config, cfg')
    BY <1>3 DEF SetCurrentUserName
  <2>2. /\ cfg' \in [Objects -> {"absent", "loading"} \cup Results]
        /\ \A o \in Objects : cfg[o] # "absent" => cfg'[o] = cfg[o]
        /\ \A o \in Objects : o \in Of(u) => cfg'[o] # "absent"
    BY <2>1 DEF Created
  <2>3. CASE u = NoUser
    BY <2>1, <2>2, <2>3 DEF UpdateCurrentUser
  <2>4. CASE u # NoUser /\ Finished(cfg', u)
    <3>1. /\ pending' = NoUser
          /\ config' = u
          /\ seatUser' = IF u = Dde THEN seatUser ELSE u
          /\ watch' = (watch \ Of(pending)) \cup {o \in Of(u) : cfg'[o] \notin Results}
      BY <2>1, <2>4 DEF UpdateCurrentUser, OnPendingUserConfigInitialized, Apply
    <3>2. watch' = {}
      BY <2>4, <3>1
    <3> QED
      BY <2>1, <2>2, <2>4, <3>1, <3>2
  <2>5. CASE u # NoUser /\ ~Finished(cfg', u)
    <3>1. u # config
      BY <2>2, <2>5
    <3>2. /\ pending' = u
          /\ config' = config
          /\ seatUser' = seatUser
          /\ watch' = (watch \ Of(pending)) \cup {o \in Of(u) : cfg'[o] \notin Results}
      BY <2>1, <2>5, <3>1 DEF UpdateCurrentUser, OnPendingUserConfigInitialized
    <3>3. watch' = {o \in Of(u) : cfg'[o] = "loading"}
      <4>1. watch \ Of(pending) = {}
        OBVIOUS
      <4>2. \A o \in Of(u) : cfg'[o] \notin Results <=> cfg'[o] = "loading"
        BY <2>2, <2>5
      <4> QED
        BY <3>2, <4>1, <4>2
    <3> QED
      BY <2>1, <2>2, <2>5, <3>1, <3>2, <3>3
  <2> QED
    BY <2>3, <2>4, <2>5
<1>4. CASE StopActiveUserConfig
  BY <1>4 DEF StopActiveUserConfig
<1>5. CASE UNCHANGED vars
  BY <1>5 DEF vars
<1> QED
  BY <1>1, <1>2, <1>3, <1>4, <1>5 DEF Next

\* Spec keeps the whole invariant.
LEMMA IInvHolds == Spec => []IInv
BY InitIInv, NextIInv, PTL DEF Spec

\* The phases, the users and their objects keep their types.
THEOREM ConfigTypes == Spec => []TypeOK
<1>1. IInv => TypeOK BY DEF IInv
<1> QED BY IInvHolds, <1>1, PTL

\* The manager listens to the unfinished objects of the pending user, and to
\* no others, after every sequence of switches, results and stops.
THEOREM SwitchIsWatched == Spec => []PendingIsWatched
<1>1. IInv => PendingIsWatched BY DEF IInv, PendingIsWatched
<1> QED BY IInvHolds, <1>1, PTL

\* Only users whose two objects were read are ever served.
THEOREM ConfigSafety == Spec => []ServesLoadedConfig
<1>1. IInv => ServesLoadedConfig BY DEF IInv
<1> QED BY IInvHolds, <1>1, PTL

\* A configuration is installed only for the user who is current in that very
\* step: the comparison in onPendingUserConfigInitialized and the disconnects
\* of updateCurrentUser leave no way for a late object to switch the desktop
\* back.
THEOREM StaleSwitchNeverApplied == Spec => NoStaleSwitch
<1>1. IInv /\ [Next]_vars => [config' # config => config' = currentUser']_vars
  <2> SUFFICES ASSUME IInv, Next, config' # config PROVE config' = currentUser'
    OBVIOUS
  <2>1. CASE Boot
    BY <2>1 DEF Boot
  <2>2. ASSUME NEW o \in Objects, NEW r \in Results, ConfigInitialized(o, r)
        PROVE  config' = currentUser'
    BY <2>2 DEF ConfigInitialized, StartServer, UpdateCurrentUser,
       OnPendingUserConfigInitialized, Apply
  <2>3. ASSUME NEW u \in Users \cup {NoUser}, SetCurrentUserName(u)
        PROVE  config' = currentUser'
    BY <2>3 DEF SetCurrentUserName, UpdateCurrentUser,
       OnPendingUserConfigInitialized, Apply
  <2>4. CASE StopActiveUserConfig
    BY <2>4 DEF StopActiveUserConfig
  <2> QED
    BY <2>1, <2>2, <2>3, <2>4 DEF Next
<1> QED
  BY InitIInv, NextIInv, <1>1, PTL DEF Spec, NoStaleSwitch

\* The current user is served, with its seat configuration unless it is the
\* greeter's user.
Served(u) == pending = NoUser /\ config = u /\ (u = Dde \/ seatUser = u)

\* The current user is served, or its switch is under way.
ServedOrPending ==
  phase = "running" /\ currentUser # NoUser =>
    pending = currentUser \/ Served(currentUser)

\* The current user is served, or its switch is under way and an object is
\* still listened to that will finish it.
SwitchUnderWay ==
  phase = "running" /\ currentUser # NoUser =>
    (pending = currentUser /\ watch # {}) \/ Served(currentUser)

\* A pending switch has an object left to wait for.
LEMMA PendingHasWatch == ASSUME IInv, pending # NoUser PROVE watch # {}
<1>1. PICK o \in Of(pending) : cfg[o] \notin Results
  BY DEF IInv, PendingIsUnfinished, Finished
<1>2. o \in Objects BY <1>1 DEF IInv, TypeOK, Of, Objects
<1>3. cfg[o] = "loading" BY <1>1, <1>2 DEF IInv, TypeOK, StartInv
<1>4. watch = {x \in Of(pending) : cfg[x] = "loading"}
  BY DEF IInv, WatchesOnlyPending
<1> QED BY <1>1, <1>3, <1>4

\* Switches that overtake each other, empty names and failed objects never
\* leave the manager idle with another user's configuration: the safety that
\* SwitchCompletes rests on.
THEOREM SwitchNeverForgotten == Spec => []SwitchUnderWay
<1>1. Init => ServedOrPending BY DEF Init, ServedOrPending
<1>2. IInv /\ ServedOrPending /\ [Next]_vars => ServedOrPending'
  <2> SUFFICES ASSUME IInv, ServedOrPending, [Next]_vars,
                      phase' = "running", currentUser' # NoUser
               PROVE  pending' = currentUser' \/ Served(currentUser)'
    BY DEF ServedOrPending
  <2> USE DEF Served
  <2>1. CASE Boot
    BY <2>1 DEF Boot
  <2>2. ASSUME NEW o \in Objects, NEW r \in Results, ConfigInitialized(o, r)
        PROVE  pending' = currentUser' \/ Served(currentUser)'
    <3>1. CASE phase = "waiting" /\ StartServer(cfg')
      BY <2>2, <3>1 DEF ConfigInitialized, StartServer, UpdateCurrentUser,
         OnPendingUserConfigInitialized, Apply, IInv, StartInv
    <3>2. CASE phase = "running" /\ o \in watch /\ o \in Of(pending)
      BY <2>2, <3>2 DEF ConfigInitialized, OnPendingUserConfigInitialized, Apply,
         ServedOrPending, IInv, WatchesOnlyPending
    <3>3. CASE phase = "running" /\ ~(o \in watch /\ o \in Of(pending))
      BY <2>2, <3>3 DEF ConfigInitialized, ServedOrPending
    <3> QED BY <2>2, <3>1, <3>2, <3>3 DEF ConfigInitialized, StartServer
  <2>3. ASSUME NEW u \in Users \cup {NoUser}, SetCurrentUserName(u)
        PROVE  pending' = currentUser' \/ Served(currentUser)'
    BY <2>3 DEF SetCurrentUserName, UpdateCurrentUser,
       OnPendingUserConfigInitialized, Apply
  <2>4. CASE StopActiveUserConfig
    BY <2>4 DEF StopActiveUserConfig
  <2>5. CASE UNCHANGED vars
    BY <2>5 DEF vars, ServedOrPending
  <2> QED BY <2>1, <2>2, <2>3, <2>4, <2>5 DEF Next
<1>3. IInv /\ ServedOrPending => SwitchUnderWay
  BY PendingHasWatch DEF ServedOrPending, SwitchUnderWay
<1> QED BY <1>1, <1>2, <1>3, IInvHolds, PTL DEF Spec
=============================================================================
