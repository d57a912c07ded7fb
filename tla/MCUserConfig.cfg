CONSTANTS
  alice = alice
  bob = bob
  dde = dde
  Users <- MCUsers
  Dde = dde
  NoUser = NoUser
SPECIFICATION Spec
CHECK_DEADLOCK FALSE
INVARIANTS
  TypeOK
  PendingIsWatched
  ServesLoadedConfig
PROPERTIES
  NoStaleSwitch
  SwitchCompletes
