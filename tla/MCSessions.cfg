SPECIFICATION Spec
CONSTANTS
  u1 = u1
  u2 = u2
  a1 = a1
  a2 = a2
  b1 = b1
  Dde = Dde
  NoUser = NoUser
  NoId = NoId
  Users <- MCUsers
  Ids <- MCIds
  Owner <- MCOwner
  MaxJobs = 2
  MaxInbox = 1
INVARIANTS
  TypeOK
  ActiveSessionServed
PROPERTIES
  EndedSessionLocks
