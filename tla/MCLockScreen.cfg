SPECIFICATION Spec
CONSTANTS
  l1 = l1
  l2 = l2
  o1 = o1
  o2 = o2
  NoLock = NoLock
  Locks <- MCLocks
  Outputs <- MCOutputs
INVARIANTS
  TypeOK
  UndecidedShown
  GraceOnlyForPendingLock
  NoLeftover
PROPERTIES
  LockedStaysShown
  FallbackDecides
  UnlockHides
