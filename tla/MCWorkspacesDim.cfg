SPECIFICATION Spec
CONSTANTS
  Windows = {w1}
  MaxId = 2
  MaxModels = 2
  All = All
  Out = Out
  None = None
  Unstick = FALSE
  Dimmed = {0}
INVARIANT OnlyCurrentDim
