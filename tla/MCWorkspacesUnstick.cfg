SPECIFICATION Spec
CONSTANTS
  Windows = {w1, w2}
  MaxId = 2
  MaxModels = 2
  All = All
  Out = Out
  None = None
  Unstick = TRUE
  Dimmed = {}
PROPERTY ActivatedIsShown
