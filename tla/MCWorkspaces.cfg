SPECIFICATION Spec
CONSTANTS
  Windows = {w1, w2}
  MaxId = 2
  MaxModels = 2
  All = All
  Out = Out
  None = None
  Unstick = FALSE
  Dimmed = {0}
SYMMETRY Symmetry
INVARIANTS
  TypeOK
  HistoryHere
  HiddenIffElsewhere
  ConfigTracks
PROPERTY ActivatedIsShown
