SPECIFICATION Spec
CONSTANTS
  Windows = {w1, w2}
  MaxId = 3
  MaxModels = 3
  All = All
  Out = Out
  None = None
  Unstick = FALSE
  Dimmed = {}
SYMMETRY Symmetry
INVARIANTS
  TypeOK
  HistoryHere
  HiddenIffElsewhere
  ConfigTracks
PROPERTY ActivatedIsShown
