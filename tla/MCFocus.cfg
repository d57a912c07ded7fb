SPECIFICATION Spec
CONSTANTS
  Windows = {w1, w2}
  None = None
  s1 = s1
  s2 = s2
  p1 = p1
  Seats = {s1}
  Primary = s1
  Desktop = Desktop
  Panel = Panel
  Layers = {Desktop, Panel}
  PopupOf <- NoPopup
  ShellV2 = FALSE
INVARIANTS
  TypeOK
  FocusOnMapped
  HistoryLive
PROPERTY FocusFallsBack
