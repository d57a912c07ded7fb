SPECIFICATION Spec
CONSTANTS
  Apps = {a1}
  NoApp = NoApp
  Xdg = {t1}
  X11 = {x1}
  Wrappers = {s1, s2}
  MaxMismatch = 2
  MaxObjects = 2
  MaxWaiting = 2
  MaxCalls = 2
INVARIANT ListLive
