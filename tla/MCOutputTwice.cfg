SPECIFICATION ReadySpec
CONSTANTS
  Outputs = {o1, o2}
  Configs = {c1}
  NoOutput = NoOutput
  Dangling = Dangling
  Groups <- MCOneGroup
  NoConfig = NoConfig
  Color = Color
  MaxJobs = 2
  MaxInFlight = 2
  Flaky = {o2}
  Dimmable = {o2}
  Hotplug = FALSE
  EarlyFinish = TRUE
  Reuse = FALSE

INVARIANT AnsweredOnce
