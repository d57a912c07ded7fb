SPECIFICATION ReadySpec
CONSTANTS
  Outputs = {o1, o2}
  Configs = {c1, c2}
  NoOutput = NoOutput
  Dangling = Dangling
  Groups <- MCOneGroup
  NoConfig = NoConfig
  Color = Color
  MaxJobs = 2
  MaxInFlight = 2
  Flaky = {}
  Dimmable = {}
  Hotplug = FALSE
  EarlyFinish = FALSE
  Reuse = TRUE
PROPERTY AnswersAsPromised
