SPECIFICATION Spec
CONSTANTS
  Outputs = {o1, o2}
  Configs = {c1}
  NoOutput = NoOutput
  Dangling = Dangling
  Groups <- MCGroups
  NoConfig = NoConfig
  Color = Color
  MaxJobs = 2
  MaxInFlight = 2
  Flaky = {o2}
  Dimmable = {o2}
  Hotplug = TRUE
  EarlyFinish = FALSE
  Reuse = FALSE
INVARIANT TypeOK
INVARIANT RenderedAsReported
PROPERTY AnswersAsPromised
