CONSTANTS
  NoTime = NoTime
  a = a
  n = n
  Edges = {a}
  Nodes = {n}
  StaleAfter = 2
  SampleInterval = 1
  StagnationMin = 1
  CooldownMin = 2
  WarmupMin = 2
  QueueFreshnessMin = NoTime
  ScoreThreshold = 2
  DiversityThreshold = 1
  QuietCycles = 2
  PunctureEnabled = TRUE
  MaxConsecutiveSkips = 2
  EnabledChoices <- ClaimEnabled
  ReadingChoices <- ClaimReadings
  EventChoices <- ClaimEvents
  Steps = {1, 2}
  MaxTime = 7
SPECIFICATION CSpec
CHECK_DEADLOCK FALSE
INVARIANT ManualTriggersNotCounted
