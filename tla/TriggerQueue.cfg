CONSTANTS
  NoTime = NoTime
  a = a
  b = b
  n = n
  Edges = {a, b}
  Nodes = {n}
  StaleAfter = 2
  SampleInterval = 1
  StagnationMin = 1
  CooldownMin = 3
  WarmupMin = 2
  QueueFreshnessMin = NoTime
  ScoreThreshold = 2
  DiversityThreshold = 1
  QuietCycles = 2
  PunctureEnabled = TRUE
  MaxConsecutiveSkips = 2
  EnabledChoices <- AllEnabled
  ReadingChoices <- QueueReadings
  EventChoices <- QueueEvents
  Steps = {1, 2}
  MaxTime = 7
SPECIFICATION HSpec
VIEW CycleView
CHECK_DEADLOCK FALSE
INVARIANTS
  TypeOK
  QueueBounded
  BacklogExplained
  BacklogDrains
PROPERTIES
  NoTriggerLost
  DangerNeverDeferred
  CooldownSpacing
  LedgerSpec
