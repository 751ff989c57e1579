CONSTANTS
  NoTime = NoTime
  StaleAfter = 2
  SampleInterval = 4
  StagnationMin = 6
  MaxTime = 14
  Steps = {1, 2, 3}
  Readings <- MCReadings
SPECIFICATION Spec
CHECK_DEADLOCK FALSE
INVARIANTS
  TypeOK
  TimerMatchesEvidence
  FiresOnlyOnEvidence
  TimerNeverRunsAhead
