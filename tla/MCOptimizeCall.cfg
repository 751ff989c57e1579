CONSTANT Requests <- MCRequests
SPECIFICATION Spec
CHECK_DEADLOCK FALSE
INVARIANTS
  TypeOK
  SolutionBalanced
  FlowKeepsToDirections
  SafeToFollow
  TurnsAreAllowed
  SearchHelps
  ZonesArePartition
  StrictKeepsFirstPhase
  ClosingIsSafe
