SPECIFICATION ServedSpec
CONSTANTS
  BufferSec = 60
  RpcMarginSec = 5
  MinOptBudget = 30
  MaxPropagationSteps = 8
  MaxRounds = 2
  NodeLimit = 2
  EdgeLimit = 2
  Cases <- MCCases
  Calls <- MCCalls
  Sites <- MCSites
CHECK_DEADLOCK FALSE
INVARIANTS
  KeptBudgetIsAnswered
  AcceptedIsClean
  StateSurvives
  NobodyIsInvented
  ImputationBalances
