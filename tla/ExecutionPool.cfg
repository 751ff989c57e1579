CONSTANTS
  NoCall = NoCall
  Calls = {c1, c2, c3}
SPECIFICATION FairSpec
CHECK_DEADLOCK FALSE
INVARIANTS
  TypeOK
  SlotHasOneHolder
  RefusedLeavesNothing
PROPERTIES
  RefusedForCause
  OneAnswer
  EveryCallAnswered
  SlotComesBack
