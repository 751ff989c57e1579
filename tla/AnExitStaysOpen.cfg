CONSTANT Situations <- ClaimSituations
SPECIFICATION Spec
CHECK_DEADLOCK FALSE
INVARIANT AnExitStaysOpen
