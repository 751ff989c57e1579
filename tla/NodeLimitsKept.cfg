CONSTANT Requests <- CrossingRequests
SPECIFICATION Spec
CHECK_DEADLOCK FALSE
INVARIANT NodeLimitsKept
