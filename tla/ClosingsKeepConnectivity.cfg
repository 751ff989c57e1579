CONSTANT Requests <- MCRequests
SPECIFICATION Spec
CHECK_DEADLOCK FALSE
INVARIANT ClosingsKeepConnectivity
