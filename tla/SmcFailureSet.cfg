SPECIFICATION Spec
INVARIANT FailureSetIsVerdicts
CHECK_DEADLOCK FALSE
