SPECIFICATION FairSpec
INVARIANTS VerdictsTellStaleness EndsAsExpected
PROPERTY Terminates
CHECK_DEADLOCK FALSE
