CONSTANTS NUMCONTEXTS = 4
          MainStack = MainStack
          SignalStack = SignalStack
          NULL = NULL
SPECIFICATION FairSpec
INVARIANTS ContextsKeepTheirStack InsigTellsSuspended BodyIsCurrent NullOnlyWhenBuggy
PROPERTY EveryContextRuns
CHECK_DEADLOCK FALSE
