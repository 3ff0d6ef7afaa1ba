CONSTANTS RT63 = RT63
          SIGUSR1 = SIGUSR1
          p1 = p1
          p2 = p2
          p3 = p3
          signals <- MCsignals
          RealTime <- MCRealTime
          QueueLimit = 2
          Sends = 2
          Iterations = 2
          Pages <- MCPages
SPECIFICATION FairSpec
INVARIANTS HandlersAreIsolated FailedTellsStaleness EverySignalCounted
PROPERTY Terminates
CHECK_DEADLOCK FALSE
