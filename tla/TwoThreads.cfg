CONSTANTS Sleep = 3
          Disabled = 4
          Cancellable = 3
          MaxDelay = 9
          MaxLate = 6
SPECIFICATION FairSpec
INVARIANTS ModificationSurvives OverwrittenLoops ShouldntHappen DestroyedBeforeJoin
PROPERTIES ShouldExitNow CancelledIsJoined
CHECK_DEADLOCK FALSE
