CONSTANTS NUMCOUNT = 10
          MaxOutside = 2
SPECIFICATION FairSpec
INVARIANTS NoFalseAlarm FaultsAreFound AllRaisesMade
PROPERTY Terminates EndsOnceHandled
CHECK_DEADLOCK FALSE
