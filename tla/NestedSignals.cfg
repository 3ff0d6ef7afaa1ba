CONSTANTS Base = 4
          NUM = 2
          Loops = 2
          MaxBusy = 2
SPECIFICATION FairSpec
INVARIANTS CountIsDepth ExitTellsCount PrintsAlone StopsInTime
PROPERTY Terminates
CHECK_DEADLOCK FALSE
