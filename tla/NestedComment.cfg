CONSTANTS Base = 4
          NUM = 2
          Loops = 2
          MaxBusy = 2
SPECIFICATION Spec
INVARIANT LoopAsCommented
CHECK_DEADLOCK FALSE
