CONSTANTS Begin = 1
          End = 40
          MCFirst = 1
          MCPages = 1
          Layouts <- MCSeventeenHoles
          BucketEntries = 32
          MmapMayFail = FALSE
SPECIFICATION Spec
INVARIANT InBounds
CHECK_DEADLOCK FALSE
