CONSTANTS Begin = 14
          End = 19
          MCFirst = 13
          MCPages = 7
          Layouts <- MCLayouts
          BucketEntries = 4
          MmapMayFail = TRUE
SPECIFICATION FairSpec
INVARIANTS NeverOvermaps NeverTwice ArrayHoldsHalf RootTellsStolen
PROPERTIES Terminates ImplementsReservation
CHECK_DEADLOCK FALSE
