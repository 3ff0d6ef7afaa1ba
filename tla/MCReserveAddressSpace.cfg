CONSTANTS Pages <- MCPages
          Sizes <- MCSizes
          InitialLen = 4
SPECIFICATION HalvingFairSpec
INVARIANT TotalIsReserved
PROPERTIES HalvingTerminates HalvingImplementsReservation
CHECK_DEADLOCK FALSE
