SPECIFICATION FairSpec
CONSTANTS
  MaxWaitFailures = 0
PROPERTIES FinalizationEnds
CHECK_DEADLOCK FALSE
