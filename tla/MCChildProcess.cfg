SPECIFICATION FairSpec
CONSTANTS
  MaxWaitFailures = 2
INVARIANTS HandsOverAfterExit LeftoverIsMarked ProbeLeavesNobody
PROPERTIES WindDownEnds
CHECK_DEADLOCK FALSE
