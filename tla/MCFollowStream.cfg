SPECIFICATION FairSpec
CONSTANTS
  Clients = {"c"}
  Starts = {0, 2}
  MaxEvents = 4
  Wide = {4}
  Heavy = {2, 3}
  QueueSize = 1
  PageLimit = 2
  Window = 1
INVARIANTS GapFree ToldOnlyWhenComplete
PROPERTIES FollowersEnd ShutdownEnds
CHECK_DEADLOCK FALSE
