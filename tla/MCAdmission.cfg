SPECIFICATION FairSpec
CONSTANTS
  Requests = {"first", "other", "cancel"}
  Runs = {"runA"}
  None = None
  Op <- MCOp
  RunOf <- MCRunOf
  DigestOf <- MCDigestOf
  SessionOf <- MCSessionOf
  Large = {"other"}
  MaxRuns = 1
  MaxStarts = 1
  MaxRetries = 1
  MaxDamage = 1
INVARIANTS KeyExclusive AcceptancesAgree LeaseOutlivesRuns
PROPERTIES RefusalIsContained ShutdownEnds RequestsEnd
CHECK_DEADLOCK FALSE
