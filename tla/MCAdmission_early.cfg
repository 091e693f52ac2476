SPECIFICATION Spec
CONSTANTS
  Requests = {"first", "copy", "cancel"}
  Runs = {"runA"}
  None = None
  Op <- MCOp
  RunOf <- MCRunOf
  DigestOf <- MCDigestOf
  SessionOf <- MCSessionOf
  Large = {}
  MaxRuns = 1
  MaxStarts = 0
  MaxRetries = 0
  MaxDamage = 0
INVARIANTS EntriesAreLive
CHECK_DEADLOCK FALSE
