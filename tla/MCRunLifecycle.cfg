SPECIFICATION Spec
CONSTANTS
  Runs = {r1, r2}
  NoRun = NoRun
  Faults = {"submission", "fence", "publish"}
  MaxCrashes = 2
  MaxDamage = 1
  MaxMishaps = 2
SYMMETRY RunSymmetry
CHECK_DEADLOCK FALSE
INVARIANTS UncertainIsBlocked AcceptedIsOwned
PROPERTIES UnknownIsQuarantined ReleaseIsContained CompletedIsEarned TerminalIsFinal RestartConverges RestartContains ReconciledSwitchIsBlocked ImplementsPromise
