SPECIFICATION Spec
CONSTANTS
  Runs = {r1, r2}
  NoRun = NoRun
  Faults = {"configMarker"}
  MaxCrashes = 1
  MaxDamage = 1
  MaxMishaps = 2
SYMMETRY RunSymmetry
INVARIANTS UnprovenSwitchIsBlocked
CHECK_DEADLOCK FALSE
