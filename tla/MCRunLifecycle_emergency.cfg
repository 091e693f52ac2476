SPECIFICATION Spec
CONSTANTS
  Runs = {r1, r2}
  NoRun = NoRun
  Faults = {"fence"}
  MaxCrashes = 0
  MaxDamage = 0
  MaxMishaps = 0
CHECK_DEADLOCK FALSE
PROPERTIES EmergencyContains
