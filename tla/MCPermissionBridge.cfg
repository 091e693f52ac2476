SPECIFICATION Spec
CONSTANTS
  Calls = {"reader", "second", "editor"}
  RealKind <- MCRealKind
  Grants <- MCGrants
  OpenLimit = 2
INVARIANTS AccusedIsGuilty GuiltyIsAccused
CHECK_DEADLOCK FALSE
