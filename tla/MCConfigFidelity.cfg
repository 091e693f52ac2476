SPECIFICATION Spec
CONSTANTS
  Literals <- MCLiterals
INVARIANTS PromptIsConfigured PartialSwitchIsSettled
CHECK_DEADLOCK FALSE
