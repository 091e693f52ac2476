SPECIFICATION FairSpec
CONSTANTS
  Capacities <- WideCapacities
  Budgets <- WideBudgets
  MaxEvents = 4
  MaxEventBytes = 2
  MarkerBytes = 1
  ProducerTimeout = 1
  EventBytes = {2, 3}
  MaxTime = 2
INVARIANTS DurablePrefix OutcomesTruthful SelfChecksPass PumpMatchesLoop
PROPERTIES ImplementsDurableLog NeverAdmitsLate AdmittedPrefixSurvives AcceptedSettles CloseFinishes
CHECK_DEADLOCK FALSE
