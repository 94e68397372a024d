\* A call ends, so the system stops.
CONSTANTS
  Timeouts = {1, 3}
  Budgets = {0, 1, 4, 9}
  Requests = {1, 2}
  Base = 2
  Slack = 1
SPECIFICATION FairSpec
CHECK_DEADLOCK FALSE
INVARIANTS
  TypeOK
  WithinBudget
  WriteTakesEffectOnce
  BackoffBeforeRetry
  GivesUpOnlyWhenSpent
PROPERTIES
  CallReturns
