\* A call that sends two requests.
CONSTANTS
  Timeouts = {1, 3}
  Budgets = {0, 1, 4, 9}
  Requests = {1, 2}
  Base = 2
  Slack = 1
SPECIFICATION FairSpec
CHECK_DEADLOCK FALSE
INVARIANT DocumentedBound
