\* A window that runs past midnight.
CONSTANTS
  Moments = {0, 1, 2, 3}
  Events = {e1, e2}
  Limits = {1, 2}
  Attendees = {a1, a2}
  Busy <- OneRun
  Durations = {2, 3, 4}
  Starts = {2, 8}
  Lengths = {6, 8}
  SlotLimits = {1, 9}
  WorkHours <- DayWork
  NoHours = NoHours
  MinSample = 3
  Day = 10
  People = {p1, p2}
  EventRequests <- SomeEventRequests
  Ranges <- SomeRanges
  MaxAsks = 0
  MaxMeddling = 0
  Omitted = Omitted
SPECIFICATION Spec
CHECK_DEADLOCK FALSE
INVARIANT WorkHoursRespected
