\* Two appointments in every relation to each other and to the window; meetings
\* shorter than, as long as and longer than a sample, in windows that divide
\* into them or not, within a day or past its end; three calls that edit an event,
\* retried or not, and its owner.  A call ends.
CONSTANTS
  Moments = {0, 1, 2, 3}
  Events = {e1, e2}
  Limits = {1, 2}
  Attendees = {a1, a2}
  Busy <- OneRun
  Durations = {2, 3, 4}
  Starts = {2, 8}
  Lengths = {6, 8}
  SlotLimits = {1, 9}
  WorkHours <- DayWork
  NoHours = NoHours
  MinSample = 3
  Day = 10
  People = {p1, p2}
  EventRequests <- SomeEventRequests
  Ranges <- SomeRanges
  MaxAsks = 3
  MaxMeddling = 1
  Omitted = Omitted
SPECIFICATION Spec
CHECK_DEADLOCK FALSE
INVARIANTS
  FreeTypeOK
  FreeMeansFree
  SlotsMaximal
  OfferedIsFree
  NothingMissed
  EventWellFormed
  AttendeesAsAsked
  OwnersEventKept
