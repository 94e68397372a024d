\* Times in quarters of a second: no search, or one second of it, in which the
\* loop sleeps in full, sleeps for the rest, or runs out of time.  Each call is
\* made once, so the system stops.
CONSTANTS
  Calls = {c1, c2}
  Draft = Draft
  Timeouts = {0, 4}
  PollTime = 3
  MaxMeddling = 2
  User = User
  None = None
SPECIFICATION Spec
SYMMETRY CallSymmetry
CHECK_DEADLOCK FALSE
INVARIANTS
  TypeOK
  TruthfulAnswer
  PlainErrorMeansUnsent
  CopyCarriesSubmission
  DeliveredOnce
