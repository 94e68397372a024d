\* A draft with a mention, and a change of its recipients.
CONSTANTS
  People = {p1, p2}
  Files = {f1, f2}
  Requests <- SomeRequests
  MaxCalls = 3
  MaxEdits = 1
  Unset = Unset
SPECIFICATION DraftSpec
CHECK_DEADLOCK FALSE
INVARIANT MentionedReceive
