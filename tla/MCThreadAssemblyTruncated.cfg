\* A folder that holds more than the limit.
CONSTANTS
  Messages = {1, 2, 3}
  Folders = {"inbox", "sent"}
  FolderLists <- BothOrOneTwice
  Limits = {1, 2, 3}
  MaxChanges = 2
  None = None
SPECIFICATION ThreadSpec
CHECK_DEADLOCK FALSE
INVARIANT TruncationTold
