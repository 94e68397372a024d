\* Three calls on a draft: one, a failed change of it, and a retry or another
\* change.  A thread with limits below and at what a folder holds.  A folder
\* looked up again after it was renamed or deleted.  Two calls on two items: the
\* second may be a retry.  Two downloads at once.  A call ends.
CONSTANTS
  People = {p1, p2}
  Files = {f1, f2}
  Requests <- SomeRequests
  MaxCalls = 3
  MaxEdits = 1
  Unset = Unset
  Messages = {1, 2, 3}
  Folders = {"inbox", "sent"}
  FolderLists <- BothOrOneTwice
  Limits = {1, 2}
  MaxChanges = 2
  None = None
  Trees <- SomeTrees
  References <- SomeReferences
  Segments = {"tois", "inbox", "archive", "work"}
  NewName = "work"
  MaxLookups = 2
  Objects = {1, 2}
  Tags = {t1, t2}
  TagSets <- OneTag
  ActionRequests <- SomeActions
  MaxActions = 2
  MaxOwnerEdits = 1
  Missing = Missing
  Downloaders = {d1, d2}
  Sizes = {2, 3}
  MaxSize = 2
  LastName = 2
  MaxVisits = 1
  Nobody = Nobody
  Others = Others
SPECIFICATION Spec
CHECK_DEADLOCK FALSE
INVARIANTS
  TypeOK
  MentionsReach
  FilesAsAsked
  NewestKept
  ThreadOnce
  ResolvedAsNamed
  OwnersEditsKept
  VerdictsTrue
  SavedIsWhole
  OthersFilesKept
