\* One call, with any of the folders at the top not to be listed.
CONSTANTS
  Trees <- SomeTrees
  References <- SomeReferences
  Segments = {"tois", "inbox", "archive", "work"}
  NewName = "work"
  MaxLookups = 1
SPECIFICATION FolderSpec
CHECK_DEADLOCK FALSE
INVARIANT ArchivePreferred
