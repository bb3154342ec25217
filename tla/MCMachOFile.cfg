\* One executable, its directory with room for two calls' temporaries.
CONSTANTS
  Path = path
  Name = {path, n1, n2, n3, n4, n5, n6}
  NoName = noname
  NoFile = nofile
  Partial = partial
  Closed = closed
  TransientOpen = {"replace"}
  NamesPerCall = 5
SPECIFICATION Spec
INVARIANTS
  TypeOK
  BaseRecoverable
  UnusableOnlyWithBackup
  FailureRestores
  ReportedEditsInstalled
  NothingLeftBehind
PROPERTY PublishesAtomically
\* A crash between two renames leaves no executable under its own name, and
\* nothing in the program looks for the backup: such a behaviour stops.
CHECK_DEADLOCK FALSE
