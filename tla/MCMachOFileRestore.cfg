\* A file that is valid may fail to map once, also while it is restored.
CONSTANTS
  Path = path
  Name = {path, n1, n2, n3, n4, n5, n6}
  NoName = noname
  NoFile = nofile
  Partial = partial
  Closed = closed
  TransientOpen = {"replace", "restore"}
  NamesPerCall = 5
SPECIFICATION Spec
INVARIANT RestoreKeepsEvidence
CHECK_DEADLOCK FALSE
