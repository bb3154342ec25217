SPECIFICATION AuditSpec
CONSTANTS
  Intermediates <- MCIntermediates
  RootOf <- MCRootOf
  Strings <- MCStrings
  Extension <- MCExtension
  Trees <- MCTrees
  Supplies <- MCNoSupplies
  ScanMayStop = FALSE
INVARIANT BlockedOnlyForCause
CHECK_DEADLOCK FALSE
