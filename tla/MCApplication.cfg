SPECIFICATION Spec
CONSTANTS
  Deadline = 4
  PerCall = 2
  AddressParts = 2
  RequestParts = 2
  HeaderParts = 2
  BodyParts = 2
  Evidence <- MCEvidence
  CommandLines <- MCCommandLines
  Targets = {"archive", "folder", "macho", "certificate", "missing"}
  Subjects <- MCSubjects
  Intermediates <- MCIntermediates
  RootOf <- MCRootOf
  Strings <- MCStrings
  Extension <- MCExtension
  Trees <- MCTrees
  Supplies <- MCSupplies
  ScanMayStop = TRUE
INVARIANTS
  ApplicationTypeOK
  NothingLeftInTemp
  SuccessMeansDone
  InputUntouched
  PassOnlyOnEvidence
  RequestConfined
  ParsedAsMeant
  SignedAsProvisioned
  ReadyMeansSignable
  AuditComplete
PROPERTIES
  PublishedOnlySigned
  RunEnds
CHECK_DEADLOCK FALSE
