\* Two slices: CommandSize is 56 and 48.
CONSTANTS
  SliceCount = 2
  system = system  first = first
  Dylib = {system, first}
  NameLength <- MCNameLength
  Linked <- MCLinked
  Room = 112
  Needs = {20, 41}
  Capacities = {0, 20, 40}
  Grown = 40
SPECIFICATION Spec
INVARIANTS
  SliceTypeOK
  LoadCommandsFit
  NoDuplicateLoads
  ForcedSignatureCovers
PROPERTY OrdinalsKept
