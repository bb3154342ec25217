\* A destination that may exist, two contents, room for what two calls that
\* go wrong leave behind; archives of up to three entries.
CONSTANTS
  Dest = dest
  Name = {dest, n1, n2, n3}
  NoName = noname
  Content = {c1, c2}
  NoEntry = noentry
  Partial = partial
  Empty = empty
  Attempts = 2
  Component = {"a", "A", "u", "U", "..", "a|u"}
  Unsafe = {".."}
  AsciiFold <- MCAsciiFold
  VolumeFold <- MCVolumeFold
  Split <- MCSplit
  Data = {"empty", "one", "uno", "two", "three"}
  Bytes <- MCBytes
  Deflated <- MCDeflated
  Folder = "folder"
  EntryLimit = 2
  TotalLimit = 3
  RatioLimit = 2
  CountLimit = 3
  Source <- MCSource
  Record <- MCRecord
SPECIFICATION ExtractionSpec
INVARIANTS
  ZipTypeOK
  FailureKeepsPrevious
  SuccessPublishes
  NothingLeftBeside
  ExtractedAsListed
  LimitsHold
  AcceptanceIsOrderFree
  RoundTrip
PROPERTIES
  PublishesAtomically
  CallsEnd
