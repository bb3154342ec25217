\* A second call finds the cache that the first one wrote.
CONSTANTS
  app = app  ext = ext  fw = fw  lib = lib  a1 = a1  a2 = a2  adhoc = adhoc
  Node = {app, ext, fw}
  Root = app
  Within <- MCWithin
  Depth <- MCDepth
  Kind <- MCKind
  Lib = {lib}
  Home <- MCHome
  Asset = {a1, a2, adhoc}
  AdHoc = {adhoc}
  Matches <- MCMatches
  NoAsset = noasset
  MaxCalls = 2
  Options <- ProvisionOptions
SPECIFICATION Spec
INVARIANT ProvisionRemoved
CHECK_DEADLOCK FALSE
