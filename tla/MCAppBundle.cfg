\* Two calls on one folder, the second one forced or from the cache.
CONSTANTS
  app = app  ext = ext  fw = fw  lib = lib  a1 = a1  a2 = a2  adhoc = adhoc
  Node = {app, ext, fw}
  Root = app
  Within <- MCWithin
  Depth <- MCDepth
  Kind <- MCKind
  Lib = {lib}
  Home <- MCHome
  Asset = {a1, a2, adhoc}
  AdHoc = {adhoc}
  Matches <- MCMatches
  NoAsset = noasset
  MaxCalls = 2
  Options <- MCOptions
SPECIFICATION Spec
INVARIANTS
  AppTypeOK
  FinishedNodesSealed
  EverythingSigned
  ProfileMatchesSigner
  ForcedRemovesProvision
\* MaxCalls bounds the calls: after the last one the model stops.
CHECK_DEADLOCK FALSE
