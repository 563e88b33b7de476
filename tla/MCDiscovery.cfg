SPECIFICATION FairSpec
CONSTANTS
  root = root
  a = a
  b = b
  c = c
  cSlash = cSlash
  postgres = postgres
  URLs = {root, a, b, c, cSlash}
  TrimRight <- TrimSlash
  Root = root
  DependsOn <- SmallManifests
  MaxDepth = 2
INVARIANTS TypeOK FindsAllWithinDepth DepthIsDistance
PROPERTY Terminates
CHECK_DEADLOCK FALSE
