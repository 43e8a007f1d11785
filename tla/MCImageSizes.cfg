SPECIFICATION Spec
CONSTANTS
  Path = {p}
  Resolutions = {1, 2}
  FirstTime = 1
  MaxTime = 2
  MAXIMAGECACHE = 2
  NULL = NULL
INVARIANT
  SizesUpdated
