\* SIGHUP at any statement boundary of the cache.
SPECIFICATION ReloadSpec
CONSTANTS
  Key = {k1, k2}
  Stamp = {1}
  Weight = {1, 2}
  Cell = {c1, c2, c3}
  MaxSize = 3
  NULL = NULL
INVARIANT ReportsMemoryStored
