\* Three keys, two modification times, and tiles that take a third of the
\* cache, two thirds of it, and more than all of it.
SPECIFICATION FairLRUSpec
CONSTANTS
  Key = {k1, k2, k3}
  Stamp = {1, 2}
  Weight = {1, 2, 4}
  Cell = {c1, c2, c3, c4}
  MaxSize = 3
  NULL = NULL
INVARIANTS
  IndexMatchesList
  SizeIsAccounted
  MemoryBounded
  KeepsMostRecentlyUsed
PROPERTIES
  ImplementsStore
  InsertReturns
