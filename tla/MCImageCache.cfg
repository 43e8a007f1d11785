\* Two files of one or two resolutions, and a cache of one image: every miss
\* after the first evicts.
SPECIFICATION Spec
CONSTANTS
  Path = {p, q}
  Resolutions = {1, 2}
  FirstTime = 1
  MaxTime = 2
  MAXIMAGECACHE = 1
  NULL = NULL
INVARIANTS
  CacheBounded
  MetadataUpToDate
  NotModifiedIsFresh
