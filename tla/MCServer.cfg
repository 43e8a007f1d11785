\* Two request strings, two commands and two images to a request.
SPECIFICATION FairSpec
CONSTANTS
  Query = {a, b}
  MaxCommands = 2
  MaxImages = 2
  NULL = NULL
INVARIANTS
  
  MemcachedIsWhole
PROPERTIES
  RequestEnds
