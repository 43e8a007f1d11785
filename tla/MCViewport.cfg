\* All requests on four small images.
CONSTANTS
    WordSize = 1024
    Images <- MCImages
    MaxSizes <- MCMaxSizes
    Versions = {2, 3}
    RgnArgs <- MCRgnArgs
    SizeArgs = {0, 1, 3, 6, 20, 200}
    IiifRegions <- MCIiifRegions
    IiifSizes <- MCIiifSizes
    Coords = {0, 1, 2, 3, 5}
SPECIFICATION Spec
INVARIANTS
  TypeOK
  RegionServed
  SizeBounded
  Sharp
  TilesAddressed
