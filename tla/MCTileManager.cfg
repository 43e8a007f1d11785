\* A TIFF sequence of two views and a JPEG2000 image, at two qualities.
SPECIFICATION Spec
CONSTANTS
  Path = {tif, jp2}
  Tiff = {tif}
  View = {front, back}
  DefaultView = front
  TileNo = {edge}
  EdgeTile = {edge}
  Quality = {1, 2}
  Layers = {1}
  Watermark = TRUE
  MaxTime = 1
  MaxTiles = 2
  NULL = NULL
INVARIANTS
  CacheIsSound
  PreparedExactlyOnce
  ServedFresh
  ServedAsAsked
