------------------------------- MODULE Region -------------------------------
(***************************************************************************)
(* The tiles of a resolution level and the composition of a region from    *)
(* them: the tile arithmetic that every decoder and handler repeats        *)
(* (OpenJPEGImage::getTile, JTL, Zoomify, DeepZoom, IIIF, TIL) and         *)
(* TileManager::getRegion.  An image is                                    *)
(*    [w, h, tw, th, levels]                                               *)
(* with level sizes halved and rounded down, level 0 the full one, and     *)
(* levels the number of resolutions; resolution r is level levels - r - 1. *)
(***************************************************************************)
EXTENDS View, Functions

WidthAt(img, res) == Half(img.w, img.levels - res - 1)
HeightAt(img, res) == Half(img.h, img.levels - res - 1)

Remainder(size, tile) == size % tile

\* ntlx, ntly: how many tiles a dimension has, the cut one included.
Tiles(size, tile) == size \div tile + (IF Remainder(size, tile) = 0 THEN 0 ELSE 1)

\* The size of tile column or row i: the last one may be cut.
TileExtent(size, tile, i) ==
    IF i = Tiles(size, tile) - 1 /\ Remainder(size, tile) # 0
    THEN Remainder(size, tile) ELSE tile

\* The decoders refuse a tile number that is past the last tile.
TileExists(img, res, tile) ==
    tile < Tiles(WidthAt(img, res), img.tw) * Tiles(HeightAt(img, res), img.th)

\* Where a decoder reads tile number n from.
TileRect(img, res, n) ==
    LET ntlx == Tiles(WidthAt(img, res), img.tw)
    IN  [x |-> (n % ntlx) * img.tw, y |-> (n \div ntlx) * img.th,
         w |-> TileExtent(WidthAt(img, res), img.tw, n % ntlx),
         h |-> TileExtent(HeightAt(img, res), img.th, n \div ntlx)]

-----------------------------------------------------------------------------
(* TileManager::getRegion.  The two loops are the same in both directions:  *)
(* one direction copies, from each tile first..last-1, len pixels starting  *)
(* at pixel from of the tile to position at of the region.                  *)

CopiedFault(size, tile, x, extent, j, first, last) ==
    LET src == TileExtent(size, tile, j)
    IN  IF j = first THEN (IF j < last - 1 THEN src - (x % tile) ELSE extent)
        ELSE IF j = last - 1 THEN (extent + x) % tile
        ELSE src

\* dst_tile_width or dst_tile_height of tile j.
Copied(size, tile, x, extent, j, first, last) ==
    LET src == TileExtent(size, tile, j)
        remainder == (extent + x) % tile
    IN  IF j = first THEN (IF j < last - 1 THEN src - (x % tile) ELSE extent)
        ELSE IF j = last - 1 /\ remainder # 0 THEN remainder
        ELSE src

\* startx and endx, or starty and endy, of a region that is not the whole level.
\* The code rounds a float quotient up, which is exact below 2^24 pixels.
FirstTile(tile, x) == x \div tile
EndTile(tile, x, extent) == (extent + x + tile - 1) \div tile

\* xoffset or yoffset: where the copy from tile j starts inside the tile.
From(tile, x, j) == IF j = FirstTile(tile, x) THEN x % tile ELSE 0

\* dest_x or dest_y: each copy is placed after the one before it.
Places(lens) ==
    LET at[k \in DOMAIN lens] == IF k = 1 THEN 0 ELSE at[k - 1] + lens[k - 1]
    IN  at

\* No more than most tiles are reached: past the last tile of the level the
\* decoder ends the request.
Pieces(size, tile, x, extent, whole, most) ==
    LET first == IF whole THEN 0 ELSE FirstTile(tile, x)
        last  == IF whole THEN Tiles(size, tile) ELSE EndTile(tile, x, extent)
        count == Max({Min({last - first, most}), 0})
        src(k) == TileExtent(size, tile, (first + k - 1) % Tiles(size, tile))
        lens  == [k \in 1..count |->
                    IF whole THEN src(k)
                    ELSE Copied(size, tile, x, extent, first + k - 1, first, last)]
    IN  [k \in 1..count |->
            [tile |-> first + k - 1,
             src  |-> src(k),
             from |-> IF whole THEN 0 ELSE From(tile, x, first + k - 1),
             len  |-> lens[k],
             at   |-> Places(lens)[k]]]

\* The region asked for is the whole level.
Whole(img, res, r) ==
    /\ r.x = 0 /\ r.y = 0
    /\ r.w = WidthAt(img, res) /\ r.h = HeightAt(img, res)

getRegion(img, res, r) ==
    LET w == WidthAt(img, res)
        h == HeightAt(img, res)
        most == Tiles(w, img.tw) * Tiles(h, img.th) + 1
    IN  [cols |-> Pieces(w, img.tw, r.x, r.w, Whole(img, res, r), most),
         rows |-> Pieces(h, img.th, r.y, r.h, Whole(img, res, r), most)]

\* A piece reaches tile number tile(row) * ntlx + tile(column); one that does
\* not exist ends the request with an error.
Decodes(img, res, blits) ==
    \A c \in Range(blits.cols), r \in Range(blits.rows) :
        TileExists(img, res, r.tile * Tiles(WidthAt(img, res), img.tw) + c.tile)

\* The region lies inside the level and is not empty.
Fits(img, res, r) ==
    /\ r.w > 0 /\ r.x + r.w <= WidthAt(img, res)
    /\ r.h > 0 /\ r.y + r.h <= HeightAt(img, res)
=============================================================================
