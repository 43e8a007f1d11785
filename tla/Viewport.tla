------------------------------ MODULE Viewport ------------------------------
(***************************************************************************)
(* How a request becomes tiles or a region of an image: the commands RGN,  *)
(* WID and HEI that fill the View, the exporter CVT, and the protocols     *)
(* that address an image by region (IIIF, PFL) or by tile (JTL, Zoomify,   *)
(* DeepZoom, TIL, SPECTRA).  One behaviour is one server: its limit on the *)
(* output size, its upscaling switch and its IIIF version are chosen once, *)
(* each request opens an image (FIF) and starts from a new View.           *)
(*                                                                         *)
(* reply records what the last handler decided: the tile or the region it  *)
(* asks the TileManager for, and the size of the output image.             *)
(***************************************************************************)
EXTENDS Region

CONSTANTS Images,       \* the images: records [w, h, tw, th, levels]
          MaxSizes,     \* values of MAX_CVT: -1 or a positive number
          Versions,     \* values of IIIF_VERSION
          RgnArgs,      \* arguments of RGN: <<x, y, w, h>> of fractions
          SizeArgs,     \* arguments of WID and HEI
          IiifRegions,  \* [kind, v]: full, square, pixels or percent
          IiifSizes,    \* [kind, w, h]: max, pct, within (!w,h), exact (w,h), w, h
          Coords        \* tile and pixel coordinates in requests

Positive == Nat \ {0}

\* Tiles have more than one pixel in each direction, no level is empty, and
\* coordinates in an image are int values.
ASSUME ImagesAssumption ==
    \A img \in Images :
        /\ img \in [w : Positive, h : Positive, tw : Positive \ {1}, th : Positive \ {1},
                   levels : Positive]
        /\ Half(img.w, img.levels - 1) > 0 /\ Half(img.h, img.levels - 1) > 0
        /\ 2 * img.w < WordSize /\ 2 * img.h < WordSize

\* What the handlers parse from a request; a fraction may be any number.
ASSUME ArgsAssumption ==
    /\ MaxSizes \subseteq Int /\ SizeArgs \subseteq Int /\ Coords \subseteq Nat
    /\ \A r \in RgnArgs, i \in 1..4 : r[i] \in Int \X Positive
    /\ \A g \in IiifRegions : /\ g.kind \in {"full", "square", "pixels", "percent"}
                             /\ \A i \in 1..4 : g.v[i] \in Int
    /\ \A s \in IiifSizes : /\ s.kind \in {"max", "pct", "w", "h", "within", "exact"}
                           /\ s.w \in Int /\ s.h \in Int /\ s.caret \in BOOLEAN

VARIABLES conf,    \* [max, up, version]
          image,   \* the image that FIF opened
          view,    \* session->view
          reply

vars == <<conf, image, view, reply>>

None == [kind |-> "none"]
Error == [kind |-> "error"]

Init ==
    /\ conf \in [max : MaxSizes, up : BOOLEAN, version : Versions]
    /\ image \in Images
    /\ view = NewView(conf.max, conf.up)
    /\ reply = None

\* The next request: a new View and the image it names.
NextRequest ==
    /\ reply # None
    /\ image' \in Images
    /\ view' = NewView(conf.max, conf.up)
    /\ reply' = None
    /\ UNCHANGED conf

-----------------------------------------------------------------------------
(* Commands that only fill the View.  (A request holds few of them: RGN is  *)
(* taken while no region is set, WID and HEI while no size is set.)         *)

RGN ==
    \E r \in RgnArgs :
        /\ reply = None
        /\ view = NewView(conf.max, conf.up)
        /\ view' = IF r[3][1] > 0 /\ r[4][1] > 0
                   THEN setViewHeight(setViewWidth(setViewTop(
                            setViewLeft(view, r[1]), r[2]), r[3]), r[4])
                   ELSE view
        /\ UNCHANGED <<conf, image, reply>>

WID ==
    \E n \in SizeArgs :
        /\ reply = None /\ view.reqw = 0 /\ view.reqh = 0
        /\ view' = [view EXCEPT !.reqw = Word(n)]
        /\ UNCHANGED <<conf, image, reply>>

HEI ==
    \E n \in SizeArgs :
        /\ reply = None /\ view.reqh = 0
        /\ view' = [view EXCEPT !.reqh = Word(n)]
        /\ UNCHANGED <<conf, image, reply>>

-----------------------------------------------------------------------------
(* CVT::send, from the View to the region and the size of the output.       *)

Prepared(v) == getResolution(setMaxResolutions(setImageSize(v, image.w, image.h),
                                               image.levels))

\* "Make sure our region fits within the image": an unsigned subtraction.
Cut(start, extent, size) ==
    IF Word(extent + start) > size THEN Word(size - start) ELSE extent

CvtRegion(v) ==
    LET w == WidthAt(image, v.resolution)
        h == HeightAt(image, v.resolution)
    IN  IF viewPortSet(v)
        THEN [x |-> getViewLeft(v), y |-> getViewTop(v),
              w |-> Cut(getViewLeft(v), getViewWidth(v), w),
              h |-> Cut(getViewTop(v), getViewHeight(v), h)]
        ELSE [x |-> 0, y |-> 0, w |-> w, h |-> h]

FitWithinFault(r, rw, rh) == <<rw, Round(rw * r.h, Max({r.w, 1}))>>

\* maintain_aspect: shrink one dimension unless the ratios differ by 0.1%.
FitWithin(r, rw, rh) ==
    IF 1000 * rw * r.h < 1001 * rh * r.w THEN <<rw, Round(rw * r.h, r.w)>>
    ELSE IF 1000 * rw * r.h > 1001 * rh * r.w THEN <<Round(rh * r.w, r.h), rh>>
    ELSE <<rw, rh>>

\* allow_upscaling compares with the chosen level, not with the full image.
Upscaled(v, n, size) == IF ~v.upscale /\ n > size THEN size ELSE n

OutputSize(v, r) ==
    LET rw == Upscaled(v, getRequestWidth(v), WidthAt(image, v.resolution))
        rh == Upscaled(v, getRequestHeight(v), HeightAt(image, v.resolution))
    IN  IF v.aspect THEN FitWithin(r, rw, rh) ELSE <<rw, rh>>

Export(v) ==
    LET p == Prepared(v)
        r == CvtRegion(p)
    IN  [kind |-> "region", res |-> p.resolution, rect |-> r,
         blits |-> getRegion(image, p.resolution, r), out |-> OutputSize(p, r)]

CVT ==
    /\ reply = None
    /\ view' = Prepared(view)
    /\ reply' = Export(view)
    /\ UNCHANGED <<conf, image>>

-----------------------------------------------------------------------------
(* IIIF::run: region, size, then a tile or an export.                       *)

IiifRegion(v, g) ==
    LET wd == IF g.kind = "percent" THEN 100 ELSE image.w
        hd == IF g.kind = "percent" THEN 100 ELSE image.h
    IN  CASE g.kind = "full" -> v
          [] g.kind = "square" /\ image.h > image.w ->
                setViewHeight(setViewTop(v, <<image.h - image.w, 2 * image.h>>),
                              <<image.w, image.h>>)
          [] g.kind = "square" /\ image.w > image.h ->
                setViewWidth(setViewLeft(v, <<image.w - image.h, 2 * image.w>>),
                             <<image.h, image.w>>)
          [] g.kind = "square" /\ image.w = image.h -> v
          [] g.kind \in {"pixels", "percent"} ->
                setViewHeight(setViewWidth(setViewTop(setViewLeft(v,
                    <<g.v[1], wd>>), <<g.v[2], hd>>), <<g.v[3], wd>>), <<g.v[4], hd>>)

RegionRefused(g) == g.kind \in {"pixels", "percent"} /\ (g.v[3] <= 0 \/ g.v[4] <= 0)

\* The size asked for, from the region's size rw x rh in full resolution.
Wanted(s, rw, rh) ==
    CASE s.kind = "max" -> <<rw, rh>>
      [] s.kind = "pct" -> <<Round(rw * s.w, 100), Round(rh * s.w, 100)>>
      [] s.kind = "w"   -> <<s.w, Round(s.w * rh, rw)>>
      [] s.kind = "h"   -> <<Round(s.h * rw, rh), s.h>>
      [] s.kind \in {"within", "exact"} -> <<s.w, s.h>>

\* A double stored into an int: out of range gives the smallest int (x86-64).
ToInt(n) == IF n < WordSize \div 2 THEN n ELSE -(WordSize \div 2)

\* max_size is unsigned in the product and int in the comparison.
IiifLimit(v, want, rw, rh) ==
    LET m == Word(v.max_size)
    IN  IF ~(want[1] > v.max_size \/ want[2] > v.max_size) THEN want
        ELSE IF rw > rh
        THEN <<v.max_size, IF v.aspect THEN ToInt(Round(m * rw, rh)) ELSE v.max_size>>
        ELSE <<IF v.aspect THEN ToInt(Round(m * rh, rw)) ELSE v.max_size, v.max_size>>

IiifSize(v, s) ==
    LET rw == getViewWidth(v)
        rh == getViewHeight(v)
        want == Wanted(s, rw, rh)
        a == [v EXCEPT !.aspect = @ /\ s.kind # "exact",
                       !.upscale = @ /\ (conf.version < 3 \/ s.caret)]
        size == IiifLimit(a, want, rw, rh)
        refused == \/ s.caret /\ conf.version < 3
                   \/ want[1] <= 0 \/ want[2] <= 0
                   \/ /\ conf.version >= 3 /\ ~a.upscale
                      /\ want[1] > image.w \/ want[2] > image.h
    IN  [refused |-> refused,
         view |-> IF refused THEN a
                  ELSE [a EXCEPT !.reqw = Word(size[1]), !.reqh = Word(size[2])]]

\* "Determine whether this is a tile request which coincides with our tile
\* boundaries", for a view whose resolution is decided.
IsTile(v, left, top) ==
    LET w == WidthAt(image, v.resolution)
        h == HeightAt(image, v.resolution)
    IN  /\ v.aspect
        /\ \/ /\ v.resolution > 0
              /\ v.reqw = image.tw /\ v.reqh = image.th
              /\ left % image.tw = 0 /\ top % image.th = 0
              /\ getViewWidth(v) % image.tw = 0 /\ getViewHeight(v) % image.th = 0
              /\ getViewWidth(v) < w /\ getViewHeight(v) < h
           \/ /\ v.resolution = 0
              /\ v.reqw = w /\ v.reqh = h

\* view_left and view_top.
view_left(v) == IF viewPortSet(v) THEN getViewLeft(v) ELSE 0
view_top(v) == IF viewPortSet(v) THEN getViewTop(v) ELSE 0

\* The number of the tile at the view's corner, among those of its level.
CornerTile(v) ==
    (view_top(v) \div image.th) * Tiles(WidthAt(image, v.resolution), image.tw)
        + view_left(v) \div image.tw

\* JTL::send: a half turn remaps the tile number (with square tiles in mind).
Turned(res, tile) ==
    Tiles(WidthAt(image, res), image.tw) * Tiles(HeightAt(image, res), image.tw) - tile - 1

\* The end of IIIF::run: an export, or a tile, which it leaves to JTL::send with
\* the rotation of the request: half says that it is 180 degrees.
IiifServe(v, half) ==
    LET corner == CornerTile(v)
        tile == IF half THEN Turned(v.resolution, corner) ELSE corner
    IN  IF IsTile(v, view_left(v), view_top(v))
        THEN /\ view' = v
             /\ reply' = IF tile < 0 THEN Error
                         ELSE [kind |-> "tile", by |-> IF half THEN "IIIF half turn" ELSE "IIIF",
                               res |-> v.resolution, tile |-> tile, asked |-> <<corner>>,
                               rect |-> CvtRegion(v)]
        ELSE /\ view' = Prepared(v)
             /\ reply' = Export(v)

IIIF ==
    \E g \in IiifRegions, s \in IiifSizes, half \in BOOLEAN :
        LET opened == setMaxResolutions(setImageSize(view, image.w, image.h), image.levels)
            region == IiifRegion(opened, g)
            size == IiifSize(region, s)
        IN  /\ reply = None /\ view = NewView(conf.max, conf.up)
            /\ IF RegionRefused(g) THEN view' = region /\ reply' = Error
               ELSE IF size.refused THEN view' = size.view /\ reply' = Error
               ELSE IiifServe(getResolution(size.view), half)
            /\ UNCHANGED <<conf, image>>

-----------------------------------------------------------------------------
(* Protocols that address tiles.                                            *)

Served(by, res, tile, asked) ==
    [kind |-> "tile", by |-> by, res |-> res, tile |-> tile, asked |-> asked]

Columns(res) == Tiles(WidthAt(image, res), image.tw)

JTL ==
    \E res \in 0..image.levels - 1, tile \in Coords, half \in BOOLEAN :
        LET t == IF half THEN Turned(res, tile) ELSE tile
        IN  /\ reply = None /\ view = NewView(conf.max, conf.up)
            /\ reply' = IF t < 0 THEN Error
                        ELSE Served(IF half THEN "half turn" ELSE "JTL", res, t, <<tile>>)
            /\ UNCHANGED <<conf, image, view>>

\* Levels that Zoomify has no use for: all but one of those below a tile.
Discarded ==
    LET small == {r \in 0..image.levels - 1 :
                    WidthAt(image, r) < image.tw /\ HeightAt(image, r) < image.tw}
    IN  Max({Cardinality(small) - 1, 0})

\* A client asks for the levels that remain.
Zoomify ==
    \E r \in 0..image.levels - 1, x, y \in Coords :
        LET res == r + Discarded
        IN  /\ reply = None /\ view = NewView(conf.max, conf.up)
            /\ res \in 0..image.levels - 1
            /\ reply' = Served("Zoomify", res, y * Columns(res) + x, <<r, x, y>>)
            /\ UNCHANGED <<conf, image, view>>

\* ceil(log2(n)).
CeilLog2(n) == CHOOSE k \in 0..n : Pow2[k] >= n /\ (k = 0 \/ Pow2[k - 1] < n)

DziLevels == CeilLog2(Max({image.w, image.h}))

DeepZoomResolutionFault(level) ==
    Min({Max({level - (DziLevels - image.levels), 0}), image.levels - 1})

\* The extra levels of the DeepZoom format lie below the smallest real one.
DeepZoomResolution(level) ==
    Min({Max({level - (DziLevels - image.levels) - 1, 0}), image.levels - 1})

DeepZoom ==
    \E level \in 0..DziLevels, x, y \in Coords :
        LET res == DeepZoomResolution(level)
        IN  /\ reply = None /\ view = NewView(conf.max, conf.up)
            /\ reply' = Served("DeepZoom", res, y * Columns(res) + x, <<level, x, y>>)
            /\ UNCHANGED <<conf, image, view>>

\* TIL::run: the rectangle spanned by two tiles, column by column.
Rectangle(res, s, e) ==
    LET n == Columns(res)
        startx == Min({s % n, e % n})
        endx == Max({s % n, e % n})
        starty == s \div n
        endy == e \div n
        rows == endy - starty + 1
    IN  [k \in 1..(endx - startx + 1) * rows |->
            startx + ((k - 1) \div rows) + (starty + ((k - 1) % rows)) * n]

TIL ==
    \E res \in 0..image.levels - 1, s, last \in Coords :
        LET e == Max({s, last})
        IN  /\ reply = None /\ view = NewView(conf.max, conf.up)
            /\ reply' = [kind |-> "tiles", res |-> res, tiles |-> Rectangle(res, s, e),
                         asked |-> <<s, e>>]
            /\ UNCHANGED <<conf, image, view>>

-----------------------------------------------------------------------------
(* Pixel queries.                                                           *)

\* PFL::run: a horizontal or vertical line, or a point.
ProfileRect(x1, y1, x2, y2) ==
    IF x2 > x1 THEN [x |-> x1, y |-> y1, w |-> x2 - x1, h |-> 1]
    ELSE IF y2 > y1 THEN [x |-> x1, y |-> y1, w |-> 1, h |-> y2 - y1]
    ELSE [x |-> x1, y |-> y1, w |-> 1, h |-> 1]

PFL ==
    \E res \in 0..image.levels, x1, y1, x2, y2 \in Coords :
        /\ reply = None /\ view = NewView(conf.max, conf.up)
        /\ reply' =
            IF \/ res >= image.levels
               \/ x1 > WidthAt(image, res) \/ x2 > WidthAt(image, res)
               \/ y1 > HeightAt(image, res) \/ y2 > HeightAt(image, res)
            THEN Error
            ELSE LET r == ProfileRect(x1, y1, x2, y2)
                 IN  [kind |-> "profile", res |-> res, rect |-> r,
                      blits |-> getRegion(image, res, r)]
        /\ UNCHANGED <<conf, image, view>>

\* SPECTRA::run: the index of a pixel in a tile, with the full tile width as
\* the length of a row.
SpectraIndex(x, y) == y * image.tw + x

SPECTRA ==
    \E res \in 0..image.levels - 1, tile, x, y \in Coords :
        /\ reply = None /\ view = NewView(conf.max, conf.up)
        /\ reply' =
            IF x >= image.tw \/ y >= image.th \/ ~TileExists(image, res, tile) THEN Error
            ELSE LET t == TileRect(image, res, tile)
                 IN  [kind |-> "point", res |-> res, tile |-> tile, asked |-> <<x, y>>,
                      index |-> IF x >= t.w \/ y >= t.h THEN {} ELSE {SpectraIndex(x, y)}]
        /\ UNCHANGED <<conf, image, view>>

Next ==
    \/ NextRequest
    \/ RGN \/ WID \/ HEI \/ CVT
    \/ IIIF
    \/ JTL \/ Zoomify \/ DeepZoom \/ TIL
    \/ PFL \/ SPECTRA

Spec == Init /\ [][Next]_vars

-----------------------------------------------------------------------------
(* Properties.                                                              *)

\* Every member of the View is in its range: fractions between 0 and 1, sizes
\* below the word size, the resolution one that the image has.
TypeOK ==
    /\ conf \in [max : MaxSizes, up : BOOLEAN, version : Versions]
    /\ image \in Images
    /\ \A f \in {view.left, view.top, view.width, view.height} :
            f[1] \in 0..f[2] /\ f[2] > 0
    /\ {view.reqw, view.reqh} \subseteq 0..WordSize - 1
    /\ view.resolution \in 0..Max({view.max_resolutions - 1, 0})
    /\ view.max_resolutions \in {0, image.levels}
    /\ reply.kind \in {"none", "error", "region", "tile", "tiles", "profile", "point"}

\* The copies of one direction write every pixel of an extent that starts at x
\* exactly once, from its own place in the level, and read inside their tile.
Covers(pieces, x, extent, tile) ==
    /\ \A p \in Range(pieces) : p.from + p.len <= p.src
    /\ \A k \in 0..extent - 1 : \E i \in DOMAIN pieces :
            /\ pieces[i].tile * tile + pieces[i].from + (k - pieces[i].at) = x + k
            /\ \A j \in DOMAIN pieces :
                    (pieces[j].at <= k /\ k < pieces[j].at + pieces[j].len) <=> j = i
    /\ \A p \in Range(pieces) : p.at + p.len <= extent

\* TileManager::getRegion puts a region together from tiles without a gap, an
\* overlap or a shifted tile, whatever the alignment of the region and the cut
\* of the last tiles, and asks for no tile that does not exist, for every
\* region inside the level that CVT, IIIF or PFL asks for.
RegionExact ==
    (reply.kind \in {"region", "profile"} /\ Fits(image, reply.res, reply.rect)) =>
        /\ Covers(reply.blits.cols, reply.rect.x, reply.rect.w, image.tw)
        /\ Covers(reply.blits.rows, reply.rect.y, reply.rect.h, image.th)
        /\ Decodes(image, reply.res, reply.blits)

\* The output of an export respects MAX_CVT, and without upscaling it is no
\* larger than the image, through every way of asking for a size; the 0.1% by
\* which CVT lets the aspect ratio differ is the only excess.
OutputBounded ==
    reply.kind = "region" =>
        /\ conf.max > 0 => \A i \in 1..2 : 1000 * reply.out[i] <= 1001 * conf.max + 500
        /\ ~view.upscale => /\ 1000 * reply.out[1] <= 1001 * image.w + 500
                            /\ 1000 * reply.out[2] <= 1001 * image.h + 500

\* An export that keeps the aspect ratio fits within the size that was asked for,
\* given by width, by height or by both (CVT allows a difference of 0.1%).
FitsRequest ==
    (reply.kind = "region" /\ view.aspect /\ Fits(image, reply.res, reply.rect)) =>
        /\ 1000 * reply.out[1] <= 1001 * getRequestWidth(view) + 500
        /\ 1000 * reply.out[2] <= 1001 * getRequestHeight(view) + 500

\* CVT cuts a region that starts inside the chosen level to one that lies
\* inside it and is not empty, although offsets and extents are rounded
\* differently (View::getViewLeft, View::getViewWidth).
CutFits ==
    (/\ reply.kind = "region"
     /\ reply.rect.x < WidthAt(image, reply.res)
     /\ reply.rect.y < HeightAt(image, reply.res)) => Fits(image, reply.res, reply.rect)

\* From the fractions of a request to the copies out of the tiles, an export
\* shows the region of the level it is about: cut to the level by CVT, then
\* put together by getRegion.
RegionServed == CutFits /\ RegionExact

\* The size of an export respects the limits of the server and those of the
\* request (CVT, View::getRequestWidth, View::getRequestHeight).
SizeBounded == OutputBounded /\ FitsRequest

\* View::getResolution chooses a level with enough pixels: where MAX_CVT is
\* no limit, an export of a region inside the image that keeps the aspect ratio is
\* never enlarged in both directions from a level below the full one.
Sharp ==
    (/\ reply.kind = "region" /\ view.aspect
     /\ Fits(image, reply.res, reply.rect)
     /\ ~Above(view.height, <<view.top[2] - view.top[1], view.top[2]>>)
     /\ Max({image.w, image.h, view.reqw, view.reqh}) <= conf.max
     /\ view.reqw # 0 \/ view.reqh # 0
     /\ reply.res < image.levels - 1)
        => reply.out[1] <= reply.rect.w \/ reply.out[2] <= reply.rect.h

\* A tile that a Zoomify or DeepZoom client addresses by level, column and row
\* is, for the decoder, the tile of that column and row, both counted from the
\* top left (where the comments at Zoomify.cc:46 and DeepZoom.cc:56 say bottom
\* left, the numbers that they compute run downwards); and each DeepZoom level
\* that the image has is served in its own scale.
AddressedTile ==
    (/\ reply.kind = "tile" /\ reply.by \in {"Zoomify", "DeepZoom"}
     /\ reply.asked[2] < Columns(reply.res)
     /\ reply.asked[3] < Tiles(HeightAt(image, reply.res), image.th)) =>
        /\ TileExists(image, reply.res, reply.tile)
        /\ LET t == TileRect(image, reply.res, reply.tile)
           IN  t.x = reply.asked[2] * image.tw /\ t.y = reply.asked[3] * image.th
        /\ (reply.by = "DeepZoom" /\ DziLevels - reply.asked[1] < image.levels) =>
                WidthAt(image, reply.res) = Half(image.w, DziLevels - reply.asked[1])

\* JTL::send with a half turn serves the tile that lies opposite the one it is
\* given, so that a JTL client that lays tiles out row by row sees the turned
\* image.  The tiles are square: with oblong ones JTL.cc:59 counts the rows wrong.
HalfTurn ==
    (/\ reply.kind = "tile" /\ reply.by \in {"half turn", "IIIF half turn"}
     /\ image.tw = image.th
     /\ TileExists(image, reply.res, reply.asked[1])) =>
        LET a == TileRect(image, reply.res, reply.asked[1])
            t == TileRect(image, reply.res, reply.tile)
        IN  /\ a.x + t.x = (Columns(reply.res) - 1) * image.tw
            /\ a.y + t.y = (Tiles(HeightAt(image, reply.res), image.th) - 1) * image.th

\* TIL sends every tile of the rectangle spanned by its two tiles exactly once
\* and no other, also when the last tile lies left of the first one.
TilRectangle ==
    reply.kind = "tiles" =>
        LET n == Columns(reply.res)
            s == reply.asked[1]
            e == reply.asked[2]
            between(a, b, c) == (a <= c /\ c <= b) \/ (b <= c /\ c <= a)
        IN  /\ IsInjective(reply.tiles)
            /\ \A t \in 0..Max({s, e}) + n :
                    t \in Range(reply.tiles) <=>
                        between(s % n, e % n, t % n) /\ between(s \div n, e \div n, t \div n)

\* SPECTRA reads the pixel asked for, and nothing outside the tile, from every
\* tile that is not cut by the right edge of the image; in a cut one it takes
\* the wrong length of a row (SPECTRA.cc:115), and only the first row is right.
SpectraPoint ==
    (reply.kind = "point" /\ reply.index # {}) =>
        LET t == TileRect(image, reply.res, reply.tile)
            i == CHOOSE k \in reply.index : TRUE
        IN  (t.w = image.tw \/ reply.asked[2] = 0) =>
                /\ i < t.w * t.h
                /\ i % t.w = reply.asked[1] /\ i \div t.w = reply.asked[2]

\* Above the smallest level, an IIIF request without a half turn that is passed
\* on as a tile names a tile that exists and that begins where the region
\* begins.  With a half turn it is the tile opposite (HalfTurn).
IiifTile ==
    (reply.kind = "tile" /\ reply.by = "IIIF" /\ reply.res > 0) =>
        /\ TileExists(image, reply.res, reply.tile)
        /\ LET t == TileRect(image, reply.res, reply.tile)
           IN  t.x = reply.rect.x /\ t.y = reply.rect.y

\* What each protocol that addresses tiles or pixels of a tile means by its
\* numbers is what the decoder means by the tile number it is given (JTL,
\* Zoomify, DeepZoom, IIIF, TIL and SPECTRA each convert on their own), but for
\* the cases that AddressedAlways adds and the code gets wrong.
TilesAddressed ==
    AddressedTile /\ HalfTurn /\ IiifTile /\ TilRectangle /\ SpectraPoint

\* IIIF passes a request on as a tile when it "coincides with our tile
\* boundaries": the region asked for is that tile.
TileIsRegion ==
    (reply.kind = "tile" /\ reply.by \in {"IIIF", "IIIF half turn"}) =>
        reply.rect = TileRect(image, reply.res, reply.tile)

\* What TilesAddressed leaves out: a half turn of oblong tiles reaches the
\* opposite tile, SPECTRA the pixel in a tile that the right edge cuts, and an
\* IIIF region with a half turn is answered with its own tile.  The code does not
\* (JTL.cc:59, SPECTRA.cc:115, IIIF.cc:650).
AddressedAlways ==
    /\ (reply.kind = "tile" /\ reply.by = "half turn"
            /\ TileExists(image, reply.res, reply.asked[1])) =>
        TileExists(image, reply.res, reply.tile)
    /\ (reply.kind = "point" /\ reply.index # {}) =>
        LET t == TileRect(image, reply.res, reply.tile)
        IN  reply.index = {reply.asked[2] * t.w + reply.asked[1]}
    /\ (reply.kind = "tile" /\ reply.by = "IIIF half turn") => reply.tile = reply.asked[1]

\* "Make sure our region fits within the image" (CVT.cc:97): no region reaches
\* outside its level.  One that begins at the end of a level that was rounded
\* down does: its cut wraps round (CVT.cc:98).
CutAlways == reply.kind = "region" => Fits(image, reply.res, reply.rect)

\* MAX_CVT of -1 sets no limit (README): the output of an IIIF export is no
\* larger than a size that was asked for.
NoMaximum ==
    [][(/\ conf.max = -1 /\ reply = None /\ view.reqw = 0 /\ view.reqh = 0
        /\ reply'.kind = "region" /\ view'.reqw # 0) =>
            LET full == setMaxResolutions(view', image.levels)
            IN  \E s \in IiifSizes :
                    LET want == Wanted(s, getViewWidth(full), getViewHeight(full))
                    IN  reply'.out[1] <= want[1] /\ reply'.out[2] <= want[2]]_vars
=============================================================================
