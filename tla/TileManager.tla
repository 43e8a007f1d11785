----------------------------- MODULE TileManager -----------------------------
(****************************************************************************)
(* TileManager::getTile of src/TileManager.cc: one session that opens an    *)
(* image and asks for tiles, over a tile cache that may forget (TileStore)  *)
(* and image files that another program rewrites at any moment.             *)
(*                                                                          *)
(* Pixels are represented by where they come from: the time the file they   *)
(* were read from was written, and how often the tile was watermarked and   *)
(* cropped.  An image is a set of files, one for each view (an angle of a   *)
(* 3D sequence or a band of a multispectral one); openImage() opens the     *)
(* file of DefaultView and takes the time stamp of that file.               *)
(****************************************************************************)
EXTENDS Integers, FiniteSets

CONSTANTS Path,         \* image paths
          Tiff,         \* those read by TPTImage; the others are JPEG2000
          View,         \* pairs of horizontal and vertical angle
          DefaultView,  \* 0 and 90, which openImage() opens
          TileNo,       \* resolution and tile number
          EdgeTile,     \* the tiles that are smaller than the tile size
          Quality,      \* quality of the session's compressor
          Layers,       \* number of quality layers to decode
          Watermark,    \* whether watermark->isSet()
          MaxTime,      \* bound on the clock, in seconds
          MaxTiles,     \* bound on the tiles in the store
          NULL

ASSUME PathAssumption == Tiff \subseteq Path
ASSUME ViewAssumption == DefaultView \in View
ASSUME TileAssumption == EdgeTile \subseteq TileNo
ASSUME QualityAssumption == Quality \subseteq Nat
ASSUME WatermarkAssumption == Watermark \in BOOLEAN
ASSUME BoundAssumption == MaxTime \in Nat /\ MaxTiles \in Nat

File == Path \X View
Format == {"UNCOMPRESSED", "JPEG", "PNG", "DEFLATE"}

(* The arguments of Cache::getIndex, the number of layers not among them. *)
TileKey == [path : Path, view : View, tile : TileNo, format : Format,
            quality : Quality \cup {0}]

(* class RawTile; from: the view whose file the pixels were read from;      *)
(* eight: bpc is 8 and channels are 1 or 3.                                 *)
RawTile == [key : TileKey, stamp : Nat, written : Nat, from : View,
            layers : Layers, eight : BOOLEAN, padded : BOOLEAN,
            marks : Nat, crops : Nat]

(* The arguments of getTile, with the quality of the compressor. *)
Request == [view : View, tile : TileNo, format : Format, quality : Quality,
            layers : Layers]

(* class IIPImage: stamp, the timestamp of openImage(); view, the view of   *)
(* the open file; opened, the time that file was written (NULL: not open).  *)
(* since, the time of openImage(), is there for the properties.             *)
Image == [path : Path, stamp : Nat, view : View, opened : Nat \cup {NULL},
          eight : BOOLEAN, since : Nat]

ASSUME NullAssumption == NULL \notin Nat \cup RawTile \cup Request \cup Image

VARIABLES clock,    \* the time, in seconds
          mtime,    \* st_mtime of each file
          store,    \* the tile cache, as TileStore has it
          result,   \* rawtile, the pointer the last lookup returned
          image,    \* the session's image, NULL between requests
          req,      \* the arguments of the current call
          tile,     \* ttt, the tile being prepared
          out,      \* the tile the last call returned
          pc

fileVars == <<clock, mtime>>
callVars == <<req, tile, out>>
vars == <<clock, mtime, store, result, image, req, tile, out, pc>>

Cache == INSTANCE TileStore WITH Key <- TileKey, Tile <- RawTile, Miss <- NULL

-----------------------------------------------------------------------------
Init ==
  /\ clock = 0 /\ mtime = [f \in File |-> 0]
  /\ Cache!StoreInit
  /\ image = NULL /\ req = NULL /\ tile = NULL /\ out = NULL
  /\ pc = "idle"

Tick ==
  /\ clock < MaxTime
  /\ clock' = clock + 1
  /\ UNCHANGED <<mtime, store, result, image, callVars, pc>>

(* Another program writes an image file. *)
ModifyFile(f) ==
  /\ mtime' = [mtime EXCEPT ![f] = clock]
  /\ UNCHANGED <<clock, store, result, image, callVars, pc>>

(* openImage(): the time stamp is taken first, *)
StatImage(p) ==
  /\ pc = "idle"
  /\ \E e \in BOOLEAN :
       image' = [path |-> p, stamp |-> mtime[<<p, DefaultView>>],
                 view |-> DefaultView, opened |-> NULL, eight |-> e,
                 since |-> clock]
  /\ pc' = "stat"
  /\ UNCHANGED <<fileVars, store, result, callVars>>

(* Fault: the file is opened first and the time stamp taken after. *)
OpenBeforeStat ==
  /\ pc = "stat"
  /\ image' = [image EXCEPT !.opened = image.stamp,
                            !.stamp = mtime[<<image.path, DefaultView>>]]
  /\ pc' = "ready"
  /\ UNCHANGED <<fileVars, store, result, callVars>>

(* and the file is opened after. *)
OpenImage ==
  /\ pc = "stat"
  /\ image' = [image EXCEPT !.opened = mtime[<<image.path, DefaultView>>]]
  /\ pc' = "ready"
  /\ UNCHANGED <<fileVars, store, result, callVars>>

(* The request is over, or failed with an exception: Main.cc deletes the    *)
(* image.                                                                   *)
CloseImage ==
  /\ pc \in {"stat", "ready"}
  /\ image' = NULL /\ req' = NULL /\ out' = NULL
  /\ pc' = "idle"
  /\ UNCHANGED <<fileVars, store, result, tile>>

-----------------------------------------------------------------------------
KeyOf(format, quality) ==
  [path |-> image.path, view |-> req.view, tile |-> req.tile,
   format |-> format, quality |-> quality]

RawKey == KeyOf("UNCOMPRESSED", 0)
EncodedKey == KeyOf(req.format, req.quality)

GetTile(q) ==
  /\ pc = "ready"
  /\ Cardinality(DOMAIN store) < MaxTiles
  /\ req' = q /\ out' = NULL
  /\ pc' = CASE q.format \in {"JPEG", "PNG"} -> "encoded"
             [] q.format = "UNCOMPRESSED" -> "raw"
             [] OTHER -> "check"
  /\ UNCHANGED <<fileVars, store, result, image, tile>>

(* The first lookup of a JPEG or PNG request: the encoded tile. *)
LookupEncoded ==
  /\ pc = "encoded"
  /\ Cache!Get(EncodedKey)
  /\ pc' = IF result' = NULL THEN "raw" ELSE "check"
  /\ UNCHANGED <<fileVars, image, callVars>>

(* The second lookup, and the only one of an UNCOMPRESSED request. *)
LookupRaw ==
  /\ pc = "raw"
  /\ Cache!Get(RawKey)
  /\ pc' = "check"
  /\ UNCHANGED <<fileVars, image, callVars>>

(* Fault: the time stamps are not compared. *)
NeedsTileOnMiss == result = NULL

(* Whether the tile must be decoded: there is none, or it is too old. *)
NeedsNewTile == result # NULL => result.stamp < image.stamp

-----------------------------------------------------------------------------
(* Fault: the tile is still said to be padded. *)
CropKeepsPadded(t) ==
  IF t.key.tile \in EdgeTile /\ t.padded
  THEN [t EXCEPT !.crops = @ + 1]
  ELSE t

(* crop(): an edge tile that the decoder padded to the tile size. *)
Crop(t) ==
  IF t.key.tile \in EdgeTile /\ t.padded
  THEN [t EXCEPT !.crops = @ + 1, !.padded = FALSE]
  ELSE t

(* watermark->apply, which draws the mark with a given probability: marks   *)
(* counts the calls.                                                        *)
Mark(t) == IF Watermark THEN [t EXCEPT !.marks = @ + 1] ELSE t

(* Whether a tile can be encoded as the request asks. *)
Encodes(t) == req.format = "PNG" \/ (req.format = "JPEG" /\ t.eight)

(* Fault: the quality is not recorded. *)
CompressNoQuality(t) == [t EXCEPT !.key.format = req.format]

(* compressor->Compress sets compressionType and quality. *)
Compress(t) ==
  [t EXCEPT !.key.format = req.format, !.key.quality = req.quality]

(* Fault: the file of another view is not opened. *)
SeekNever == image' = image

(* image->getTile of TPTImage closes the open file if it is of another view *)
(* than the requested one, opens that one and reads its metadata; the time  *)
(* stamp stays.  The JPEG2000 decoders read the open file in any case.      *)
Seek ==
  IF image.view = req.view \/ image.path \notin Tiff
  THEN image' = image
  ELSE \E e \in BOOLEAN :
         image' = [image EXCEPT !.view = req.view, !.eight = e,
                                !.opened = mtime[<<image.path, req.view>>]]

(* Fault: the tiles of every decoder are said to be padded. *)
DecodedPadded(written) ==
  [key |-> RawKey, stamp |-> image.stamp, written |-> written,
   from |-> image'.view, layers |-> req.layers, eight |-> image'.eight,
   padded |-> TRUE, marks |-> 0, crops |-> 0]

Decoded(written) ==
  [key |-> RawKey, stamp |-> image.stamp, written |-> written,
   from |-> image'.view, layers |-> req.layers, eight |-> image'.eight,
   padded |-> image.path \in Tiff, marks |-> 0, crops |-> 0]

(* getNewTile, up to the insertion.  The pixels are those the file had when *)
(* it was opened, or later ones if it was rewritten in place.               *)
GetNewTile ==
  /\ pc = "check" /\ NeedsNewTile
  /\ Seek
  /\ \E w \in {image'.opened, mtime[<<image.path, image'.view>>]} :
       LET t == Crop(Mark(Decoded(w)))
       IN  tile' = IF Encodes(t) THEN Compress(t) ELSE t
  /\ Cache!Release
  /\ pc' = "insert"
  /\ UNCHANGED <<fileVars, req, out>>

(* image->getTile throws file_error; the image is deleted with the request. *)
DecodeFails ==
  /\ pc = "check" /\ NeedsNewTile
  /\ Cache!Release
  /\ image' = NULL /\ req' = NULL
  /\ pc' = "idle"
  /\ UNCHANGED <<fileVars, tile, out>>

(* The cached tile is not compressed and must be: a copy of it is. *)
Convert ==
  /\ pc = "check" /\ ~ NeedsNewTile
  /\ result.key.format = "UNCOMPRESSED" /\ Encodes(result)
  /\ tile' = Compress(Crop(result))
  /\ Cache!Release
  /\ pc' = "insert"
  /\ UNCHANGED <<fileVars, image, req, out>>

(* The cached tile is returned as it is. *)
ReturnCached ==
  /\ pc = "check" /\ ~ NeedsNewTile
  /\ ~ (result.key.format = "UNCOMPRESSED" /\ Encodes(result))
  /\ out' = result
  /\ Cache!Release
  /\ pc' = "ready"
  /\ UNCHANGED <<fileVars, image, req, tile>>

(* tileCache->insert of a tile whose key is held by an older one, *)
InsertReplaces ==
  /\ pc = "insert"
  /\ tile.key \in DOMAIN store /\ store[tile.key].stamp < tile.stamp
  /\ Cache!Forget({tile.key})
  /\ UNCHANGED <<fileVars, image, callVars, pc>>

(* and the end of insert: the tile is stored unless its key is held. *)
InsertEnds ==
  /\ pc = "insert"
  /\ \/ tile.key \notin DOMAIN store /\ Cache!Put(tile.key, tile)
     \/ /\ tile.key \in DOMAIN store /\ ~ (store[tile.key].stamp < tile.stamp)
        /\ UNCHANGED <<store, result>>
  /\ out' = tile /\ tile' = NULL
  /\ pc' = "ready"
  /\ UNCHANGED <<fileVars, image, req>>

(* Eviction at the end of insert, or SIGHUP while the server waits. *)
Evict(K) ==
  /\ pc \in {"idle", "ready"}
  /\ Cache!Forget(K)
  /\ UNCHANGED <<fileVars, image, callVars, pc>>

Next ==
  \/ Tick
  \/ \E f \in File : ModifyFile(f)
  \/ \E p \in Path : StatImage(p)
  \/ OpenImage
  \/ CloseImage
  \/ \E q \in Request : GetTile(q)
  \/ LookupEncoded
  \/ LookupRaw
  \/ GetNewTile
  \/ DecodeFails
  \/ Convert
  \/ ReturnCached
  \/ InsertReplaces
  \/ InsertEnds
  \/ \E k \in DOMAIN store : Evict({k})

Spec == Init /\ [][Next]_vars
-----------------------------------------------------------------------------
(* Every variable has its type, and the call's variables are set in the     *)
(* steps that use them.                                                     *)
TypeOK ==
  /\ clock \in Nat /\ mtime \in [File -> Nat]
  /\ store \in [DOMAIN store -> RawTile] /\ DOMAIN store \subseteq TileKey
  /\ result \in RawTile \cup {NULL} /\ (result # NULL => pc = "check")
  /\ image \in Image \cup {NULL} /\ (image = NULL <=> pc = "idle")
  /\ req \in Request \cup {NULL}
  /\ pc \in {"encoded", "raw", "check", "insert"} => req # NULL
  /\ tile \in RawTile \cup {NULL} /\ (tile = NULL <=> pc # "insert")
  /\ out \in RawTile \cup {NULL} /\ (out # NULL => pc = "ready")
  /\ pc \in {"idle", "stat", "ready", "encoded", "raw", "check", "insert"}

(* A tile of the default view holds pixels no older than its time stamp     *)
(* says: the stamp is read before the file is opened.                       *)
Fresh(t) == t.key.view = DefaultView => t.written >= t.stamp

(* The pixels are of the view the tile is for, if the image has views. *)
OfItsView(t) == t.key.path \in Tiff => t.from = t.key.view

(* The tile has been watermarked once, cropped once if it is an edge tile   *)
(* that came padded, and not otherwise.                                     *)
PreparedOnce(t) ==
  /\ t.marks = IF Watermark THEN 1 ELSE 0
  /\ t.crops = IF t.key.path \in Tiff /\ t.key.tile \in EdgeTile THEN 1 ELSE 0
  /\ t.padded => t.key.tile \notin EdgeTile

(* Every cached tile is under its own key, has fresh pixels of its view,    *)
(* and is encoded as its key says only if it could be; so that a later      *)
(* request may use it in any of the ways getTile has, whatever happened to  *)
(* the file since.                                                          *)
CacheIsSound ==
  \A k \in DOMAIN store :
    /\ store[k].key = k /\ Fresh(store[k]) /\ OfItsView(store[k])
    /\ k.format # "DEFLATE"
    /\ k.format = "JPEG" => store[k].eight
    /\ k.format = "UNCOMPRESSED" => k.quality = 0

(* No pixels are watermarked or cropped twice, on any path by which a tile  *)
(* reaches the cache or the caller: a second crop() would read past the end *)
(* of the cropped buffer.                                                   *)
PreparedExactlyOnce ==
  /\ \A k \in DOMAIN store : PreparedOnce(store[k])
  /\ out # NULL => PreparedOnce(out)

(* A served tile of the default view is no older than the file was when the *)
(* request opened it, from the cache or not.                                *)
ServedFresh ==
  out # NULL /\ out.key.view = DefaultView => out.written >= image.stamp

(* getTile returns the tile that was asked for, with pixels of its view, in *)
(* the requested encoding and quality wherever the pixels allow it, and     *)
(* uncompressed otherwise.                                                  *)
ServedAsAsked ==
  out # NULL =>
    /\ out.key = IF Encodes(out) THEN EncodedKey ELSE RawKey
    /\ OfItsView(out)

-----------------------------------------------------------------------------
(* What comments of the repository say of getTile, and the code does not do *)
(* in every case.                                                           *)

(* ChangeLog: "The TileManager now checks whether the tile is fresh and     *)
(* reloads it if necessary".  A file that was last written before the       *)
(* request opened the image is served as it is, in whatever view.           *)
EveryViewFresh ==
  out # NULL =>
    LET m == mtime[<<out.key.path, out.key.view>>]
    IN  m < image.since => out.written >= m

(* TileManager.h: "layers number of quality layers within image to decode": *)
(* a tile of a format with layers has been decoded from that many.          *)
LayersAsAsked ==
  out # NULL /\ image.path \notin Tiff => out.layers = req.layers

(* TileManager.h: "otherwise check for an uncompressed tile. If that does   *)
(* not exist either, extract a tile from the image": no tile is decoded     *)
(* while the cache has an up-to-date uncompressed one.                      *)
DecodesOnlyOnMiss ==
  pc = "check" /\ NeedsNewTile /\ req.format # "DEFLATE" /\ RawKey \in DOMAIN store =>
    store[RawKey].stamp < image.stamp
=============================================================================
