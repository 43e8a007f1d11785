-------------------------- MODULE TileManagerProofs --------------------------
(****************************************************************************)
(* The invariants of TileManager hold for every set of images, views, tiles *)
(* and qualities, any clock and any capacity of the cache.                  *)
(****************************************************************************)
EXTENDS TileManager, TLAPS

(* A tile that is fresh, of its view, prepared once and encoded as its key  *)
(* says.                                                                    *)
Sound(t) ==
  /\ Fresh(t) /\ OfItsView(t) /\ PreparedOnce(t)
  /\ t.key.format # "DEFLATE"
  /\ t.key.format = "JPEG" => t.eight
  /\ t.key.format = "UNCOMPRESSED" => t.key.quality = 0

(* A tile that answers the current request. *)
Answers(t) ==
  /\ Sound(t) /\ t.stamp >= image.stamp
  /\ t.key = IF Encodes(t) THEN EncodedKey ELSE RawKey

(* The clock does not run backwards. *)
FilesInv == \A f \in File : mtime[f] <= clock

(* The open file is never older than the time stamp of the image. *)
ImageInv ==
  image # NULL =>
    /\ image.stamp <= mtime[<<image.path, DefaultView>>]
    /\ pc # "stat" => image.opened \in Nat
    /\ image.opened # NULL /\ image.view = DefaultView => image.opened >= image.stamp
    /\ image.path \notin Tiff => image.view = DefaultView

StoreInv == \A k \in DOMAIN store : store[k].key = k /\ Sound(store[k])

(* The pointer in hand is to a tile of one of the two keys looked up. *)
ResultInv ==
  result # NULL =>
    /\ Sound(result)
    /\ \/ result.key = RawKey
       \/ result.key = EncodedKey /\ req.format \in {"JPEG", "PNG"}

CallInv ==
  /\ pc = "encoded" => req.format \in {"JPEG", "PNG"}
  /\ tile # NULL => Answers(tile)
  /\ out # NULL => req # NULL /\ Answers(out)

ManagerInv ==
  TypeOK /\ FilesInv /\ ImageInv /\ StoreInv /\ ResultInv /\ CallInv

-----------------------------------------------------------------------------
(* What Mark and Crop do to a tile that comes from a decoder. *)
LEMMA PrepareNew ==
  ASSUME NEW t \in RawTile, t.marks = 0, t.crops = 0,
         t.padded <=> t.key.path \in Tiff
  PROVE  LET c == Crop(Mark(t)) IN
           /\ c \in RawTile /\ PreparedOnce(c)
           /\ c.key = t.key /\ c.stamp = t.stamp /\ c.written = t.written
           /\ c.eight = t.eight /\ c.from = t.from
<1> DEFINE m == Mark(t)
           c == Crop(m)
<1>1. /\ m \in RawTile /\ m.marks = IF Watermark THEN 1 ELSE 0
      /\ m.crops = 0 /\ m.padded = t.padded
      /\ m.key = t.key /\ m.stamp = t.stamp /\ m.written = t.written
      /\ m.eight = t.eight /\ m.from = t.from
  BY WatermarkAssumption DEF Mark, RawTile
<1> HIDE DEF m
<1>2. /\ c \in RawTile /\ c.marks = m.marks
      /\ c.key = m.key /\ c.stamp = m.stamp /\ c.written = m.written
      /\ c.eight = m.eight /\ c.from = m.from
  <2>1. CASE m.key.tile \in EdgeTile /\ m.padded
    <3>1. c = [m EXCEPT !.crops = @ + 1, !.padded = FALSE]
      BY <2>1 DEF Crop
    <3>2. m \in RawTile /\ m.crops = 0
      BY <1>1
    <3> HIDE DEF c
    <3> DEFINE n == m.crops + 1
    <3>3. c = [m EXCEPT !.crops = n, !.padded = FALSE] /\ n \in Nat
      BY <3>1, <3>2
    <3> HIDE DEF n
    <3>4. c \in RawTile
      <4>1. FALSE \in BOOLEAN
        OBVIOUS
      <4>2. QED
        BY <3>2, <3>3, <4>1, Zenon DEF RawTile
    <3>5. QED
      BY <3>2, <3>3, <3>4 DEF RawTile
  <2>2. CASE ~ (m.key.tile \in EdgeTile /\ m.padded)
    BY <1>1, <2>2 DEF Crop
  <2>3. QED
    BY <2>1, <2>2
<1>3. CASE m.key.tile \in EdgeTile /\ m.padded
  <2>1. c = [m EXCEPT !.crops = @ + 1, !.padded = FALSE]
    BY <1>3 DEF Crop
  <2>2. c.crops = 1 /\ c.padded = FALSE
    BY <1>1, <2>1 DEF RawTile
  <2>3. PreparedOnce(c)
    BY <1>1, <1>2, <1>3, <2>2 DEF PreparedOnce
  <2>4. QED
    BY <1>1, <1>2, <2>3 DEF m
<1>4. CASE ~ (m.key.tile \in EdgeTile /\ m.padded)
  <2>1. c = m
    BY <1>4 DEF Crop
  <2>2. PreparedOnce(c)
    BY <1>1, <1>4, <2>1 DEF PreparedOnce
  <2>3. QED
    BY <1>1, <1>2, <2>2 DEF m
<1>5. QED
  BY <1>3, <1>4

(* A tile that has been prepared is left alone by crop(). *)
LEMMA CropCached ==
  ASSUME NEW t \in RawTile, PreparedOnce(t)
  PROVE  Crop(t) = t
BY DEF Crop, PreparedOnce

(* Compress changes the encoding and nothing else. *)
LEMMA CompressTile ==
  ASSUME NEW t \in RawTile, req \in Request
  PROVE  /\ Compress(t) \in RawTile
         /\ Compress(t).key = [t.key EXCEPT !.format = req.format, !.quality = req.quality]
         /\ Compress(t).stamp = t.stamp /\ Compress(t).written = t.written
         /\ Compress(t).eight = t.eight /\ Compress(t).padded = t.padded
         /\ Compress(t).marks = t.marks /\ Compress(t).crops = t.crops
         /\ Compress(t).from = t.from
BY Zenon DEF Compress, RawTile, Request, TileKey, Format

(* A sound tile that the request can encode is sound when encoded. *)
LEMMA CompressSound ==
  ASSUME NEW t \in RawTile, req \in Request, image \in Image,
         Sound(t), Encodes(t), t.key = RawKey
  PROVE  /\ Compress(t) \in RawTile /\ Sound(Compress(t))
         /\ Compress(t).stamp = t.stamp
         /\ Encodes(Compress(t)) /\ Compress(t).key = EncodedKey
<1> DEFINE c == Compress(t)
<1>1. /\ c \in RawTile
      /\ c.key = [t.key EXCEPT !.format = req.format, !.quality = req.quality]
      /\ c.stamp = t.stamp /\ c.written = t.written
      /\ c.eight = t.eight /\ c.padded = t.padded
      /\ c.marks = t.marks /\ c.crops = t.crops /\ c.from = t.from
  BY CompressTile, Zenon
<1> HIDE DEF c
<1>2. /\ c.key = EncodedKey /\ c.key.format = req.format
      /\ c.key.view = t.key.view /\ c.key.path = t.key.path /\ c.key.tile = t.key.tile
  <2>1. c.key = [RawKey EXCEPT !.format = req.format, !.quality = req.quality]
    BY <1>1
  <2>2. c.key = EncodedKey
    BY <2>1, Zenon DEF RawKey, EncodedKey, KeyOf
  <2>3. QED
    BY <2>2 DEF RawKey, EncodedKey, KeyOf
<1>3. Encodes(c) /\ req.format \in {"JPEG", "PNG"} /\ (req.format = "JPEG" => c.eight)
  BY <1>1 DEF Encodes
<1>4. Fresh(c) /\ OfItsView(c)
  BY <1>1, <1>2 DEF Sound, Fresh, OfItsView
<1>5. PreparedOnce(c)
  BY <1>1, <1>2 DEF Sound, PreparedOnce
<1>6. Sound(c)
  BY <1>2, <1>3, <1>4, <1>5 DEF Sound
<1>7. QED
  BY <1>1, <1>2, <1>3, <1>6 DEF c

-----------------------------------------------------------------------------
(* The server starts with an empty cache and no image. *)
LEMMA InitInv == Init => ManagerInv
<1> SUFFICES ASSUME Init PROVE ManagerInv
  OBVIOUS
<1>1. /\ clock = 0 /\ mtime = [f \in File |-> 0] /\ store = [k \in {} |-> NULL]
      /\ result = NULL /\ image = NULL /\ req = NULL /\ tile = NULL /\ out = NULL
      /\ pc = "idle"
  BY DEF Init, Cache!StoreInit
<1>2. TypeOK
  BY <1>1 DEF TypeOK
<1>3. FilesInv
  BY <1>1 DEF FilesInv
<1>4. QED
  BY <1>1, <1>2, <1>3 DEF ManagerInv, ImageInv, StoreInv, ResultInv, CallInv

(* Time passes. *)
LEMMA TickInv ==
  ASSUME ManagerInv, Tick
  PROVE  ManagerInv'
<1>1. /\ clock' = clock + 1 /\ mtime' = mtime /\ clock \in Nat /\ mtime \in [File -> Nat]
      /\ UNCHANGED <<store, result, image, req, tile, out, pc>>
  BY DEF Tick, callVars, ManagerInv, TypeOK
<1>2. TypeOK'
  BY <1>1 DEF ManagerInv, TypeOK
<1>3. FilesInv'
  BY <1>1 DEF ManagerInv, FilesInv
<1>4. ImageInv' /\ StoreInv' /\ ResultInv' /\ CallInv'
  BY <1>1 DEF ManagerInv, ImageInv, StoreInv, ResultInv, CallInv, Answers,
              Encodes, RawKey, EncodedKey, KeyOf
<1>5. QED
  BY <1>2, <1>3, <1>4 DEF ManagerInv

(* A file is rewritten: it only gets newer. *)
LEMMA ModifyFileInv ==
  ASSUME ManagerInv, NEW f \in File, ModifyFile(f)
  PROVE  ManagerInv'
<1>1. /\ mtime' = [mtime EXCEPT ![f] = clock] /\ clock' = clock
      /\ clock \in Nat /\ mtime \in [File -> Nat]
      /\ UNCHANGED <<store, result, image, req, tile, out, pc>>
  BY DEF ModifyFile, callVars, ManagerInv, TypeOK
<1>2. TypeOK'
  BY <1>1 DEF ManagerInv, TypeOK
<1>3. FilesInv'
  BY <1>1 DEF ManagerInv, FilesInv
<1>4. StoreInv' /\ ResultInv' /\ CallInv'
  BY <1>1 DEF ManagerInv, StoreInv, ResultInv, CallInv, Answers,
              Encodes, RawKey, EncodedKey, KeyOf
<1>5. ImageInv'
  <2>1. \A g \in File : mtime'[g] >= mtime[g]
    BY <1>1 DEF ManagerInv, FilesInv
  <2>2. ASSUME image # NULL
        PROVE  image.stamp <= mtime'[<<image.path, DefaultView>>]
    <3>1. image.stamp \in Nat /\ <<image.path, DefaultView>> \in File
      BY <2>2, ViewAssumption DEF ManagerInv, TypeOK, Image, File
    <3>2. image.stamp <= mtime[<<image.path, DefaultView>>]
      BY <2>2 DEF ManagerInv, ImageInv
    <3>3. mtime'[<<image.path, DefaultView>>] \in Nat /\ mtime[<<image.path, DefaultView>>] \in Nat
      BY <1>1, <3>1
    <3>4. QED
      BY <2>1, <3>1, <3>2, <3>3
  <2>3. QED
    BY <1>1, <2>2 DEF ManagerInv, ImageInv
<1>6. QED
  BY <1>2, <1>3, <1>4, <1>5 DEF ManagerInv

(* The time stamp is that of the file, or older from then on. *)
LEMMA StatImageInv ==
  ASSUME ManagerInv, NEW p \in Path, StatImage(p)
  PROVE  ManagerInv'
<1>1. /\ pc = "idle" /\ pc' = "stat"
      /\ UNCHANGED <<clock, mtime, store, result, req, tile, out>>
      /\ clock \in Nat /\ mtime \in [File -> Nat]
      /\ tile = NULL /\ out = NULL /\ result = NULL
  BY DEF StatImage, fileVars, callVars, ManagerInv, TypeOK
<1>2. PICK e \in BOOLEAN :
        image' = [path |-> p, stamp |-> mtime[<<p, DefaultView>>],
                  view |-> DefaultView, opened |-> NULL, eight |-> e, since |-> clock]
  BY DEF StatImage
<1>3. <<p, DefaultView>> \in File
  BY ViewAssumption DEF File
<1>4. image' \in Image
  BY <1>1, <1>2, <1>3, ViewAssumption DEF Image
<1>5. image' # NULL
  BY <1>4, NullAssumption
<1>6. TypeOK'
  BY <1>1, <1>4, <1>5 DEF ManagerInv, TypeOK
<1>7. ImageInv'
  BY <1>1, <1>2, <1>3 DEF ImageInv
<1>8. FilesInv' /\ StoreInv' /\ ResultInv' /\ CallInv'
  BY <1>1 DEF ManagerInv, FilesInv, StoreInv, ResultInv, CallInv
<1>9. QED
  BY <1>6, <1>7, <1>8 DEF ManagerInv

(* The file that is opened is no older than the time stamp. *)
LEMMA OpenImageInv ==
  ASSUME ManagerInv, OpenImage
  PROVE  ManagerInv'
<1> DEFINE m == mtime[<<image.path, DefaultView>>]
<1>1. /\ pc = "stat" /\ pc' = "ready"
      /\ UNCHANGED <<clock, mtime, store, result, req, tile, out>>
      /\ image \in Image /\ image # NULL /\ mtime \in [File -> Nat]
      /\ tile = NULL /\ out = NULL /\ result = NULL
      /\ image' = [image EXCEPT !.opened = m]
  BY DEF OpenImage, fileVars, callVars, ManagerInv, TypeOK
<1>2. <<image.path, DefaultView>> \in File /\ m \in Nat
  BY <1>1, ViewAssumption DEF File, Image
<1>3. image.stamp <= m /\ (image.path \notin Tiff => image.view = DefaultView)
  BY <1>1 DEF ManagerInv, ImageInv
<1> HIDE DEF m
<1>4. /\ image' \in Image /\ image'.opened = m /\ image'.stamp = image.stamp
      /\ image'.path = image.path /\ image'.view = image.view
  BY <1>1, <1>2 DEF Image
<1>5. image' # NULL
  BY <1>4, NullAssumption
<1>6. TypeOK'
  BY <1>1, <1>4, <1>5 DEF ManagerInv, TypeOK
<1>7. ImageInv'
  <2>1. image'.stamp \in Nat /\ m = mtime'[<<image'.path, DefaultView>>]
    BY <1>1, <1>4 DEF m, Image
  <2>2. QED
    BY <1>2, <1>3, <1>4, <2>1 DEF ImageInv
<1>8. FilesInv' /\ StoreInv' /\ ResultInv' /\ CallInv'
  BY <1>1 DEF ManagerInv, FilesInv, StoreInv, ResultInv, CallInv
<1>9. QED
  BY <1>6, <1>7, <1>8 DEF ManagerInv

(* The image goes, the cache stays. *)
LEMMA CloseImageInv ==
  ASSUME ManagerInv, CloseImage
  PROVE  ManagerInv'
<1>1. /\ pc \in {"stat", "ready"} /\ pc' = "idle"
      /\ image' = NULL /\ req' = NULL /\ out' = NULL
      /\ UNCHANGED <<clock, mtime, store, result, tile>>
      /\ tile = NULL /\ result = NULL
  BY DEF CloseImage, fileVars, ManagerInv, TypeOK
<1>2. TypeOK'
  BY <1>1 DEF ManagerInv, TypeOK
<1>3. QED
  BY <1>1, <1>2 DEF ManagerInv, FilesInv, ImageInv, StoreInv, ResultInv, CallInv

(* A call begins with no tile and no result. *)
LEMMA GetTileInv ==
  ASSUME ManagerInv, NEW q \in Request, GetTile(q)
  PROVE  ManagerInv'
<1>1. /\ pc = "ready" /\ pc' \in {"encoded", "raw", "check"}
      /\ pc' = "encoded" => q.format \in {"JPEG", "PNG"}
      /\ req' = q /\ out' = NULL
      /\ UNCHANGED <<clock, mtime, store, result, image, tile>>
      /\ tile = NULL /\ result = NULL /\ image # NULL
  BY DEF GetTile, fileVars, ManagerInv, TypeOK
<1>2. q # NULL
  BY NullAssumption
<1>3. TypeOK'
  BY <1>1, <1>2 DEF ManagerInv, TypeOK
<1>4. ImageInv'
  BY <1>1 DEF ManagerInv, ImageInv
<1>5. QED
  BY <1>1, <1>3, <1>4 DEF ManagerInv, FilesInv, StoreInv, ResultInv, CallInv

(* The keys that are looked up are keys of the cache. *)
LEMMA KeyTypes ==
  ASSUME image \in Image, req \in Request
  PROVE  RawKey \in TileKey /\ EncodedKey \in TileKey
BY QualityAssumption DEF RawKey, EncodedKey, KeyOf, TileKey, Image, Request, Format

(* A lookup returns nothing, or a sound tile of that key. *)
LEMMA LookupSound ==
  ASSUME ManagerInv, NEW k \in TileKey, Cache!Get(k)
  PROVE  /\ store' = store /\ result' \in RawTile \cup {NULL}
         /\ result' # NULL => result'.key = k /\ Sound(result')
<1>1. store' = store /\ result' = IF k \in DOMAIN store THEN store[k] ELSE NULL
  BY DEF Cache!Get, Cache!Find
<1>2. CASE k \in DOMAIN store
  <2>1. result' = store[k]
    BY <1>1, <1>2
  <2>2. store[k] \in RawTile
    BY <1>2 DEF ManagerInv, TypeOK
  <2>3. store[k].key = k /\ Sound(store[k])
    BY <1>2 DEF ManagerInv, StoreInv
  <2>4. QED
    BY <1>1, <2>1, <2>2, <2>3
<1>3. CASE k \notin DOMAIN store
  BY <1>1, <1>3
<1>4. QED
  BY <1>2, <1>3

(* What the first lookup finds is the encoded tile. *)
LEMMA LookupEncodedInv ==
  ASSUME ManagerInv, LookupEncoded
  PROVE  ManagerInv'
<1>1. /\ pc = "encoded" /\ pc' = (IF result' = NULL THEN "raw" ELSE "check")
      /\ req.format \in {"JPEG", "PNG"}
      /\ UNCHANGED <<clock, mtime, image, req, tile, out>>
      /\ tile = NULL /\ out = NULL /\ image \in Image /\ req \in Request
      /\ image # NULL /\ req # NULL
  BY DEF LookupEncoded, fileVars, callVars, ManagerInv, TypeOK, CallInv
<1>2. /\ store' = store /\ result' \in RawTile \cup {NULL}
      /\ result' # NULL => result'.key = EncodedKey /\ Sound(result')
  BY <1>1, KeyTypes, LookupSound DEF LookupEncoded
<1>3. TypeOK'
  BY <1>1, <1>2 DEF ManagerInv, TypeOK
<1>4. ImageInv'
  BY <1>1 DEF ManagerInv, ImageInv
<1>5. EncodedKey' = EncodedKey
  BY <1>1 DEF EncodedKey, KeyOf
<1>6. ResultInv'
  BY <1>1, <1>2, <1>5 DEF ResultInv
<1>7. QED
  BY <1>1, <1>2, <1>3, <1>4, <1>6 DEF ManagerInv, FilesInv, StoreInv, CallInv

(* What the second lookup finds is the uncompressed tile. *)
LEMMA LookupRawInv ==
  ASSUME ManagerInv, LookupRaw
  PROVE  ManagerInv'
<1>1. /\ pc = "raw" /\ pc' = "check"
      /\ UNCHANGED <<clock, mtime, image, req, tile, out>>
      /\ tile = NULL /\ out = NULL /\ image \in Image /\ req \in Request
      /\ image # NULL /\ req # NULL
  BY DEF LookupRaw, fileVars, callVars, ManagerInv, TypeOK
<1>2. /\ store' = store /\ result' \in RawTile \cup {NULL}
      /\ result' # NULL => result'.key = RawKey /\ Sound(result')
  BY <1>1, KeyTypes, LookupSound DEF LookupRaw
<1>3. TypeOK'
  BY <1>1, <1>2 DEF ManagerInv, TypeOK
<1>4. ImageInv'
  BY <1>1 DEF ManagerInv, ImageInv
<1>5. RawKey' = RawKey
  BY <1>1 DEF RawKey, KeyOf
<1>6. ResultInv'
  BY <1>1, <1>2, <1>5 DEF ResultInv
<1>7. QED
  BY <1>1, <1>2, <1>3, <1>4, <1>6 DEF ManagerInv, FilesInv, StoreInv, CallInv

(* A tile that cannot be decoded leaves no trace. *)
LEMMA DecodeFailsInv ==
  ASSUME ManagerInv, DecodeFails
  PROVE  ManagerInv'
<1>1. /\ pc = "check" /\ pc' = "idle" /\ result' = NULL
      /\ image' = NULL /\ req' = NULL
      /\ UNCHANGED <<clock, mtime, store, tile, out>>
      /\ tile = NULL /\ out = NULL
  BY DEF DecodeFails, fileVars, ManagerInv, TypeOK, Cache!Release
<1>2. TypeOK'
  BY <1>1 DEF ManagerInv, TypeOK
<1>3. QED
  BY <1>1, <1>2 DEF ManagerInv, FilesInv, ImageInv, StoreInv, ResultInv, CallInv

(* A cached tile that is returned answers the request. *)
LEMMA ReturnCachedInv ==
  ASSUME ManagerInv, ReturnCached
  PROVE  ManagerInv'
<1>1. /\ pc = "check" /\ pc' = "ready" /\ result' = NULL /\ out' = result
      /\ UNCHANGED <<clock, mtime, store, image, req, tile>>
      /\ tile = NULL /\ image \in Image /\ req \in Request
      /\ image # NULL /\ req # NULL
      /\ ~ (result.key.format = "UNCOMPRESSED" /\ Encodes(result))
      /\ result # NULL /\ ~ (result.stamp < image.stamp) /\ result \in RawTile
  BY DEF ReturnCached, NeedsNewTile, fileVars, ManagerInv, TypeOK, Cache!Release
<1>2. TypeOK'
  BY <1>1 DEF ManagerInv, TypeOK
<1>3. ImageInv'
  BY <1>1 DEF ManagerInv, ImageInv
<1>4. result.stamp >= image.stamp
  BY <1>1 DEF RawTile, Image
<1>5. Sound(result)
  BY <1>1 DEF ManagerInv, ResultInv
<1>6. result.key = IF Encodes(result) THEN EncodedKey ELSE RawKey
  <2>1. CASE result.key = RawKey
    <3>1. result.key.format = "UNCOMPRESSED"
      BY <2>1 DEF RawKey, KeyOf
    <3>2. QED
      BY <1>1, <2>1, <3>1
  <2>2. CASE result.key = EncodedKey /\ req.format \in {"JPEG", "PNG"}
    <3>1. result.key.format = req.format
      BY <2>2 DEF EncodedKey, KeyOf
    <3>2. Encodes(result)
      BY <1>5, <2>2, <3>1 DEF Encodes, Sound
    <3>3. QED
      BY <2>2, <3>2
  <2>3. QED
    BY <1>1, <2>1, <2>2 DEF ManagerInv, ResultInv
<1>7. Answers(result)
  BY <1>4, <1>5, <1>6 DEF Answers
<1>8. CallInv'
  BY <1>1, <1>7 DEF CallInv, Answers, Encodes, EncodedKey, RawKey, KeyOf
<1>9. QED
  BY <1>1, <1>2, <1>3, <1>8 DEF ManagerInv, FilesInv, StoreInv, ResultInv

(* The encoded copy of a cached tile answers the request. *)
LEMMA ConvertInv ==
  ASSUME ManagerInv, Convert
  PROVE  ManagerInv'
<1>1. /\ pc = "check" /\ pc' = "insert" /\ result' = NULL
      /\ tile' = Compress(Crop(result))
      /\ UNCHANGED <<clock, mtime, store, image, req, out>>
      /\ out = NULL /\ image \in Image /\ req \in Request
      /\ image # NULL /\ req # NULL
      /\ result.key.format = "UNCOMPRESSED" /\ Encodes(result)
      /\ result # NULL /\ ~ (result.stamp < image.stamp) /\ result \in RawTile
  BY DEF Convert, NeedsNewTile, fileVars, ManagerInv, TypeOK, Cache!Release
<1>2. Sound(result)
  BY <1>1 DEF ManagerInv, ResultInv
<1>3. tile' = Compress(result)
  BY <1>1, <1>2, CropCached DEF Sound
<1>4. result.key = RawKey
  BY <1>1 DEF ManagerInv, ResultInv, EncodedKey, KeyOf
<1>5. /\ tile' \in RawTile /\ Sound(tile') /\ tile'.stamp = result.stamp
      /\ Encodes(tile') /\ tile'.key = EncodedKey
  BY <1>1, <1>2, <1>3, <1>4, CompressSound
<1>6. tile' # NULL
  BY <1>5, NullAssumption
<1>7. TypeOK'
  BY <1>1, <1>5, <1>6 DEF ManagerInv, TypeOK
<1>8. ImageInv'
  BY <1>1 DEF ManagerInv, ImageInv
<1>9. tile'.stamp >= image.stamp
  BY <1>1, <1>5 DEF RawTile, Image
<1>10. CallInv'
  BY <1>1, <1>5, <1>9 DEF CallInv, Answers, Encodes, EncodedKey, RawKey, KeyOf
<1>11. QED
  BY <1>1, <1>7, <1>8, <1>10 DEF ManagerInv, FilesInv, StoreInv, ResultInv

(* A step that leaves the call, the image and the files alone keeps what is *)
(* known of them.                                                           *)
LEMMA StoreStep ==
  ASSUME ManagerInv, UNCHANGED <<clock, mtime, image, req, tile, out, pc>>, result' = result,
         store' \in [DOMAIN store' -> RawTile], DOMAIN store' \subseteq TileKey, StoreInv'
  PROVE  ManagerInv'
<1>1. TypeOK'
  BY DEF ManagerInv, TypeOK
<1>2. FilesInv' /\ ImageInv' /\ ResultInv' /\ CallInv'
  BY DEF ManagerInv, FilesInv, ImageInv, ResultInv, CallInv, Answers, Encodes,
         EncodedKey, RawKey, KeyOf
<1>3. QED
  BY <1>1, <1>2 DEF ManagerInv

(* Forgetting tiles keeps the others as they are. *)
LEMMA ForgetSound ==
  ASSUME ManagerInv, NEW K, Cache!Forget(K)
  PROVE  /\ store' \in [DOMAIN store' -> RawTile] /\ DOMAIN store' \subseteq TileKey
         /\ StoreInv' /\ result' = result
<1>1. /\ store' = [k \in DOMAIN store \ K |-> store[k]] /\ result' = result
      /\ store \in [DOMAIN store -> RawTile] /\ DOMAIN store \subseteq TileKey
  BY DEF Cache!Forget, Cache!Restrict, ManagerInv, TypeOK
<1>2. QED
  BY <1>1 DEF ManagerInv, StoreInv

(* insert() forgets the older tile of its key. *)
LEMMA InsertReplacesInv ==
  ASSUME ManagerInv, InsertReplaces
  PROVE  ManagerInv'
<1>1. Cache!Forget({tile.key}) /\ UNCHANGED <<clock, mtime, image, req, tile, out, pc>>
  BY DEF InsertReplaces, fileVars, callVars
<1>2. QED
  BY <1>1, ForgetSound, StoreStep

(* Eviction only takes tiles away. *)
LEMMA EvictInv ==
  ASSUME ManagerInv, NEW K, Evict(K)
  PROVE  ManagerInv'
<1>1. Cache!Forget(K) /\ UNCHANGED <<clock, mtime, image, req, tile, out, pc>>
  BY DEF Evict, fileVars, callVars
<1>2. QED
  BY <1>1, ForgetSound, StoreStep

(* The inserted tile is sound and under its own key. *)
LEMMA InsertEndsInv ==
  ASSUME ManagerInv, InsertEnds
  PROVE  ManagerInv'
<1>1. /\ pc = "insert" /\ pc' = "ready" /\ out' = tile /\ tile' = NULL
      /\ UNCHANGED <<clock, mtime, image, req>>
      /\ image \in Image /\ req \in Request /\ image # NULL /\ req # NULL
      /\ tile \in RawTile /\ tile # NULL /\ result = NULL
      /\ store \in [DOMAIN store -> RawTile] /\ DOMAIN store \subseteq TileKey
  BY DEF InsertEnds, fileVars, ManagerInv, TypeOK
<1>2. Answers(tile)
  BY <1>1 DEF ManagerInv, CallInv
<1>3. /\ store' \in [DOMAIN store' -> RawTile] /\ DOMAIN store' \subseteq TileKey
      /\ StoreInv' /\ result' = NULL
  <2>1. CASE tile.key \notin DOMAIN store /\ Cache!Put(tile.key, tile)
    <3>1. /\ store' = [j \in DOMAIN store \cup {tile.key} |->
                        IF j = tile.key THEN tile ELSE store[j]]
          /\ result' = result /\ tile.key \in TileKey
      BY <1>1, <2>1 DEF Cache!Put, RawTile
    <3>2. Sound(tile)
      BY <1>2 DEF Answers
    <3>3. QED
      BY <1>1, <3>1, <3>2 DEF ManagerInv, StoreInv
  <2>2. CASE UNCHANGED <<store, result>>
    BY <1>1, <2>2 DEF ManagerInv, StoreInv
  <2>3. QED
    BY <2>1, <2>2 DEF InsertEnds
<1>4. TypeOK'
  BY <1>1, <1>3 DEF ManagerInv, TypeOK
<1>5. ImageInv'
  BY <1>1 DEF ManagerInv, ImageInv
<1>6. CallInv'
  BY <1>1, <1>2 DEF CallInv, Answers, Encodes, EncodedKey, RawKey, KeyOf
<1>7. QED
  BY <1>1, <1>3, <1>4, <1>5, <1>6 DEF ManagerInv, FilesInv, ResultInv

(* Seek leaves an open file that is not older than the time stamp. *)
LEMMA SeekInv ==
  ASSUME ManagerInv, image # NULL, req # NULL, pc = "check", pc' # "stat",
         mtime' = mtime, Seek
  PROVE  /\ image' \in Image /\ image' # NULL
         /\ image'.path = image.path /\ image'.stamp = image.stamp
         /\ image'.opened \in Nat
         /\ image.path \in Tiff => image'.view = req.view
         /\ ImageInv'
<1>1. /\ image \in Image /\ req \in Request /\ mtime \in [File -> Nat]
      /\ image.opened \in Nat /\ image.stamp <= mtime[<<image.path, DefaultView>>]
      /\ image.view = DefaultView => image.opened >= image.stamp
      /\ image.path \notin Tiff => image.view = DefaultView
  BY NullAssumption DEF ManagerInv, TypeOK, ImageInv
<1>2. CASE image.view = req.view \/ image.path \notin Tiff
  <2>1. image' = image
    BY <1>2, Zenon DEF Seek
  <2>2. ImageInv'
    BY <1>1, <2>1 DEF ImageInv
  <2>3. QED
    BY <1>1, <1>2, <2>1, <2>2
<1>3. CASE ~ (image.view = req.view \/ image.path \notin Tiff)
  <2> DEFINE m == mtime[<<image.path, req.view>>]
  <2>1. PICK e \in BOOLEAN :
          image' = [image EXCEPT !.view = req.view, !.eight = e, !.opened = m]
    BY <1>3, Zenon DEF Seek
  <2>2. <<image.path, req.view>> \in File /\ req.view \in View
    BY <1>1 DEF File, Image, Request
  <2>3. m \in Nat /\ (req.view = DefaultView => m >= image.stamp)
    BY <1>1, <2>2 DEF Image
  <2> HIDE DEF m
  <2>4. image' \in Image
    BY <1>1, <2>1, <2>2, <2>3, Zenon DEF Image
  <2>5. /\ image'.path = image.path /\ image'.stamp = image.stamp
        /\ image'.opened = m /\ image'.view = req.view
    BY <1>1, <2>1 DEF Image
  <2>6. image' # NULL
    BY <2>4, NullAssumption
  <2>7. ImageInv'
    BY <1>1, <1>3, <2>3, <2>5 DEF ImageInv
  <2>8. QED
    BY <2>3, <2>4, <2>5, <2>6, <2>7
<1>4. QED
  BY <1>2, <1>3

(* The new tile is fresh, prepared once and as asked for. *)
LEMMA GetNewTileInv ==
  ASSUME ManagerInv, GetNewTile
  PROVE  ManagerInv'
<1>1. /\ pc = "check" /\ pc' = "insert" /\ result' = NULL /\ Seek
      /\ UNCHANGED <<clock, mtime, store, req, out>>
      /\ out = NULL /\ image \in Image /\ req \in Request
      /\ image # NULL /\ req # NULL /\ mtime \in [File -> Nat]
  BY DEF GetNewTile, fileVars, ManagerInv, TypeOK, Cache!Release
<1>2. /\ image' \in Image /\ image' # NULL
      /\ image'.path = image.path /\ image'.stamp = image.stamp
      /\ image'.opened \in Nat
      /\ image.path \in Tiff => image'.view = req.view
      /\ ImageInv'
  BY <1>1, SeekInv
<1>3. PICK w \in {image'.opened, mtime[<<image.path, image'.view>>]} :
        LET t == Crop(Mark(Decoded(w)))
        IN  tile' = IF Encodes(t) THEN Compress(t) ELSE t
  BY DEF GetNewTile
<1>4. w \in Nat /\ (req.view = DefaultView => w >= image.stamp)
  <2>1. <<image.path, image'.view>> \in File
    BY <1>1, <1>2 DEF File, Image
  <2>2. image'.opened \in Nat /\ mtime[<<image.path, image'.view>>] \in Nat
    BY <1>1, <1>2, <2>1
  <2>3. ASSUME req.view = DefaultView
        PROVE  /\ image'.opened >= image.stamp
               /\ mtime[<<image.path, image'.view>>] >= image.stamp
    <3>1. image'.view = DefaultView /\ image'.opened # NULL
      BY <1>2, <2>2, <2>3, NullAssumption DEF ImageInv
    <3>2. image.stamp \in Nat
      BY <1>1 DEF Image
    <3>3. image.stamp <= mtime[<<image.path, DefaultView>>]
      BY <1>1, <1>2 DEF ImageInv
    <3>4. QED
      BY <1>2, <2>2, <3>1, <3>2, <3>3 DEF ImageInv
  <2>4. QED
    BY <2>2, <2>3
<1> DEFINE d == Decoded(w)
           t == Crop(Mark(d))
<1>5. /\ d \in RawTile /\ d.marks = 0 /\ d.crops = 0
      /\ d.key = RawKey /\ d.stamp = image.stamp /\ d.written = w
      /\ d.padded <=> d.key.path \in Tiff
      /\ d.from = image'.view
  <2>1. RawKey \in TileKey /\ RawKey.path = image.path
    BY <1>1, KeyTypes DEF RawKey, KeyOf
  <2>2. /\ image.stamp \in Nat /\ image'.eight \in BOOLEAN
        /\ req.layers \in Layers /\ image'.view \in View
    BY <1>1, <1>2 DEF Image, Request
  <2>3. (image.path \in Tiff) \in BOOLEAN
    OBVIOUS
  <2>4. d = [key |-> RawKey, stamp |-> image.stamp, written |-> w,
             from |-> image'.view, layers |-> req.layers, eight |-> image'.eight,
             padded |-> image.path \in Tiff, marks |-> 0, crops |-> 0]
    BY DEF Decoded
  <2>5. 0 \in Nat
    OBVIOUS
  <2> HIDE DEF d
  <2>6. d \in RawTile
    BY <1>4, <2>1, <2>2, <2>3, <2>4, <2>5, Zenon DEF RawTile
  <2>7. /\ d.key = RawKey /\ d.stamp = image.stamp /\ d.written = w
        /\ d.marks = 0 /\ d.crops = 0 /\ d.from = image'.view
    BY <2>4
  <2>8. d.padded <=> image.path \in Tiff
    BY <2>4, Zenon
  <2>9. QED
    BY <2>1, <2>6, <2>7, <2>8
<1> HIDE DEF d
<1>6. /\ t \in RawTile /\ PreparedOnce(t)
      /\ t.key = RawKey /\ t.stamp = image.stamp /\ t.written = w
      /\ t.from = image'.view
  BY <1>5, PrepareNew
<1>7. tile' = IF Encodes(t) THEN Compress(t) ELSE t
  BY <1>3 DEF d
<1> HIDE DEF t
<1>8. Sound(t)
  <2>1. /\ t.key.view = req.view /\ t.key.path = image.path
        /\ t.key.format = "UNCOMPRESSED" /\ t.key.quality = 0
    BY <1>6 DEF RawKey, KeyOf
  <2>2. OfItsView(t)
    BY <1>2, <1>6, <2>1 DEF OfItsView
  <2>3. QED
    BY <1>4, <1>6, <2>1, <2>2 DEF Sound, Fresh
<1>9. /\ tile' \in RawTile /\ Sound(tile') /\ tile'.stamp = image.stamp
      /\ tile'.key = IF Encodes(tile') THEN EncodedKey ELSE RawKey
  <2>1. CASE Encodes(t)
    BY <1>1, <1>6, <1>7, <1>8, <2>1, CompressSound
  <2>2. CASE ~ Encodes(t)
    BY <1>6, <1>7, <1>8, <2>2
  <2>3. QED
    BY <2>1, <2>2
<1>10. tile' # NULL
  BY <1>9, NullAssumption
<1>11. TypeOK'
  BY <1>1, <1>2, <1>9, <1>10 DEF ManagerInv, TypeOK
<1>12. EncodedKey' = EncodedKey /\ RawKey' = RawKey
  BY <1>1, <1>2 DEF EncodedKey, RawKey, KeyOf
<1>13. tile'.stamp >= image'.stamp
  BY <1>2, <1>9 DEF Image
<1>14. (Answers(tile))'
  <2>1. (Encodes(tile))' <=> Encodes(tile')
    BY <1>1 DEF Encodes
  <2>2. QED
    BY <1>9, <1>12, <1>13, <2>1 DEF Answers
<1>15. CallInv'
  BY <1>1, <1>14 DEF CallInv
<1>16. QED
  BY <1>1, <1>2, <1>11, <1>15 DEF ManagerInv, FilesInv, StoreInv, ResultInv

(* Every step keeps the invariant. *)
LEMMA NextInv == ManagerInv /\ [Next]_vars => ManagerInv'
<1> SUFFICES ASSUME ManagerInv, [Next]_vars PROVE ManagerInv'
  OBVIOUS
<1>1. CASE Tick
  BY <1>1, TickInv
<1>2. ASSUME NEW f \in File, ModifyFile(f) PROVE ManagerInv'
  BY <1>2, ModifyFileInv
<1>3. ASSUME NEW p \in Path, StatImage(p) PROVE ManagerInv'
  BY <1>3, StatImageInv
<1>4. CASE OpenImage
  BY <1>4, OpenImageInv
<1>5. CASE CloseImage
  BY <1>5, CloseImageInv
<1>6. ASSUME NEW q \in Request, GetTile(q) PROVE ManagerInv'
  BY <1>6, GetTileInv
<1>7. CASE LookupEncoded
  BY <1>7, LookupEncodedInv
<1>8. CASE LookupRaw
  BY <1>8, LookupRawInv
<1>9. CASE GetNewTile
  BY <1>9, GetNewTileInv
<1>10. CASE DecodeFails
  BY <1>10, DecodeFailsInv
<1>11. CASE Convert
  BY <1>11, ConvertInv
<1>12. CASE ReturnCached
  BY <1>12, ReturnCachedInv
<1>13. CASE InsertReplaces
  BY <1>13, InsertReplacesInv
<1>14. CASE InsertEnds
  BY <1>14, InsertEndsInv
<1>15. ASSUME NEW k \in DOMAIN store, Evict({k}) PROVE ManagerInv'
  BY <1>15, EvictInv
<1>16. CASE UNCHANGED vars
  <2>1. UNCHANGED <<clock, mtime, store, result, image, req, tile, out, pc>>
    BY <1>16 DEF vars
  <2>2. StoreInv'
    BY <2>1 DEF ManagerInv, StoreInv
  <2>3. store' \in [DOMAIN store' -> RawTile] /\ DOMAIN store' \subseteq TileKey
    BY <2>1 DEF ManagerInv, TypeOK
  <2>4. QED
    BY <2>1, <2>2, <2>3, StoreStep
<1>17. QED
  BY <1>1, <1>2, <1>3, <1>4, <1>5, <1>6, <1>7, <1>8, <1>9, <1>10, <1>11, <1>12,
     <1>13, <1>14, <1>15, <1>16, Zenon DEF Next

-----------------------------------------------------------------------------
(* The inductive invariant of getTile and of the cache it fills. *)
THEOREM ManagerInvariant == Spec => []ManagerInv
BY InitInv, NextInv, PTL DEF Spec

(* getTile and the session around it keep their types. *)
THEOREM ManagerTypeCorrect == Spec => []TypeOK
<1>1. ManagerInv => TypeOK
  BY DEF ManagerInv
<1>2. QED
  BY <1>1, ManagerInvariant, PTL

(* Every tile in the cache is under its own key, no older than it claims,   *)
(* and encoded as its key says.                                             *)
THEOREM CacheSoundCorrect == Spec => []CacheIsSound
<1>1. ManagerInv => CacheIsSound
  BY DEF ManagerInv, StoreInv, Sound, CacheIsSound
<1>2. QED
  BY <1>1, ManagerInvariant, PTL

(* No tile is watermarked or cropped twice, in any sequence of requests. *)
THEOREM PreparedOnceCorrect == Spec => []PreparedExactlyOnce
<1>1. ManagerInv => PreparedExactlyOnce
  BY DEF ManagerInv, StoreInv, CallInv, Answers, Sound, PreparedExactlyOnce
<1>2. QED
  BY <1>1, ManagerInvariant, PTL

(* A tile of the default view that getTile returns is no older than the     *)
(* file was when the request opened it.                                     *)
THEOREM ServedFreshCorrect == Spec => []ServedFresh
<1>1. ManagerInv => ServedFresh
  <2> SUFFICES ASSUME ManagerInv, out # NULL, out.key.view = DefaultView
               PROVE  out.written >= image.stamp
    BY DEF ServedFresh
  <2>1. out \in RawTile /\ image \in Image
    BY NullAssumption DEF ManagerInv, TypeOK
  <2>2. out.stamp >= image.stamp /\ out.written >= out.stamp
    BY DEF ManagerInv, CallInv, Answers, Sound, Fresh
  <2>3. out.stamp \in Nat /\ out.written \in Nat /\ image.stamp \in Nat
    BY <2>1 DEF RawTile, Image
  <2>4. QED
    BY <2>2, <2>3
<1>2. QED
  BY <1>1, ManagerInvariant, PTL

(* getTile returns the tile that was asked for, encoded as asked wherever   *)
(* the pixels allow it.                                                     *)
THEOREM ServedAsAskedCorrect == Spec => []ServedAsAsked
<1>1. ManagerInv => ServedAsAsked
  BY DEF ManagerInv, CallInv, Answers, Sound, ServedAsAsked
<1>2. QED
  BY <1>1, ManagerInvariant, PTL
=============================================================================
