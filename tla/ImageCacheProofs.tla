-------------------------- MODULE ImageCacheProofs ---------------------------
(****************************************************************************)
(* Proofs about the cache of image metadata (ImageCache), for any number of *)
(* paths, any numbers of resolutions, any clock and any size of the cache.  *)
(****************************************************************************)
EXTENDS ImageCache, FiniteSetTheorems, SequenceTheorems, TLAPS

(* Times only go forward: no file is newer than the clock, and none is from *)
(* the epoch, which is what FIF takes for a miss.                           *)
Files ==
  /\ clock >= 1
  /\ \A p \in Path : disk[p] # NULL => disk[p].written \in 1..clock

Entries == \A p \in DOMAIN imageCache : imageCache[p].stamp \in 1..clock

Looking == {"stat", "open", "opened"}
After == {"opened", "loaded", "ready", "replied"}

(* The image of the request.  Before LoadMetadata, what a cached image has  *)
(* loaded is no older than the time stamp it was cached with; from the stat *)
(* on, neither the file on disk nor the open one is older than the stamp.   *)
Current ==
  /\ pc \in Looking /\ image.loaded # NULL =>
       timestamp \in 1..image.loaded /\ Len(image.widths) >= image.levels
  /\ pc \in After \cup {"open"} =>
       /\ image.stamp \in 1..clock
       /\ disk[path] # NULL => disk[path].written >= image.stamp
  /\ pc \in After => opened.written >= image.stamp

(* A reply has content no older than its Last-Modified header. *)
Replies ==
  /\ reply # NULL => reply.written >= reply.modified
  /\ copy # NULL => copy.written >= copy.modified

(* Room is kept for an image that is not in the cache until it is added. *)
Room ==
  /\ IsFiniteSet(DOMAIN imageCache)
  /\ pc \in Looking \cup {"loaded"} /\ path \notin DOMAIN imageCache =>
       Cardinality(DOMAIN imageCache) < MAXIMAGECACHE

Inv ==
  /\ TypeOK /\ Files /\ Entries /\ Current /\ Replies /\ Room
  /\ CacheBounded /\ MetadataUpToDate /\ NotModifiedIsFresh

-----------------------------------------------------------------------------
(* The cache starts empty and every file with a time after the epoch. *)
LEMMA InitInv == Init => Inv
<1> SUFFICES ASSUME Init PROVE Inv
  OBVIOUS
<1> USE TimeAssumption, ResolutionsAssumption, NullAssumption, CacheAssumption
<1>1. TypeOK
  <2>1. disk \in [Path -> File \cup {NULL}]
    BY DEF Init, File
  <2>2. DOMAIN imageCache = {} /\ imageCache \in [{} -> Image]
    BY DEF Init
  <2> QED BY <2>1, <2>2 DEF Init, TypeOK
<1>2. Files
  BY DEF Init, Files
<1>3. DOMAIN imageCache = {}
  BY DEF Init
<1>4. Entries /\ MetadataUpToDate
  BY <1>3 DEF Init, Entries, MetadataUpToDate
<1>5. Current /\ Replies /\ NotModifiedIsFresh
  BY DEF Init, Current, Looking, After, Replies, NotModifiedIsFresh
<1>6. Room /\ CacheBounded
  BY <1>3, FS_EmptySet DEF Init, Room, Looking, CacheBounded
<1> QED BY <1>1, <1>2, <1>4, <1>5, <1>6 DEF Inv

-----------------------------------------------------------------------------
(* loadImageInfo() makes an image whose metadata are those of the file, with *)
(* a width for each resolution.                                             *)
LEMMA LoadedImage ==
  ASSUME image \in Image, NEW f \in File
  PROVE  /\ LoadImageInfo(f) \in Image
         /\ LoadImageInfo(f).loaded = f.written
         /\ LoadImageInfo(f).stamp = image.stamp
         /\ Len(LoadImageInfo(f).widths) >= LoadImageInfo(f).levels
<1> DEFINE new == [i \in 1..f.levels |-> f.written]
<1>1. f.written \in Nat /\ f.levels \in Nat
  BY ResolutionsAssumption, Zenon DEF File
<1>2. new \in Seq(Nat) /\ Len(new) = f.levels
  BY <1>1
<1>3. image.widths \in Seq(Nat)
  BY DEF Image
<1> HIDE DEF new
<1>4. /\ image.widths \o new \in Seq(Nat)
      /\ Len(image.widths \o new) = Len(image.widths) + Len(new)
  BY <1>2, <1>3, ConcatProperties, Zenon
<1> DEFINE all == image.widths \o new
<1>5. LoadImageInfo(f) = [image EXCEPT !.loaded = f.written, !.levels = f.levels,
                                       !.widths = all]
  BY DEF LoadImageInfo, new
<1>6. all \in Seq(Nat) /\ Len(all) >= f.levels
  <2>1. Len(image.widths) \in Nat
    BY <1>3
  <2> QED BY <1>1, <1>2, <1>4, <2>1
<1> HIDE DEF all
<1> QED BY <1>1, <1>5, <1>6, Zenon DEF Image

(* A file read through the open one is a file, no older than the stamp. *)
LEMMA ReadableFile ==
  ASSUME Inv, pc \in After
  PROVE  \A f \in Readable : f \in File /\ f.written >= image.stamp
  BY DEF Inv, TypeOK, Current, Readable, After

(* MakeRoom keeps a part of the cache that leaves room for one more image. *)
LEMMA RoomMade ==
  ASSUME Inv, MakeRoom
  PROVE  /\ DOMAIN imageCache' \subseteq DOMAIN imageCache
         /\ imageCache' = [p \in DOMAIN imageCache' |-> imageCache[p]]
         /\ IsFiniteSet(DOMAIN imageCache')
         /\ Cardinality(DOMAIN imageCache') < MAXIMAGECACHE
<1> DEFINE D == DOMAIN imageCache
<1>1. /\ IsFiniteSet(D) /\ Cardinality(D) \in Nat
      /\ Cardinality(D) <= MAXIMAGECACHE /\ MAXIMAGECACHE \in Nat \ {0}
  BY FS_CardinalityType, CacheAssumption DEF Inv, Room, CacheBounded
<1>2. imageCache = [p \in D |-> imageCache[p]]
  BY DEF Inv, TypeOK
<1>3. CASE Cardinality(D) >= MAXIMAGECACHE
  <2>1. PICK q \in D : imageCache' = [p \in D \ {q} |-> imageCache[p]]
    BY <1>3 DEF MakeRoom
  <2>2. DOMAIN imageCache' = D \ {q}
    BY <2>1
  <2>3. IsFiniteSet(D \ {q}) /\ Cardinality(D \ {q}) = Cardinality(D) - 1
    BY <1>1, FS_RemoveElement
  <2> QED BY <1>1, <2>1, <2>2, <2>3
<1>4. CASE ~ (Cardinality(D) >= MAXIMAGECACHE)
  <2>1. imageCache' = imageCache
    BY <1>4 DEF MakeRoom
  <2> QED BY <1>1, <1>2, <1>4, <2>1
<1> QED BY <1>3, <1>4

(* The end of a request leaves the variables of the next one as they start. *)
LEMMA EndType ==
  ASSUME TypeOK, EndRequest, UNCHANGED <<clock, disk, path, reply>>,
         imageCache' \in [DOMAIN imageCache' -> Image], DOMAIN imageCache' \subseteq Path
  PROVE  TypeOK'
  BY NullAssumption DEF TypeOK, EndRequest

(* An image put in the cache by FIF::run. *)
LEMMA StoredType ==
  ASSUME TypeOK, NEW im \in Image, path \in Path,
         imageCache' = CachedImages(path, im)
  PROVE  /\ DOMAIN imageCache' = DOMAIN imageCache \cup {path}
         /\ DOMAIN imageCache' \subseteq Path
         /\ imageCache' \in [DOMAIN imageCache' -> Image]
         /\ imageCache'[path] = im
         /\ \A q \in DOMAIN imageCache \ {path} : imageCache'[q] = imageCache[q]
  BY DEF TypeOK, CachedImages

(* Every step keeps every variable in its type. *)
LEMMA TypeStep == Inv /\ [Next]_vars => TypeOK'
<1> SUFFICES ASSUME Inv, [Next]_vars PROVE TypeOK'
  OBVIOUS
<1> USE NullAssumption
<1>0. TypeOK
  BY DEF Inv
<1>1. CASE Tick
  BY <1>0, <1>1 DEF TypeOK, Tick
<1>2. ASSUME NEW p \in Path, Request(p) PROVE TypeOK'
  <2>1. copy' \in Copy \cup {NULL} /\ reply' \in Copy \cup {NULL} /\ path' \in Path
    BY <1>0, <1>2 DEF TypeOK, Request
  <2>2. image' = NULL /\ opened' = NULL /\ pc' = "lookup" /\ path' # NULL
    BY <1>0, <1>2 DEF TypeOK, Request
  <2> QED BY <1>0, <1>2, <2>1, <2>2 DEF TypeOK, Request, fileVars
<1>3. ASSUME NEW p \in Path, WriteFile(p) PROVE TypeOK'
  <2>1. disk' \in [Path -> File \cup {NULL}]
    BY <1>0, <1>3 DEF TypeOK, WriteFile, File
  <2> QED BY <1>0, <1>3, <2>1 DEF TypeOK, WriteFile
<1>4. ASSUME NEW p \in Path, RemoveFile(p) PROVE TypeOK'
  BY <1>0, <1>4 DEF TypeOK, RemoveFile
<1>5. CASE ReloadCache
  <2>1. DOMAIN imageCache' = {} /\ imageCache' \in [{} -> Image]
    BY <1>5 DEF ReloadCache
  <2> QED BY <1>0, <1>5, <2>1 DEF TypeOK, ReloadCache, fileVars
<1>6. CASE CacheHit
  <2>1. image' \in Image /\ timestamp' \in Nat
    BY <1>0, <1>6 DEF TypeOK, CacheHit, Image
  <2> QED BY <1>0, <1>6, <2>1 DEF TypeOK, CacheHit, fileVars
<1>7. CASE CacheMiss
  <2>1. /\ imageCache' \in [DOMAIN imageCache' -> Image]
        /\ DOMAIN imageCache' \subseteq Path
    BY <1>0, <1>7, RoomMade DEF CacheMiss, TypeOK
  <2>2. CASE disk[path].format = "UNSUPPORTED"
    BY <1>0, <1>7, <2>1, <2>2, EndType DEF CacheMiss, fileVars
  <2>3. CASE disk[path].format # "UNSUPPORTED"
    <3>1. disk[path] \in File
      BY <1>0, <1>7 DEF CacheMiss, TypeOK
    <3>2. image' \in Image
      <4>1. image' = [format |-> disk[path].format, stamp |-> disk[path].written,
                      loaded |-> NULL, levels |-> 0, widths |-> <<>>,
                      histogram |-> NULL]
        BY <1>7, <2>3 DEF CacheMiss
      <4>2. disk[path].format \in Format /\ disk[path].written \in Nat /\ <<>> \in Seq(Nat)
        BY <3>1 DEF File
      <4> QED BY <4>1, <4>2 DEF Image
    <3> QED BY <1>0, <1>7, <2>1, <2>3, <3>2 DEF TypeOK, CacheMiss, fileVars
  <2> QED BY <2>2, <2>3
<1>8. CASE NoSuchFile
  BY <1>0, <1>8, EndType DEF NoSuchFile, fileVars, TypeOK
<1>9. CASE StatImage
  <2>1. image \in Image /\ disk[path] \in File
    BY <1>0, <1>9 DEF TypeOK, StatImage
  <2>2. image' \in Image
    BY <1>9, <2>1 DEF StatImage, Image, File
  <2> QED BY <1>0, <1>9, <2>2 DEF TypeOK, StatImage, fileVars
<1>10. CASE OpenFile
  BY <1>0, <1>10 DEF TypeOK, OpenFile, fileVars
<1>11. CASE OpenFails
  BY <1>0, <1>11, EndType DEF OpenFails, fileVars, TypeOK
<1>12. CASE LoadMetadata
  <2>1. image \in Image
    BY <1>0, <1>12 DEF TypeOK, LoadMetadata
  <2>2. \A f \in Readable : f \in File
    BY <1>12, ReadableFile DEF LoadMetadata, After
  <2>3. image' \in Image
    BY <1>12, <2>1, <2>2, LoadedImage DEF LoadMetadata
  <2> QED BY <1>0, <1>12, <2>3 DEF TypeOK, LoadMetadata, fileVars
<1>13. CASE StoreImage
  <2>1. image \in Image /\ path \in Path
    BY <1>0, <1>13 DEF TypeOK, StoreImage
  <2> QED BY <1>0, <1>13, <2>1, StoredType DEF TypeOK, StoreImage, fileVars
<1>14. CASE ReplyNotModified
  <2>1. image \in Image /\ path \in Path
    BY <1>0, <1>14 DEF TypeOK, ReplyNotModified
  <2> QED BY <1>0, <1>14, <2>1, StoredType DEF TypeOK, ReplyNotModified, fileVars
<1>15. CASE MakeHistogram
  <2>1. image \in Image
    BY <1>0, <1>15 DEF TypeOK, MakeHistogram
  <2>2. PICK w \in {image.stamp} \cup {f.written : f \in Readable} :
          /\ image' = [image EXCEPT !.histogram = w]
          /\ imageCache' = IF path \in DOMAIN imageCache
                           THEN [imageCache EXCEPT ![path].histogram = w]
                           ELSE imageCache
    BY <1>15, Zenon DEF MakeHistogram
  <2>3. w \in Nat
    BY <1>15, <2>1, <2>2, ReadableFile DEF MakeHistogram, After, File, Image
  <2>4. image' \in Image
    BY <2>1, <2>2, <2>3 DEF Image
  <2>5. /\ DOMAIN imageCache' = DOMAIN imageCache
        /\ imageCache' \in [DOMAIN imageCache -> Image]
    <3>1. CASE path \in DOMAIN imageCache
      <4>1. imageCache' = [imageCache EXCEPT ![path] = [@ EXCEPT !.histogram = w]]
        BY <2>2, <3>1
      <4>2. [imageCache[path] EXCEPT !.histogram = w] \in Image
        <5>1. imageCache[path] \in Image
          BY <1>0, <3>1 DEF TypeOK
        <5> QED BY <2>3, <5>1 DEF Image
      <4> QED BY <1>0, <4>1, <4>2, Zenon DEF TypeOK
    <3>2. CASE path \notin DOMAIN imageCache
      BY <1>0, <2>2, <3>2 DEF TypeOK
    <3> QED BY <3>1, <3>2
  <2> QED BY <1>0, <1>15, <2>4, <2>5 DEF TypeOK, MakeHistogram, fileVars
<1>16. CASE ReplyContent
  <2>1. image \in Image /\ image.loaded # NULL
    BY <1>0, <1>16 DEF Inv, TypeOK, ReplyContent, MetadataUpToDate, UpToDate
  <2>2. PICK w \in {image.loaded, image.stamp} \cup {f.written : f \in Readable} :
          reply' = [modified |-> image.stamp, written |-> w]
    BY <1>16, Zenon DEF ReplyContent
  <2>3. w \in Nat
    BY <1>16, <2>1, <2>2, ReadableFile DEF ReplyContent, After, File, Image
  <2>4. reply' \in Copy
    BY <2>1, <2>2, <2>3 DEF Copy, Image
  <2> QED BY <1>0, <1>16, <2>4 DEF TypeOK, ReplyContent, fileVars
<1>17. CASE FinishRequest
  BY <1>0, <1>17, EndType DEF FinishRequest, fileVars, TypeOK
<1>18. CASE UNCHANGED vars
  BY <1>0, <1>18 DEF TypeOK, vars
<1> QED BY <1>1, <1>2, <1>3, <1>4, <1>5, <1>6, <1>7, <1>8, <1>9, <1>10, <1>11, <1>12,
           <1>13, <1>14, <1>15, <1>16, <1>17, <1>18 DEF Next

-----------------------------------------------------------------------------
(* The size of the cache.  A step that leaves the keys of the cache alone   *)
(* and the request where it was, or on the way from one step of looking to  *)
(* the next, keeps the room.                                                *)
LEMMA SameRoom ==
  ASSUME Inv, DOMAIN imageCache' = DOMAIN imageCache,
         pc' \in Looking \cup {"loaded"} =>
           path' = path /\ (pc \in Looking \cup {"loaded"} \/ path \in DOMAIN imageCache)
  PROVE  Room' /\ CacheBounded'
  BY DEF Inv, Room, CacheBounded

(* An image is added where it was, or in the room that was kept for it. *)
LEMMA StoredRoom ==
  ASSUME Inv, pc = "loaded", pc' \in {"ready", "replied"},
         DOMAIN imageCache' = DOMAIN imageCache \cup {path}
  PROVE  Room' /\ CacheBounded'
<1>1. Room'  \/ ~ IsFiniteSet(DOMAIN imageCache')
  BY DEF Room, Looking
<1>2. CASE path \in DOMAIN imageCache
  <2>1. DOMAIN imageCache' = DOMAIN imageCache
    BY <1>2
  <2> QED BY <1>1, <2>1 DEF Inv, Room, CacheBounded
<1>3. CASE path \notin DOMAIN imageCache
  <2>1. /\ IsFiniteSet(DOMAIN imageCache) /\ Cardinality(DOMAIN imageCache) \in Nat
        /\ Cardinality(DOMAIN imageCache) < MAXIMAGECACHE
    BY <1>3, FS_CardinalityType DEF Inv, Room
  <2>2. /\ IsFiniteSet(DOMAIN imageCache')
        /\ Cardinality(DOMAIN imageCache') = Cardinality(DOMAIN imageCache) + 1
    BY <1>3, <2>1, FS_AddElement
  <2> QED BY <1>1, <2>1, <2>2, CacheAssumption DEF CacheBounded
<1> QED BY <1>2, <1>3

(* Every step keeps the bound of the cache, and the room for the image that *)
(* is to be added.                                                          *)
LEMMA RoomStep == Inv /\ [Next]_vars => Room' /\ CacheBounded'
<1> SUFFICES ASSUME Inv, [Next]_vars PROVE Room' /\ CacheBounded'
  OBVIOUS
<1> USE DEF Looking
<1>0. TypeOK
  BY DEF Inv
<1>1. CASE Tick
  BY <1>1, SameRoom DEF Tick
<1>2. ASSUME NEW p \in Path, Request(p) \/ WriteFile(p) \/ RemoveFile(p)
      PROVE  Room' /\ CacheBounded'
  BY <1>2, SameRoom DEF Request, WriteFile, RemoveFile
<1>3. CASE ReloadCache
  <2>1. DOMAIN imageCache' = {}
    BY <1>3 DEF ReloadCache
  <2> QED BY <2>1, FS_EmptySet, CacheAssumption DEF Room, CacheBounded
<1>4. CASE CacheHit
  BY <1>4, SameRoom DEF CacheHit
<1>5. CASE CacheMiss
  <2>1. /\ IsFiniteSet(DOMAIN imageCache')
        /\ Cardinality(DOMAIN imageCache') < MAXIMAGECACHE
    BY <1>5, RoomMade DEF CacheMiss
  <2>2. Cardinality(DOMAIN imageCache') \in Nat
    BY <2>1, FS_CardinalityType
  <2> QED BY <2>1, <2>2, CacheAssumption DEF Room, CacheBounded
<1>6. CASE NoSuchFile \/ OpenFails \/ FinishRequest
  BY <1>6, SameRoom DEF NoSuchFile, OpenFails, FinishRequest, EndRequest
<1>7. CASE StatImage \/ OpenFile \/ LoadMetadata \/ ReplyContent
  BY <1>7, SameRoom DEF StatImage, OpenFile, LoadMetadata, ReplyContent
<1>8. CASE StoreImage \/ ReplyNotModified
  <2>1. image \in Image /\ path \in Path
    BY <1>0, <1>8 DEF TypeOK, StoreImage, ReplyNotModified
  <2> QED BY <1>0, <1>8, <2>1, StoredType, StoredRoom DEF StoreImage, ReplyNotModified
<1>9. CASE MakeHistogram
  <2>1. DOMAIN imageCache' = DOMAIN imageCache
    BY <1>9 DEF MakeHistogram
  <2> QED BY <1>9, <2>1, SameRoom DEF MakeHistogram
<1>10. CASE UNCHANGED vars
  BY <1>10, SameRoom DEF vars
<1> QED BY <1>1, <1>2, <1>3, <1>4, <1>5, <1>6, <1>7, <1>8, <1>9, <1>10 DEF Next

-----------------------------------------------------------------------------
(* Freshness. *)
Sound == /\ Files /\ Entries /\ Current /\ Replies
         /\ MetadataUpToDate /\ NotModifiedIsFresh

(* What Sound says of the cached images. *)
Cached == Entries /\ \A p \in DOMAIN imageCache : UpToDate(imageCache[p])

(* A step that adds no image to the cache keeps what is said of it. *)
LEMMA SameCached ==
  ASSUME Inv, clock' \in Nat, clock' >= clock,
         \A p \in DOMAIN imageCache' :
           p \in DOMAIN imageCache /\ imageCache'[p] = imageCache[p]
  PROVE  Cached'
  BY DEF Inv, TypeOK, Cached, Entries, MetadataUpToDate, UpToDate, Image

(* A request that ends has no image that anything could be said of. *)
LEMMA EndSound ==
  ASSUME Inv, EndRequest, Cached', UNCHANGED <<clock, disk, path, reply>>
  PROVE  Sound'
  BY DEF Inv, EndRequest, Sound, Cached, Files, Current, Looking, After, Replies,
         MetadataUpToDate, NotModifiedIsFresh

(* The image is added to the cache once its metadata are up to date. *)
LEMMA StoredSound ==
  ASSUME Inv, pc = "loaded", imageCache' = CachedImages(path, image), clock' = clock
  PROVE  Cached'
<1>1. image \in Image /\ path \in Path
  BY DEF Inv, TypeOK
<1>2. image.stamp \in 1..clock /\ UpToDate(image)
  BY DEF Inv, Current, After, MetadataUpToDate
<1>3. \A q \in DOMAIN imageCache' :
        \/ imageCache'[q] = image
        \/ q \in DOMAIN imageCache /\ imageCache'[q] = imageCache[q]
  BY <1>1, StoredType DEF Inv
<1> QED BY <1>2, <1>3 DEF Inv, Cached, Entries, MetadataUpToDate, UpToDate

(* Every step keeps metadata and replies no older than their time stamps. *)
LEMMA SoundStep == Inv /\ [Next]_vars => Sound'
<1> SUFFICES ASSUME Inv, [Next]_vars PROVE Sound'
  OBVIOUS
<1> USE DEF Looking, After
<1>0. TypeOK /\ Sound /\ Cached
  BY DEF Inv, Sound, Cached, MetadataUpToDate
<1>1. CASE Tick
  <2>1. Cached'
    BY <1>0, <1>1, SameCached DEF Tick, TypeOK
  <2>2. Files' /\ Current'
    BY <1>0, <1>1 DEF Tick, TypeOK, Sound, Files, Current, File, Image
  <2> QED BY <1>0, <1>1, <2>1, <2>2
          DEF Tick, Sound, Cached, Replies, MetadataUpToDate, NotModifiedIsFresh, UpToDate
<1>2. ASSUME NEW p \in Path, Request(p) PROVE Sound'
  <2>1. Cached'
    BY <1>0, <1>2, SameCached DEF Request, fileVars, TypeOK
  <2>2. Replies'
    BY <1>0, <1>2 DEF Request, Sound, Replies
  <2> QED BY <1>0, <1>2, <2>1, <2>2
          DEF Request, fileVars, Sound, Cached, Files, Current, MetadataUpToDate,
              NotModifiedIsFresh
<1>3. ASSUME NEW p \in Path, WriteFile(p) PROVE Sound'
  <2>1. Cached'
    BY <1>0, <1>3, SameCached DEF WriteFile, TypeOK
  <2>2. PICK f \in File : f.written = clock /\ disk' = [disk EXCEPT ![p] = f]
    BY <1>0, <1>3, Zenon DEF WriteFile, TypeOK, File
  <2>3. clock \in Nat /\ clock >= 1
    BY <1>0 DEF TypeOK, Sound, Files
  <2>4. Files'
    BY <1>0, <1>3, <2>2, <2>3 DEF WriteFile, TypeOK, Sound, Files
  <2>5. Current'
    BY <1>0, <1>3, <2>2, <2>3 DEF WriteFile, TypeOK, Sound, Current, Image
  <2> QED BY <1>0, <1>3, <2>1, <2>4, <2>5
          DEF WriteFile, Sound, Cached, Replies, MetadataUpToDate, NotModifiedIsFresh,
              UpToDate
<1>4. ASSUME NEW p \in Path, RemoveFile(p) PROVE Sound'
  <2>1. Cached'
    BY <1>0, <1>4, SameCached DEF RemoveFile, TypeOK
  <2>2. \A q \in Path : disk'[q] # NULL => disk'[q] = disk[q]
    BY <1>0, <1>4 DEF RemoveFile, TypeOK
  <2>3. Files' /\ Current'
    BY <1>0, <1>4, <2>2 DEF RemoveFile, TypeOK, Sound, Files, Current
  <2> QED BY <1>0, <1>4, <2>1, <2>3
          DEF RemoveFile, Sound, Cached, Replies, MetadataUpToDate, NotModifiedIsFresh,
              UpToDate
<1>5. CASE ReloadCache
  <2>1. Cached'
    BY <1>5 DEF ReloadCache, Cached, Entries
  <2> QED BY <1>0, <1>5, <2>1
          DEF ReloadCache, fileVars, Sound, Cached, Files, Current, Replies,
              MetadataUpToDate, NotModifiedIsFresh, UpToDate
<1>6. CASE CacheHit
  <2>1. Cached'
    BY <1>0, <1>6, SameCached DEF CacheHit, fileVars, TypeOK
  <2>2. Current'
    BY <1>0, <1>6 DEF CacheHit, TypeOK, Cached, Entries, UpToDate, Current, Image
  <2> QED BY <1>0, <1>6, <2>1, <2>2
          DEF CacheHit, fileVars, Sound, Cached, Files, Replies, MetadataUpToDate,
              NotModifiedIsFresh
<1>7. CASE CacheMiss
  <2>1. Cached'
    BY <1>0, <1>7, RoomMade, SameCached DEF CacheMiss, fileVars, TypeOK
  <2>2. CASE disk[path].format = "UNSUPPORTED"
    BY <1>7, <2>1, <2>2, EndSound DEF CacheMiss, fileVars
  <2>3. CASE disk[path].format # "UNSUPPORTED"
    <3>1. pc' = "stat" /\ image'.loaded = NULL /\ UNCHANGED <<clock, disk, path, copy, reply>>
      BY <1>7, <2>3 DEF CacheMiss, fileVars
    <3> QED BY <1>0, <2>1, <3>1
            DEF Sound, Cached, Files, Current, Replies, MetadataUpToDate,
                NotModifiedIsFresh
  <2> QED BY <2>2, <2>3
<1>8. CASE NoSuchFile \/ OpenFails \/ FinishRequest
  <2>1. Cached'
    BY <1>0, <1>8, SameCached DEF NoSuchFile, OpenFails, FinishRequest, fileVars, TypeOK
  <2> QED BY <1>8, <2>1, EndSound DEF NoSuchFile, OpenFails, FinishRequest, fileVars
<1>9. CASE StatImage
  <2>1. Cached'
    BY <1>0, <1>9, SameCached DEF StatImage, fileVars, TypeOK
  <2>2. /\ image'.stamp = disk[path].written /\ image'.loaded = image.loaded
        /\ image'.widths = image.widths /\ image'.levels = image.levels
        /\ path \in Path
    BY <1>0, <1>9 DEF StatImage, TypeOK, Image
  <2>3. image'.stamp \in 1..clock
    BY <1>0, <1>9, <2>2 DEF StatImage, Sound, Files
  <2>4. Current'
    BY <1>0, <1>9, <2>2, <2>3 DEF StatImage, fileVars, Sound, Current
  <2> QED BY <1>0, <1>9, <2>1, <2>4
          DEF StatImage, fileVars, Sound, Cached, Files, Replies, MetadataUpToDate,
              NotModifiedIsFresh
<1>10. CASE OpenFile
  <2>1. Cached'
    BY <1>0, <1>10, SameCached DEF OpenFile, fileVars, TypeOK
  <2>2. Current'
    BY <1>0, <1>10 DEF OpenFile, fileVars, Sound, Current
  <2> QED BY <1>0, <1>10, <2>1, <2>2
          DEF OpenFile, fileVars, Sound, Cached, Files, Replies, MetadataUpToDate,
              NotModifiedIsFresh
<1>11. CASE LoadMetadata
  <2>1. Cached'
    BY <1>0, <1>11, SameCached DEF LoadMetadata, fileVars, TypeOK
  <2>2. image \in Image
    BY <1>0, <1>11 DEF LoadMetadata, TypeOK
  <2>3. image'.stamp = image.stamp /\ UpToDate(image')
    <3>1. CASE image.loaded = NULL \/ Outdated
      <4>1. PICK f \in Readable : image' = LoadImageInfo(f)
        BY <1>11, <3>1 DEF LoadMetadata
      <4>2. f \in File /\ f.written >= image.stamp /\ f.written \in Nat
        BY <1>11, ReadableFile DEF LoadMetadata, File
      <4> QED BY <2>2, <4>1, <4>2, LoadedImage, NullAssumption DEF UpToDate
    <3>2. CASE ~ (image.loaded = NULL \/ Outdated)
      <4>1. image' = image
        BY <1>11, <3>2 DEF LoadMetadata
      <4>2. timestamp \in 1..image.loaded /\ Len(image.widths) >= image.levels
        BY <1>0, <1>11, <3>2 DEF LoadMetadata, Sound, Current
      <4>3. image.loaded >= image.stamp
        BY <1>0, <2>2, <3>2, <4>2 DEF Outdated, TypeOK, Image
      <4> QED BY <3>2, <4>1, <4>2, <4>3 DEF UpToDate
    <3> QED BY <3>1, <3>2
  <2>4. Current'
    BY <1>0, <1>11, <2>3 DEF LoadMetadata, fileVars, Sound, Current
  <2> QED BY <1>0, <1>11, <2>1, <2>3, <2>4
          DEF LoadMetadata, fileVars, Sound, Cached, Files, Replies, MetadataUpToDate,
              NotModifiedIsFresh
<1>12. CASE StoreImage
  <2>1. Cached'
    BY <1>12, StoredSound DEF StoreImage, fileVars
  <2> QED BY <1>0, <1>12, <2>1
          DEF StoreImage, fileVars, Sound, Cached, Files, Current, Replies,
              MetadataUpToDate, NotModifiedIsFresh, UpToDate
<1>13. CASE ReplyNotModified
  <2>1. Cached'
    BY <1>13, StoredSound DEF ReplyNotModified, fileVars
  <2>2. copy \in Copy /\ image \in Image
    BY <1>0, <1>13 DEF ReplyNotModified, NotModified, TypeOK
  <2>3. reply'.written >= image.stamp /\ Replies'
    BY <1>0, <1>13, <2>2 DEF ReplyNotModified, NotModified, Sound, Replies, Copy, Image
  <2> QED BY <1>0, <1>13, <2>1, <2>3
          DEF ReplyNotModified, fileVars, Sound, Cached, Files, Current,
              MetadataUpToDate, NotModifiedIsFresh, UpToDate
<1>14. CASE MakeHistogram
  <2>1. PICK w : /\ image' = [image EXCEPT !.histogram = w]
                 /\ imageCache' = IF path \in DOMAIN imageCache
                                  THEN [imageCache EXCEPT ![path].histogram = w]
                                  ELSE imageCache
    BY <1>14, Zenon DEF MakeHistogram
  <2>2. image \in Image
    BY <1>0, <1>14 DEF MakeHistogram, TypeOK
  <2>3. /\ image'.stamp = image.stamp /\ image'.loaded = image.loaded
        /\ image'.widths = image.widths /\ image'.levels = image.levels
    BY <2>1, <2>2 DEF Image
  <2>4. \A p \in DOMAIN imageCache' :
          /\ p \in DOMAIN imageCache
          /\ imageCache'[p].stamp = imageCache[p].stamp
          /\ imageCache'[p].loaded = imageCache[p].loaded
          /\ imageCache'[p].widths = imageCache[p].widths
          /\ imageCache'[p].levels = imageCache[p].levels
    BY <1>0, <2>1 DEF TypeOK, Image
  <2>5. Cached'
    BY <1>0, <1>14, <2>4 DEF MakeHistogram, fileVars, Cached, Entries, UpToDate
  <2> QED BY <1>0, <1>14, <2>3, <2>5
          DEF MakeHistogram, fileVars, Sound, Cached, Files, Current, Replies,
              MetadataUpToDate, NotModifiedIsFresh, UpToDate
<1>15. CASE ReplyContent
  <2>1. Cached'
    BY <1>0, <1>15, SameCached DEF ReplyContent, fileVars, TypeOK
  <2>2. image \in Image /\ image.loaded # NULL /\ image.loaded >= image.stamp
    BY <1>0, <1>15 DEF ReplyContent, TypeOK, Sound, MetadataUpToDate, UpToDate
  <2>3. PICK w \in {image.loaded, image.stamp} \cup {f.written : f \in Readable} :
          reply' = [modified |-> image.stamp, written |-> w]
    BY <1>15, Zenon DEF ReplyContent
  <2>4. w >= image.stamp
    BY <1>15, <2>2, <2>3, ReadableFile DEF ReplyContent, Image
  <2>5. reply'.written >= image.stamp /\ Replies'
    BY <1>0, <1>15, <2>3, <2>4 DEF ReplyContent, Sound, Replies
  <2> QED BY <1>0, <1>15, <2>1, <2>5
          DEF ReplyContent, fileVars, Sound, Cached, Files, Current,
              MetadataUpToDate, NotModifiedIsFresh, UpToDate
<1>16. CASE UNCHANGED vars
  BY <1>0, <1>16
     DEF vars, Sound, Files, Entries, Current, Replies, MetadataUpToDate,
         NotModifiedIsFresh, UpToDate
<1> QED BY <1>1, <1>2, <1>3, <1>4, <1>5, <1>6, <1>7, <1>8, <1>9, <1>10, <1>11, <1>12,
           <1>13, <1>14, <1>15, <1>16 DEF Next

(* Every step keeps the invariant. *)
LEMMA StepInv == Inv /\ [Next]_vars => Inv'
  BY TypeStep, RoomStep, SoundStep DEF Inv, Sound

(* The invariant holds in every state of the image cache. *)
THEOREM ImageCacheInvariant == Spec => []Inv
  BY InitInv, StepInv, PTL DEF Spec

(* Every variable of FIF::run and of the image keeps its type; a file is    *)
(* open exactly from openImage() to the end of the request.                 *)
THEOREM ImageTypeCorrect == Spec => []TypeOK
<1>1. Inv => TypeOK
  BY DEF Inv
<1> QED BY <1>1, ImageCacheInvariant, PTL

(* For any size of the cache and any number of images, files that come and  *)
(* go and requests that fail on the way, the cache keeps its bound.         *)
THEOREM CacheBoundCorrect == Spec => []CacheBounded
<1>1. Inv => CacheBounded
  BY DEF Inv
<1> QED BY <1>1, ImageCacheInvariant, PTL

(* However files are rewritten between FIF's lookup, stat, opening and      *)
(* reading, metadata are no older than their time stamp.                    *)
THEOREM MetadataCorrect == Spec => []MetadataUpToDate
<1>1. Inv => MetadataUpToDate
  BY DEF Inv
<1> QED BY <1>1, ImageCacheInvariant, PTL

(* A 304 reply never leaves a client with content older than the file was   *)
(* when FIF looked at it.                                                   *)
THEOREM NotModifiedCorrect == Spec => []NotModifiedIsFresh
<1>1. Inv => NotModifiedIsFresh
  BY DEF Inv
<1> QED BY <1>1, ImageCacheInvariant, PTL
=============================================================================
