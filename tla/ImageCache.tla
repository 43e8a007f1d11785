----------------------------- MODULE ImageCache ------------------------------
(****************************************************************************)
(* FIF::run of src/FIF.cc with openImage() and loadImageInfo() of the image *)
(* classes: one request after the other opens an image through the cache of *)
(* image metadata, while another program rewrites and removes the files.    *)
(*                                                                          *)
(* What is read from a file is represented by the time the file was written *)
(* and its number of resolutions.  The JPEG2000 classes open and load in    *)
(* the same order as TPTImage, whose lines are the ones translated.         *)
(****************************************************************************)
EXTENDS Integers, Sequences, FiniteSets

CONSTANTS Path,           \* the argument of FIF, after URL decoding
          Resolutions,    \* numbers of resolutions a file may have
          FirstTime,      \* st_mtime of the files there at the start
          MaxTime,        \* bound on the clock, in seconds
          MAXIMAGECACHE,
          NULL

ASSUME ResolutionsAssumption == Resolutions \subseteq Nat \ {0}
ASSUME TimeAssumption == FirstTime \in Nat \ {0} /\ MaxTime \in Nat
ASSUME CacheAssumption == MAXIMAGECACHE \in Nat \ {0}

Format == {"TIF", "JPEG2000", "UNSUPPORTED"}
File == [written : Nat, levels : Resolutions, format : Format]

(* class IIPImage.  loaded: when the file was written that loadImageInfo()  *)
(* read (NULL: bpc is 0); widths: the same of each entry of image_widths    *)
(* and image_heights; levels: numResolutions; histogram: when the pixels    *)
(* were written that it counts (NULL: it is empty).                         *)
Image == [format : Format, stamp : Nat, loaded : Nat \cup {NULL},
          levels : Nat, widths : Seq(Nat), histogram : Nat \cup {NULL}]

(* A reply a client keeps: Last-Modified, and when its content was written. *)
Copy == [modified : Nat, written : Nat]

ASSUME NullAssumption == NULL \notin Path \cup Nat \cup File \cup Image \cup Copy

VARIABLES clock,
          disk,         \* the file of each path, NULL if there is none
          imageCache,
          path,         \* the path of the current request
          copy,         \* the copy its If-Modified-Since header is from
          image,        \* test, then *session->image
          timestamp,    \* the time stamp of the cached image, 0 on a miss
          opened,       \* the file that is open
          reply,        \* the last 200 or 304 reply, as the client has it
          pc

fileVars == <<clock, disk>>
vars == <<clock, disk, imageCache, path, copy, image, timestamp, opened,
          reply, pc>>

-----------------------------------------------------------------------------
Init ==
  /\ clock = FirstTime
  /\ disk \in [Path -> [written : {FirstTime}, levels : Resolutions,
                        format : Format]]
  /\ imageCache = [p \in {} |-> NULL]
  /\ path = NULL /\ copy = NULL /\ image = NULL /\ timestamp = 0
  /\ opened = NULL /\ reply = NULL
  /\ pc = "idle"

Tick ==
  /\ clock < MaxTime
  /\ clock' = clock + 1
  /\ UNCHANGED <<disk, imageCache, path, copy, image, timestamp, opened,
                 reply, pc>>

WriteFile(p) ==
  /\ \E n \in Resolutions, f \in Format :
       disk' = [disk EXCEPT ![p] = [written |-> clock, levels |-> n, format |-> f]]
  /\ UNCHANGED <<clock, imageCache, path, copy, image, timestamp, opened,
                 reply, pc>>

RemoveFile(p) ==
  /\ disk' = [disk EXCEPT ![p] = NULL]
  /\ UNCHANGED <<clock, imageCache, path, copy, image, timestamp, opened,
                 reply, pc>>

(* IIPReloadCache, on SIGHUP. *)
ReloadCache ==
  /\ imageCache' = [p \in {} |-> NULL]
  /\ UNCHANGED <<fileVars, path, copy, image, timestamp, opened, reply, pc>>

-----------------------------------------------------------------------------
(* A request for p, on its own or to revalidate the client's last copy. *)
Request(p) ==
  /\ pc = "idle"
  /\ copy' \in {NULL, IF p = path THEN reply ELSE NULL}
  /\ reply' = IF p = path THEN reply ELSE NULL
  /\ path' = p
  /\ pc' = "lookup"
  /\ UNCHANGED <<fileVars, imageCache, image, timestamp, opened>>

(* The end of a request, whether it is served or an exception ends it:      *)
(* Main.cc deletes the image.                                               *)
EndRequest ==
  /\ image' = NULL /\ timestamp' = 0 /\ opened' = NULL /\ copy' = NULL
  /\ pc' = "idle"

(* A cache hit: a copy of the entry, its format not tested again. *)
CacheHit ==
  /\ pc = "lookup" /\ path \in DOMAIN imageCache
  /\ image' = imageCache[path]
  /\ timestamp' = image'.stamp
  /\ pc' = "stat"
  /\ UNCHANGED <<fileVars, imageCache, path, copy, opened, reply>>

(* Fault: the test is for more than MAXIMAGECACHE images. *)
MakeRoomLate ==
  IF Cardinality(DOMAIN imageCache) > MAXIMAGECACHE
  THEN \E q \in DOMAIN imageCache :
         imageCache' = [p \in DOMAIN imageCache \ {q} |-> imageCache[p]]
  ELSE imageCache' = imageCache

(* Delete an item of the map, whichever is first, if the list of images is  *)
(* too long.                                                                *)
MakeRoom ==
  IF Cardinality(DOMAIN imageCache) >= MAXIMAGECACHE
  THEN \E q \in DOMAIN imageCache :
         imageCache' = [p \in DOMAIN imageCache \ {q} |-> imageCache[p]]
  ELSE imageCache' = imageCache

(* A cache miss, or an empty cache: Initialise() and testImageType(). *)
CacheMiss ==
  /\ pc = "lookup" /\ path \notin DOMAIN imageCache
  /\ disk[path] # NULL
  /\ MakeRoom
  /\ \/ /\ disk[path].format # "UNSUPPORTED"
        /\ image' = [format |-> disk[path].format, stamp |-> disk[path].written,
                     loaded |-> NULL, levels |-> 0, widths |-> <<>>,
                     histogram |-> NULL]
        /\ pc' = "stat"
        /\ UNCHANGED <<copy, timestamp, opened>>
     \/ disk[path].format = "UNSUPPORTED" /\ EndRequest
  /\ UNCHANGED <<fileVars, path, reply>>

(* Initialise() throws file_error. *)
NoSuchFile ==
  /\ pc = "lookup" /\ path \notin DOMAIN imageCache
  /\ disk[path] = NULL
  /\ EndRequest
  /\ UNCHANGED <<fileVars, imageCache, path, reply>>

(* openImage() begins with updateTimestamp() *)
StatImage ==
  /\ pc = "stat" /\ disk[path] # NULL
  /\ image' = [image EXCEPT !.stamp = disk[path].written]
  /\ pc' = "open"
  /\ UNCHANGED <<fileVars, imageCache, path, copy, timestamp, opened, reply>>

(* and opens the file after. *)
OpenFile ==
  /\ pc = "open" /\ disk[path] # NULL /\ disk[path].format = image.format
  /\ opened' = disk[path]
  /\ pc' = "opened"
  /\ UNCHANGED <<fileVars, imageCache, path, copy, image, timestamp, reply>>

(* The file is gone, is of another format than the image was when its entry *)
(* was made, or cannot be read.                                             *)
OpenFails ==
  /\ pc \in {"stat", "open", "opened"}
  /\ EndRequest
  /\ UNCHANGED <<fileVars, imageCache, path, reply>>

(* Reads of the open file see the file as it was when it was opened, or     *)
(* what was written over it in place.                                       *)
Readable ==
  {opened} \cup IF disk[path] # NULL /\ disk[path].format = image.format
                THEN {disk[path]} ELSE {}

(* loadImageInfo(): numResolutions is assigned, image_widths appended to. *)
LoadImageInfo(f) ==
  [image EXCEPT !.loaded = f.written, !.levels = f.levels,
                !.widths = @ \o [i \in 1..f.levels |-> f.written]]

(* Fault: the comparison is the wrong way round. *)
OutdatedReversed == timestamp > 0 /\ timestamp > image.stamp

(* FIF's test that the entry's metadata are out of date. *)
Outdated == timestamp > 0 /\ timestamp < image.stamp

(* The end of openImage(), which loads the metadata if there are none, and  *)
(* FIF's reload of metadata that are out of date.                           *)
LoadMetadata ==
  /\ pc = "opened"
  /\ IF image.loaded = NULL \/ Outdated
     THEN \E f \in Readable : image' = LoadImageInfo(f)
     ELSE image' = image
  /\ pc' = "loaded"
  /\ UNCHANGED <<fileVars, imageCache, path, copy, timestamp, opened, reply>>

CachedImages(p, im) ==
  [q \in DOMAIN imageCache \cup {p} |-> IF q = p THEN im ELSE imageCache[q]]

(* Fault: a file written in the second after the copy is taken as the same. *)
NotModifiedLate == copy # NULL /\ image.stamp <= copy.modified + 1

(* The If-Modified-Since test. *)
NotModified == copy # NULL /\ image.stamp <= copy.modified

(* The image is added to the cache; the request goes on, *)
StoreImage ==
  /\ pc = "loaded" /\ ~ NotModified
  /\ imageCache' = CachedImages(path, image)
  /\ pc' = "ready"
  /\ UNCHANGED <<fileVars, path, copy, image, timestamp, opened, reply>>

(* or ends with a 304 reply, and the client goes on with the copy it has. *)
ReplyNotModified ==
  /\ pc = "loaded" /\ NotModified
  /\ imageCache' = CachedImages(path, image)
  /\ reply' = copy
  /\ pc' = "replied"
  /\ UNCHANGED <<fileVars, path, copy, image, timestamp, opened>>

(* JTL and CVT count the pixels of a thumbnail if the image has no          *)
(* histogram, and add the result to the cached image if it is still there.  *)
(* The thumbnail is as fresh as ServedFresh of TileManager says.            *)
MakeHistogram ==
  /\ pc = "ready" /\ image.histogram = NULL
  /\ \E w \in {image.stamp} \cup {f.written : f \in Readable} :
       /\ image' = [image EXCEPT !.histogram = w]
       /\ imageCache' = IF path \in DOMAIN imageCache
                        THEN [imageCache EXCEPT ![path].histogram = w]
                        ELSE imageCache
  /\ UNCHANGED <<fileVars, path, copy, timestamp, opened, reply, pc>>

(* A 200 reply of metadata or of pixels, with the time stamp of the image.  *)
(* The pixels are as fresh as ServedFresh of TileManager says.              *)
ReplyContent ==
  /\ pc = "ready"
  /\ \E w \in {image.loaded, image.stamp} \cup {f.written : f \in Readable} :
       reply' = [modified |-> image.stamp, written |-> w]
  /\ pc' = "replied"
  /\ UNCHANGED <<fileVars, imageCache, path, copy, image, timestamp, opened>>

FinishRequest ==
  /\ pc \in {"ready", "replied"}
  /\ EndRequest
  /\ UNCHANGED <<fileVars, imageCache, path, reply>>

Next ==
  \/ Tick
  \/ \E p \in Path : Request(p) \/ WriteFile(p) \/ RemoveFile(p)
  \/ ReloadCache
  \/ CacheHit
  \/ CacheMiss
  \/ NoSuchFile
  \/ StatImage
  \/ OpenFile
  \/ OpenFails
  \/ LoadMetadata
  \/ StoreImage
  \/ ReplyNotModified
  \/ MakeHistogram
  \/ ReplyContent
  \/ FinishRequest

Spec == Init /\ [][Next]_vars
-----------------------------------------------------------------------------
(* Every variable has its type. *)
TypeOK ==
  /\ clock \in Nat
  /\ disk \in [Path -> File \cup {NULL}]
  /\ imageCache \in [DOMAIN imageCache -> Image] /\ DOMAIN imageCache \subseteq Path
  /\ path \in Path \cup {NULL} /\ (path = NULL => pc = "idle")
  /\ copy \in Copy \cup {NULL} /\ reply \in Copy \cup {NULL}
  /\ image \in Image \cup {NULL} /\ (image = NULL <=> pc \in {"idle", "lookup"})
  /\ timestamp \in Nat
  /\ opened \in File \cup {NULL}
  /\ opened # NULL <=> pc \in {"opened", "loaded", "ready", "replied"}
  /\ pc \in {"idle", "lookup", "stat", "open", "opened", "loaded", "ready", "replied"}

(* The image cache never has more than MAXIMAGECACHE images: the room made  *)
(* on a miss is still there when the image is added, several steps later.   *)
CacheBounded == Cardinality(DOMAIN imageCache) <= MAXIMAGECACHE

(* The metadata were read from a file no older than the time stamp beside   *)
(* them, and there is a width for each of the resolutions.                  *)
UpToDate(im) ==
  im.loaded # NULL /\ im.loaded >= im.stamp /\ Len(im.widths) >= im.levels

(* The metadata of every cached image, and of the image a request is served *)
(* from, are up to date: FIF reloads them if the file has changed, whenever *)
(* in the request it does.                                                  *)
MetadataUpToDate ==
  /\ \A p \in DOMAIN imageCache : UpToDate(imageCache[p])
  /\ pc \in {"loaded", "ready", "replied"} => UpToDate(image)

(* A 304 reply leaves the client with content no older than the file was    *)
(* when the request looked at it.                                           *)
NotModifiedIsFresh == pc = "replied" => reply.written >= image.stamp

-----------------------------------------------------------------------------
(* What the comment "Check timestamp consistency. If cached timestamp is    *)
(* older, update metadata" of FIF.cc says, and the code does not do.        *)

(* The width and height of every resolution, which image_widths has in the  *)
(* first numResolutions entries, are those of the file that was loaded.     *)
SizesUpdated ==
  pc = "ready" => \A i \in 1..image.levels : image.widths[i] >= image.stamp

(* The histogram is not older than the time stamp of the image. *)
HistogramUpdated ==
  pc = "ready" /\ image.histogram # NULL => image.histogram >= image.stamp
=============================================================================
