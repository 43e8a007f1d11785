# A TLA+ model of iipsrv

iipsrv is a FastCGI image server: one process, one thread, one request at a time.
A request is a list of commands; the server opens the image they name, decodes,
processes and encodes tiles or regions of it, and sends them. What makes this hard
to get right is what it keeps from one request to the next (tiles, image metadata,
whole replies) while image files change under it, requests fail half-way and
signals arrive; the arithmetic that turns a request into tiles, pixels and buffers;
and the record protocol that carries request and reply. This project models those
parts, checks them with TLC and proves the central ones with TLAPS. Source paths below
are relative to `src/src/`, except `ChangeLog` and `README`, which are in `src/`, and
`fcgiapp.c` and `os_unix.c`, which are in `src/fcgi/libfcgi/`.

## Inventory

| Part | State | Operations | What is hard |
|---|---|---|---|
| Tile cache, `Cache.h` | list of tiles, index into it, running total | `insert`, `getTile`, `clear`, `_touch`, `_remove` | three structures in step; tiles larger than the cache; pointers handed out; SIGHUP in between |
| Tile manager, `TileManager.cc` | none of its own; a call's tile | `getTile`, `getNewTile`, `crop`, `getRegion` | which cached encoding answers; freshness; preparing pixels once; views with files of their own |
| Image cache, `FIF.cc`, `IIPImage.cc`, `TPTImage.cc` | path to metadata; the session's image | lookup, open, load, reload, store, 304 | stat, open and read are three moments of a file that changes; copies of cached images |
| Request loop, `Main.cc` | per-request response, writer, task, image; memcached | accept, run commands, reply, store, catch, clean up | exceptions after part of a reply; what may be stored; what is deleted |
| Commands, `Task.cc`, `JTL.cc`, `CVT.cc`, `TIL.cc`, `PFL.cc`, `SPECTRA.cc`, `OBJ.cc` | `View`, compressors | one `run` each | parameters at their limits, header before content |
| Protocols, `Zoomify.cc`, `DeepZoom.cc`, `IIIF.cc`, `DeepZoomExt.cc`, `JTLExt.cc` | a vector of tiles (`DeepZoomExt`) | `run` | resolution and tile index arithmetic; several images in one request |
| `View.cc` | viewport and resolution | setters, getters | rounding, bounds |
| `Transforms.cc` | the tile in hand | twenty transforms | order, sizes, channels, edges |
| Compressors, `JPEGCompressor.cc`, `PNGCompressor.cc` | output buffer and its counts | encode a tile, or strip by strip | growth of buffers in callbacks; profiles |
| JPEG2000 readers | library state | decode | work of libraries |
| FastCGI library, `fcgiapp.c`, `os_unix.c` | streams, parameters, connection | accept, read, write, flush, finish | records cut anywhere; kept connections; buffers at their limit; peers that leave |
| `Tokenizer.h`, `URL.h`, `Environment.h`, `Logger.h`, `Timer.h` | none | parsing, configuration, I/O | little |

`PROJECT.json` lists these with their status, and every hazard at its line.

The parts interact as follows. `Main` runs commands. `FIF` takes the image from the
image cache or makes one, and opens it. Commands that send pixels call the tile
manager, which asks the tile cache, decodes with the image, encodes with a
compressor and inserts. What the commands wrote is stored in memcached. SIGHUP
clears both in-process caches. `Main` gets each request from `FCGX_Accept_r` and
writes replies to the output stream of the FastCGI library, which finishes a request
when the next one is accepted.

## Modules

**TileCache** is class `Cache`. `tileList`, `tileMap` and `currentSize` are the
members of those names. A list node has an address (`Cell`), which is what the
index and callers hold; addresses are reused after they are freed. `insert()` is cut
at its own statements that change a structure (`InsertBegin`, `PushFront`,
`StoreIndex`, `Account`, `EvictLast`, `InsertEnd`), and a call of `_remove`, which changes
all three, is one of them; `pc` is the next statement, so no other call interleaves.
`GetTile` and `DropPointer` are the other calls, and `ClearBetweenCalls` the SIGHUP handler
when it finds the server outside the cache, possibly with a pointer into it in hand. A
tile is a time stamp and the memory it is charged with. The charge is taken when a
node is inserted and given back when it is removed; it uses string capacities of
copies, taken to be equal as they are in the usual C++ libraries.

**TileCacheLRU** adds a history of uses and fairness. **CacheReload** lets the
SIGHUP handler in between the statements of `insert()` as well. **TileStore** and **TileStoreSpec**
are what a caller relies on: a lossy map that may be emptied at any time, and whose handed-out
tile does not change while it is held unless it is emptied.

**TileManager** is `TileManager::getTile` with `getNewTile` and `crop`, over a
`TileStore` and files rewritten at any moment. `StatImage` and `OpenImage` are the two
moments of `openImage()`; `LookupEncoded` and `LookupRaw` the lookups; `GetNewTile`,
`Convert` and `ReturnCached` the three ways to a tile; `InsertReplaces` and
`InsertEnds` the insertion. Pixels are represented by the time their file was
written, the view they are from, and how often they were cropped and passed to
the watermark (which draws with a probability; calls are counted). `Seek` is the
reopening that `TPTImage::getTile` does for another view.

**ImageCache** is `FIF::run` with `openImage()` and `loadImageInfo()`. An image is its
format, time stamp, when the file its metadata came from was written, and the same for
each entry of `image_widths` and for the histogram. A client may revalidate the
copy it has (`If-Modified-Since`).

**Server** is the loop of `Main.cc`. Commands are any sequence of five kinds; a reply is
the sequence of parts written. Exceptions are those the catch clauses tell apart.
Commands that open their own image (`protocol`) may open several. memcached may
lose anything at any time. An `If-Modified-Since` header that is not a date leaves
`mod_t` uninitialized, so either outcome is possible.

**View** is class `View` as functions of a record of its members, with the code's
rounding. **Region** is the arithmetic of tiles that decoders and handlers share, and
`TileManager::getRegion`: each direction is a list of pieces (tile, first pixel, length,
position). **Viewport** is the handlers that choose pixels: `RGN`, `WID`, `HEI`, `CVT`,
`IIIF`, `PFL` for regions, `JTL`, `Zoomify`, `DeepZoom`, `TIL`, `SPECTRA` for tiles.
`reply` is what the last handler decided: tile or region, and output size.

**Transforms** is `Transforms.cc` on tiles whose samples say which source pixels and which
channel they were made from; only the histogram, the threshold and the equalization
compute with values. A tile also carries the names of the transforms that had an effect on it, in order
(`done`, a history the code does not have). **Encoder** is the output buffers of the compressors, byte by byte:
a byte is what the encoder produced, or one that nobody wrote, or one that a later write has replaced.
libjpeg and libpng are external and produce the header, the profile, rows and the trailer.
**Pipeline** runs the processing commands and then `JTL` (and `IIIF`, `PTL` through it) or
`CVT`, one step for each stage in the order of the code, from the fetched tile to the
bytes sent. A transform that is called on a tile already encoded spoils its bytes. `moved` and `released`
say that the header, or a strip, of `CVT` has outgrown the buffer it was given. **DeepZoomExt** adds
requests for several images, with missing and unreadable
files, joined images and zip archives whose entries may fail. The last path of a `/greyscale`
description keeps its `.dzi` when it is looked up, and a suffix that is none of `jpg`, `png` and `zip` leads
to a call on a compressor that was never chosen (stage `crash`), as in the code.

**FcgiInput** is `FCGX_Accept_r`, `FillBuffProc`, `ProcessHeader`, `ReadParams` and
`FCGX_GetStr` against an external web server that cuts records as it likes, pads them, puts
management records and records of other requests in between, reuses connections and
drops them. When a request on a kept connection was not read to its end, the library takes its leftover
bytes for a record header; they may then say anything (`Forged`). **FcgiOutput** is `FCGX_PutStr`, `FCGX_FFlush`, `EmptyBuffProc`,
`WriteCloseRecords` and `FCGX_Finish_r`; a stack of calls stands for their nesting,
and every `write(2)` is a step that may be partial. Headers and padding units are scaled
down from 8 bytes.

The modules **MC...** give these specifications their small instances.

**TileCacheProofs**, **TileManagerProofs**, **ImageCacheProofs**, **ServerProofs**,
**FcgiOutputProofs**, **FcgiRecordProofs**, **FcgiReceivedProofs** and **ViewportProofs** hold
the proofs.
Definitions introduced as "Fault" are variants a bug would give; they are part of no
specification, and each makes one property fail.

## Runs

| Run | Shows |
|---|---|
| `tile_cache` (`TileCacheLRU`) | list, index and total agree at every statement of `insert()`; limit kept between calls; eviction has a victim; the cache holds exactly the most recently used keys, in order; it implements `TileStoreSpec`; every insertion returns |
| `tile_manager` | a TIFF sequence of two views and a JPEG2000 image, two qualities, watermark: cached tiles sound, prepared exactly once, served fresh and as asked |
| `image_cache` | two files, a cache of one, failures and SIGHUP at any step: the bound holds, metadata are no older than their time stamp, a 304 never leaves older content than the file |
| `server` | every request answered; memcached has whole replies only, no info.json; every request ends |
| `fcgi_input` (`MCFcgiInput`) | an accepted request without an error on its stream has exactly its own environment, role and id; standard input is handed out whole; the reader keeps its place between records; the parameter vector has room; accept returns or closes the connection. Left out are kept connections whose last request was not read to its end and empty records of other requests |
| `fcgi_output` (`MCFcgiOutput`) | buffers never overflow; the peer receives whole records with the content in order, streams ended after their content and the request ended once; finishing returns also when the peer is gone |
| `viewport` (`MCViewport`) | regions that begin inside their level are composed of exactly their pixels; exports respect the limit, the request and the level; the level chosen has enough pixels; tile protocols reach the tile they name, with the exceptions of `MCAddressedAlways` |
| `pipeline` (`MCPipeline`) | sizes and buffers of tiles agree after every transform; encoders get what they accept; histogram, threshold and equalization are right; every adjustment asked for reaches the samples once; every pixel is in its place when it is encoded; files arrive whole while their buffers suffice; parts of a reply match the paths; every request is served or ends in the crash above. The exceptions are the refuted statements on `MCPipeline` below |

Some properties are a conjunction of parts that are stated and commented one by one in the
modules, because one hazard has several faces:

| Property | Parts |
|---|---|
| `RegionServed` | `CutFits` (the part of the level cut out lies in it), `RegionExact` (`getRegion` copies every pixel once, to its place) |
| `SizeBounded` | `OutputBounded` (the size limit), `FitsRequest` (the size asked for) |
| `TilesAddressed` | `AddressedTile` (Zoomify, DeepZoom), `HalfTurn` (JTL with a half turn), `IiifTile`, `TilRectangle`, `SpectraPoint` |
| `EncoderInput` | `Shape` (sizes and data agree after each stage), `EncoderAccepts` (channels and depth the encoder takes) |
| `HistogramUsed` | `HistogramReady` (there before it is used, but for bilevel images in `CVT`), `OtsuBest` (the threshold against its definition), `EqualizeOrdered` |
| `SentIntact` | `EncodedOnceGrown` (tiles, one growth), `StripsIntact` (exports whose strips fit), `HeaderFits`: the bytes sent are those the encoder produced |
| `PartsMatchPaths` | `InPathOrder` (descriptions and joined images), `EntriesMatchPaths` (archives) |
| `RequestIntact` | `AcceptedIntact` (environment), `StdinIntact` (body) |
| `RequestEnded` | `EndsAfterContent`, `EndedOnce` |

Four runs show where the code does not do what the repository says of it:

| Run | Line quoted | What happens |
|---|---|---|
| `tile_cache_reload` | `Cache.h:249` | SIGHUP inside `insert()` leaves a total for a tile that is gone |
| `image_sizes` | `FIF.cc:181` | a reload appends to the sizes and the old ones are used |
| `server_errors` | `Main.cc:831` | replies with an IIP error are stored in memcached |
| `encoded_tile` | `JPEGCompressor.cc:117` | the second growth of the JPEG buffer leaves bytes that nobody wrote in the file |

Further statements that TLC refutes, with configurations that are not listed as runs. `MCPipelineRefuted`
has nine of them: `tlc -continue` reports every one (in a quarter of an hour), and a copy with one statement
alone gives its shortest counterexample at once:

| Configuration (module) | Statement | What happens |
|---|---|---|
| `MCTileHeld` (`TileCache`) | `HeldIsLive` | SIGHUP frees the tile that a caller of `getTile` is reading |
| `MCTileManagerFresh` (`TileManager`) | `EveryViewFresh`, `ChangeLog:1213` | a rewritten file of another view is not noticed |
| `MCTileManagerLayers` (`TileManager`) | `LayersAsAsked`, `TileManager.h:106` | the key lacks the number of layers |
| `MCTileManagerDecode` (`TileManager`) | `DecodesOnlyOnMiss`, `TileManager.h:99` | an outdated encoded tile hides an up-to-date raw one |
| `MCImageHistogram` (`ImageCache`) | `HistogramUpdated`, `FIF.cc:181` | a reload keeps the old histogram |
| `MCServerImages` (`Server`) | `ImagesDeleted`, `Main.cc:569` | only the last image of a request is deleted |
| `MCNoMaximum` (`MCViewport`) | `NoMaximum`, `README:191` | `MAX_CVT` of -1 is compared by IIIF as if it were a size |
| `MCTileIsRegion` (`MCViewport`) | `TileIsRegion`, `IIIF.cc:626` | regions that are not a tile are answered with one |
| `MCAddressedAlways` (`MCViewport`) | `AddressedAlways` | a half turn counts the rows of oblong tiles wrong (`JTL.cc:59`), `SPECTRA` the pixels of a row in a tile cut at the right (`SPECTRA.cc:115`), and `IIIF` with a half turn chooses a tile that `JTL` then replaces by the opposite one (`IIIF.cc:650`) |
| `MCCutAlways` (`MCViewport`) | `CutAlways`, `CVT.cc:97` | a region that begins at the end of a level rounded down reaches outside it |
| `MCPipelineRefuted` (`MCPipeline`) | `BinarySegments` | `threshold()` and `binary()` put the level itself in different classes |
| `MCPipelineRefuted` (`MCPipeline`) | `TransformsOnRaw`, `JTL.cc:112` | `binary()` runs on an encoded tile of a single-channel image |
| `MCPipelineRefuted` (`MCPipeline`) | `ProfileOfImage` | a tile carries the profile of an earlier path |
| `MCPipelineRefuted` (`MCPipeline`) | `ProfileFits`, `View.h:139` | a colour-mapped or exported image carries the profile that an earlier reply left in the compressor |
| `MCPipelineRefuted` (`MCPipeline`) | `HonouredAlways` | a stretch is done in the first reply only; `greyscale()` does nothing to the four channels PNG keeps and `binary()` reaches a part of them; `binary()` is called on an encoded tile |
| `MCPipelineRefuted` (`MCPipeline`) | `HistogramAlways` | `CVT` has no histogram for a bilevel image and reads it |
| `MCPipelineRefuted` (`MCPipeline`) | `StripsAlways` | a strip larger than its pixels and the margin makes the compressor release the buffer that `CVT` goes on to send from |
| `MCPipelineRefuted` (`MCPipeline`) | `DescribedAlways` | the last file of a `/greyscale` description is looked up under the wrong name |
| `MCPipelineRefuted` (`MCPipeline`) | `CompressorChosen` | an unknown suffix leaves the compressor null |
| `MCFcgiForeign` (`MCFcgiInput`) | `RequestAlways` | an empty record of another request makes the library skip the record after it (`fcgiapp.c:1723`) |
| `MCFcgiKept`, `MCFcgiKeptReturns` (`MCFcgiInput`) | `KeptIntact`, `KeptReturns` | what is left of a request on a kept connection is taken for a record header (`fcgiapp.c:1592`) |
| `MCFcgiEnvironment` (`MCFcgiInput`) | `AcceptedWithoutErrors`, `fcgiapp.c:2232` | a connection that breaks between two pairs gives a request with part of its environment |
| `MCFcgiWriteError` (`MCFcgiOutput`) | `NoWriteAfterError`, `fcgiapp.c:936` | closing a stream writes again what a failed write left |

### Bounds

- Tile cache: three keys, four cells, tiles of a third, two thirds and more than all of
  the cache, two time stamps. Replacement, several evictions in one insertion, the
  oversized tile and reuse of an address all occur.
- Tile manager: `MaxTime` 1 (a file written before and after the stat, in the same second
  and in the next); `MaxTiles` 2 tiles in the store when a call begins, so three after it
  (an outdated encoding beside a raw tile). The tile is an edge tile; the proofs cover
  inner ones.
- Image cache: `MaxTime` 2, two files of one or two resolutions, `MAXIMAGECACHE` 1.
- Server: two queries, `MaxCommands` 2 (one command after another that left something
  behind), `MaxImages` 2 images not yet deleted (two images in a request).
- FastCGI input: three requests (one of them of an unknown role) over two connections, two of
  them keeping theirs; one and four byte lengths, empty names and values; a buffer of three
  bytes, so that headers, lengths and padding are cut at every place; one extra record of any
  kind, empty ones of other requests included; leftovers taken for three different headers; `MaxWire` bytes in flight when the web server sends on. A vector of two parameters grows.
- FastCGI output: units of 2 bytes, buffers of three and two units, five bytes on `out` and
  one on `err` in any portions, one flush: buffers end one byte short, full, and overflow.
- Viewport: four images (square and oblong tiles, sizes that are and are not multiples, one to
  three levels), regions inside, across and outside the image, sizes from 0 to twice the image,
  no limit, a limit below the image and one above it.
- Pipeline: eleven images of up to three by three pixels, of all depths, channels and colour spaces the code
  tells apart; every pair of 17 options; resizing to twelve sizes, all turns; every histogram of up to four
  pixels in four levels; up to three paths; up to two replies in a request. Strips of two rows and buffers of a few bytes make
  buffers grow once and twice, and one image encodes to more than its pixels. `EMBED_ICC` is on, its default.

### Assumptions

- SIGHUP arrives between calls of the cache in TileCache, also while a caller holds a pointer, and
  inside `insert()` in CacheReload. TileManager takes it that no SIGHUP arrives while a call reads a cached
  tile; `MCTileHeld` and `tile_cache_reload` have the other cases. In ImageCache it may arrive at any step.
- Files are written at the time of the clock, which does not go back; a second is the
  finest time there is. Two writes in one second are the same to the code.
- In `image_cache` modification times are positive: `FIF.cc:182` takes 0 for a cache miss.
- A file that is open may be read as it was or as it was rewritten in place.
- Commands that use the image without checking for it come after one that opens it.
- Floats of `View` are exact rationals: what the code rounds is rounded, the error of
  float arithmetic is not there. The loops of transforms that OpenMP may run in
  parallel write disjoint samples and are one step; `shade()`, whose variables the threads share, may
  give the right samples or arbitrary ones.
- The web server keeps to the FastCGI protocol, apart from leaving at any time and from records of requests
  it has not begun, which the library is to skip. In `fcgi_output` a
  peer that is gone stays gone; `MCFcgiWriteError` has the other case.
- In `viewport`, handlers are asked for resolutions that exist.
- Exceptions of type `int` are 304 and 100, the only ones that reach `Main.cc` from this code.

### Fairness

`FairLRUSpec` has weak fairness of the statements of `insert()`, and `FairSpec` of the
steps that serve a request: one thread runs them and none waits for another process
for ever. No client has to come, and no file has to change. In `FcgiInput` the web server
has weak fairness too, once it has begun a request: the code has no time-out, so that a
peer that neither sends nor closes does block it. In `FcgiOutput` the library's steps and the
end of a request are fair, in `DeepZoomExt` every step of the one thread.

## Proofs

For every value of the constants:

- **TileCacheProofs** proves that the conjunction of the type, index and accounting
  invariants is inductive (`CacheInvariant`) once it is joined by what `insert()`
  knows at each statement (`Control`): the key to be pushed is not indexed, the pushed node
  is the first, no pointer is held, and between calls the total is within the limit. From it:
  `TypeCorrect`, `IndexCorrect`, `AccountingCorrect`, `MemoryBoundCorrect`, `VictimCorrect`. Accounting needs the sum of weights over a list with one node moved,
  removed or added; these lemmas are an induction on sets of naturals. `CacheImplementsStore`
  shows that every step of the cache is a step or a stutter of the store, given that invariant; the SIGHUP handler is its `Empty`.
  `LRUCorrect` proves `KeepsMostRecentlyUsed`, which says nothing about the statements inside
  `insert()`. `Order` does: the history lists no key twice, and the list is the beginning of the
  history, or of the history after its first key while that key's node is still to be pushed.
  A lookup and a replacement move the same place of the list and of the history to the front;
  an eviction only shortens the list.
- **TileManagerProofs** proves `ManagerInvariant`, which adds to the properties what holds of
  the tile in preparation and of the tile a lookup returned, and that the open file
  is never older than the image's time stamp; from it the type invariant, `CacheIsSound`,
  `PreparedExactlyOnce`, `ServedFresh` and `ServedAsAsked`.
- **ImageCacheProofs** proves `ImageCacheInvariant`. `MetadataUpToDate` is not inductive:
  what is loaded at a step depends on the file at an earlier one. `Files` and `Entries` say that no
  file and no entry is newer than the clock, `Current` that from the stat on neither the file
  on disk nor the open one is older than the image's stamp, `Replies` that content is no older
  than its Last-Modified header, and `Room` that an image not in the cache has had room made
  for it. From it: `ImageTypeCorrect`, `CacheBoundCorrect`, `MetadataCorrect`, `NotModifiedCorrect`.
- **ServerProofs** proves `ServerInvariant`. `Reply` says what has been written at each point of
  the loop: headers with their content but for one between the two writes of a command, no status of a catch
  clause before it, an info.json only once the response is marked as not cachable, and
  something whenever a command reports that it sent an image. From it: `ServerTypeCorrect`, `AnswerCorrect`,
  `MemcachedCorrect`, for requests of any number of commands.
- **FcgiOutputProofs** proves `FcgiOutputInvariant`: types, `BufferHolds`, and `WritesInside` (a
  `write` starts inside the buffer). The step that matters is the padding of a
  record: rounded up to the unit it still fits because the length of the buffer is a multiple
  of the unit (`PaddingFits`). From it: `BufferCorrect`, `WriteCorrect`.
- **FcgiRecordProofs** and **FcgiReceivedProofs** prove `ReceivedInvariant`, and from it
  `FramingCorrect`, `ContentCorrect` and `EndCorrect`: the web server gets whole records, each
  stream in order, and ends after all content. None of the three is inductive, because the
  next bytes are still in a buffer, half written, or arguments of a call. `Control` says which
  stacks of calls there are (a put over an empty over a write, closing records of one stream at a
  time). `Data` speaks of `Wire`: what was received, then the rest of a buffer that has been made
  a record, then closing records still to be put. It says that `Wire` is whole records in order, and
  that the bytes put on a stream are those on the `Wire`, then those in its buffer, then those a
  call has still to put. Partial writes do not change `Wire`; `EmptyBuffProc` adds one record to
  it, `WriteCloseRecords` the empty record and the end of the request. When the peer has gone, what
  was received is the beginning of such a wire. The hypothesis `~Transient` is that a `write(2)` that
  failed is not followed by one that succeeds, as on a socket whose peer has gone;
  `MCFcgiWriteError` shows that the library has no care of its own for the other case.
- **ViewportProofs** proves `Invariant`: the view is as it was created or set by commands, or belongs to the
  opened image (`Opened`: its size, a level it has, fractions between 0 and 1), and the reply is one
  that a handler gives for it (`Replied`, one disjunct per handler). From it and lemmas about
  the operators of **View** and **Region**, for images, tiles, limits and requests of any size:
  - `TypeCorrect`: the setters keep fractions between 0 and 1, the loops of `calculateResolution` and
    `getResolution` end at a level the image has (`HalvingsBounded`).
  - `RegionCorrect`: `RegionServed`, for regions that begin inside their level. `Geometry` bounds the differently rounded offset and extent (their
    sum exceeds the level by one pixel at most), `CutInside` shows that the unsigned arithmetic of `CVT` then
    cuts it to the level, `CopiesMeet` that each copy of `getRegion` lies in a tile that exists and ends
    where the next tile or the region ends, and `PlacesSum`, an induction over the tiles, that
    their running positions leave no gap and no overlap (`DirectionCovers`).
  - `SizeCorrect`: `SizeBounded`, from a bound on a rounded quotient (`RoundBound`, `FitWithinBound`).
  - `AddressCorrect`: `TilesAddressed` (half turns of square tiles, IIIF above the smallest level and without a half turn,
    `SPECTRA` in whole tiles or the first row), with `GridIndex` and `TileNumber` (row, column and number of a tile determine each
    other), `LogExists` for the number of DeepZoom levels, `StartInside` for the tile of an IIIF region and
    the positions of a block of tiles for `TIL` (`BlockTile`, `BlockIndex`, `BlockInjective`).

Assumed are only the named `ASSUME`s of the modules: sets of naturals, `NULL` distinct
from values, a first modification time after the epoch (ImageCache), buffers that are a multiple of the
padding unit and hold a header and a unit (FcgiOutput; `fcgiapp.c` allocates 8192 and 512 bytes and pads to 8).
`ImagesAssumption` (Viewport) has three parts. Tiles are at least two pixels wide and high: the JPEG2000
readers use 256 (`KakaduImage.h:43`, `OpenJPEGImage.h:27`), TIFF has multiples of 16; a tile of one pixel
would refute `IiifTile`. No level is empty: an image has only levels with pixels. Twice the
size of an image is below the number of values of an `unsigned int`, as sizes are `int` values in the readers.
`ArgsAssumption` gives requests the types they are parsed to and no more: fractions and sizes are
any integers, also negative ones.

Out of the prover's reach, or not proved, and model-checked only:

- liveness (`InsertReturns`, `RequestEnds`, `AcceptReturns`, `FinishReturns`, `RequestServed`);
- `Sharp` of Viewport, which compares two chains of roundings through a choice of level;
- **FcgiInput**: its properties compare what the parser has kept with the list of all parameters that the
  web server sends, flattened from one sequence per record by a fold (`FlattenSeq`), and an
  invariant for that needs an induction over the records still to come;
- **Pipeline** and **DeepZoomExt**, whose encoders are recursive definitions (`Store` of Encoder);
- the refuted statements, which have no proof by nature.

## Plan

Done: the three caches, the loop, the store abstraction; geometry, regions and tile
addressing; transforms, encoders and the export; several images in a request; the FastCGI
streams. What could follow: parsing of command arguments (Tokenizer), the sequence angles
of `IIPImage::Initialise`, the composition of the request loop with the FastCGI streams.

## Known limits of the code

Besides the refuted statements above, the models take these as the code has them, and no
property rules them out:

- `Cache.h:212`, `FIF.cc:182`: two writes of a file within one second look the same, and a file from
  the epoch is taken for a miss. `FIF.cc:100`: the format of a cached image is not tested again.
- `TileManager.cc:172`: an outdated encoded tile is found before an up-to-date raw one, so a
  decode is repeated. `JTL.cc:87`: the histogram is the one of the first load.
- `FIF.cc:226`: a date that cannot be parsed leaves `mod_t` as it was.
- `IIIF.cc:473`: a `MAX_CVT` of -1 is not "no limit" there.
- `JTLExt.cc:297`: the profile of one image stays in the compressor for the next;
  `Transforms.cc:194`: variables shared by the threads of `shade()`.
- `fcgiapp.c:1144`, `fcgiapp.c:1636`: a connection cut between two parameters ends the environment
  early, and reading has no time-out.

## Not modelled

- Colour arithmetic of the transforms (shading, LAB, colour maps, twist, contrast, gamma):
  which samples they read and write is modelled, the values are not.
- Library decoders and encoders (libtiff, Kakadu, OpenJPEG, libjpeg, libpng, vips, minizip):
  external.
- Text: headers, documents, log messages, parsing of arguments and URLs. Requests are
  modelled after they are parsed.
- Start-up configuration, logging, timing, dynamic image modules.
- Of the FastCGI library: sockets and permission checks of `os_unix.c` and its asynchronous
  interface, which the server does not use, `fcgi_stdio.c`, the Windows port, the Java and
  Perl libraries.
