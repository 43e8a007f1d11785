------------------------------ MODULE TileCache ------------------------------
(****************************************************************************)
(* The LRU tile cache, class Cache of src/Cache.h: a doubly linked list of  *)
(* tiles, most recently used first, an index from keys to list nodes, and   *)
(* a running total of the memory held.                                      *)
(*                                                                          *)
(* insert() is cut at its own statements that change the three structures;  *)
(* a call of _remove is one of them.  pc says which statement comes next,   *)
(* and no other call runs until the insertion is over.  A list node has an  *)
(* address, its Cell: the index holds cells, as the code's holds list       *)
(* iterators, and the pointer that getTile() returns is a cell.             *)
(*                                                                          *)
(* The SIGHUP handler calls clear() wherever it finds the server.  Here it  *)
(* finds it outside the cache, possibly while a caller holds a pointer;     *)
(* CacheReload lets it in between the statements of insert() as well.       *)
(****************************************************************************)
EXTENDS Integers, Sequences, Functions

CONSTANTS Key,        \* filename:resolution:tile:h:v:compression:quality
          Stamp,      \* modification times of image files
          Weight,     \* dataLength + both string capacities + tileSize
          Cell,       \* addresses of list nodes
          MaxSize,    \* maxSize, in the unit of Weight
          NULL        \* the null pointer, and the end() iterator

ASSUME StampAssumption == Stamp \subseteq Nat
ASSUME WeightAssumption == Weight \subseteq Nat \ {0}
ASSUME MaxSizeAssumption == MaxSize \in Nat

Tile == [stamp : Stamp, weight : Weight]
Node == [cell : Cell, key : Key, tile : Tile]
Entry == [key : Key, tile : Tile]

ASSUME NullAssumption == NULL \notin Cell \cup Tile \cup Entry

VARIABLES tileList,    \* sequence of Node, most recently used first
          tileMap,     \* key |-> cell
          currentSize, \* memory running total
          pc,          \* next statement of insert(), or "idle"
          arg,         \* the node insert() is building: its key and tile
          held,        \* the pointer getTile() returned and the caller holds
          asked        \* the key of the last call of getTile()

cacheVars == <<tileList, tileMap, currentSize, pc, arg, held, asked>>

-----------------------------------------------------------------------------
Cells(l) == {l[i].cell : i \in DOMAIN l}

(* Dereferencing an iterator: the position of its node in the list. *)
PosOf(l, c) == CHOOSE i \in DOMAIN l : l[i].cell = c

(* push_front, erase and --end() of the list. *)
Pushed(e, l) == <<e>> \o l
Erased(l, i) == SubSeq(l, 1, i - 1) \o SubSeq(l, i + 1, Len(l))
Back(l) == l[Len(l)]

(* Fault: the node is found but not spliced. *)
NoSplice(l, i) == l

(* tileList.splice(begin, tileList, node) *)
MoveToFront(l, i) == Pushed(l[i], Erased(l, i))

(* tileList.begin() *)
Begin(l) == IF l = <<>> THEN NULL ELSE l[1].cell

(* Memory held by the first n nodes of l, and by all of them. *)
Held(l) == LET total[n \in 0..Len(l)] ==
                 IF n = 0 THEN 0 ELSE total[n - 1] + l[n].tile.weight
           IN  total
MemoryOf(l) == Held(l)[Len(l)]

-----------------------------------------------------------------------------
CacheInit ==
  /\ tileList = <<>>
  /\ tileMap = [k \in {} |-> NULL]
  /\ currentSize = 0
  /\ pc = "idle"
  /\ arg = NULL
  /\ held = NULL /\ asked = NULL

(* Fault: the pointer is taken from begin() before the splice. *)
GetFront(k) ==
  /\ pc = "idle"
  /\ asked' = k
  /\ IF MaxSize = 0 \/ k \notin DOMAIN tileMap
     THEN held' = NULL /\ UNCHANGED tileList
     ELSE /\ held' = Begin(tileList)
          /\ tileList' = MoveToFront(tileList, PosOf(tileList, tileMap[k]))
  /\ UNCHANGED <<tileMap, currentSize, pc, arg>>

(* getTile(): NULL when the cache is switched off or the key is unknown,    *)
(* else the node is moved to the front and a pointer into it is returned.   *)
GetTile(k) ==
  /\ pc = "idle"
  /\ asked' = k
  /\ IF MaxSize = 0 \/ k \notin DOMAIN tileMap
     THEN held' = NULL /\ UNCHANGED tileList
     ELSE /\ held' = tileMap[k]
          /\ tileList' = MoveToFront(tileList, PosOf(tileList, tileMap[k]))
  /\ UNCHANGED <<tileMap, currentSize, pc, arg>>

(* The caller is done with the tile: every caller copies it before its next *)
(* call into the cache (TileManager::getTile).                              *)
DropPointer ==
  /\ pc = "idle" /\ held # NULL
  /\ held' = NULL
  /\ UNCHANGED <<tileList, tileMap, currentSize, pc, arg, asked>>

(* Fault: the index keeps its entry. *)
RemoveFromListOnly(k, i) ==
  /\ currentSize' = currentSize - tileList[i].tile.weight
  /\ tileList' = Erased(tileList, i)
  /\ UNCHANGED tileMap

(* _remove( miter ) of the node at position i, found under key k. *)
RemoveNode(k, i) ==
  /\ currentSize' = currentSize - tileList[i].tile.weight
  /\ tileList' = Erased(tileList, i)
  /\ tileMap' = Restrict(tileMap, DOMAIN tileMap \ {k})

(* insert(), up to the push: a node of the same key is touched, and removed *)
(* when its tile is older than the new one; when it is not, insert() has    *)
(* nothing more to do.                                                      *)
InsertBegin(k, t) ==
  /\ pc = "idle" /\ held = NULL
  /\ MaxSize # 0
  /\ IF k \notin DOMAIN tileMap
     THEN /\ pc' = "push" /\ arg' = [key |-> k, tile |-> t]
          /\ UNCHANGED <<tileList, tileMap, currentSize>>
     ELSE LET i == PosOf(tileList, tileMap[k]) IN
          IF tileList[i].tile.stamp < t.stamp
          THEN /\ pc' = "push" /\ arg' = [key |-> k, tile |-> t]
               /\ RemoveNode(k, i)
          ELSE /\ tileList' = MoveToFront(tileList, i)
               /\ UNCHANGED <<tileMap, currentSize, pc, arg>>
  /\ UNCHANGED <<held, asked>>

(* tileList.push_front( make_pair(key,r) ): the allocator hands out any     *)
(* address that is not in use, one that was freed earlier included.         *)
PushFront ==
  /\ pc = "push"
  /\ \E c \in Cell \ Cells(tileList) :
       tileList' = Pushed([cell |-> c, key |-> arg.key, tile |-> arg.tile], tileList)
  /\ pc' = "index"
  /\ UNCHANGED <<tileMap, currentSize, arg, held, asked>>

(* tileMap[ key ] = tileList.begin() *)
StoreIndex ==
  /\ pc = "index"
  /\ tileMap' = [k \in DOMAIN tileMap \cup {arg.key} |->
                   IF k = arg.key THEN Begin(tileList) ELSE tileMap[k]]
  /\ pc' = "account"
  /\ UNCHANGED <<tileList, currentSize, arg, held, asked>>

(* currentSize += ... *)
Account ==
  /\ pc = "account"
  /\ currentSize' = currentSize + arg.tile.weight
  /\ pc' = "evict" /\ arg' = NULL
  /\ UNCHANGED <<tileList, tileMap, held, asked>>

(* Fault: the loop touches the last node instead of removing it. *)
TouchLast ==
  /\ pc = "evict" /\ currentSize > MaxSize
  /\ tileList # <<>>
  /\ tileList' = MoveToFront(tileList, Len(tileList))
  /\ UNCHANGED <<tileMap, currentSize, pc, arg, held, asked>>

(* One turn of the loop that removes the last node: _remove( key ) finds    *)
(* the node again through the index.                                        *)
EvictLast ==
  /\ pc = "evict" /\ currentSize > MaxSize
  /\ tileList # <<>>
  /\ LET k == Back(tileList).key IN
       /\ k \in DOMAIN tileMap
       /\ RemoveNode(k, PosOf(tileList, tileMap[k]))
  /\ UNCHANGED <<pc, arg, held, asked>>

(* Fault: the loop always leaves the new tile. *)
KeepNewTile ==
  /\ pc = "evict" /\ (currentSize <= MaxSize \/ Len(tileList) = 1)
  /\ pc' = "idle"
  /\ UNCHANGED <<tileList, tileMap, currentSize, arg, held, asked>>

(* The loop's exit, and the return from insert(). *)
InsertEnd ==
  /\ pc = "evict" /\ currentSize <= MaxSize
  /\ pc' = "idle"
  /\ UNCHANGED <<tileList, tileMap, currentSize, arg, held, asked>>

(* Fault: the running total is not reset. *)
ClearKeepsSize ==
  /\ tileList' = <<>>
  /\ tileMap' = [k \in {} |-> NULL]
  /\ UNCHANGED <<currentSize, pc, arg, held, asked>>

(* clear(): a pointer that is still held dangles from then on. *)
Clear ==
  /\ tileList' = <<>>
  /\ tileMap' = [k \in {} |-> NULL]
  /\ currentSize' = 0
  /\ UNCHANGED <<pc, arg, held, asked>>

(* The SIGHUP handler finds the server outside the cache. *)
ClearBetweenCalls == pc = "idle" /\ Clear

Insert == PushFront \/ StoreIndex \/ Account \/ EvictLast \/ InsertEnd

CacheNext ==
  \/ \E k \in Key : GetTile(k)
  \/ DropPointer
  \/ \E k \in Key, t \in Tile : InsertBegin(k, t)
  \/ Insert
  \/ ClearBetweenCalls

CacheSpec == CacheInit /\ [][CacheNext]_cacheVars
-----------------------------------------------------------------------------
(* Every variable of the cache has its type; arg is set exactly while       *)
(* insert() has a node to build (src/Cache.h:201-232).                      *)
TypeOK ==
  /\ tileList \in Seq(Node)
  /\ tileMap \in UNION {[K -> Cell] : K \in SUBSET Key}
  /\ currentSize \in Nat
  /\ pc \in {"idle", "push", "index", "account", "evict"}
  /\ arg \in Entry \cup {NULL}
  /\ arg = NULL <=> pc \in {"idle", "evict"}
  /\ held \in Cell \cup {NULL} /\ asked \in Key \cup {NULL}

(* The node pushed by insert() and not yet entered in the index. *)
Pending(i) == pc = "index" /\ i = 1

(* The list and the index describe the same set of tiles: two nodes never   *)
(* share an address or a key, a key leads to the node that carries it, and  *)
(* only the node insert() is about to index is missing from the index.      *)
(* _touch, _remove and the eviction loop dereference the index on trust.    *)
IndexMatchesList ==
  /\ \A i, j \in DOMAIN tileList :
       i # j => /\ tileList[i].cell # tileList[j].cell
                /\ tileList[i].key # tileList[j].key
  /\ \A i \in DOMAIN tileList :
       IF Pending(i)
       THEN tileList[i].key \notin DOMAIN tileMap
       ELSE /\ tileList[i].key \in DOMAIN tileMap
            /\ tileMap[tileList[i].key] = tileList[i].cell
  /\ \A k \in DOMAIN tileMap :
       \E i \in DOMAIN tileList : tileList[i].key = k /\ tileList[i].cell = tileMap[k]

(* getMemorySize() tells the truth: the running total is the memory of the  *)
(* nodes in the list, whatever mix of insertions, replacements, evictions   *)
(* and clears led here; insert() is behind by the node it has just pushed.  *)
SizeIsAccounted ==
  MemoryOf(tileList) =
    currentSize + (IF pc \in {"index", "account"} THEN arg.tile.weight ELSE 0)

(* Between calls the cache holds no more than MAX_IMAGE_CACHE_SIZE, even    *)
(* after the insertion of a tile that is larger than the whole cache.       *)
MemoryBounded == pc = "idle" => MemoryOf(tileList) <= MaxSize

(* The eviction loop always has a victim: while the total is over the limit *)
(* the list is not empty, so that --end() is a node, and the index leads    *)
(* from that node's key back to it, so that the loop removes the last node. *)
VictimIsLast ==
  pc = "evict" /\ currentSize > MaxSize =>
    /\ tileList # <<>>
    /\ Back(tileList).key \in DOMAIN tileMap
    /\ PosOf(tileList, tileMap[Back(tileList).key]) = Len(tileList)

(* The pointer a caller of getTile() still holds points at a node that is   *)
(* in the list.  TLC refutes it: IIPReloadCache frees the node while the    *)
(* caller (TileManager::getTile) reads the tile.                            *)
HeldIsLive == held # NULL => held \in Cells(tileList)

(* Every call of insert() returns: its eviction loop terminates. *)
InsertReturns == (pc # "idle") ~> (pc = "idle")

-----------------------------------------------------------------------------
(* The tile an iterator leads to. *)
TileAt(c) == tileList[PosOf(tileList, c)].tile

(* What a caller can see of the cache; a pointer that dangles is a miss. *)
Store == INSTANCE TileStoreSpec
           WITH Miss <- NULL,
                store <- [k \in DOMAIN tileMap |-> TileAt(tileMap[k])],
                result <- IF held \in Cells(tileList) THEN TileAt(held) ELSE NULL

(* The LRU cache behaves as a lossy map: a tile is found only under its own *)
(* key, unchanged, until it is evicted, replaced or cleared, and the tile   *)
(* behind a returned pointer does not change while the caller holds it; it  *)
(* is lost only together with all others, to a clear().                     *)
ImplementsStore == Store!StoreSpec
=============================================================================
