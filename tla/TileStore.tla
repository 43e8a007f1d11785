------------------------------ MODULE TileStore ------------------------------
(****************************************************************************)
(* What the tile cache promises to its callers: a lossy map from tile keys  *)
(* to tiles.  A tile is only ever found under the key it was stored with,   *)
(* it stays exactly as it was stored, it may be forgotten at any moment,    *)
(* and the tile a lookup handed out keeps its value until the caller makes  *)
(* its next call, or until everything is thrown away at once.  Module       *)
(* TileCache is the implementation (src/Cache.h), shown to implement        *)
(* TileStoreSpec; TileManager is the caller.                                *)
(****************************************************************************)
EXTENDS Functions

CONSTANTS Key,      \* what getIndex() tells apart
          Tile,     \* the tiles that may be stored
          Miss      \* the NULL that getTile() returns, not a tile

VARIABLES store,    \* the tiles held: a function on a subset of Key
          result    \* the tile the last lookup handed out, or Miss

(* The tile found under k, or Miss: a lookup without its effect on result. *)
Find(k) == IF k \in DOMAIN store THEN store[k] ELSE Miss

StoreInit == store = [k \in {} |-> Miss] /\ result = Miss

(* Cache::getTile *)
Get(k) == result' = Find(k) /\ UNCHANGED store

(* Cache::insert of a key that is not held. *)
Put(k, t) ==
  /\ k \notin DOMAIN store
  /\ store' = [j \in DOMAIN store \cup {k} |-> IF j = k THEN t ELSE store[j]]
  /\ UNCHANGED result

(* Removal of any set of tiles, while none is handed out. *)
Forget(K) ==
  /\ result = Miss
  /\ store' = Restrict(store, DOMAIN store \ K)
  /\ UNCHANGED result

(* Cache::clear: the tile that is handed out is lost as well. *)
Empty == store' = [k \in {} |-> Miss] /\ result' = Miss

(* The caller gives up the tile it was handed. *)
Release == result' = Miss /\ UNCHANGED store
=============================================================================
