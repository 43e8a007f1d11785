---------------------------- MODULE TileCacheLRU ----------------------------
(****************************************************************************)
(* TileCache with a history variable: the keys in the order of their last   *)
(* use, most recent first.  A use is a lookup that finds its key, or an     *)
(* insertion.  The history says what "least recently used" means without    *)
(* looking at the list, so that the list can be judged against it.          *)
(****************************************************************************)
EXTENDS TileCache

VARIABLE uses

lruVars == <<cacheVars, uses>>

(* The history u after a use of k: k comes first, and is not listed twice. *)
LastUse(u, k) == CHOOSE i \in DOMAIN u : u[i] = k
Used(u, k) == Pushed(k, IF k \in Range(u) THEN Erased(u, LastUse(u, k)) ELSE u)

Use(k) == uses' = Used(uses, k)

LRUInit == CacheInit /\ uses = <<>>

LRUNext ==
  \/ \E k \in Key :
       /\ GetTile(k)
       /\ IF k \in DOMAIN tileMap THEN Use(k) ELSE UNCHANGED uses
  \/ \E k \in Key, t \in Tile : InsertBegin(k, t) /\ Use(k)
  \/ (DropPointer \/ Insert) /\ UNCHANGED uses
  \/ ClearBetweenCalls /\ uses' = <<>>

LRUSpec == LRUInit /\ [][LRUNext]_lruVars

(* A call of insert() that has begun runs on: the server is one thread and  *)
(* nothing in insert() waits.                                               *)
FairLRUSpec == LRUSpec /\ WF_lruVars(Insert /\ UNCHANGED uses)

(* Between calls the list holds exactly the most recently used keys, in the *)
(* order of their last use: the splice in _touch, the push at the front and *)
(* the eviction at the back together drop no key while an older one stays.  *)
KeepsMostRecentlyUsed ==
  pc = "idle" =>
    /\ Len(tileList) <= Len(uses)
    /\ \A i \in DOMAIN tileList : tileList[i].key = uses[i]
=============================================================================
