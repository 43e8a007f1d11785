---------------------------- MODULE TileStoreSpec ----------------------------
(****************************************************************************)
(* The behaviours of a TileStore.  asked is the key of the last lookup, so  *)
(* that an implementation has to answer for the key it was asked for.       *)
(****************************************************************************)
EXTENDS TileStore

VARIABLE asked

storeVars == <<store, result, asked>>

StoreNext ==
  \/ \E k \in Key : Get(k) /\ asked' = k
  \/ \E k \in Key, t \in Tile : Put(k, t) /\ UNCHANGED asked
  \/ \E K \in SUBSET Key : Forget(K) /\ UNCHANGED asked
  \/ Empty /\ UNCHANGED asked
  \/ Release /\ UNCHANGED asked

StoreSpec == StoreInit /\ asked = Miss /\ [][StoreNext]_storeVars
=============================================================================
