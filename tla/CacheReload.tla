---------------------------- MODULE CacheReload -----------------------------
(****************************************************************************)
(* The tile cache and the SIGHUP handler.  IIPReloadCache (src/Main.cc) is  *)
(* installed with signal() and calls tc->clear() wherever the signal finds  *)
(* the server, in the middle of insert() as well.  The handler runs to its  *)
(* end before the interrupted statement sequence goes on, so it is one      *)
(* step; what it interrupts is any step of TileCache.                       *)
(****************************************************************************)
EXTENDS TileCache

(* IIPReloadCache: clear() at any statement boundary. *)
ReloadCache == Clear

ReloadNext == CacheNext \/ ReloadCache

ReloadSpec == CacheInit /\ [][ReloadNext]_cacheVars

(* getMemorySize(), documented as "Return the number of MB stored": between *)
(* calls the running total is the memory of the tiles in the list.          *)
ReportsMemoryStored == pc = "idle" => currentSize = MemoryOf(tileList)
=============================================================================
