----------------------------- MODULE CacheStore -----------------------------
(***************************************************************************)
(* The three stores that can be Opt.Cache: memorycache, leveldbcache and   *)
(* diskcache.  Their operations are atomic: one lock, or the lock of the   *)
(* library.  The libraries (external) may fail, and the wrappers drop the  *)
(* error.  What is written to disk survives the process.  diskcache.New    *)
(* sets no TempDir, so that diskv writes an entry in place: after a crash  *)
(* an entry that was being written may be cut off.                         *)
(***************************************************************************)

CONSTANTS
  Keys,      \* the cache keys
  NoEntry,   \* there is no entry
  Torn       \* a page whose body is cut off

ASSUME StoreAssumption == NoEntry # Torn

VARIABLES
  store,   \* which of them it is
  cache    \* what is in it

storeVars == <<store, cache>>

StoreInit ==
  /\ store \in {"memory", "leveldb", "disk"}
  /\ cache = [k \in Keys |-> NoEntry]

Put(k, entry) == cache' = [cache EXCEPT ![k] = entry]

(* What Get may return: an error reads as no entry.                        *)
Get(k) == IF store = "memory" THEN {cache[k]} ELSE {cache[k], NoEntry}

MemorySet(k, entry) == store = "memory" /\ Put(k, entry)

LevelSet(k, entry) == store = "leveldb" /\ (Put(k, entry) \/ UNCHANGED cache)

(* diskv takes away the file when it cannot write to its end.              *)
DiskSet(k, entry) == store = "disk" /\ (Put(k, entry) \/ Put(k, NoEntry) \/ UNCHANGED cache)

Set(k, entry) ==
  /\ MemorySet(k, entry) \/ LevelSet(k, entry) \/ DiskSet(k, entry)
  /\ UNCHANGED store

Delete(k) ==
  /\ Put(k, NoEntry) \/ (store # "memory" /\ UNCHANGED cache)
  /\ UNCHANGED store

(* The process ends while the entries of the keys in writing are written,  *)
(* and another one opens the store.                                        *)
Reopen(writing) ==
  /\ \/ store = "memory" /\ cache' = [k \in Keys |-> NoEntry]
     \/ store = "leveldb" /\ UNCHANGED cache
     \/ /\ store = "disk"
        /\ \E torn \in SUBSET writing :
             cache' = [k \in Keys |-> IF k \in torn THEN Torn ELSE cache[k]]
  /\ UNCHANGED store
=============================================================================
