-------------------------- MODULE DummyCacheProofs --------------------------
(***************************************************************************)
(* What holds of a Transport with the policy Dummy for every set of round  *)
(* trips, pages and keys, whatever the page becomes, over any number of    *)
(* restarts, and under the retries of DoRequest.                           *)
(***************************************************************************)
EXTENDS CachedRetry, TLAPS

Entries == Pages \cup {NoEntry, Torn}

DummyTypeOK ==
  /\ store \in {"memory", "leveldb", "disk"}
  /\ cache \in [Keys -> Entries]
  /\ page \in Pages
  /\ \A r \in RoundTrips : Key(r) \in Keys
  /\ at \in [RoundTrips -> {"idle", "send", "store", "done"}]
  /\ resp \in [RoundTrips -> Entries]
  /\ replayed \subseteq RoundTrips
  /\ brought \in [Keys -> SUBSET Pages]

(* What a crash may leave of an entry on disk.                             *)
CutOff(entry) == store = "disk" /\ entry = Torn

(* What the store has, what is about to be stored and what was replayed    *)
(* came from the origin under the same key.                                *)
Origin ==
  /\ \A k \in Keys : cache[k] = NoEntry \/ cache[k] \in brought[k] \/ CutOff(cache[k])
  /\ \A r \in RoundTrips : at[r] = "store" => resp[r] \in brought[Key(r)]
  /\ \A r \in replayed : at[r] = "done"
  /\ ReplayedWasReturned

DummyInv == DummyTypeOK /\ Origin

(* The store is empty, and nobody has a response.                          *)
LEMMA DummyInvInit == DummyInit => DummyInv
<1> QED
  BY DummyAssumption DEF DummyInit, StoreInit, SomeRequests, Key, Entries, DummyInv, DummyTypeOK,
     Origin, ReplayedWasReturned

(* Whatever a store does with an entry, another key keeps its own.         *)
LEMMA StoreChanges ==
  ASSUME DummyTypeOK, NEW k \in Keys, NEW entry \in Entries,
         Set(k, entry) \/ Delete(k)
  PROVE  /\ store' = store /\ cache' \in [Keys -> Entries]
         /\ \A x \in Keys \ {k} : cache'[x] = cache[x]
         /\ cache'[k] \in {cache[k], NoEntry} \/ (Set(k, entry) /\ cache'[k] = entry)
<1>1. cache \in [Keys -> Entries] /\ NoEntry \in Entries
      BY DEF DummyTypeOK, Entries
<1>2. store' = store
      BY DEF Set, Delete
<1>3. \/ cache' = cache
      \/ cache' = [cache EXCEPT ![k] = NoEntry]
      \/ Set(k, entry) /\ cache' = [cache EXCEPT ![k] = entry]
      BY DEF Set, Delete, MemorySet, LevelSet, DiskSet, Put
<1> QED  BY <1>1, <1>2, <1>3

(* Every step of a round trip keeps it, and so does a restart.             *)
LEMMA DummyInvStep == DummyInv /\ [DummyNext]_dummyVars => DummyInv'
<1> SUFFICES ASSUME DummyInv, [DummyNext]_dummyVars PROVE DummyInv'
    OBVIOUS
<1>1. DummyTypeOK /\ Origin
      BY DEF DummyInv
<1>2. CASE UNCHANGED dummyVars
      BY <1>1, <1>2 DEF dummyVars, storeVars, roundVars, DummyInv, DummyTypeOK, Origin, CutOff,
         ReplayedWasReturned, Key
<1>3. CASE Change
      BY <1>1, <1>3 DEF Change, storeVars, roundVars, DummyInv, DummyTypeOK, Origin, CutOff,
         ReplayedWasReturned, Key
<1>4. CASE Restart
  <2>1. /\ store' = store /\ page' = page /\ brought' = brought
        /\ replayed' = {} /\ at' = [r \in RoundTrips |-> "idle"]
        /\ resp' = [r \in RoundTrips |-> NoEntry] /\ request' \in SomeRequests
        BY <1>4 DEF Restart, Reopen
  <2>2. \A k \in Keys : cache'[k] \in {cache[k], NoEntry} \/ (store = "disk" /\ cache'[k] = Torn)
        BY <1>1, <1>4 DEF Restart, Reopen, DummyTypeOK
  <2>3. cache' \in [Keys -> Entries]
        BY <1>1, <1>4 DEF Restart, Reopen, DummyTypeOK, Entries
  <2>4. \A r \in RoundTrips : Key(r)' \in Keys
        BY <2>1, DummyAssumption DEF Key, SomeRequests
  <2>5. DummyTypeOK'
        BY <1>1, <2>1, <2>3, <2>4 DEF DummyTypeOK, Entries
  <2>6. Origin'
        BY <1>1, <2>1, <2>2 DEF Origin, CutOff, ReplayedWasReturned
  <2> QED  BY <2>5, <2>6 DEF DummyInv
<1>5. ASSUME NEW r \in RoundTrips, Replay(r) PROVE DummyInv'
  <2>1. /\ at[r] = "idle" /\ at' = [at EXCEPT ![r] = "done"]
        /\ replayed' = replayed \cup {r}
        /\ UNCHANGED <<store, cache, page, request, brought>>
        BY <1>5 DEF Replay, Goto, storeVars
  <2>2. Key(r) \in Keys /\ cache[Key(r)] \in Entries
        BY <1>1 DEF DummyTypeOK
  <2>3. resp' = [resp EXCEPT ![r] = cache[Key(r)]] /\ cache[Key(r)] # NoEntry
        BY <1>5 DEF Replay, Get
  <2>4. \A x \in RoundTrips : Key(x)' = Key(x)
        BY <2>1 DEF Key
  <2>5. DummyTypeOK'
        BY <1>1, <2>1, <2>2, <2>3, <2>4 DEF DummyTypeOK
  <2>6. Origin'
        BY <1>1, <2>1, <2>2, <2>3, <2>4 DEF Origin, DummyTypeOK, CutOff, ReplayedWasReturned
  <2> QED  BY <2>5, <2>6 DEF DummyInv
<1>6. ASSUME NEW r \in RoundTrips, Miss(r) PROVE DummyInv'
  <2>1. /\ at[r] = "idle" /\ at' = [at EXCEPT ![r] = "send"]
        /\ UNCHANGED <<page, request, resp, replayed, brought>>
        /\ UNCHANGED storeVars \/ Delete(Key(r))
        BY <1>6 DEF Miss, Goto
  <2>2. Key(r) \in Keys /\ NoEntry \in Entries
        BY <1>1 DEF DummyTypeOK, Entries
  <2>3. /\ store' = store /\ cache' \in [Keys -> Entries]
        /\ \A k \in Keys : cache'[k] \in {cache[k], NoEntry}
    <3>1. CASE UNCHANGED storeVars
          BY <1>1, <3>1 DEF storeVars, DummyTypeOK
    <3>2. CASE Delete(Key(r))
          BY <1>1, <2>2, <3>2, StoreChanges
    <3> QED  BY <2>1, <3>1, <3>2
  <2>4. \A x \in RoundTrips : Key(x)' = Key(x)
        BY <2>1 DEF Key
  <2>5. DummyTypeOK'
        BY <1>1, <2>1, <2>3, <2>4 DEF DummyTypeOK
  <2>6. Origin'
        BY <1>1, <2>1, <2>3, <2>4 DEF Origin, DummyTypeOK, CutOff, ReplayedWasReturned
  <2> QED  BY <2>5, <2>6 DEF DummyInv
<1>7. ASSUME NEW r \in RoundTrips, Send(r) PROVE DummyInv'
  <2>1. /\ at[r] = "send" /\ at' = [at EXCEPT ![r] = at'[r]]
        /\ UNCHANGED <<store, cache, page, request, replayed>>
        BY <1>1, <1>7 DEF Send, Goto, storeVars, DummyTypeOK
  <2>2. Key(r) \in Keys /\ page \in Pages /\ page \in Entries
        BY <1>1 DEF DummyTypeOK, Entries
  <2>3. \A x \in RoundTrips : Key(x)' = Key(x)
        BY <2>1 DEF Key
  <2>4. CASE at'[r] = "done" /\ UNCHANGED <<resp, brought>>
    <3>1. DummyTypeOK'
          BY <1>1, <2>1, <2>3, <2>4 DEF DummyTypeOK
    <3>2. Origin'
          BY <1>1, <2>1, <2>3, <2>4 DEF Origin, DummyTypeOK, CutOff, ReplayedWasReturned
    <3> QED  BY <3>1, <3>2 DEF DummyInv
  <2>5. CASE /\ at'[r] = "store" /\ resp' = [resp EXCEPT ![r] = page]
             /\ brought' = [brought EXCEPT ![Key(r)] = @ \cup {page}]
    <3>1. DummyTypeOK'
          BY <1>1, <2>1, <2>2, <2>3, <2>5 DEF DummyTypeOK
    <3>2. /\ \A k \in Keys : brought[k] \subseteq brought'[k]
          /\ page \in brought'[Key(r)]
          BY <1>1, <2>2, <2>5 DEF DummyTypeOK
    <3>3. Origin'
          BY <1>1, <2>1, <2>3, <2>5, <3>2 DEF Origin, DummyTypeOK, CutOff, ReplayedWasReturned
    <3> QED  BY <3>1, <3>3 DEF DummyInv
  <2> QED  BY <1>1, <1>7, <2>4, <2>5 DEF Send, Goto, DummyTypeOK
<1>8. ASSUME NEW r \in RoundTrips, Store(r) PROVE DummyInv'
  <2>1. /\ at[r] = "store" /\ at' = [at EXCEPT ![r] = "done"]
        /\ UNCHANGED <<page, request, replayed, brought>>
        /\ \/ (Set(Key(r), resp[r]) \/ Delete(Key(r))) /\ UNCHANGED resp
           \/ UNCHANGED storeVars /\ resp' = [resp EXCEPT ![r] = Torn]
        BY <1>8 DEF Store, Goto, Dump
  <2>2. Key(r) \in Keys /\ resp[r] \in Entries /\ resp[r] \in brought[Key(r)] /\ Torn \in Entries
        BY <1>1, <2>1 DEF DummyTypeOK, Origin, Entries
  <2>3. \A x \in RoundTrips : Key(x)' = Key(x)
        BY <2>1 DEF Key
  <2>4. CASE (Set(Key(r), resp[r]) \/ Delete(Key(r))) /\ UNCHANGED resp
    <3>1. /\ store' = store /\ cache' \in [Keys -> Entries]
          /\ \A x \in Keys \ {Key(r)} : cache'[x] = cache[x]
          /\ cache'[Key(r)] \in {cache[Key(r)], NoEntry, resp[r]}
          BY <1>1, <2>2, <2>4, StoreChanges
    <3>2. DummyTypeOK'
          BY <1>1, <2>1, <2>3, <2>4, <3>1 DEF DummyTypeOK
    <3>3. Origin'
          BY <1>1, <2>1, <2>2, <2>3, <2>4, <3>1 DEF Origin, DummyTypeOK, CutOff,
             ReplayedWasReturned
    <3> QED  BY <3>2, <3>3 DEF DummyInv
  <2>5. CASE UNCHANGED storeVars /\ resp' = [resp EXCEPT ![r] = Torn]
    <3>1. DummyTypeOK'
          BY <1>1, <2>1, <2>2, <2>3, <2>5 DEF DummyTypeOK, storeVars
    <3>2. Origin'
          BY <1>1, <2>1, <2>2, <2>3, <2>5 DEF Origin, DummyTypeOK, CutOff, ReplayedWasReturned,
             storeVars
    <3> QED  BY <3>1, <3>2 DEF DummyInv
  <2> QED  BY <2>1, <2>4, <2>5
<1>9. ASSUME NEW r \in RoundTrips, Leave(r) PROVE DummyInv'
  <2>1. /\ at[r] = "done" /\ at' = [at EXCEPT ![r] = "idle"]
        /\ resp' = [resp EXCEPT ![r] = NoEntry] /\ replayed' = replayed \ {r}
        /\ UNCHANGED <<store, cache, page, brought>>
        BY <1>9 DEF Leave, Goto, storeVars
  <2>2. PICK q \in RequestsOf[r] : request' = [request EXCEPT ![r] = q]
        BY <1>9 DEF Leave
  <2>3. /\ \A x \in RoundTrips \ {r} : Key(x)' = Key(x)
        /\ Key(r)' \in Keys
        BY <1>1, <2>2, DummyAssumption DEF Key, DummyTypeOK
  <2>4. NoEntry \in Entries
        BY DEF Entries
  <2>5. DummyTypeOK'
        BY <1>1, <2>1, <2>3, <2>4 DEF DummyTypeOK
  <2>6. Origin'
        BY <1>1, <2>1, <2>3 DEF Origin, DummyTypeOK, CutOff, ReplayedWasReturned
  <2> QED  BY <2>5, <2>6 DEF DummyInv
<1> QED
  BY <1>2, <1>3, <1>4, <1>5, <1>6, <1>7, <1>8, <1>9 DEF DummyNext, RoundTrip

(* The invariant of the policy Dummy.                                      *)
LEMMA DummyInvariance == DummySpec => []DummyInv
<1> QED  BY DummyInvInit, DummyInvStep, PTL DEF DummySpec

(* cache.go:34: a replayed page was brought from the origin by a request   *)
(* of the same method, in this process or in one before it.                *)
THEOREM ReplayedWasReturnedHolds == DummySpec => []ReplayedWasReturned
<1>1. DummyInv => ReplayedWasReturned
      BY DEF DummyInv, Origin
<1> QED  BY <1>1, DummyInvariance, PTL

(* A step that exchanges an entry, or takes it away, is that of a request  *)
(* that is not cacheable, of one on its way, or the end of the process.    *)
LEMMA EntriesStayStep ==
  ASSUME DummyInv, [DummyNext]_dummyVars, NEW k \in Keys,
         cache[k] # NoEntry, ~Overlapping(k),
         \A r \in RoundTrips : ~cacheable(request[r]) => at'[r] = at[r],
         store = "memory" => ~Restart
  PROVE  cache'[k] = cache[k]
<1>1. DummyTypeOK
      BY DEF DummyInv
<1>2. CASE UNCHANGED cache
      BY <1>2
<1>3. CASE Restart
  <2>1. k \notin {Key(r) : r \in {s \in RoundTrips : at[s] = "store" /\ cacheable(request[s])}}
        BY DEF Overlapping
  <2>2. store # "memory" /\ store \in {"memory", "leveldb", "disk"}
        BY <1>1, <1>3 DEF DummyTypeOK
  <2> QED  BY <1>1, <1>3, <2>1, <2>2 DEF Restart, Reopen, DummyTypeOK
<1>4. ASSUME NEW r \in RoundTrips, Miss(r), ~cacheable(request[r]) PROVE FALSE
  <2>1. at[r] = "idle" /\ at'[r] = "send"
        BY <1>1, <1>4 DEF Miss, Goto, DummyTypeOK
  <2> QED  BY <1>4, <2>1
<1>5. ASSUME NEW r \in RoundTrips, Store(r), ~(UNCHANGED cache) PROVE cache'[k] = cache[k]
  <2>1. /\ at[r] = "store"
        /\ Set(Key(r), resp[r]) \/ Delete(Key(r))
        BY <1>5 DEF Store, Goto, Dump, storeVars
  <2>2. Key(r) \in Keys /\ resp[r] \in Entries /\ Key(r) # k
        BY <1>1, <2>1 DEF DummyTypeOK, Overlapping
  <2> QED  BY <1>1, <2>1, <2>2, StoreChanges
<1>6. ASSUME NEW r \in RoundTrips, Replay(r) \/ Send(r) \/ Leave(r) PROVE UNCHANGED cache
      BY <1>6 DEF Replay, Send, Leave, storeVars
<1>7. ASSUME NEW r \in RoundTrips, Miss(r), cacheable(request[r]) PROVE UNCHANGED cache
      BY <1>7 DEF Miss, Invalidated, storeVars
<1>8. CASE Change \/ UNCHANGED dummyVars
      BY <1>2, <1>8 DEF Change, dummyVars, storeVars
<1> QED
  BY <1>2, <1>3, <1>4, <1>5, <1>6, <1>7, <1>8 DEF DummyNext, RoundTrip

(* cache.go:34, "replay a spider run exactly as it ran before": a stored   *)
(* page stays until a request for it that overlaps exchanges it, one that  *)
(* is not cacheable takes it away, or the memory it is in is gone.         *)
THEOREM EntriesStayHolds == DummySpec => EntriesStay
<1>1. DummyInv /\ [DummyNext]_dummyVars
      => [\A k \in Keys :
            /\ cache[k] # NoEntry
            /\ ~Overlapping(k)
            /\ \A r \in RoundTrips : ~cacheable(request[r]) => at'[r] = at[r]
            /\ store = "memory" => ~Restart
            => cache'[k] = cache[k]]_dummyVars
      BY EntriesStayStep
<1> QED  BY <1>1, DummyInvariance, PTL DEF DummySpec, EntriesStay

(* The retries of DoRequest add nothing to what the cache may do: client   *)
(* and other goroutines together take steps of the dummy transport only,   *)
(* so that what is proved of it holds under the retries too.               *)
THEOREM CachedIsDummy == CachedSpec => DummySpec
<1>1. CachedInit => DummyInit
      BY DEF CachedInit
<1>2. [CachedNext]_cachedVars => [DummyNext]_dummyVars
  <2> SUFFICES ASSUME [CachedNext]_cachedVars PROVE [DummyNext]_dummyVars
      OBVIOUS
  <2>1. CASE Ask \/ Decide \/ UNCHANGED cachedVars
        BY <2>1 DEF Ask, Decide, cachedVars
  <2>2. CASE Attempted
        BY <2>2, CachedRetryAssumption DEF Attempted, DummyNext
  <2>3. CASE Elsewhere \/ RunAgain
        BY <2>3 DEF Elsewhere, RunAgain, DummyNext
  <2>4. ASSUME NEW r \in RoundTrips, Trip(r) PROVE DummyNext
        BY <2>4 DEF Trip, DummyNext
  <2> QED  BY <2>1, <2>2, <2>3, <2>4 DEF CachedNext
<1> QED  BY <1>1, <1>2, PTL DEF CachedSpec, DummySpec
=============================================================================
