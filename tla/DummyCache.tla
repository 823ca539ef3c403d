----------------------------- MODULE DummyCache -----------------------------
(***************************************************************************)
(* RoundTripDummy of cache/cache.go, the Transport with the policy Dummy:  *)
(* a page is stored when it comes and replayed from then on, whatever its  *)
(* status and headers.  Goroutines request one URL, whose page changes,    *)
(* again and again; the process may be ended at any moment and started     *)
(* again with the same store.                                              *)
(***************************************************************************)
EXTENDS CacheControl, CacheStore

CONSTANTS
  RoundTrips,   \* the goroutines that call RoundTrip
  RequestsOf,   \* the requests of each: method, ranged
  Pages         \* what the origin may have at the URL, errors included

ASSUME DummyAssumption ==
  /\ NoEntry \notin Pages /\ Torn \notin Pages
  /\ \A r \in RoundTrips : \A q \in RequestsOf[r] : cacheKey(q) \in Keys

VARIABLES
  page,      \* what the origin has now
  request,   \* the request of each round trip
  at,        \* "idle", "send", "store", "done"
  resp,      \* the response of each round trip
  replayed,  \* history: it came from the cache
  brought    \* history: the pages that came from the origin, by key

roundVars == <<request, at, resp, replayed>>
dummyVars == <<storeVars, page, roundVars, brought>>

Key(r) == cacheKey(request[r])

SomeRequests == {q \in [RoundTrips -> UNION {RequestsOf[r] : r \in RoundTrips}] :
             \A r \in RoundTrips : q[r] \in RequestsOf[r]}

DummyInit ==
  /\ StoreInit
  /\ page \in Pages
  /\ request \in SomeRequests
  /\ at = [r \in RoundTrips |-> "idle"]
  /\ resp = [r \in RoundTrips |-> NoEntry]
  /\ replayed = {}
  /\ brought = [k \in Keys |-> {}]

(* The page is changed.                                                    *)
Change ==
  /\ page' \in Pages \ {page}
  /\ UNCHANGED <<storeVars, roundVars, brought>>

Goto(r, from, to) ==
  /\ at[r] = from
  /\ at' = [at EXCEPT ![r] = to]

(* An entry that can be read is returned.  One that is cut off in its body *)
(* is returned like any other.                                             *)
Replay(r) ==
  /\ cacheable(request[r])
  /\ Goto(r, "idle", "done")
  /\ resp' \in {[resp EXCEPT ![r] = entry] : entry \in Get(Key(r)) \ {NoEntry}}
  /\ replayed' = replayed \cup {r}
  /\ UNCHANGED <<storeVars, page, request, brought>>

(* Mutant: the entry is deleted for every request.                         *)
Mutant_Invalidated(r) == TRUE

Invalidated(r) == ~cacheable(request[r])

(* There is none, or http.ReadResponse fails on one that is cut off in its *)
(* headers, or the request is not cacheable and t.Cache.Delete takes away  *)
(* the entry of its key.                                                   *)
Miss(r) ==
  /\ Goto(r, "idle", "send")
  /\ \/ /\ ~Invalidated(r)
        /\ NoEntry \in Get(Key(r)) \/ cache[Key(r)] = Torn
        /\ UNCHANGED storeVars
     \/ Invalidated(r) /\ Delete(Key(r))
  /\ UNCHANGED <<page, request, resp, replayed, brought>>

(* transport.RoundTrip; its error is returned at once.                     *)
Send(r) ==
  /\ \/ Goto(r, "send", "done") /\ UNCHANGED <<resp, brought>>
     \/ /\ Goto(r, "send", "store")
        /\ resp' = [resp EXCEPT ![r] = page]
        /\ brought' = [brought EXCEPT ![Key(r)] = @ \cup {page}]
  /\ UNCHANGED <<storeVars, page, request, replayed>>

(* Mutant: what is stored is fetched a second time.                        *)
Mutant_Dump(r) == page

(* httputil.DumpResponse                                                   *)
Dump(r) == resp[r]

(* The body is read and stored, over an entry stored meanwhile; it is not  *)
(* stored if it is cut off, when the caller gets the rest of it.  For a    *)
(* request that is not cacheable the entry is deleted.                     *)
Store(r) ==
  /\ Goto(r, "store", "done")
  /\ \/ cacheable(request[r]) /\ Set(Key(r), Dump(r)) /\ UNCHANGED resp
     \/ cacheable(request[r]) /\ UNCHANGED storeVars /\ resp' = [resp EXCEPT ![r] = Torn]
     \/ ~cacheable(request[r]) /\ Delete(Key(r)) /\ UNCHANGED resp
  /\ UNCHANGED <<page, request, replayed, brought>>

RoundTrip(r) == Replay(r) \/ Miss(r) \/ Send(r) \/ Store(r)

(* The goroutine is through with the response and turns to a next request. *)
Leave(r) ==
  /\ Goto(r, "done", "idle")
  /\ \E q \in RequestsOf[r] : request' = [request EXCEPT ![r] = q]
  /\ resp' = [resp EXCEPT ![r] = NoEntry]
  /\ replayed' = replayed \ {r}
  /\ UNCHANGED <<storeVars, page, brought>>

(* The process ends and is started again.                                  *)
Restart ==
  /\ Reopen({Key(r) : r \in {s \in RoundTrips : at[s] = "store" /\ cacheable(request[s])}})
  /\ request' \in SomeRequests
  /\ at' = [r \in RoundTrips |-> "idle"]
  /\ resp' = [r \in RoundTrips |-> NoEntry]
  /\ replayed' = {}
  /\ UNCHANGED <<page, brought>>

DummyNext == Change \/ Restart \/ \E r \in RoundTrips : RoundTrip(r) \/ Leave(r)

DummySpec == DummyInit /\ [][DummyNext]_dummyVars
-----------------------------------------------------------------------------
(* Properties *)

Overlapping(k) == \E r \in RoundTrips : Key(r) = k /\ at[r] \in {"send", "store"}

(* cache.go:34, "replay a spider run exactly as it ran before": once a     *)
(* page is stored and no request for it is on its way, the entry stays as  *)
(* it is, over a restart too unless it was in memory.  Only a request that *)
(* overlaps can still exchange it, and only one that is not cacheable, a   *)
(* GET for a range, can take it away.                                      *)
EntriesStay ==
  [][\A k \in Keys :
       /\ cache[k] # NoEntry
       /\ ~Overlapping(k)
       /\ \A r \in RoundTrips : ~cacheable(request[r]) => at'[r] = at[r]
       /\ store = "memory" => ~Restart
       => cache'[k] = cache[k]]_dummyVars

(* A replayed page was brought from the origin by a request of the same    *)
(* method, in this process or one before it: a GET is not answered with    *)
(* what a HEAD brought.  On disk it may also be one that a crash cut off.  *)
ReplayedWasReturned ==
  \A r \in replayed : resp[r] \in brought[Key(r)] \/ (store = "disk" /\ resp[r] = Torn)
=============================================================================
