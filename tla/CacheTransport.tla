--------------------------- MODULE CacheTransport ---------------------------
(***************************************************************************)
(* RoundTripRFC2616 of cache/cache.go: several goroutines request one URL  *)
(* through one Transport while the origin server changes what is there.    *)
(* Entries of other URLs have other keys and are independent.              *)
(*                                                                         *)
(* Get, Set and Delete of the cache are atomic (memorycache, one lock), a  *)
(* round trip is not: it looks at the cache before it goes to the origin,  *)
(* decides what to do with the entry after that, and stores a GET response *)
(* when the caller has read its body to the end, if ever.                  *)
(*                                                                         *)
(* The origin (external) answers with the current version or an error, or  *)
(* 304 to a validator that is current; its headers follow one of Policies. *)
(***************************************************************************)
EXTENDS CacheControl, Sequences

CONSTANTS
  RoundTrips,   \* the calls of RoundTrip, a goroutine each
  RequestsOf,   \* the requests each may make, see CacheControl
  Policies,     \* headers the origin may set: etag, dated, vary, cc
  Statuses,     \* status codes of the origin other than 304
  NoVariant,    \* the header that Vary lists is not set
  NoResponse,   \* no response, an error instead; no entry
  MaxNow,       \* bound on the clock
  MaxVersions   \* bound on the versions at the origin

(* The requests, the variants of the page they ask for, and its etags.     *)
AllRequests == UNION {RequestsOf[r] : r \in RoundTrips}
Variants == {q.variant : q \in AllRequests} \cup {NoVariant}
Etags == (1 .. MaxVersions) \X Variants

(* A response without Cache-Control.                                       *)
NoDirectives ==
  [given |-> FALSE, noStore |-> FALSE, noCache |-> FALSE, maxAge |-> Absent,
   staleIfError |-> Absent]

(* newGatewayTimeoutResponse.  It keeps the number of its version, which   *)
(* is none of the origin's, whatever a 304 does to its headers.            *)
GatewayTimeout ==
  [status |-> 504, version |-> -1, variant |-> NoVariant, varied |-> NoVariant,
   date |-> Absent, expires |-> Absent, etag |-> Absent, vary |-> FALSE, cc |-> NoDirectives]

MadeUp(response) == response.version = GatewayTimeout.version

(* The responses there can be, of the origin or made up.                   *)
Responses ==
  [status: Statuses \cup {304, 504}, version: -1 .. MaxVersions,
   variant: Variants, varied: Variants, date: (1 .. MaxNow) \cup {Absent},
   expires: {Absent}, etag: Etags \cup {Absent}, vary: BOOLEAN,
   cc: {p.cc : p \in Policies} \cup {NoDirectives}]

ASSUME TransportAssumption ==
  /\ Statuses \subseteq Nat \ {304}
  /\ MaxNow \in Nat \ {0}
  /\ MaxVersions \in Nat \ {0}
  /\ \A p \in Policies : p.vary \in BOOLEAN /\ (~p.cc.given => p.cc = NoDirectives)
  /\ Absent \notin Etags
  /\ NoResponse \notin Responses

VARIABLES
  request,   \* the request of each round trip, which stays what it is
  versions,  \* history: the version at the origin at each time, up to now
  cache,     \* t.Cache
  at,        \* where each round trip is, see Steps
  cached,    \* the local variable cachedResp
  sent,      \* If-None-Match of the request as it goes out (req or req2)
  resp,      \* the local variable resp; at the end, what RoundTrip returned
  via        \* history: how a round trip came by its response, see Ways

vars == <<request, versions, cache, at, cached, sent, resp, via>>

Keys == {cacheKey(q) : q \in AllRequests}
now == Len(versions)
Version == versions[now]

(* "send": at transport.RoundTrip; "settle": its answer is there; "store": *)
(* at canStore; "body": returned, the body not read to the end.            *)
Steps == {"idle", "send", "settle", "store", "body", "done"}

Ways == {"none", "origin", "fresh", "notModified", "onError", "onlyIfCached", "error"}

Req(r) == request[r]

Init ==
  /\ request \in [RoundTrips -> AllRequests]
  /\ \A r \in RoundTrips : request[r] \in RequestsOf[r]
  /\ versions = <<1>>
  /\ cache = [k \in Keys |-> NoResponse]
  /\ at = [r \in RoundTrips |-> "idle"]
  /\ cached = [r \in RoundTrips |-> NoResponse]
  /\ sent = [r \in RoundTrips |-> Absent]
  /\ resp = [r \in RoundTrips |-> NoResponse]
  /\ via = [r \in RoundTrips |-> "none"]

(* The clock ticks, and the page may have been changed.                    *)
Tick ==
  /\ now < MaxNow
  /\ \E v \in {Version, Version + 1} :
       v <= MaxVersions /\ versions' = Append(versions, v)
  /\ UNCHANGED <<request, cache, at, cached, sent, resp, via>>
-----------------------------------------------------------------------------
Goto(r, from, to) ==
  /\ at[r] = from
  /\ at' = [at EXCEPT ![r] = to]
  /\ UNCHANGED request

(* RoundTrip returns resp, got in the way how.                             *)
Answer(r, response, how) ==
  /\ resp' = [resp EXCEPT ![r] = response]
  /\ via' = [via EXCEPT ![r] = how]

(* CachedResponse finds an entry that may be returned.                     *)
LookupFresh(r) ==
  LET entry == cache[cacheKey(Req(r))]
  IN  /\ cacheable(Req(r))
      /\ entry # NoResponse
      /\ varyMatches(entry, Req(r))
      /\ getFreshness(entry, Req(r), now) = "fresh"
      /\ Goto(r, "idle", "done")
      /\ cached' = [cached EXCEPT ![r] = entry]
      /\ Answer(r, entry, "fresh")
      /\ UNCHANGED <<versions, cache, sent>>

(* It finds an entry that may not: if the entry is stale, its validators   *)
(* are set on the request, in place of those of the caller.                *)
LookupStale(r) ==
  LET entry == cache[cacheKey(Req(r))]
      freshness == getFreshness(entry, Req(r), now)
      revalidate == varyMatches(entry, Req(r)) /\ freshness = "stale" /\ Given(entry.etag)
  IN  /\ cacheable(Req(r))
      /\ entry # NoResponse
      /\ ~(varyMatches(entry, Req(r)) /\ freshness = "fresh")
      /\ Goto(r, "idle", "send")
      /\ cached' = [cached EXCEPT ![r] = entry]
      /\ sent' = [sent EXCEPT ![r] = IF revalidate THEN entry.etag ELSE Req(r).validator]
      /\ UNCHANGED <<versions, cache, resp, via>>

(* It finds none, or the request is not cacheable and the entry under its  *)
(* key is deleted; that key is not the one of a GET, unless the request is *)
(* a GET for a range.  The origin is asked, unless the caller wants no     *)
(* network.                                                                *)
LookupMiss(r) ==
  /\ cacheable(Req(r)) => cache[cacheKey(Req(r))] = NoResponse
  /\ cache' = [cache EXCEPT ![cacheKey(Req(r))] = NoResponse]
  /\ \/ /\ ~Req(r).cc.onlyIfCached
        /\ Goto(r, "idle", "send")
        /\ sent' = [sent EXCEPT ![r] = Req(r).validator]
        /\ UNCHANGED <<resp, via>>
     \/ /\ Req(r).cc.onlyIfCached
        /\ Goto(r, "idle", "store")
        /\ Answer(r, GatewayTimeout, "onlyIfCached")
        /\ UNCHANGED sent
  /\ UNCHANGED <<versions, cached>>
-----------------------------------------------------------------------------
(* transport.RoundTrip                                                     *)

Etag(r, policy) == <<Version, IF policy.vary THEN Req(r).variant ELSE NoVariant>>

Headers(r, policy, status) ==
  [status |-> status,
   version |-> IF status \in {200, 304} THEN Version ELSE 0,
   variant |-> IF policy.vary THEN Req(r).variant ELSE NoVariant,
   varied |-> NoVariant, date |-> IF policy.dated THEN now ELSE Absent, expires |-> Absent,
   etag |-> IF policy.etag /\ status \in {200, 304} THEN Etag(r, policy) ELSE Absent,
   vary |-> policy.vary, cc |-> policy.cc]

Send(r) ==
  /\ Goto(r, "send", "settle")
  /\ \/ resp' = [resp EXCEPT ![r] = NoResponse]
     \/ \E policy \in Policies, status \in Statuses \cup {304} :
          /\ status = 304 => Req(r).method \in {"GET", "HEAD"} /\ sent[r] = Etag(r, policy)
          /\ resp' = [resp EXCEPT ![r] = Headers(r, policy, status)]
  /\ UNCHANGED <<versions, cache, cached, sent, via>>
-----------------------------------------------------------------------------
(* What becomes of the answer.                                             *)

(* Mutant: the entry has to be in the cache still.                         *)
Mutant_InHand(r) == cached[r] # NoResponse /\ cache[cacheKey(Req(r))] # NoResponse

InHand(r) == cached[r] # NoResponse

NotModified(r) ==
  /\ InHand(r)
  /\ resp[r] # NoResponse /\ resp[r].status = 304
  /\ Req(r).method = "GET"

StaleOnError(r) ==
  /\ InHand(r)
  /\ resp[r] # NoResponse => resp[r].status >= 500
  /\ Req(r).method = "GET"
  /\ canStaleOnError(cached[r], Req(r), now)

(* The end-to-end headers that the 304 carries replace those of the entry, *)
(* which keeps the others.                                                 *)
Updated(entry, response) ==
  [entry EXCEPT !.date = IF Given(response.date) THEN response.date ELSE @,
                !.cc = IF response.cc.given THEN response.cc ELSE @,
                !.vary = @ \/ response.vary,
                !.etag = IF Given(response.etag) THEN response.etag ELSE @]

SettleNotModified(r) ==
  /\ NotModified(r)
  /\ Goto(r, "settle", "store")
  /\ Answer(r, Updated(cached[r], resp[r]), "notModified")
  /\ UNCHANGED <<versions, cache, cached, sent>>

SettleOnError(r) ==
  /\ StaleOnError(r)
  /\ Goto(r, "settle", "done")
  /\ Answer(r, cached[r], "onError")
  /\ UNCHANGED <<versions, cache, cached, sent>>

(* Mutant: an error is not returned at once.                               *)
Mutant_Failed(r) == FALSE

Failed(r) == resp[r] = NoResponse

(* The origin's answer is the response.  An entry that was found is        *)
(* deleted on an error and on any status but 200.                          *)
SettleOrigin(r) ==
  /\ ~NotModified(r) /\ ~StaleOnError(r)
  /\ \/ Failed(r) /\ Goto(r, "settle", "done") /\ Answer(r, NoResponse, "error")
     \/ ~Failed(r) /\ Goto(r, "settle", "store") /\ Answer(r, resp[r], "origin")
  /\ cache' = IF cached[r] # NoResponse /\ (resp[r] = NoResponse \/ resp[r].status # 200)
                THEN [cache EXCEPT ![cacheKey(Req(r))] = NoResponse]
                ELSE cache
  /\ UNCHANGED <<versions, cached, sent>>

(* X-Varied-... remembers the header, if it is set.                        *)
Varied(r) ==
  IF resp[r].vary /\ Req(r).variant # NoVariant
    THEN [resp[r] EXCEPT !.varied = Req(r).variant]
    ELSE resp[r]

(* A GET is stored at the end of its body, a HEAD now.                     *)
Store(r) ==
  LET stored == cacheable(Req(r)) /\ canStore(Req(r), resp[r])
  IN  /\ Goto(r, "store", IF stored /\ Req(r).method = "GET" THEN "body" ELSE "done")
      /\ resp' = IF stored THEN [resp EXCEPT ![r] = Varied(r)] ELSE resp
      /\ cache' = IF ~stored
                    THEN [cache EXCEPT ![cacheKey(Req(r))] = NoResponse]
                  ELSE IF Req(r).method # "GET"
                    THEN [cache EXCEPT ![cacheKey(Req(r))] = Varied(r)]
                    ELSE cache
  /\ UNCHANGED <<versions, cached, sent, via>>

(* Mutant: the date is that of the storing.                                *)
Mutant_Dumped(r) == [resp[r] EXCEPT !.date = now]

Dumped(r) == resp[r]

(* cachingReadCloser: OnEOF, or the body is closed before its end, which   *)
(* doRequestClient does when it is longer than MaxBodySize.                *)
ReadBody(r) ==
  /\ Goto(r, "body", "done")
  /\ \/ cache' = [cache EXCEPT ![cacheKey(Req(r))] = Dumped(r)]
     \/ UNCHANGED cache
  /\ UNCHANGED <<versions, cached, sent, resp, via>>
-----------------------------------------------------------------------------
RoundTrip(r) ==
  \/ LookupFresh(r) \/ LookupStale(r) \/ LookupMiss(r) \/ Send(r)
  \/ SettleNotModified(r) \/ SettleOnError(r) \/ SettleOrigin(r) \/ Store(r) \/ ReadBody(r)

Next == Tick \/ \E r \in RoundTrips : RoundTrip(r)

Spec == Init /\ [][Next]_vars
-----------------------------------------------------------------------------
(* Properties *)

Returned(r) == at[r] \in {"body", "done"} /\ resp[r] # NoResponse

MaybeResponses == Responses \cup {NoResponse}

(* The types: the versions, the steps, and every response, cached or in    *)
(* hand; the response that is stored is never missing.                     *)
TransportTypeOK ==
  /\ request \in [RoundTrips -> AllRequests]
  /\ versions \in Seq(1 .. MaxVersions) /\ now \in 1 .. MaxNow
  /\ cache \in [Keys -> MaybeResponses]
  /\ at \in [RoundTrips -> Steps]
  /\ cached \in [RoundTrips -> MaybeResponses]
  /\ DOMAIN sent = RoundTrips
  /\ resp \in [RoundTrips -> MaybeResponses]
  /\ via \in [RoundTrips -> Ways]
  /\ \A r \in RoundTrips : at[r] \in {"store", "body"} => resp[r] # NoResponse

(* no-store: what the origin does not want to be kept is not in the cache, *)
(* not even after a 304 has changed the headers of an entry, or when a     *)
(* body is read to its end after the entry was deleted.                    *)
NoStoreNotKept ==
  \A k \in Keys : cache[k] # NoResponse => ~cache[k].cc.noStore

(* A caller has sent validators of its own, for an entry that may not be   *)
(* returned, and the origin's 304 was taken for one about the entry.       *)
Mistaken ==
  \E r \in RoundTrips :
    via[r] = "notModified" /\ Given(Req(r).validator) /\ sent[r] = Req(r).validator

(* The Date of an entry is a time when the origin had that version, also   *)
(* if a 304 has moved the date, and in whatever order the goroutines store *)
(* what they got.  All freshness is reckoned from it.  It takes validators *)
(* of a caller to give an old body the date and the etag of a new version. *)
DatesAreTrue ==
  \A k \in Keys :
    cache[k] # NoResponse /\ cache[k].status = 200 /\ Given(cache[k].date) =>
      versions[cache[k].date] = cache[k].version \/ Mistaken

(* A caller that sent no validators and asks for the page with GET is not  *)
(* told "304 Not Modified" by the origin.  From the cache it is only if    *)
(* another caller did send some of its own: the 304 it got for a page that *)
(* is not cached is stored like a page.                                    *)
NotModifiedOnlyIfAsked ==
  \A r \in RoundTrips :
    Returned(r) /\ Req(r).method = "GET" /\ ~Given(Req(r).validator) /\ resp[r].status = 304 =>
      /\ via[r] # "origin"
      /\ \E q \in RoundTrips :
           Given(Req(q).validator) /\ via[q] = "origin" /\ resp[q].status = 304

(* A caller has sent validators of its own as the cache had only the made  *)
(* up 504, and got the 504 for its page: the origin's 304 was taken for    *)
(* one about it, and gave it the headers of the page.                      *)
TimeoutTaken ==
  \E r \in RoundTrips :
    via[r] = "notModified" /\ Given(Req(r).validator) /\ MadeUp(resp[r])

(* The 504 that is made up for a request with only-if-cached is stored, as *)
(* any response is, but it is stale at once and has no validators.  So it  *)
(* comes out for another request in two cases only: through stale-if-error *)
(* of that request, or when a 304 to a caller's own validators has made it *)
(* the answer of that caller, and from then on of anybody.                 *)
GatewayTimeoutKeptPrivate ==
  \A r \in RoundTrips :
    Returned(r) /\ MadeUp(resp[r]) =>
      Req(r).cc.onlyIfCached \/ Given(Req(r).cc.staleIfError) \/ TimeoutTaken

(* stale-if-error without a time: the request does not fail when there was *)
(* an entry as it started, whatever others did to the entry meanwhile; but *)
(* for an entry with a stale-if-error of its own which cannot be read.     *)
StaleIfErrorHelps ==
  \A r \in RoundTrips :
    via[r] = "error" /\ Req(r).method = "GET" /\ Req(r).cc.staleIfError = Empty =>
      cached[r] = NoResponse \/ cached[r].cc.staleIfError = Bad

(* cache.go:204, "Can only use cached value if the new request doesn't     *)
(* Vary significantly": who gets an entry as fresh gets the variant that   *)
(* the origin would have chosen for the request, also from an entry whose  *)
(* headers a 304 has replaced, if that 304 was about the entry.            *)
VaryRespected ==
  \A r \in RoundTrips :
    Returned(r) /\ via[r] = "fresh" /\ resp[r].vary =>
      resp[r].variant = Req(r).variant \/ Mistaken
=============================================================================
