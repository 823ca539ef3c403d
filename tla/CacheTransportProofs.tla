------------------------ MODULE CacheTransportProofs ------------------------
(***************************************************************************)
(* What holds of the RFC 2616 transport for every set of round trips and   *)
(* requests, all policies of the origin and any bounds on its clock and    *)
(* its versions: the properties of module CacheTransport, from one         *)
(* inductive invariant about each entry and each response in hand; and     *)
(* first what getFreshness and canStaleOnError guarantee of all headers.   *)
(***************************************************************************)
EXTENDS CacheTransport, TLAPS

-----------------------------------------------------------------------------
(* Headers, whatever they are, and time *)

Seconds == Int \cup {Absent, Empty, Bad}
Dates == Int \cup {Absent}

(* When a response stops being fresh by its own headers; at once when it   *)
(* does not say.                                                           *)
Expiration(page) ==
  IF page.cc.maxAge \in Int THEN page.date + page.cc.maxAge
  ELSE IF page.cc.maxAge = Absent /\ Given(page.expires) THEN page.expires
  ELSE page.date

(* The headers getFreshness reads are of the kinds CacheControl names.     *)
HeadersOK(page, req) ==
  /\ page.date \in Dates /\ page.expires \in Dates /\ page.cc.maxAge \in Seconds
  /\ page.cc.staleIfError \in Seconds
  /\ req.cc.maxAge \in Seconds /\ req.cc.minFresh \in Seconds
  /\ req.cc.maxStale \in Seconds /\ req.cc.staleIfError \in Seconds
-----------------------------------------------------------------------------
(* SecondsOrZero is a number.                                              *)
LEMMA SecondsOrZeroInt ==
  ASSUME NEW v PROVE SecondsOrZero(v) \in Int
BY DEF SecondsOrZero

(* The lifetime of a dated response is a number.                           *)
LEMMA LifetimeInt ==
  ASSUME NEW page, NEW req, HeadersOK(page, req), page.date \in Int
  PROVE  Lifetime(page, req) \in Int
BY SecondsOrZeroInt DEF Lifetime, HeadersOK, Given, Dates

(* A response that has become stale for a request is never fresh for the   *)
(* same request again, whatever the directives of both: time only takes    *)
(* freshness away.                                                         *)
THEOREM FreshnessExpires ==
  ASSUME NEW page, NEW req, HeadersOK(page, req),
         NEW t \in Int, NEW later \in Int, t <= later,
         getFreshness(page, req, later) = "fresh"
  PROVE  getFreshness(page, req, t) = "fresh"
<1>1. CASE req.cc.onlyIfCached
  BY <1>1 DEF getFreshness
<1>2. CASE ~req.cc.onlyIfCached
  <2>1. ~req.cc.noCache /\ ~page.cc.noCache /\ Given(page.date)
    BY <1>2 DEF getFreshness
  <2>2. CASE req.cc.maxStale = Empty
    BY <2>1, <2>2 DEF getFreshness
  <2>3. CASE req.cc.maxStale # Empty
    <3>1. page.date \in Int
      BY <2>1 DEF HeadersOK, Dates, Given
    <3>2. Lifetime(page, req) > CurrentAge(page, req, later)
      BY <1>2, <2>3 DEF getFreshness
    <3>3. CurrentAge(page, req, t) <= CurrentAge(page, req, later)
      BY <3>1, SecondsOrZeroInt DEF CurrentAge
    <3>4. /\ CurrentAge(page, req, t) \in Int
          /\ CurrentAge(page, req, later) \in Int
      BY <3>1, SecondsOrZeroInt DEF CurrentAge
    <3>5. Lifetime(page, req) > CurrentAge(page, req, t)
      BY <3>1, <3>2, <3>3, <3>4, LifetimeInt
    <3> QED  BY <2>1, <3>5 DEF getFreshness
  <2> QED  BY <2>2, <2>3
<1> QED  BY <1>1, <1>2

(* cache.go, min-fresh: "the client wants a response that will still be    *)
(* fresh for at least the specified number of seconds", which is to say    *)
(* that the response would be fresh then without the directive.            *)
THEOREM MinFreshLooksAhead ==
  ASSUME NEW page, NEW req, NEW without, HeadersOK(page, req), NEW t \in Int,
         without.cc.minFresh = Absent,
         without.cc.noCache = req.cc.noCache,
         without.cc.onlyIfCached = req.cc.onlyIfCached,
         without.cc.maxAge = req.cc.maxAge,
         without.cc.maxStale = req.cc.maxStale
  PROVE  getFreshness(page, req, t)
           = getFreshness(page, without, t + SecondsOrZero(req.cc.minFresh))
<1>1. Lifetime(page, without) = Lifetime(page, req)
  BY DEF Lifetime
<1>2. CASE page.date \in Int
  <2>1. SecondsOrZero(without.cc.minFresh) = 0
    BY CacheControlAssumption DEF SecondsOrZero
  <2>2. CurrentAge(page, req, t)
          = CurrentAge(page, without, t + SecondsOrZero(req.cc.minFresh))
    BY <1>2, <2>1, SecondsOrZeroInt DEF CurrentAge
  <2> QED  BY <1>1, <2>2 DEF getFreshness
<1>3. CASE page.date \notin Int
  BY <1>3 DEF getFreshness, Given, HeadersOK, Dates
<1> QED  BY <1>2, <1>3

(* A response is returned after its own expiration only if the request     *)
(* asked for that, by only-if-cached, max-stale or a max-age of its own.   *)
THEOREM StaleOnlyWithPermission ==
  ASSUME NEW page, NEW req, HeadersOK(page, req), NEW t \in Int,
         req.cc.minFresh \in Nat \cup {Absent, Empty, Bad},
         getFreshness(page, req, t) = "fresh",
         ~req.cc.onlyIfCached, ~Given(req.cc.maxStale), ~Given(req.cc.maxAge)
  PROVE  ~page.cc.noCache /\ Given(page.date) /\ t < Expiration(page)
<1>1. req.cc.maxStale # Empty
  BY CacheControlAssumption DEF Given
<1>2. /\ ~page.cc.noCache
      /\ Given(page.date)
      /\ Lifetime(page, req) > CurrentAge(page, req, t)
  BY <1>1 DEF getFreshness
<1>3. page.date \in Int
  BY <1>2 DEF HeadersOK, Dates, Given
<1>4. CurrentAge(page, req, t) \in Int /\ CurrentAge(page, req, t) >= t - page.date
  <2>1. SecondsOrZero(req.cc.maxStale) = 0
    BY CacheControlAssumption DEF Given, SecondsOrZero
  <2>2. SecondsOrZero(req.cc.minFresh) \in Nat
    BY CacheControlAssumption DEF SecondsOrZero
  <2> QED  BY <1>3, <2>1, <2>2 DEF CurrentAge
<1>5. Lifetime(page, req) = Expiration(page) - page.date /\ Expiration(page) \in Int
  BY <1>3, CacheControlAssumption
     DEF Lifetime, Expiration, Given, SecondsOrZero, HeadersOK, Dates, Seconds
<1> QED  BY <1>2, <1>3, <1>4, <1>5

(* stale-if-error: the time in which a stale response may stand in for an  *)
(* error ends for good.                                                    *)
THEOREM StaleOnErrorEnds ==
  ASSUME NEW page, NEW req, HeadersOK(page, req),
         NEW t \in Int, NEW later \in Int, t <= later,
         canStaleOnError(page, req, later)
  PROVE  canStaleOnError(page, req, t)
BY DEF canStaleOnError, HeadersOK, Dates, Seconds, Given
-----------------------------------------------------------------------------
(* The inductive invariant *)

(* The 504 that the transport makes up has nothing of the origin's: no     *)
(* date, no validators and no stale-if-error.                              *)
Bare(e) == MadeUp(e) => ~Given(e.date) /\ ~Given(e.etag) /\ ~Given(e.cc.staleIfError)

(* The date and the etag of a response, if it has them, are those of its   *)
(* body.  In these operators vs is the versions so far.                    *)
Matches(e, vs) ==
  /\ e.status = 200 /\ Given(e.date) => e.date \in 1 .. Len(vs) /\ vs[e.date] = e.version
  /\ e.status = 200 /\ Given(e.etag) => e.etag[1] = e.version
  /\ Given(e.etag) => e.etag[2] = e.variant
  /\ ~e.vary => e.variant = NoVariant

(* An entry remembers of which variant its body is.                        *)
Sound(e, vs) == Matches(e, vs) /\ e.varied = e.variant

(* A caller has asked the origin whether the page has changed, and was told*)
(* that it has not.                                                        *)
Asked ==
  \E q \in RoundTrips :
    Given(Req(q).validator) /\ via[q] = "origin" /\ resp[q] # NoResponse /\ resp[q].status = 304

(* A 304 is there as a page only if somebody has asked for one.            *)
PageOK(method, e) == method = "GET" /\ e.status = 304 => Asked

(* An entry, under the method that it is the response to.                  *)
EntryOK(k) ==
  cache[k] # NoResponse =>
    /\ TimeoutTaken \/ Bare(cache[k])
    /\ Mistaken \/ Sound(cache[k], versions)
    /\ PageOK(k, cache[k])
    /\ ~cache[k].cc.noStore

CacheInv == \A k \in Keys : EntryOK(k)

(* The entry that a round trip has found.                                  *)
FoundOK(r) ==
  cached[r] # NoResponse =>
    /\ TimeoutTaken \/ Bare(cached[r])
    /\ Mistaken \/ Sound(cached[r], versions)
    /\ PageOK(Req(r).method, cached[r])

(* The validator it sends is the entry's, which then is of the variant that*)
(* is asked for, or the caller's.                                          *)
SentOK(r) ==
  at[r] \in {"send", "settle"} =>
    \/ sent[r] = Req(r).validator
    \/ /\ cached[r] # NoResponse /\ Given(cached[r].etag) /\ sent[r] = cached[r].etag
       /\ varyMatches(cached[r], Req(r))

(* The variant the origin chooses.                                         *)
Chosen(r, e) == IF e.vary THEN Req(r).variant ELSE NoVariant

(* What comes from the origin.                                             *)
AnswerOK(r) ==
  at[r] = "settle" /\ resp[r] # NoResponse =>
    /\ ~MadeUp(resp[r])
    /\ resp[r].status \in {200, 304} /\ Given(resp[r].date) =>
         resp[r].date \in 1 .. now /\ versions[resp[r].date] = resp[r].version
    /\ resp[r].variant = Chosen(r, resp[r]) /\ resp[r].varied = NoVariant
    /\ Given(resp[r].etag) => resp[r].etag = <<resp[r].version, resp[r].variant>>
    /\ resp[r].status = 304 => sent[r] = <<resp[r].version, resp[r].variant>> /\ Given(sent[r])

(* What is about to be stored: Varied will make it remember its variant.   *)
ToStoreOK(r) ==
  /\ at[r] = "store" =>
       /\ TimeoutTaken \/ Bare(resp[r])
       /\ Mistaken \/ (Matches(resp[r], versions) /\ Varied(r).varied = resp[r].variant)
  /\ at[r] = "body" =>
       /\ TimeoutTaken \/ Bare(resp[r])
       /\ Mistaken \/ Sound(resp[r], versions)
       /\ ~resp[r].cc.noStore

(* What a round trip returns, by the way it came by it.                    *)
ReturnOK(r) ==
  /\ at[r] \in {"idle", "send", "settle"} <=> via[r] = "none"
  /\ at[r] = "idle" => cached[r] = NoResponse
  /\ resp[r] # NoResponse /\ via[r] = "origin" =>
       /\ Req(r).method = "GET" /\ resp[r].status = 304 => Given(Req(r).validator)
       /\ ~MadeUp(resp[r])
  /\ resp[r] # NoResponse /\ via[r] \in {"fresh", "notModified", "onError"} =>
       PageOK(Req(r).method, resp[r])
  /\ resp[r] # NoResponse /\ via[r] \in {"fresh", "notModified", "onError"} /\ MadeUp(resp[r]) =>
       Req(r).cc.onlyIfCached \/ Given(Req(r).cc.staleIfError) \/ TimeoutTaken
  /\ resp[r] # NoResponse /\ via[r] = "fresh" /\ resp[r].vary =>
       Mistaken \/ resp[r].variant = Req(r).variant
  /\ via[r] = "notModified" => resp[r] # NoResponse
  /\ via[r] = "onlyIfCached" =>
       Req(r).cc.onlyIfCached /\ resp[r] # NoResponse /\ resp[r].status = 504
  /\ via[r] = "error" =>
       /\ resp[r] = NoResponse
       /\ Req(r).method = "GET" /\ Req(r).cc.staleIfError = Empty =>
            cached[r] = NoResponse \/ cached[r].cc.staleIfError = Bad

TripOK(r) == FoundOK(r) /\ SentOK(r) /\ AnswerOK(r) /\ ToStoreOK(r) /\ ReturnOK(r)

TripInv == \A r \in RoundTrips : TripOK(r)

TransportInv == TransportTypeOK /\ CacheInv /\ TripInv
-----------------------------------------------------------------------------
(* Responses *)

(* The 504 that is made up is a response, and has nothing of the origin's. *)
LEMMA GatewayTimeoutType ==
  /\ GatewayTimeout \in Responses /\ GatewayTimeout # NoResponse
  /\ Bare(GatewayTimeout) /\ GatewayTimeout.status = 504 /\ ~Given(GatewayTimeout.etag)
  /\ ~GatewayTimeout.vary /\ GatewayTimeout.variant = NoVariant
  /\ GatewayTimeout.varied = NoVariant
<1>1. GatewayTimeout.cc \in {p.cc : p \in Policies} \cup {NoDirectives}
  BY DEF GatewayTimeout
<1>2. NoVariant \in Variants
  BY DEF Variants
<1>3. GatewayTimeout \in Responses
  BY <1>1, <1>2, TransportAssumption DEF GatewayTimeout, Responses
<1>4. /\ GatewayTimeout.status = 504 /\ ~GatewayTimeout.vary
      /\ GatewayTimeout.variant = NoVariant /\ GatewayTimeout.varied = NoVariant
      /\ GatewayTimeout.date = Absent /\ GatewayTimeout.etag = Absent
      /\ GatewayTimeout.cc.staleIfError = Absent
  BY DEF GatewayTimeout, NoDirectives
<1> QED
  BY <1>3, <1>4, TransportAssumption DEF Bare, Given

(* There is a version at the origin.                                       *)
LEMMA VersionType ==
  ASSUME TransportTypeOK
  PROVE  Version \in 1 .. MaxVersions
<1>1. now \in 1 .. MaxNow /\ now \in 1 .. Len(versions)
  BY TransportAssumption DEF TransportTypeOK, now
<1> QED
  BY <1>1, TransportAssumption DEF TransportTypeOK, Version

(* What the origin answers is a response with the date, the variant and    *)
(* the etag that the invariant wants.                                      *)
LEMMA HeadersType ==
  ASSUME TransportTypeOK,
         NEW r \in RoundTrips, NEW policy \in Policies, NEW status \in Statuses \cup {304}
  PROVE  LET e == Headers(r, policy, status) IN
         /\ e \in Responses /\ e # NoResponse
         /\ ~MadeUp(e)
         /\ e.status \in {200, 304} /\ Given(e.date) =>
              e.date \in 1 .. now /\ versions[e.date] = e.version
         /\ e.variant = Chosen(r, e) /\ e.varied = NoVariant /\ e.status = status
         /\ Given(e.etag) => e.etag = <<e.version, e.variant>>
         /\ e.status = 304 => Etag(r, policy) = <<e.version, e.variant>>
         /\ Given(Etag(r, policy))
<1> DEFINE e == Headers(r, policy, status)
           variant == IF policy.vary THEN Req(r).variant ELSE NoVariant
<1>1. Req(r).variant \in Variants /\ NoVariant \in Variants /\ variant \in Variants
  BY DEF TransportTypeOK, Variants, Req
<1>2. now \in 1 .. MaxNow /\ now \in Nat /\ now \in 1 .. now
  BY TransportAssumption DEF TransportTypeOK
<1>3. Version \in 0 .. MaxVersions
  BY VersionType, TransportAssumption
<1>4. Etag(r, policy) \in Etags
  BY <1>1, VersionType DEF Etag, Etags
<1>5. policy.cc \in {p.cc : p \in Policies}
  OBVIOUS
<1>6. e \in Responses
  BY <1>1, <1>2, <1>3, <1>4, <1>5, TransportAssumption DEF Headers, Responses
<1>7. /\ e.date = (IF policy.dated THEN now ELSE Absent) /\ e.variant = variant /\ e.vary = policy.vary
      /\ e.varied = NoVariant /\ e.status = status
      /\ e.version = IF status \in {200, 304} THEN Version ELSE 0
      /\ e.etag = IF policy.etag /\ status \in {200, 304} THEN Etag(r, policy) ELSE Absent
  BY DEF Headers
<1> HIDE DEF e
<1>8. /\ Etag(r, policy) = <<Version, e.variant>>
      /\ e.status \in {200, 304} => e.version = Version
  BY <1>7 DEF Etag
<1>9. Given(Etag(r, policy))
  BY <1>4, TransportAssumption DEF Given
<1>10. e.variant = Chosen(r, e)
  BY <1>7 DEF Chosen
<1>11. Given(e.etag) => e.etag = Etag(r, policy) /\ e.status \in {200, 304}
  BY <1>7 DEF Given
<1>12. ~MadeUp(e)
  BY <1>3, <1>7, TransportAssumption DEF MadeUp, GatewayTimeout
<1>13. e.status \in {200, 304} /\ Given(e.date) =>
         e.date \in 1 .. now /\ versions[e.date] = e.version
  BY <1>2, <1>7, <1>8 DEF Version, Given
<1> QED
  BY <1>6, <1>7, <1>8, <1>9, <1>10, <1>11, <1>12, <1>13, TransportAssumption DEF e

(* A 304 changes the headers of an entry and nothing else.                 *)
LEMMA UpdatedType ==
  ASSUME NEW entry \in Responses, NEW response \in Responses
  PROVE  LET e == Updated(entry, response) IN
         /\ e \in Responses
         /\ e.date = IF Given(response.date) THEN response.date ELSE entry.date
         /\ e.vary = (entry.vary \/ response.vary)
         /\ e.etag = IF Given(response.etag) THEN response.etag ELSE entry.etag
         /\ e.status = entry.status /\ e.version = entry.version
         /\ e.variant = entry.variant /\ e.varied = entry.varied
<1> DEFINE d == IF Given(response.date) THEN response.date ELSE entry.date
           c == IF response.cc.given THEN response.cc ELSE entry.cc
           v == entry.vary \/ response.vary
           g == IF Given(response.etag) THEN response.etag ELSE entry.etag
           e == [entry EXCEPT !.date = d, !.cc = c, !.vary = v, !.etag = g]
<1>1. Updated(entry, response) = e
  BY DEF Updated
<1>2. /\ d \in (1 .. MaxNow) \cup {Absent} /\ c \in {p.cc : p \in Policies} \cup {NoDirectives}
      /\ v \in BOOLEAN /\ g \in Etags \cup {Absent}
  BY DEF Responses
<1> HIDE DEF d, c, v, g
<1>3. e \in Responses
  <2> DEFINE e1 == [entry EXCEPT !.date = d]
             e2 == [e1 EXCEPT !.cc = c]
             e3 == [e2 EXCEPT !.vary = v]
             e4 == [e3 EXCEPT !.etag = g]
  <2>1. e = e4
    OBVIOUS
  <2>2. e1 \in Responses
    BY <1>2 DEF Responses
  <2> HIDE DEF e1
  <2>3. e2 \in Responses
    BY <1>2, <2>2 DEF Responses
  <2> HIDE DEF e2
  <2>4. e3 \in Responses
    BY <1>2, <2>3 DEF Responses
  <2> HIDE DEF e3
  <2>5. e4 \in Responses
    BY <1>2, <2>4 DEF Responses
  <2> HIDE DEF e4
  <2> QED
    BY <2>1, <2>5
<1>4. /\ e.date = d /\ e.vary = v /\ e.etag = g
      /\ e.status = entry.status /\ e.version = entry.version
      /\ e.variant = entry.variant /\ e.varied = entry.varied
  <2> DEFINE e1 == [entry EXCEPT !.date = d, !.cc = c]
             e2 == [e1 EXCEPT !.vary = v, !.etag = g]
  <2>1. e = e2
    OBVIOUS
  <2>2. /\ e1 \in Responses /\ e1.date = d
        /\ e1.status = entry.status /\ e1.version = entry.version
        /\ e1.variant = entry.variant /\ e1.varied = entry.varied
    <3> DEFINE e0 == [entry EXCEPT !.date = d]
    <3>1. /\ e0 \in Responses /\ e0.date = d
          /\ e0.status = entry.status /\ e0.version = entry.version
          /\ e0.variant = entry.variant /\ e0.varied = entry.varied
      BY <1>2 DEF Responses
    <3>2. e1 = [e0 EXCEPT !.cc = c]
      OBVIOUS
    <3> HIDE DEF e0, e1
    <3> QED
      BY <1>2, <3>1, <3>2 DEF Responses
  <2> HIDE DEF e1
  <2>3. /\ e2.vary = v /\ e2.etag = g /\ e2.date = e1.date
        /\ e2.status = e1.status /\ e2.version = e1.version
        /\ e2.variant = e1.variant /\ e2.varied = e1.varied
    BY <2>2 DEF Responses
  <2> HIDE DEF e2
  <2> QED
    BY <2>1, <2>2, <2>3
<1> HIDE DEF e
<1>5. /\ e.date = IF Given(response.date) THEN response.date ELSE entry.date
      /\ e.vary = (entry.vary \/ response.vary)
      /\ e.etag = IF Given(response.etag) THEN response.etag ELSE entry.etag
  BY <1>4 DEF d, v, g
<1> QED
  BY <1>1, <1>3, <1>4, <1>5

(* Varied changes nothing but what is remembered of the variant.           *)
LEMMA VariedType ==
  ASSUME TransportTypeOK, NEW r \in RoundTrips, resp[r] # NoResponse
  PROVE  LET e == Varied(r) IN
         /\ e \in Responses /\ e # NoResponse
         /\ e.date = resp[r].date /\ e.cc = resp[r].cc /\ e.vary = resp[r].vary
         /\ e.etag = resp[r].etag /\ e.status = resp[r].status
         /\ e.version = resp[r].version /\ e.variant = resp[r].variant
         /\ e.varied = IF resp[r].vary /\ Req(r).variant # NoVariant
                         THEN Req(r).variant ELSE resp[r].varied
<1>1. resp[r] \in Responses
  BY DEF TransportTypeOK, MaybeResponses
<1>2. Req(r).variant \in Variants
  BY DEF TransportTypeOK, Variants, Req
<1> DEFINE f == resp[r]
           v == Req(r).variant
           e == IF f.vary /\ v # NoVariant THEN [f EXCEPT !.varied = v] ELSE f
<1>3. Varied(r) = e
  BY DEF Varied
<1> HIDE DEF f, v
<1>4. /\ e \in Responses
      /\ e.date = f.date /\ e.cc = f.cc /\ e.vary = f.vary
      /\ e.etag = f.etag /\ e.status = f.status
      /\ e.version = f.version /\ e.variant = f.variant
      /\ e.varied = IF f.vary /\ v # NoVariant THEN v ELSE f.varied
  <2> f \in Responses /\ v \in Variants
    BY <1>1, <1>2 DEF f, v
  <2> QED
    BY DEF Responses
<1> HIDE DEF e
<1> QED
  BY <1>3, <1>4, TransportAssumption DEF f, v

-----------------------------------------------------------------------------
(* What every step keeps *)

(* A later time: what was known stays known.                               *)
Later ==
  /\ request' = request
  /\ now' \in Nat /\ now <= now'
  /\ \A d \in 1 .. now : versions'[d] = versions[d]
  /\ Mistaken => Mistaken'
  /\ TimeoutTaken => TimeoutTaken'
  /\ Asked => Asked'

(* Nothing of a round trip changes.                                        *)
Still(x) ==
  /\ at'[x] = at[x] /\ cached'[x] = cached[x] /\ sent'[x] = sent[x]
  /\ resp'[x] = resp[x] /\ via'[x] = via[x]

(* A response that matches the versions so far matches those that follow.  *)
LEMMA SoundLater ==
  ASSUME NEW e, NEW vs, NEW ws, Len(vs) \in Nat, Len(ws) \in Nat, Len(vs) <= Len(ws),
         \A d \in 1 .. Len(vs) : ws[d] = vs[d]
  PROVE  /\ Matches(e, vs) => Matches(e, ws)
         /\ Sound(e, vs) => Sound(e, ws)
<1> DEFINE m == Len(vs)
           n == Len(ws)
<1>1. m \in Nat /\ n \in Nat /\ m <= n /\ \A d \in 1 .. m : ws[d] = vs[d]
  OBVIOUS
<1> HIDE DEF m, n
<1>2. \A d \in 1 .. m : d \in 1 .. n
  BY <1>1
<1>3. Matches(e, vs) => Matches(e, ws)
  BY <1>1, <1>2 DEF Matches, m, n
<1> QED
  BY <1>3 DEF Sound

(* The clock is a time, and so a later time is one that SoundLater knows.  *)
LEMMA LaterKeeps ==
  ASSUME TransportTypeOK, Later
  PROVE  \A e : /\ Matches(e, versions) => Matches(e, versions')
                /\ Sound(e, versions) => Sound(e, versions')
<1>1. now \in Nat
  BY DEF TransportTypeOK
<1>2. /\ Len(versions) \in Nat /\ Len(versions') \in Nat /\ Len(versions) <= Len(versions')
      /\ \A d \in 1 .. Len(versions) : versions'[d] = versions[d]
  BY <1>1 DEF Later, now
<1> QED
  BY <1>2, SoundLater

(* An entry that stays in the cache stays what the invariant says.         *)
LEMMA EntryKept ==
  ASSUME TransportTypeOK, Later, NEW k \in Keys, EntryOK(k), cache'[k] = cache[k]
  PROVE  EntryOK(k)'
<1>1. SUFFICES ASSUME cache[k] # NoResponse
               PROVE  /\ TimeoutTaken' \/ Bare(cache[k])
                      /\ Mistaken' \/ Sound(cache[k], versions')
                      /\ PageOK(k, cache[k])'
                      /\ ~cache[k].cc.noStore
  BY DEF EntryOK
<1>2. /\ TimeoutTaken \/ Bare(cache[k])
      /\ Mistaken \/ Sound(cache[k], versions)
      /\ PageOK(k, cache[k])
      /\ ~cache[k].cc.noStore
  BY <1>1 DEF EntryOK
<1>3. PageOK(k, cache[k])'
  BY <1>2 DEF PageOK, Later
<1> QED
  BY <1>2, <1>3, LaterKeeps DEF Later

(* A round trip of which nothing changes stays what the invariant says.    *)
LEMMA TripKept ==
  ASSUME TransportTypeOK, Later, NEW x \in RoundTrips, TripOK(x), Still(x)
  PROVE  TripOK(x)'
<1>1. now \in Nat /\ Req(x)' = Req(x)
  BY DEF TransportTypeOK, Req, Later
<1>2. FoundOK(x)'
  <2>1. SUFFICES ASSUME cached[x] # NoResponse
                 PROVE  /\ TimeoutTaken' \/ Bare(cached[x])
                        /\ Mistaken' \/ Sound(cached[x], versions')
                        /\ PageOK(Req(x).method, cached[x])'
    BY DEF FoundOK, Still
  <2>2. /\ TimeoutTaken \/ Bare(cached[x])
        /\ Mistaken \/ Sound(cached[x], versions)
        /\ PageOK(Req(x).method, cached[x])
    BY <2>1 DEF TripOK, FoundOK
  <2>3. PageOK(Req(x).method, cached[x])'
    BY <1>1, <2>2 DEF PageOK, Later, Still
  <2> QED
    BY <2>2, <2>3, LaterKeeps DEF Later
<1>3. SentOK(x)'
  BY <1>1 DEF TripOK, SentOK, Still
<1>4. AnswerOK(x)'
  <2>1. \A d \in 1 .. now : d \in 1 .. now' /\ versions'[d] = versions[d]
    BY <1>1 DEF Later
  <2> QED
    BY <1>1, <2>1 DEF TripOK, AnswerOK, Still, Chosen
<1>5. ToStoreOK(x)'
  <2>1. at[x] = "store" => Varied(x)' = Varied(x)
    BY <1>1 DEF Varied, Still
  <2>2. at[x] = "store" =>
          /\ TimeoutTaken' \/ Bare(resp[x])
          /\ Mistaken' \/ (Matches(resp[x], versions') /\ Varied(x)'.varied = resp[x].variant)
    BY <2>1, LaterKeeps DEF TripOK, ToStoreOK, Later
  <2>3. at[x] = "body" =>
          /\ TimeoutTaken' \/ Bare(resp[x])
          /\ Mistaken' \/ Sound(resp[x], versions')
          /\ ~resp[x].cc.noStore
    BY LaterKeeps DEF TripOK, ToStoreOK, Later
  <2> QED
    BY <2>2, <2>3 DEF ToStoreOK, Still
<1>6. ReturnOK(x)'
  BY <1>1 DEF TripOK, ReturnOK, Still, PageOK, Later
<1> QED
  BY <1>2, <1>3, <1>4, <1>5, <1>6 DEF TripOK

-----------------------------------------------------------------------------
(* The steps *)

(* The clock ticks: the types and the past are kept.                       *)
LEMMA TickLater ==
  ASSUME TransportTypeOK, Tick
  PROVE  TransportTypeOK' /\ Later
<1>1. now \in 1 .. MaxNow /\ now \in Nat /\ now < MaxNow
  BY TransportAssumption DEF TransportTypeOK, Tick
<1>2. Version \in 1 .. MaxVersions
  BY VersionType
<1>3. PICK v \in {Version, Version + 1} : v <= MaxVersions /\ versions' = Append(versions, v)
  BY DEF Tick
<1>4. v \in 1 .. MaxVersions
  BY <1>2, <1>3, TransportAssumption
<1>5. versions' \in Seq(1 .. MaxVersions) /\ now' = now + 1
  BY <1>3, <1>4 DEF TransportTypeOK, now
<1>6. \A d \in 1 .. now : versions'[d] = versions[d]
  BY <1>1, <1>3, <1>4 DEF TransportTypeOK, now
<1>7. now' \in 1 .. MaxNow
  BY <1>1, <1>5, TransportAssumption
<1>8. /\ (Mistaken => Mistaken') /\ (TimeoutTaken => TimeoutTaken')
      /\ (Asked => Asked') /\ request' = request
  BY DEF Tick, Mistaken, TimeoutTaken, Asked, Req
<1>9. TransportTypeOK'
  BY <1>5, <1>7 DEF TransportTypeOK, Tick
<1> QED
  BY <1>1, <1>5, <1>6, <1>8, <1>9 DEF Later

(* The key of a round trip is a key of the cache.                          *)
LEMMA KeyOfTrip ==
  ASSUME TransportTypeOK, NEW r \in RoundTrips
  PROVE  cacheKey(Req(r)) \in Keys /\ cacheKey(Req(r)) = Req(r).method
  BY DEF TransportTypeOK, Keys, cacheKey, Req

(* A round trip moves alone, and touches one entry at most.                *)
LEMMA TripFrame ==
  ASSUME TransportTypeOK, NEW r \in RoundTrips, RoundTrip(r)
  PROVE  /\ request' = request /\ versions' = versions
         /\ \A x \in RoundTrips \ {r} : Still(x)
         /\ \A k \in Keys \ {cacheKey(Req(r))} : cache'[k] = cache[k]
<1> USE DEF TransportTypeOK, Still, Goto, Answer
<1>1. CASE LookupFresh(r)  BY <1>1 DEF LookupFresh
<1>2. CASE LookupStale(r)  BY <1>2 DEF LookupStale
<1>3. CASE LookupMiss(r)  BY <1>3 DEF LookupMiss
<1>4. CASE Send(r)  BY <1>4 DEF Send
<1>5. CASE SettleNotModified(r)  BY <1>5 DEF SettleNotModified
<1>6. CASE SettleOnError(r)  BY <1>6 DEF SettleOnError
<1>7. CASE SettleOrigin(r)  BY <1>7 DEF SettleOrigin
<1>8. CASE Store(r)  BY <1>8 DEF Store
<1>9. CASE ReadBody(r)  BY <1>9 DEF ReadBody
<1> QED
  BY <1>1, <1>2, <1>3, <1>4, <1>5, <1>6, <1>7, <1>8, <1>9 DEF RoundTrip

(* A round trip that is past its answer has one action of three left, and  *)
(* they leave alone how it came by it.                                     *)
LEMMA ViaStays ==
  ASSUME TransportTypeOK, NEW r \in RoundTrips, ReturnOK(r), RoundTrip(r), via[r] # "none"
  PROVE  /\ via'[r] = via[r] /\ sent'[r] = sent[r]
         /\ resp[r] # NoResponse =>
              /\ resp'[r] # NoResponse /\ resp'[r].status = resp[r].status
              /\ MadeUp(resp[r]) => MadeUp(resp'[r])
<1>1. at[r] \notin {"idle", "send", "settle"}
  BY DEF ReturnOK
<1>2. CASE Store(r)
  BY <1>2, VariedType DEF Store, TransportTypeOK, MadeUp
<1>3. CASE ReadBody(r)
  BY <1>3 DEF ReadBody
<1> QED
  BY <1>1, <1>2, <1>3 DEF RoundTrip, LookupFresh, LookupStale, LookupMiss, Send,
     SettleNotModified, SettleOnError, SettleOrigin, Goto

(* Whatever a round trip does, it is later after it.                       *)
LEMMA TripLater ==
  ASSUME TransportTypeOK, TripInv, NEW r \in RoundTrips, RoundTrip(r)
  PROVE  Later
<1>1. /\ request' = request /\ versions' = versions
      /\ \A x \in RoundTrips \ {r} : Still(x)
  BY TripFrame
<1>2. now \in Nat
  BY DEF TransportTypeOK
<1>3. ReturnOK(r)
  BY DEF TripInv, TripOK
<1>4. Mistaken => Mistaken'
  <2>1. SUFFICES ASSUME NEW q \in RoundTrips, via[q] = "notModified",
                        Given(Req(q).validator), sent[q] = Req(q).validator
                 PROVE  via'[q] = "notModified" /\ sent'[q] = Req(q).validator
    BY <1>1 DEF Mistaken, Req
  <2>2. CASE q = r
    BY <1>3, <2>1, <2>2, ViaStays
  <2>3. CASE q # r
    BY <1>1, <2>1, <2>3 DEF Still
  <2> QED
    BY <2>2, <2>3
<1>5. Asked => Asked'
  <2>1. SUFFICES ASSUME NEW q \in RoundTrips, Given(Req(q).validator), via[q] = "origin",
                        resp[q] # NoResponse, resp[q].status = 304
                 PROVE  via'[q] = "origin" /\ resp'[q] # NoResponse /\ resp'[q].status = 304
    BY <1>1 DEF Asked, Req
  <2>2. CASE q = r
    BY <1>3, <2>1, <2>2, ViaStays
  <2>3. CASE q # r
    BY <1>1, <2>1, <2>3 DEF Still
  <2> QED
    BY <2>2, <2>3
<1>6. TimeoutTaken => TimeoutTaken'
  <2>1. SUFFICES ASSUME NEW q \in RoundTrips, via[q] = "notModified",
                        Given(Req(q).validator), MadeUp(resp[q])
                 PROVE  via'[q] = "notModified" /\ MadeUp(resp'[q])
    BY <1>1 DEF TimeoutTaken, Req, MadeUp, GatewayTimeout
  <2>2. CASE q = r
    <3>1. resp[r] # NoResponse
      BY <1>3, <2>1, <2>2 DEF ReturnOK
    <3> QED
      BY <1>3, <2>1, <2>2, <3>1, ViaStays
  <2>3. CASE q # r
    BY <1>1, <2>1, <2>3 DEF Still
  <2> QED
    BY <2>2, <2>3
<1> QED
  BY <1>1, <1>2, <1>4, <1>5, <1>6 DEF Later, now

(* A round trip keeps the types.                                           *)
LEMMA TripTypes ==
  ASSUME TransportTypeOK, NEW r \in RoundTrips, RoundTrip(r)
  PROVE  TransportTypeOK'
<1>1. /\ request' = request /\ versions' = versions /\ now' = now
      /\ cacheKey(Req(r)) \in Keys
  BY TripFrame, KeyOfTrip DEF now
<1>2. SUFFICES /\ cache' \in [Keys -> MaybeResponses]
               /\ at' \in [RoundTrips -> Steps]
               /\ cached' \in [RoundTrips -> MaybeResponses]
               /\ DOMAIN sent' = RoundTrips
               /\ resp' \in [RoundTrips -> MaybeResponses]
               /\ via' \in [RoundTrips -> Ways]
               /\ \A x \in RoundTrips : at'[x] \in {"store", "body"} => resp'[x] # NoResponse
  BY <1>1 DEF TransportTypeOK
<1>3. cache[cacheKey(Req(r))] \in MaybeResponses /\ NoResponse \in MaybeResponses
  BY <1>1 DEF TransportTypeOK, MaybeResponses
<1>4. GatewayTimeout \in MaybeResponses /\ GatewayTimeout # NoResponse
  BY GatewayTimeoutType DEF MaybeResponses
<1> USE DEF TransportTypeOK, Goto, Answer, Steps, Ways
<1>5. CASE LookupFresh(r)  BY <1>3, <1>5 DEF LookupFresh
<1>6. CASE LookupStale(r)  BY <1>3, <1>6 DEF LookupStale
<1>7. CASE LookupMiss(r)
  <2>1. cache' \in [Keys -> MaybeResponses] /\ cached' = cached
    BY <1>3, <1>7 DEF LookupMiss
  <2>2. CASE Goto(r, "idle", "send") /\ UNCHANGED <<resp, via>>
                /\ sent' = [sent EXCEPT ![r] = Req(r).validator]
    BY <2>1, <2>2
  <2>3. CASE Goto(r, "idle", "store") /\ UNCHANGED sent
                /\ Answer(r, GatewayTimeout, "onlyIfCached")
    BY <1>4, <2>1, <2>3
  <2> QED
    BY <1>7, <2>2, <2>3 DEF LookupMiss
<1>8. CASE Send(r)
  <2>1. \A policy \in Policies, status \in Statuses \cup {304} :
          Headers(r, policy, status) \in MaybeResponses
    BY HeadersType DEF MaybeResponses
  <2> QED
    BY <1>3, <1>8, <2>1 DEF Send
<1>9. CASE SettleNotModified(r)
  <2>1. cached[r] \in Responses /\ resp[r] \in Responses
    BY <1>9 DEF SettleNotModified, NotModified, InHand, MaybeResponses
  <2>2. Updated(cached[r], resp[r]) \in MaybeResponses
        /\ Updated(cached[r], resp[r]) # NoResponse
    BY <2>1, UpdatedType, TransportAssumption DEF MaybeResponses
  <2> QED
    BY <1>9, <2>2 DEF SettleNotModified
<1>10. CASE SettleOnError(r)  BY <1>10 DEF SettleOnError
<1>11. CASE SettleOrigin(r)
  <2>1. cache' \in [Keys -> MaybeResponses] /\ cached' = cached /\ sent' = sent
    BY <1>3, <1>11 DEF SettleOrigin
  <2>2. CASE Goto(r, "settle", "done") /\ Answer(r, NoResponse, "error")
    BY <1>3, <2>1, <2>2
  <2>3. CASE ~Failed(r) /\ Goto(r, "settle", "store") /\ Answer(r, resp[r], "origin")
    BY <2>1, <2>3 DEF Failed
  <2> QED
    BY <1>11, <2>2, <2>3 DEF SettleOrigin
<1>12. CASE Store(r)
  <2>1. Varied(r) \in MaybeResponses /\ Varied(r) # NoResponse
    BY <1>12, VariedType DEF MaybeResponses, Store
  <2> QED
    BY <1>1, <1>3, <1>12, <2>1 DEF Store
<1>13. CASE ReadBody(r)  BY <1>1, <1>13 DEF ReadBody, Dumped
<1> QED
  BY <1>5, <1>6, <1>7, <1>8, <1>9, <1>10, <1>11, <1>12, <1>13 DEF RoundTrip

(* What every action of a round trip starts from.                          *)
LEMMA TripStart ==
  ASSUME TransportTypeOK, CacheInv, TripInv, NEW r \in RoundTrips, RoundTrip(r)
  PROVE  /\ Later /\ request' = request /\ versions' = versions
         /\ Req(r)' = Req(r) /\ now' = now /\ now \in Nat
         /\ cacheKey(Req(r)) \in Keys /\ cacheKey(Req(r)) = Req(r).method
         /\ EntryOK(cacheKey(Req(r))) /\ TripOK(r)
  BY TripLater, TripFrame, KeyOfTrip DEF CacheInv, TripInv, Req, now, TransportTypeOK

(* An entry that is found is an entry that the round trip may work with.   *)
LEMMA FoundEntry ==
  ASSUME TransportTypeOK, CacheInv, TripInv, NEW r \in RoundTrips, RoundTrip(r),
         cached'[r] = cache[cacheKey(Req(r))] \/ cached'[r] = cached[r]
  PROVE  FoundOK(r)'
<1> DEFINE k == cacheKey(Req(r))
           e == cached'[r]
<1>1. /\ Later /\ versions' = versions /\ Req(r)' = Req(r) /\ k = Req(r).method
      /\ EntryOK(k) /\ FoundOK(r)
  BY TripStart DEF TripOK
<1>2. e # NoResponse =>
        /\ TimeoutTaken \/ Bare(e)
        /\ Mistaken \/ Sound(e, versions)
        /\ k = "GET" /\ e.status = 304 => Asked
  <2>1. CASE e = cache[k]
    BY <1>1, <2>1 DEF EntryOK, PageOK
  <2>2. CASE e = cached[r]
    BY <1>1, <2>2 DEF FoundOK, PageOK
  <2> QED
    BY <2>1, <2>2
<1> QED
  BY <1>1, <1>2 DEF FoundOK, PageOK, Later

(* A fresh entry is returned: it has a date, which the made-up 504 has     *)
(* not, unless only-if-cached overrides its age, and it is of the variant  *)
(* that is asked for.                                                      *)
LEMMA LookupFreshStep ==
  ASSUME TransportTypeOK, CacheInv, TripInv, NEW r \in RoundTrips, LookupFresh(r)
  PROVE  TripOK(r)' /\ EntryOK(cacheKey(Req(r)))'
<1> DEFINE k == cacheKey(Req(r))
           entry == cache[k]
<1>1. RoundTrip(r)
  BY DEF RoundTrip
<1>2. /\ Later /\ versions' = versions /\ Req(r)' = Req(r) /\ k \in Keys /\ k = Req(r).method
      /\ EntryOK(k) /\ TripOK(r)
  BY <1>1, TripStart
<1>3. /\ at'[r] = "done" /\ cached'[r] = entry /\ resp'[r] = entry /\ via'[r] = "fresh"
      /\ entry # NoResponse /\ cache' = cache
  BY DEF LookupFresh, Goto, Answer, TransportTypeOK
<1>4. /\ entry.vary => Req(r).variant = entry.varied
      /\ Req(r).cc.onlyIfCached \/ Given(entry.date)
  BY DEF LookupFresh, varyMatches, getFreshness, Given
<1>5. /\ TimeoutTaken \/ Bare(entry)
      /\ Mistaken \/ Sound(entry, versions)
      /\ k = "GET" /\ entry.status = 304 => Asked
  BY <1>2, <1>3 DEF EntryOK, PageOK
<1>6. FoundOK(r)'
  BY <1>1, <1>3, FoundEntry
<1>7. SentOK(r)' /\ AnswerOK(r)' /\ ToStoreOK(r)'
  BY <1>3 DEF SentOK, AnswerOK, ToStoreOK
<1>8. ReturnOK(r)'
  <2>1. entry.vary => Mistaken' \/ entry.variant = Req(r).variant
    BY <1>2, <1>4, <1>5 DEF Later, Sound
  <2>2. k = "GET" /\ entry.status = 304 => Asked'
    BY <1>2, <1>5 DEF Later
  <2>3. MadeUp(entry) => Req(r).cc.onlyIfCached \/ TimeoutTaken'
    BY <1>2, <1>4, <1>5 DEF Bare, Later
  <2> HIDE DEF entry, k
  <2> QED
    BY <1>2, <1>3, <2>1, <2>2, <2>3 DEF ReturnOK, PageOK
<1>9. EntryOK(k)'
  BY <1>1, <1>2, <1>3, EntryKept
<1> QED
  BY <1>6, <1>7, <1>8, <1>9 DEF TripOK

(* A stale entry is in hand: its validators are sent if it is of the       *)
(* variant that is asked for.                                              *)
LEMMA LookupStaleStep ==
  ASSUME TransportTypeOK, CacheInv, TripInv, NEW r \in RoundTrips, LookupStale(r)
  PROVE  TripOK(r)' /\ EntryOK(cacheKey(Req(r)))'
<1> DEFINE k == cacheKey(Req(r))
           entry == cache[k]
<1>1. RoundTrip(r)
  BY DEF RoundTrip
<1>2. /\ Later /\ versions' = versions /\ Req(r)' = Req(r) /\ k \in Keys
      /\ EntryOK(k) /\ TripOK(r)
  BY <1>1, TripStart
<1>3. /\ at[r] = "idle" /\ at'[r] = "send" /\ cached'[r] = entry /\ entry # NoResponse
      /\ resp' = resp /\ via' = via /\ cache' = cache
  BY DEF LookupStale, Goto, TransportTypeOK
<1>4. \/ sent'[r] = Req(r).validator
      \/ Given(entry.etag) /\ sent'[r] = entry.etag /\ varyMatches(entry, Req(r))
  BY DEF LookupStale, TransportTypeOK
<1>5. FoundOK(r)'
  BY <1>1, <1>3, FoundEntry
<1>6. SentOK(r)'
  BY <1>2, <1>3, <1>4 DEF SentOK, varyMatches, Given
<1>7. AnswerOK(r)' /\ ToStoreOK(r)'
  BY <1>3 DEF AnswerOK, ToStoreOK
<1>8. ReturnOK(r)'
  BY <1>2, <1>3 DEF TripOK, ReturnOK
<1>9. EntryOK(k)'
  BY <1>1, <1>2, <1>3, EntryKept
<1> QED
  BY <1>5, <1>6, <1>7, <1>8, <1>9 DEF TripOK

(* No entry is in hand: the caller's own validators are sent, or the 504   *)
(* is made up.                                                             *)
LEMMA LookupMissStep ==
  ASSUME TransportTypeOK, CacheInv, TripInv, NEW r \in RoundTrips, LookupMiss(r)
  PROVE  TripOK(r)' /\ EntryOK(cacheKey(Req(r)))'
<1> DEFINE k == cacheKey(Req(r))
<1>1. RoundTrip(r)
  BY DEF RoundTrip
<1>2. /\ Later /\ versions' = versions /\ Req(r)' = Req(r) /\ k \in Keys
      /\ EntryOK(k) /\ TripOK(r)
  BY <1>1, TripStart
<1>3. /\ at[r] = "idle" /\ cached'[r] = cached[r] /\ cache'[k] = NoResponse
  BY <1>2 DEF LookupMiss, Goto, TransportTypeOK
<1>4. EntryOK(k)'
  BY <1>1, <1>3, <1>2 DEF EntryOK
<1>5. cached'[r] = NoResponse
  BY <1>2, <1>3 DEF TripOK, ReturnOK
<1>6. FoundOK(r)'
  BY <1>5 DEF FoundOK
<1>7. CASE Goto(r, "idle", "send") /\ sent' = [sent EXCEPT ![r] = Req(r).validator]
           /\ UNCHANGED <<resp, via>>
  <2>1. at'[r] = "send" /\ sent'[r] = Req(r).validator
    BY <1>7 DEF Goto, TransportTypeOK
  <2>2. SentOK(r)' /\ AnswerOK(r)' /\ ToStoreOK(r)'
    BY <1>2, <2>1 DEF SentOK, AnswerOK, ToStoreOK
  <2>3. ReturnOK(r)'
    BY <1>2, <1>3, <1>7, <2>1 DEF TripOK, ReturnOK
  <2> QED
    BY <1>4, <1>6, <2>2, <2>3 DEF TripOK
<1>8. CASE Req(r).cc.onlyIfCached /\ Goto(r, "idle", "store")
           /\ Answer(r, GatewayTimeout, "onlyIfCached")
  <2>1. at'[r] = "store" /\ resp'[r] = GatewayTimeout /\ via'[r] = "onlyIfCached"
    BY <1>8 DEF Goto, Answer, TransportTypeOK
  <2>2. SentOK(r)' /\ AnswerOK(r)'
    BY <2>1 DEF SentOK, AnswerOK
  <2>3. Bare(GatewayTimeout) /\ Matches(GatewayTimeout, versions)
    BY GatewayTimeoutType DEF Matches
  <2>4. Varied(r)'.varied = GatewayTimeout.variant
    BY <2>1, GatewayTimeoutType DEF Varied
  <2>5. ToStoreOK(r)'
    BY <1>2, <2>1, <2>3, <2>4 DEF ToStoreOK
  <2>6. ReturnOK(r)'
    BY <1>2, <1>8, <2>1, GatewayTimeoutType DEF ReturnOK
  <2> QED
    BY <1>4, <1>6, <2>2, <2>5, <2>6 DEF TripOK
<1> QED
  BY <1>7, <1>8 DEF LookupMiss

(* The origin answers, or does not.  Its 304 says that the validator sent  *)
(* is the etag of the version and the variant that it has.                 *)
LEMMA SendStep ==
  ASSUME TransportTypeOK, CacheInv, TripInv, NEW r \in RoundTrips, Send(r)
  PROVE  TripOK(r)' /\ EntryOK(cacheKey(Req(r)))'
<1> DEFINE k == cacheKey(Req(r))
<1>1. RoundTrip(r)
  BY DEF RoundTrip
<1>2. /\ Later /\ versions' = versions /\ Req(r)' = Req(r) /\ k \in Keys /\ now' = now
      /\ EntryOK(k) /\ TripOK(r)
  BY <1>1, TripStart
<1>3. /\ at[r] = "send" /\ at'[r] = "settle" /\ cached'[r] = cached[r] /\ sent'[r] = sent[r]
      /\ via' = via /\ cache' = cache
  BY DEF Send, Goto, TransportTypeOK
<1>4. FoundOK(r)'
  BY <1>1, <1>3, FoundEntry
<1>5. SentOK(r)' /\ ToStoreOK(r)'
  BY <1>2, <1>3 DEF TripOK, SentOK, ToStoreOK
<1>6. EntryOK(k)'
  BY <1>1, <1>2, <1>3, EntryKept
<1>7. via[r] = "none" /\ via'[r] = "none"
  BY <1>2, <1>3 DEF TripOK, ReturnOK
<1>8. ReturnOK(r)'
  BY <1>2, <1>3, <1>7 DEF TripOK, ReturnOK
<1>9. CASE resp' = [resp EXCEPT ![r] = NoResponse]
  <2>1. AnswerOK(r)'
    BY <1>9 DEF AnswerOK, TransportTypeOK
  <2> QED
    BY <1>4, <1>5, <1>6, <1>8, <2>1 DEF TripOK
<1>10. ASSUME NEW policy \in Policies, NEW status \in Statuses \cup {304},
              status = 304 => Req(r).method \in {"GET", "HEAD"} /\ sent[r] = Etag(r, policy),
              resp' = [resp EXCEPT ![r] = Headers(r, policy, status)]
       PROVE  AnswerOK(r)'
  <2> DEFINE e == Headers(r, policy, status)
  <2>1. resp'[r] = e
    BY <1>10 DEF TransportTypeOK
  <2>2. /\ ~MadeUp(e)
        /\ e.status \in {200, 304} /\ Given(e.date) =>
             e.date \in 1 .. now /\ versions[e.date] = e.version
        /\ e.variant = Chosen(r, e) /\ e.varied = NoVariant /\ e.status = status
        /\ Given(e.etag) => e.etag = <<e.version, e.variant>>
        /\ e.status = 304 => Etag(r, policy) = <<e.version, e.variant>>
        /\ Given(Etag(r, policy))
    BY HeadersType
  <2>3. e.status = 304 => sent[r] = <<e.version, e.variant>> /\ Given(sent[r])
    BY <1>10, <2>2
  <2> HIDE DEF e
  <2> QED
    BY <1>2, <1>3, <2>1, <2>2, <2>3 DEF AnswerOK, Chosen
<1> QED
  BY <1>4, <1>5, <1>6, <1>8, <1>9, <1>10 DEF Send, TripOK

(* A 304 to the validators of the entry is about the entry: its body is    *)
(* the version that the origin has at the date of the 304, of the variant  *)
(* that it would choose.  One to validators of the caller is the mistake.  *)
LEMMA SettleNotModifiedStep ==
  ASSUME TransportTypeOK, CacheInv, TripInv, NEW r \in RoundTrips, SettleNotModified(r)
  PROVE  TripOK(r)' /\ EntryOK(cacheKey(Req(r)))'
<1> DEFINE k == cacheKey(Req(r))
           entry == cached[r]
           answer == resp[r]
           e == Updated(entry, answer)
<1>1. RoundTrip(r)
  BY DEF RoundTrip
<1>2. /\ Later /\ versions' = versions /\ Req(r)' = Req(r) /\ k \in Keys /\ now' = now
      /\ EntryOK(k) /\ TripOK(r)
  BY <1>1, TripStart
<1>3. /\ at[r] = "settle" /\ at'[r] = "store" /\ cached'[r] = entry /\ sent'[r] = sent[r]
      /\ resp'[r] = e /\ via'[r] = "notModified" /\ cache' = cache
      /\ entry # NoResponse /\ answer # NoResponse /\ answer.status = 304
  BY DEF SettleNotModified, NotModified, InHand, Goto, Answer, TransportTypeOK
<1>4. entry \in Responses /\ answer \in Responses
  BY <1>3 DEF TransportTypeOK, MaybeResponses
<1>5. /\ e.date = IF Given(answer.date) THEN answer.date ELSE entry.date
      /\ e.vary = (entry.vary \/ answer.vary)
      /\ e.etag = IF Given(answer.etag) THEN answer.etag ELSE entry.etag
      /\ e.status = entry.status /\ e.version = entry.version
      /\ e.variant = entry.variant /\ e.varied = entry.varied
  BY <1>4, UpdatedType
<1>6. /\ Given(answer.date) =>
           answer.date \in 1 .. now /\ versions[answer.date] = answer.version
      /\ answer.variant = Chosen(r, answer)
      /\ Given(answer.etag) => answer.etag = <<answer.version, answer.variant>>
      /\ sent[r] = <<answer.version, answer.variant>> /\ Given(sent[r])
  BY <1>2, <1>3 DEF TripOK, AnswerOK
<1>7. \/ sent[r] = Req(r).validator
      \/ Given(entry.etag) /\ sent[r] = entry.etag /\ varyMatches(entry, Req(r))
  BY <1>2, <1>3 DEF TripOK, SentOK
<1>8. /\ TimeoutTaken \/ Bare(entry)
      /\ Mistaken \/ Sound(entry, versions)
      /\ PageOK(Req(r).method, entry)
  BY <1>2, <1>3 DEF TripOK, FoundOK
<1> HIDE DEF e, entry, answer
<1>9. MadeUp(e) => TimeoutTaken'
  <2>1. SUFFICES ASSUME MadeUp(e), ~TimeoutTaken PROVE TimeoutTaken'
    BY <1>2 DEF Later
  <2>2. ~Given(entry.etag)
    BY <1>5, <1>8, <2>1 DEF Bare, MadeUp
  <2>3. Given(Req(r).validator)
    BY <1>6, <1>7, <2>2
  <2> QED
    BY <1>2, <1>3, <2>1, <2>3 DEF TimeoutTaken
<1>10. Mistaken' \/ (Matches(e, versions) /\ Varied(r)'.varied = e.variant)
  <2>1. CASE Mistaken
    BY <1>2, <2>1 DEF Later
  <2>2. CASE sent[r] = Req(r).validator
    BY <1>2, <1>3, <1>6, <2>2 DEF Mistaken
  <2>3. CASE /\ Sound(entry, versions)
             /\ Given(entry.etag) /\ sent[r] = entry.etag /\ varyMatches(entry, Req(r))
    <3>1. /\ entry.etag[1] = answer.version
          /\ entry.etag[2] = answer.variant /\ entry.variant = answer.variant
      BY <1>6, <2>3 DEF Sound, Matches
    <3>2. Matches(e, versions)
      <4>1. Matches(entry, versions)
        BY <2>3 DEF Sound
      <4>2. e.status = 200 /\ Given(e.date) =>
              e.date \in 1 .. Len(versions) /\ versions[e.date] = e.version
        <5>1. CASE Given(answer.date)
          <6>1. e.date \in 1 .. Len(versions) /\ versions[e.date] = entry.etag[1]
            BY <1>5, <1>6, <3>1, <5>1 DEF now
          <6>2. e.status = 200 => entry.etag[1] = e.version
            BY <1>5, <2>3, <4>1 DEF Matches
          <6> QED
            BY <6>1, <6>2
        <5>2. CASE ~Given(answer.date)
          BY <1>5, <4>1, <5>2 DEF Matches
        <5> QED
          BY <5>1, <5>2
      <4>3. Given(e.etag) => e.etag[1] = entry.etag[1] /\ e.etag[2] = e.variant
        <5>1. CASE Given(answer.etag)
          BY <1>5, <1>6, <3>1, <5>1
        <5>2. CASE ~Given(answer.etag)
          BY <1>5, <2>3, <4>1, <5>2 DEF Matches
        <5> QED
          BY <5>1, <5>2
      <4>4. e.status = 200 /\ Given(e.etag) => e.etag[1] = e.version
        BY <1>5, <2>3, <4>1, <4>3 DEF Matches
      <4>5. ~e.vary => e.variant = NoVariant
        BY <1>5, <4>1 DEF Matches
      <4> QED
        BY <4>2, <4>3, <4>4, <4>5 DEF Matches
    <3>3. Varied(r)'.varied = IF e.vary /\ Req(r).variant # NoVariant
                                THEN Req(r).variant ELSE e.varied
      <4>1. Varied(r)' = IF e.vary /\ Req(r).variant # NoVariant
                           THEN [e EXCEPT !.varied = Req(r).variant] ELSE e
        BY <1>2, <1>3 DEF Varied
      <4>2. e \in Responses
        BY <1>4, UpdatedType DEF e
      <4>3. [e EXCEPT !.varied = Req(r).variant].varied = Req(r).variant
        BY <4>2 DEF Responses
      <4> QED
        BY <4>1, <4>3
    <3>4. e.vary /\ Req(r).variant # NoVariant => Req(r).variant = e.variant
      <4>1. CASE answer.vary
        BY <1>5, <1>6, <3>1, <4>1 DEF Chosen
      <4>2. CASE entry.vary
        BY <1>5, <2>3, <4>2 DEF varyMatches, Sound
      <4> QED
        BY <1>5, <4>1, <4>2
    <3>5. e.varied = e.variant
      BY <1>5, <2>3 DEF Sound
    <3> QED
      BY <3>2, <3>3, <3>4, <3>5
  <2> QED
    BY <1>7, <1>8, <2>1, <2>2, <2>3
<1>11. FoundOK(r)'
  BY <1>1, <1>3, FoundEntry DEF entry
<1>12. SentOK(r)' /\ AnswerOK(r)'
  BY <1>3 DEF SentOK, AnswerOK
<1>13. ToStoreOK(r)'
  BY <1>2, <1>3, <1>9, <1>10 DEF ToStoreOK, Bare
<1>14. ReturnOK(r)'
  <2>1. resp'[r] # NoResponse
    BY <1>3, <1>4, UpdatedType, TransportAssumption DEF e
  <2>2. Req(r).method = "GET" /\ e.status = 304 => Asked'
    BY <1>2, <1>5, <1>8 DEF PageOK, Later
  <2> QED
    BY <1>2, <1>3, <1>9, <2>1, <2>2 DEF ReturnOK, PageOK
<1>15. EntryOK(k)'
  BY <1>1, <1>2, <1>3, EntryKept
<1> QED
  BY <1>11, <1>12, <1>13, <1>14, <1>15 DEF TripOK

(* The 504 comes out on an error only if the request itself says           *)
(* stale-if-error, while it has nothing of the origin's.                   *)
LEMMA SettleOnErrorStep ==
  ASSUME TransportTypeOK, CacheInv, TripInv, NEW r \in RoundTrips, SettleOnError(r)
  PROVE  TripOK(r)' /\ EntryOK(cacheKey(Req(r)))'
<1> DEFINE k == cacheKey(Req(r))
           entry == cached[r]
<1>1. RoundTrip(r)
  BY DEF RoundTrip
<1>2. /\ Later /\ versions' = versions /\ Req(r)' = Req(r) /\ k \in Keys
      /\ EntryOK(k) /\ TripOK(r)
  BY <1>1, TripStart
<1>3. /\ at'[r] = "done" /\ cached'[r] = entry /\ resp'[r] = entry /\ via'[r] = "onError"
      /\ entry # NoResponse /\ cache' = cache /\ canStaleOnError(entry, Req(r), now)
  BY DEF SettleOnError, StaleOnError, InHand, Goto, Answer, TransportTypeOK
<1>4. /\ TimeoutTaken \/ Bare(entry)
      /\ PageOK(Req(r).method, entry)
  BY <1>2, <1>3 DEF TripOK, FoundOK
<1>5. MadeUp(entry) => TimeoutTaken' \/ Given(Req(r).cc.staleIfError)
  <2>1. MadeUp(entry) /\ ~TimeoutTaken => ~Given(entry.cc.staleIfError)
    BY <1>4 DEF Bare
  <2>2. ~Given(entry.cc.staleIfError) => Given(Req(r).cc.staleIfError)
    BY <1>3, CacheControlAssumption DEF canStaleOnError, Given
  <2> QED
    BY <1>2, <2>1, <2>2 DEF Later
<1>6. FoundOK(r)'
  BY <1>1, <1>3, FoundEntry
<1>7. SentOK(r)' /\ AnswerOK(r)' /\ ToStoreOK(r)'
  BY <1>3 DEF SentOK, AnswerOK, ToStoreOK
<1>8. Req(r).method = "GET" /\ entry.status = 304 => Asked'
  BY <1>2, <1>4 DEF PageOK, Later
<1>9. ReturnOK(r)'
  <2> HIDE DEF entry, k
  <2> QED
    BY <1>2, <1>3, <1>5, <1>8 DEF ReturnOK, PageOK
<1>10. EntryOK(k)'
  BY <1>1, <1>2, <1>3, EntryKept
<1> QED
  BY <1>6, <1>7, <1>9, <1>10 DEF TripOK

(* The origin's answer is the response: a 304 only to validators of the    *)
(* caller.  An error is one that the entry in hand could not help with.    *)
LEMMA SettleOriginStep ==
  ASSUME TransportTypeOK, CacheInv, TripInv, NEW r \in RoundTrips, SettleOrigin(r)
  PROVE  TripOK(r)' /\ EntryOK(cacheKey(Req(r)))'
<1> DEFINE k == cacheKey(Req(r))
           e == resp[r]
<1>1. RoundTrip(r)
  BY DEF RoundTrip
<1>2. /\ Later /\ versions' = versions /\ Req(r)' = Req(r) /\ k \in Keys /\ now' = now
      /\ EntryOK(k) /\ TripOK(r) /\ now \in Nat
  BY <1>1, TripStart
<1>3. /\ at[r] = "settle" /\ cached'[r] = cached[r] /\ sent'[r] = sent[r]
      /\ cache'[k] = NoResponse \/ cache'[k] = cache[k]
      /\ ~NotModified(r) /\ ~StaleOnError(r)
  BY <1>2 DEF SettleOrigin, Goto, TransportTypeOK
<1>4. FoundOK(r)'
  BY <1>1, <1>3, FoundEntry
<1>5. EntryOK(k)'
  <2>1. CASE cache'[k] = NoResponse
    BY <1>1, <1>2, <2>1 DEF EntryOK
  <2>2. CASE cache'[k] = cache[k]
    BY <1>1, <1>2, <2>2, EntryKept
  <2> QED
    BY <1>3, <2>1, <2>2
<1>6. CASE Failed(r) /\ Goto(r, "settle", "done") /\ Answer(r, NoResponse, "error")
  <2>1. at'[r] = "done" /\ resp'[r] = NoResponse /\ via'[r] = "error" /\ e = NoResponse
    BY <1>6 DEF Failed, Goto, Answer, TransportTypeOK
  <2>2. SentOK(r)' /\ AnswerOK(r)' /\ ToStoreOK(r)'
    BY <2>1 DEF SentOK, AnswerOK, ToStoreOK
  <2>3. Req(r).method = "GET" /\ Req(r).cc.staleIfError = Empty =>
          cached[r] = NoResponse \/ cached[r].cc.staleIfError = Bad
    BY <1>3, <2>1 DEF StaleOnError, InHand, canStaleOnError
  <2>4. ReturnOK(r)'
    BY <1>2, <1>3, <2>1, <2>3 DEF ReturnOK
  <2> QED
    BY <1>4, <1>5, <2>2, <2>4 DEF TripOK
<1>7. CASE ~Failed(r) /\ Goto(r, "settle", "store") /\ Answer(r, e, "origin")
  <2>1. at'[r] = "store" /\ resp'[r] = e /\ via'[r] = "origin" /\ e # NoResponse
    BY <1>7 DEF Failed, Goto, Answer, TransportTypeOK
  <2>2. /\ ~MadeUp(e)
        /\ e.status \in {200, 304} /\ Given(e.date) =>
             e.date \in 1 .. now /\ versions[e.date] = e.version
        /\ e.variant = Chosen(r, e) /\ e.varied = NoVariant
        /\ Given(e.etag) => e.etag = <<e.version, e.variant>>
        /\ e.status = 304 => Given(sent[r])
    BY <1>2, <1>3, <2>1 DEF TripOK, AnswerOK
  <2>3. Req(r).method = "GET" /\ e.status = 304 => Given(Req(r).validator)
    BY <1>2, <1>3, <2>1, <2>2 DEF NotModified, InHand, TripOK, SentOK
  <2>4. SentOK(r)' /\ AnswerOK(r)'
    BY <2>1 DEF SentOK, AnswerOK
  <2>5. Bare(e) /\ Matches(e, versions)
    BY <2>2 DEF Bare, Matches, Chosen, now
  <2>6. Varied(r)'.varied = e.variant
    <3>1. Varied(r) = IF e.vary /\ Req(r).variant # NoVariant
                        THEN [e EXCEPT !.varied = Req(r).variant] ELSE e
      BY DEF Varied
    <3>2. Varied(r)' = Varied(r)
      BY <1>2, <2>1 DEF Varied
    <3>3. Varied(r).varied = IF e.vary /\ Req(r).variant # NoVariant
                               THEN Req(r).variant ELSE e.varied
      BY <2>1, VariedType
    <3> QED
      BY <2>2, <3>2, <3>3 DEF Chosen
  <2>7. ToStoreOK(r)'
    BY <1>2, <2>1, <2>5, <2>6 DEF ToStoreOK
  <2>8. ReturnOK(r)'
    <3> HIDE DEF e
    <3> QED
      BY <1>2, <2>1, <2>2, <2>3 DEF ReturnOK
  <2> QED
    BY <1>4, <1>5, <2>4, <2>7, <2>8 DEF TripOK
<1> QED
  BY <1>6, <1>7 DEF SettleOrigin

(* A 304 that is about to be stored as a page is one that a caller asked   *)
(* for.                                                                    *)
LEMMA PageToStore ==
  ASSUME NEW r \in RoundTrips, ReturnOK(r), resp[r] # NoResponse, at[r] \in {"store", "body"},
         TransportTypeOK
  PROVE  PageOK(Req(r).method, resp[r])
<1>1. via[r] \in Ways /\ via[r] # "none" /\ via[r] # "error"
  BY DEF ReturnOK, TransportTypeOK
<1>2. CASE via[r] = "origin"
  BY <1>2 DEF ReturnOK, PageOK, Asked
<1>3. CASE via[r] \in {"fresh", "notModified", "onError"}
  BY <1>3 DEF ReturnOK
<1>4. CASE via[r] = "onlyIfCached"
  BY <1>4 DEF ReturnOK, PageOK
<1> QED
  BY <1>1, <1>2, <1>3, <1>4 DEF Ways

(* What is stored, now or at the end of the body, remembers its variant    *)
(* and is not one that must not be stored.                                 *)
LEMMA StoreStep ==
  ASSUME TransportTypeOK, CacheInv, TripInv, NEW r \in RoundTrips, Store(r)
  PROVE  TripOK(r)' /\ EntryOK(cacheKey(Req(r)))'
<1> DEFINE k == cacheKey(Req(r))
           stored == cacheable(Req(r)) /\ canStore(Req(r), resp[r])
           e == Varied(r)
<1>1. RoundTrip(r)
  BY DEF RoundTrip
<1>2. /\ Later /\ versions' = versions /\ Req(r)' = Req(r) /\ k \in Keys /\ k = Req(r).method
      /\ EntryOK(k) /\ TripOK(r)
  BY <1>1, TripStart
<1>3. /\ at[r] = "store" /\ at'[r] = IF stored /\ Req(r).method = "GET" THEN "body" ELSE "done"
      /\ cached'[r] = cached[r] /\ sent'[r] = sent[r] /\ via'[r] = via[r]
      /\ resp'[r] = IF stored THEN e ELSE resp[r]
      /\ resp[r] # NoResponse
  BY DEF Store, Goto, TransportTypeOK
<1>4. /\ e # NoResponse
      /\ e.date = resp[r].date /\ e.cc = resp[r].cc /\ e.vary = resp[r].vary
      /\ e.etag = resp[r].etag /\ e.status = resp[r].status
      /\ e.version = resp[r].version /\ e.variant = resp[r].variant
  BY <1>3, VariedType
<1>5. /\ TimeoutTaken \/ Bare(e)
      /\ Mistaken \/ Sound(e, versions)
  <2>1. /\ TimeoutTaken \/ Bare(resp[r])
        /\ Mistaken \/ (Matches(resp[r], versions) /\ e.varied = resp[r].variant)
    BY <1>2, <1>3 DEF TripOK, ToStoreOK
  <2> HIDE DEF e
  <2> QED
    BY <1>4, <2>1 DEF Bare, MadeUp, Matches, Sound
<1>6. PageOK(k, resp[r])
  BY <1>2, <1>3, PageToStore DEF TripOK
<1>7. stored => ~e.cc.noStore
  BY <1>4 DEF canStore
<1>8. cache'[k] \in {NoResponse, cache[k], e} /\ (cache'[k] = e => stored \/ e = cache[k])
  BY <1>2, <1>4 DEF Store, TransportTypeOK
<1>9. FoundOK(r)'
  BY <1>1, <1>3, FoundEntry
<1>10. SentOK(r)' /\ AnswerOK(r)'
  BY <1>3 DEF SentOK, AnswerOK
<1> HIDE DEF e, stored
<1>11. ToStoreOK(r)'
  BY <1>2, <1>3, <1>5, <1>7 DEF ToStoreOK, Later
<1>12. ReturnOK(r)'
  BY <1>2, <1>3, <1>4 DEF TripOK, ReturnOK, PageOK, MadeUp, Later
<1>13. EntryOK(k)'
  <2>1. CASE cache'[k] = NoResponse
    BY <1>2, <2>1 DEF EntryOK
  <2>2. CASE cache'[k] = cache[k]
    BY <1>1, <1>2, <2>2, EntryKept
  <2>3. CASE cache'[k] = e /\ stored
    BY <1>2, <1>4, <1>5, <1>6, <1>7, <2>3 DEF EntryOK, PageOK, Later
  <2> QED
    BY <1>8, <2>1, <2>2, <2>3
<1> QED
  BY <1>9, <1>10, <1>11, <1>12, <1>13 DEF TripOK

(* The body is read to its end, if ever.                                   *)
LEMMA ReadBodyStep ==
  ASSUME TransportTypeOK, CacheInv, TripInv, NEW r \in RoundTrips, ReadBody(r)
  PROVE  TripOK(r)' /\ EntryOK(cacheKey(Req(r)))'
<1> DEFINE k == cacheKey(Req(r))
<1>1. RoundTrip(r)
  BY DEF RoundTrip
<1>2. /\ Later /\ versions' = versions /\ Req(r)' = Req(r) /\ k \in Keys /\ k = Req(r).method
      /\ EntryOK(k) /\ TripOK(r)
  BY <1>1, TripStart
<1>3. /\ at[r] = "body" /\ at'[r] = "done" /\ resp[r] # NoResponse
      /\ cached'[r] = cached[r] /\ sent'[r] = sent[r] /\ via'[r] = via[r] /\ resp'[r] = resp[r]
      /\ cache'[k] \in {cache[k], resp[r]}
  BY <1>2 DEF ReadBody, Dumped, Goto, TransportTypeOK
<1>4. /\ TimeoutTaken \/ Bare(resp[r])
      /\ Mistaken \/ Sound(resp[r], versions)
      /\ ~resp[r].cc.noStore
  BY <1>2, <1>3 DEF TripOK, ToStoreOK
<1>5. PageOK(k, resp[r])
  BY <1>2, <1>3, PageToStore DEF TripOK
<1>6. FoundOK(r)'
  BY <1>1, <1>3, FoundEntry
<1>7. SentOK(r)' /\ AnswerOK(r)' /\ ToStoreOK(r)'
  BY <1>3 DEF SentOK, AnswerOK, ToStoreOK
<1>8. ReturnOK(r)'
  BY <1>2, <1>3 DEF TripOK, ReturnOK, PageOK, Later
<1>9. EntryOK(k)'
  <2>1. CASE cache'[k] = cache[k]
    BY <1>1, <1>2, <2>1, EntryKept
  <2>2. CASE cache'[k] = resp[r]
    BY <1>2, <1>3, <1>4, <1>5, <2>2 DEF EntryOK, PageOK, Later
  <2> QED
    BY <1>3, <2>1, <2>2
<1> QED
  BY <1>6, <1>7, <1>8, <1>9 DEF TripOK

-----------------------------------------------------------------------------
(* The theorems *)

(* It holds at first: nothing is cached and nothing is asked.              *)
LEMMA TransportInvInit == Init => TransportInv
<1> SUFFICES ASSUME Init PROVE TransportInv
  OBVIOUS
<1>1. versions = <<1>> /\ Len(versions) = 1 /\ 1 \in 1 .. MaxVersions /\ 1 \in 1 .. MaxNow
  BY TransportAssumption DEF Init
<1>2. versions \in Seq(1 .. MaxVersions)
  BY <1>1
<1>3. TransportTypeOK
  BY <1>1, <1>2 DEF Init, TransportTypeOK, MaybeResponses, Steps, Ways, now
<1>4. CacheInv
  BY DEF Init, CacheInv, EntryOK
<1>5. TripInv
  BY DEF Init, TripInv, TripOK, FoundOK, SentOK, AnswerOK, ToStoreOK, ReturnOK
<1> QED
  BY <1>3, <1>4, <1>5 DEF TransportInv

(* Every step keeps it: the round trip that moves by the lemma of its      *)
(* action, the others and the other entries because it is later.           *)
LEMMA TransportInvStep == TransportInv /\ [Next]_vars => TransportInv'
<1> SUFFICES ASSUME TransportTypeOK, CacheInv, TripInv, [Next]_vars
             PROVE  TransportTypeOK' /\ CacheInv' /\ TripInv'
  BY DEF TransportInv
<1>1. CASE Tick
  <2>1. TransportTypeOK' /\ Later
    BY <1>1, TickLater
  <2>2. \A x \in RoundTrips : Still(x)
    BY <1>1 DEF Tick, Still
  <2>3. cache' = cache
    BY <1>1 DEF Tick
  <2>4. TripInv'
    BY <2>1, <2>2, TripKept DEF TripInv
  <2>5. CacheInv'
    BY <2>1, <2>3, EntryKept DEF CacheInv, Keys, AllRequests
  <2> QED
    BY <2>1, <2>4, <2>5
<1>2. ASSUME NEW r \in RoundTrips, RoundTrip(r)
      PROVE  TransportTypeOK' /\ CacheInv' /\ TripInv'
  <2>1. TransportTypeOK' /\ Later
    BY <1>2, TripTypes, TripLater
  <2>2. TripOK(r)' /\ EntryOK(cacheKey(Req(r)))'
    BY <1>2, LookupFreshStep, LookupStaleStep, LookupMissStep, SendStep, SettleNotModifiedStep,
       SettleOnErrorStep, SettleOriginStep, StoreStep, ReadBodyStep DEF RoundTrip
  <2>3. /\ \A x \in RoundTrips \ {r} : Still(x)
        /\ \A k \in Keys \ {cacheKey(Req(r))} : cache'[k] = cache[k]
    BY <1>2, TripFrame
  <2>4. ASSUME NEW x \in RoundTrips PROVE TripOK(x)'
    <3>1. CASE x = r
      BY <2>2, <3>1
    <3>2. CASE x # r
      BY <2>1, <2>3, <3>2, TripKept DEF TripInv
    <3> QED
      BY <3>1, <3>2
  <2>5. ASSUME NEW k \in Keys PROVE EntryOK(k)'
    <3>1. CASE k = cacheKey(Req(r))
      BY <1>2, <2>2, <3>1, TripStart DEF EntryOK, PageOK
    <3>2. CASE k # cacheKey(Req(r))
      BY <2>1, <2>3, <3>2, EntryKept DEF CacheInv
    <3> QED
      BY <3>1, <3>2
  <2> QED
    BY <2>1, <2>4, <2>5 DEF TripInv, CacheInv
<1>3. CASE UNCHANGED vars
  <2>1. TransportTypeOK'
    BY <1>3 DEF vars, TransportTypeOK, now
  <2>2. Later
    BY <1>3 DEF vars, Later, Mistaken, TimeoutTaken, Asked, Req, now, TransportTypeOK
  <2>3. (\A x \in RoundTrips : Still(x)) /\ cache' = cache
    BY <1>3 DEF vars, Still
  <2>4. TripInv'
    BY <2>2, <2>3, TripKept DEF TripInv
  <2>5. CacheInv'
    BY <2>2, <2>3, EntryKept DEF CacheInv, Keys, AllRequests
  <2> QED
    BY <2>1, <2>4, <2>5
<1> QED
  BY <1>1, <1>2, <1>3 DEF Next

(* Each entry and each response in hand has the date, the etag and the     *)
(* variant of its body, or a 304 was mistaken; and a 304 that is kept for  *)
(* a page is one that a caller asked for.                                  *)
THEOREM TransportInvariant == Spec => []TransportInv
  BY TransportInvInit, TransportInvStep, PTL DEF Spec

(* The types: every response, cached or in hand, is one of the origin's or *)
(* the 504, and the response that is stored is never missing.              *)
THEOREM TransportTypeCorrect == Spec => []TransportTypeOK
<1>1. TransportInv => TransportTypeOK
  BY DEF TransportInv
<1> QED
  BY <1>1, TransportInvariant, PTL

(* no-store is kept: canStore looks at the headers that a 304 has moved.   *)
THEOREM NoStoreNeverKept == Spec => []NoStoreNotKept
<1>1. TransportInv => NoStoreNotKept
  BY DEF TransportInv, CacheInv, EntryOK, NoStoreNotKept
<1> QED
  BY <1>1, TransportInvariant, PTL

(* The Date of an entry is true of its body, in whatever order the round   *)
(* trips store what they got, unless a 304 was taken for another's.        *)
THEOREM DatesTrue == Spec => []DatesAreTrue
<1>1. TransportInv => DatesAreTrue
  BY DEF TransportInv, CacheInv, EntryOK, Sound, Matches, DatesAreTrue
<1> QED
  BY <1>1, TransportInvariant, PTL

(* 304 is never the answer of the origin to who has not asked for it, and  *)
(* it comes from the cache only after another caller has.                  *)
THEOREM NotModifiedAsked == Spec => []NotModifiedOnlyIfAsked
<1>1. TransportInv => NotModifiedOnlyIfAsked
  <2> SUFFICES ASSUME TransportInv, NEW r \in RoundTrips, Returned(r),
                      Req(r).method = "GET", ~Given(Req(r).validator), resp[r].status = 304
               PROVE  via[r] # "origin" /\ Asked
    BY DEF NotModifiedOnlyIfAsked, Asked
  <2>1. ReturnOK(r) /\ resp[r] # NoResponse /\ via[r] \in Ways
    BY DEF TransportInv, TripInv, TripOK, TransportTypeOK, Returned
  <2>2. via[r] \notin {"none", "origin", "onlyIfCached", "error"}
    BY <2>1 DEF ReturnOK, Returned
  <2>3. via[r] \in {"fresh", "notModified", "onError"}
    BY <2>1, <2>2 DEF Ways
  <2> QED
    BY <2>1, <2>3 DEF ReturnOK, PageOK
<1> QED
  BY <1>1, TransportInvariant, PTL

(* The 504 that is made up comes out for another request only through      *)
(* stale-if-error, until a 304 to validators of a caller is taken for one  *)
(* about it.                                                               *)
THEOREM GatewayTimeoutPrivate == Spec => []GatewayTimeoutKeptPrivate
<1>1. TransportInv => GatewayTimeoutKeptPrivate
  <2> SUFFICES ASSUME TransportInv, NEW r \in RoundTrips, Returned(r), MadeUp(resp[r])
               PROVE  \/ Req(r).cc.onlyIfCached
                      \/ Given(Req(r).cc.staleIfError) \/ TimeoutTaken
    BY DEF GatewayTimeoutKeptPrivate
  <2>1. ReturnOK(r) /\ resp[r] # NoResponse /\ via[r] \in Ways
    BY DEF TransportInv, TripInv, TripOK, TransportTypeOK, Returned
  <2>2. via[r] \notin {"none", "origin", "error"}
    BY <2>1 DEF ReturnOK, Returned
  <2>3. via[r] \in {"fresh", "notModified", "onError", "onlyIfCached"}
    BY <2>1, <2>2 DEF Ways
  <2> QED
    BY <2>1, <2>3 DEF ReturnOK
<1> QED
  BY <1>1, TransportInvariant, PTL

(* stale-if-error helps whoever had an entry in hand.                      *)
THEOREM StaleIfErrorHelpful == Spec => []StaleIfErrorHelps
<1>1. TransportInv => StaleIfErrorHelps
  BY DEF TransportInv, TripInv, TripOK, ReturnOK, StaleIfErrorHelps
<1> QED
  BY <1>1, TransportInvariant, PTL

(* A fresh entry is of the variant that is asked for.                      *)
THEOREM VariantRespected == Spec => []VaryRespected
<1>1. TransportInv => VaryRespected
  BY DEF TransportInv, TripInv, TripOK, ReturnOK, VaryRespected, Returned
<1> QED
  BY <1>1, TransportInvariant, PTL
-----------------------------------------------------------------------------
(* What the callers get *)

(* A response that has been returned has the date of its body.             *)
AnswerTrue(r) ==
  at[r] = "done" /\ resp[r] # NoResponse => Mistaken \/ Matches(resp[r], versions)

AnswersTrue == \A r \in RoundTrips : AnswerTrue(r)

(* So does the one that a step returns, from wherever it takes it.         *)
LEMMA AnswerStep ==
  ASSUME TransportInv, NEW r \in RoundTrips, RoundTrip(r), AnswerTrue(r),
         at'[r] = "done", resp'[r] # NoResponse
  PROVE  Mistaken \/ Matches(resp'[r], versions)
<1>0. TransportTypeOK /\ CacheInv /\ TripInv
  BY DEF TransportInv
<1>1. TripOK(r) /\ EntryOK(cacheKey(Req(r)))
  BY <1>0, TripStart
<1>2. CASE LookupFresh(r)
  <2>1. resp'[r] = cache[cacheKey(Req(r))] /\ cache[cacheKey(Req(r))] # NoResponse
    BY <1>0, <1>2 DEF LookupFresh, Answer, TransportTypeOK
  <2> QED
    BY <1>1, <2>1 DEF EntryOK, Sound
<1>3. CASE SettleOnError(r)
  <2>1. resp'[r] = cached[r] /\ cached[r] # NoResponse
    BY <1>0, <1>3 DEF SettleOnError, StaleOnError, InHand, Answer, TransportTypeOK
  <2> QED
    BY <1>1, <2>1 DEF TripOK, FoundOK, Sound
<1>4. CASE Store(r)
  <2>1. at[r] = "store" /\ resp[r] # NoResponse /\ resp'[r] \in {resp[r], Varied(r)}
    BY <1>0, <1>4 DEF Store, Goto, TransportTypeOK
  <2>2. Mistaken \/ Matches(resp[r], versions)
    BY <1>1, <2>1 DEF TripOK, ToStoreOK
  <2>3. /\ Varied(r).date = resp[r].date /\ Varied(r).vary = resp[r].vary
        /\ Varied(r).etag = resp[r].etag /\ Varied(r).status = resp[r].status
        /\ Varied(r).version = resp[r].version /\ Varied(r).variant = resp[r].variant
    BY <1>0, <2>1, VariedType
  <2>4. Matches(resp[r], versions) => Matches(Varied(r), versions)
    BY <2>3 DEF Matches
  <2> QED
    BY <2>1, <2>2, <2>4
<1>5. CASE ReadBody(r)
  <2>1. at[r] = "body" /\ resp' = resp
    BY <1>5 DEF ReadBody, Goto
  <2> QED
    BY <1>1, <2>1 DEF TripOK, ToStoreOK, Sound
<1>6. CASE SettleOrigin(r)
  <2>1. at[r] = "settle" /\ at' = [at EXCEPT ![r] = "done"] => resp'[r] = NoResponse
    BY <1>0, <1>6 DEF SettleOrigin, Goto, Answer, TransportTypeOK
  <2> QED
    BY <1>0, <1>6, <2>1 DEF SettleOrigin, Goto, Answer, TransportTypeOK
<1>7. CASE LookupStale(r) \/ LookupMiss(r) \/ Send(r) \/ SettleNotModified(r)
  BY <1>0, <1>7 DEF LookupStale, LookupMiss, Send, SettleNotModified, Goto, TransportTypeOK
<1> QED
  BY <1>2, <1>3, <1>4, <1>5, <1>6, <1>7 DEF RoundTrip

(* Nobody else's step, and no tick, takes that away.                       *)
LEMMA AnswerKept ==
  ASSUME TransportInv, NEW x \in RoundTrips, AnswerTrue(x), Later, Still(x)
  PROVE  AnswerTrue(x)'
<1>1. ASSUME at[x] = "done", resp[x] # NoResponse
      PROVE  Mistaken' \/ Matches(resp[x], versions')
  BY <1>1, LaterKeeps DEF AnswerTrue, Later, TransportInv
<1> QED
  BY <1>1 DEF AnswerTrue, Still

(* So all that is ever returned has the date of its body.                  *)
LEMMA AnswersInvariance == Spec => []AnswersTrue
<1>1. Init => AnswersTrue
  BY DEF Init, AnswersTrue, AnswerTrue
<1>2. TransportInv /\ AnswersTrue /\ [Next]_vars => AnswersTrue'
  <2> SUFFICES ASSUME TransportInv, AnswersTrue, [Next]_vars, NEW x \in RoundTrips
               PROVE  AnswerTrue(x)'
    BY DEF AnswersTrue
  <2>0. TransportTypeOK /\ CacheInv /\ TripInv /\ AnswerTrue(x)
    BY DEF TransportInv, AnswersTrue
  <2>1. CASE Tick
    BY <2>0, <2>1, TickLater, AnswerKept DEF Tick, Still
  <2>2. CASE UNCHANGED vars
    <3>1. Later /\ Still(x)
      BY <2>0, <2>2 DEF vars, Later, Mistaken, TimeoutTaken, Asked, Req, now,
         TransportTypeOK, Still
    <3> QED
      BY <2>0, <3>1, AnswerKept
  <2>3. ASSUME NEW r \in RoundTrips, RoundTrip(r) PROVE AnswerTrue(x)'
    <3>1. Later /\ versions' = versions
      BY <2>0, <2>3, TripStart
    <3>2. CASE x = r
      BY <2>0, <2>3, <3>1, <3>2, AnswerStep DEF AnswerTrue, Later
    <3>3. CASE x # r
      BY <2>0, <2>3, <3>1, <3>3, TripFrame, AnswerKept
    <3> QED
      BY <3>2, <3>3
  <2> QED
    BY <2>1, <2>2, <2>3 DEF Next
<1> QED
  BY <1>1, <1>2, TransportInvariant, PTL DEF Spec

(* The body that is returned is the version that the origin had at the     *)
(* Date that is returned with it.                                          *)
BodiesAreOfTheirDate ==
  \A r \in RoundTrips :
    Returned(r) /\ resp[r].status = 200 /\ Given(resp[r].date) =>
      \/ Mistaken
      \/ resp[r].date \in 1 .. now /\ versions[resp[r].date] = resp[r].version

(* cache.go, RoundTripRFC2616: on whatever way a page comes to a caller,   *)
(* with a 304 or an error of the origin between, while others exchange and *)
(* delete the entry, its body is what the origin had at its Date; only a   *)
(* 304 to validators of a caller can mix two versions.                     *)
THEOREM BodiesAreOfTheirDateHolds == Spec => []BodiesAreOfTheirDate
<1>1. TransportInv /\ AnswersTrue => BodiesAreOfTheirDate
  <2> SUFFICES ASSUME TransportInv, AnswersTrue, NEW r \in RoundTrips, Returned(r),
                      resp[r].status = 200, Given(resp[r].date), ~Mistaken
               PROVE  resp[r].date \in 1 .. now /\ versions[resp[r].date] = resp[r].version
    BY DEF BodiesAreOfTheirDate
  <2>1. Matches(resp[r], versions)
    BY DEF TransportInv, TripInv, TripOK, ToStoreOK, Sound, AnswersTrue, AnswerTrue, Returned
  <2> QED
    BY <2>1 DEF Matches, now
<1> QED
  BY <1>1, TransportInvariant, AnswersInvariance, PTL

(* A page that is returned without asking the origin was there less than   *)
(* its lifetime ago, and the max-stale of the request at most.             *)
FreshIsRecent ==
  [][\A r \in RoundTrips :
       LookupFresh(r) /\ resp'[r].status = 200
       /\ ~Req(r).cc.onlyIfCached /\ Req(r).cc.maxStale # Empty
       /\ SecondsOrZero(Req(r).cc.minFresh) >= 0
         => \/ Mistaken
            \/ \E t \in 1 .. now :
                 /\ versions[t] = resp'[r].version
                 /\ now - t < Lifetime(resp'[r], Req(r)) + SecondsOrZero(Req(r).cc.maxStale)]_vars

(* The age of a dated response says how long ago its date is.              *)
LEMMA FreshIsYoung ==
  ASSUME NEW page \in Responses, NEW req, NEW t \in Int, page.date \in Int,
         getFreshness(page, req, t) = "fresh",
         ~req.cc.onlyIfCached, req.cc.maxStale # Empty, SecondsOrZero(req.cc.minFresh) >= 0
  PROVE  t - page.date < Lifetime(page, req) + SecondsOrZero(req.cc.maxStale)
<1>1. Lifetime(page, req) > CurrentAge(page, req, t)
  BY DEF getFreshness
<1>2. page.expires = Absent
  BY DEF Responses
<1>3. Lifetime(page, req) \in Int
  BY <1>2, SecondsOrZeroInt DEF Lifetime, Given
<1>4. SecondsOrZero(req.cc.minFresh) \in Int /\ SecondsOrZero(req.cc.maxStale) \in Int
  BY SecondsOrZeroInt
<1> QED
  BY <1>1, <1>3, <1>4 DEF CurrentAge

(* getFreshness is right about the page, and not only about the headers:   *)
(* in whatever order entries were stored and 304s have moved their dates,  *)
(* a caller that is not asked for more gets no version that was replaced   *)
(* before its time.                                                        *)
THEOREM FreshIsRecentHolds == Spec => FreshIsRecent
<1>1. ASSUME TransportInv, NEW r \in RoundTrips, LookupFresh(r), resp'[r].status = 200,
             ~Req(r).cc.onlyIfCached, Req(r).cc.maxStale # Empty,
             SecondsOrZero(Req(r).cc.minFresh) >= 0, ~Mistaken
      PROVE  \E t \in 1 .. now :
               /\ versions[t] = resp'[r].version
               /\ now - t < Lifetime(resp'[r], Req(r)) + SecondsOrZero(Req(r).cc.maxStale)
  <2> DEFINE entry == cache[cacheKey(Req(r))]
  <2>0. TransportTypeOK /\ CacheInv /\ TripInv /\ RoundTrip(r)
    BY <1>1 DEF TransportInv, RoundTrip
  <2>1. /\ resp'[r] = entry /\ entry # NoResponse
        /\ getFreshness(entry, Req(r), now) = "fresh"
    BY <1>1, <2>0 DEF LookupFresh, Answer, TransportTypeOK
  <2>2. Matches(entry, versions) /\ now \in Nat
    BY <1>1, <2>0, <2>1, TripStart DEF EntryOK, Sound
  <2>3. entry \in Responses
    BY <2>0, <2>1, KeyOfTrip DEF TransportTypeOK, MaybeResponses
  <2> HIDE DEF entry
  <2>4. entry.date \in 1 .. now /\ versions[entry.date] = entry.version
    BY <1>1, <2>1, <2>2 DEF Matches, getFreshness, now
  <2>5. now - entry.date < Lifetime(entry, Req(r)) + SecondsOrZero(Req(r).cc.maxStale)
    BY <1>1, <2>1, <2>2, <2>3, <2>4, FreshIsYoung
  <2> QED
    BY <2>1, <2>4, <2>5
<1>2. TransportInv /\ [Next]_vars =>
        [\A r \in RoundTrips :
           LookupFresh(r) /\ resp'[r].status = 200
           /\ ~Req(r).cc.onlyIfCached /\ Req(r).cc.maxStale # Empty
           /\ SecondsOrZero(Req(r).cc.minFresh) >= 0
             => \/ Mistaken
                \/ \E t \in 1 .. now :
                     /\ versions[t] = resp'[r].version
                     /\ now - t < Lifetime(resp'[r], Req(r))
                                    + SecondsOrZero(Req(r).cc.maxStale)]_vars
  BY <1>1
<1> QED
  BY <1>2, TransportInvariant, PTL DEF Spec, FreshIsRecent
=============================================================================
