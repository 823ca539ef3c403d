---------------------------- MODULE CacheControl ----------------------------
(***************************************************************************)
(* The functions of cache/cache.go that look at the headers of a request   *)
(* and of a cached response and decide what may be done with them.         *)
(*                                                                         *)
(* Headers are records of what these functions read, not text.  A          *)
(* directive that carries seconds is Absent, Empty ("max-stale" without a  *)
(* value), Bad (a value time.ParseDuration refuses) or an integer, and so  *)
(* is a date: Absent stands for a missing or unreadable one.  Vary lists   *)
(* one header at most; etag stands for last-modified too, of which the     *)
(* transport makes the same use.                                           *)
(*                                                                         *)
(*   request   method, ranged, variant (the header that Vary lists),       *)
(*             validator (If-None-Match set by the caller), cc             *)
(*   response  date, expires, etag, vary, varied (X-Varied-...), cc (its   *)
(*             given says whether there is a Cache-Control at all)           *)
(***************************************************************************)
EXTENDS Integers

CONSTANTS Absent, Empty, Bad

ASSUME CacheControlAssumption ==
  /\ Absent \notin Int /\ Empty \notin Int /\ Bad \notin Int
  /\ Absent # Empty /\ Absent # Bad /\ Empty # Bad

(* A GET is cached under its URL, anything else under "METHOD URL".  One   *)
(* URL is followed, so that the method is the key.                         *)
cacheKey(req) == req.method

cacheable(req) == req.method \in {"GET", "HEAD"} /\ ~req.ranged

Given(v) == v # Absent

(* lifetime, err = time.ParseDuration(v + "s"); 0 on an error.             *)
SecondsOrZero(v) == IF v \in Int THEN v ELSE 0

(* Mutant: Vary is not looked at.                                          *)
Mutant_varyMatches(resp, req) == TRUE

(* X-Varied-... is what the header had when the response was stored.       *)
varyMatches(resp, req) == resp.vary => req.variant = resp.varied

(* max-age goes before Expires, the max-age of the request before both.    *)
Lifetime(resp, req) ==
  IF Given(req.cc.maxAge) THEN SecondsOrZero(req.cc.maxAge)
  ELSE IF Given(resp.cc.maxAge) THEN SecondsOrZero(resp.cc.maxAge)
  ELSE IF Given(resp.expires) THEN resp.expires - resp.date
  ELSE 0

(* currentAge, with min-fresh and max-stale.                               *)
CurrentAge(resp, req, now) ==
  now - resp.date + SecondsOrZero(req.cc.minFresh) - SecondsOrZero(req.cc.maxStale)

(* "fresh": the response can be returned; "stale": it has to be validated; *)
(* "transparent": it may not be used for this request.                     *)
getFreshness(resp, req, now) ==
  IF req.cc.noCache THEN "transparent"
  ELSE IF resp.cc.noCache THEN "stale"
  ELSE IF \/ req.cc.onlyIfCached
          \/ /\ Given(resp.date)
             /\ req.cc.maxStale = Empty \/ Lifetime(resp, req) > CurrentAge(resp, req, now)
    THEN "fresh"
    ELSE "stale"

(* Mutant: without stale-if-error.                                         *)
Mutant_canStaleOnError(resp, req, now) == TRUE

(* The later of the two directives counts, that of the request; Empty in   *)
(* either is for ever; one that cannot be read, or a negative one, never.  *)
canStaleOnError(resp, req, now) ==
  LET own == resp.cc.staleIfError
      asked == req.cc.staleIfError
      lifetime == IF Given(asked) THEN asked ELSE own
  IN  \/ own = Empty
      \/ /\ own # Bad
         /\ \/ asked = Empty
            \/ /\ lifetime \in Int
               /\ lifetime >= 0
               /\ Given(resp.date)
               /\ lifetime > now - resp.date

(* Mutant: only the request is looked at.                                  *)
Mutant_canStore(req, resp) == ~req.cc.noStore

canStore(req, resp) == ~resp.cc.noStore /\ ~req.cc.noStore
=============================================================================
