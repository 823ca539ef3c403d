---------------------------- MODULE MCCachedRetry ----------------------------
(* CachedRetry with a GET that is retried, while another goroutine makes   *)
(* GETs, one of them for a range, and a HEAD in any order.                 *)
EXTENDS CachedRetry

CONSTANTS other, good, bad, ok, unavailable

Get1 == [method |-> "GET", ranged |-> FALSE]

MCRequestsOf ==
  [r \in RoundTrips |->
     {Get1} \cup IF r = me THEN {} ELSE {[Get1 EXCEPT !.ranged = TRUE], [Get1 EXCEPT !.method = "HEAD"]}]

MCCodeOf == [p \in Pages |-> IF p = good THEN ok ELSE unavailable]
=============================================================================
