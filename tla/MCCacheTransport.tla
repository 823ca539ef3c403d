-------------------------- MODULE MCCacheTransport --------------------------
(* CacheTransport on three round trips for one URL: a GET with a validator *)
(* of the caller, one with a header that Vary lists and stale-if-error,    *)
(* and one that is plain, only-if-cached, for a range, HEAD or POST.       *)
EXTENDS CacheTransport

CONSTANTS conditional, german, special

MCRequest ==
  [method |-> "GET", ranged |-> FALSE, variant |-> NoVariant, validator |-> Absent,
   cc |-> [noStore |-> FALSE, noCache |-> FALSE, onlyIfCached |-> FALSE, maxAge |-> Absent,
           minFresh |-> Absent, maxStale |-> Absent, staleIfError |-> Absent]]

MCRequestsOf ==
  [r \in RoundTrips |->
     CASE r = german      -> {[MCRequest EXCEPT !.variant = "de", !.cc.staleIfError = Empty]}
       [] r = conditional -> {[MCRequest EXCEPT !.validator = <<2, NoVariant>>]}
       [] r = special     -> {MCRequest,
                              [MCRequest EXCEPT !.cc.onlyIfCached = TRUE],
                              [MCRequest EXCEPT !.ranged = TRUE],
                              [MCRequest EXCEPT !.method = "HEAD"],
                              [MCRequest EXCEPT !.method = "POST"]}]

MCHeaders(vary, kept, maxAge) ==
  [etag |-> TRUE, dated |-> TRUE, vary |-> vary,
   cc |-> [given |-> TRUE, noStore |-> ~kept, noCache |-> FALSE, maxAge |-> maxAge,
           staleIfError |-> Absent]]

MCBare == [etag |-> FALSE, dated |-> FALSE, vary |-> FALSE, cc |-> NoDirectives]

MCPolicies == {MCHeaders(TRUE, TRUE, 1), MCHeaders(FALSE, FALSE, 1), MCBare}
=============================================================================
