------------------------------ MODULE MCFetch ------------------------------
(* Fetch with two status codes, one of which is to be retried, and three   *)
(* proxies with an index of two bits.                                      *)
EXTENDS Fetch

CONSTANTS ok, unavailable
=============================================================================
