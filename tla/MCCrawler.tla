----------------------------- MODULE MCCrawler -----------------------------
(* Crawler on a few requests.  r1 comes from the start URLs, the others    *)
(* from callbacks or, in some configurations, also from the start URLs.    *)
EXTENDS Crawler

CONSTANTS hostA, hostB, r1, r2, r3, r4

MCOneHost == [r \in Requests |-> hostA]
MCTwoHosts == [r \in Requests |-> IF r = r1 THEN hostA ELSE hostB]
=============================================================================
