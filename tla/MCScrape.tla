------------------------------ MODULE MCScrape ------------------------------
(* Scrape with three requests to two hosts, of which r1 comes from the     *)
(* start URLs and any of which may export, one place in either semaphore   *)
(* and no exporter or one that can fail at every write.                    *)
EXTENDS Scrape

CONSTANTS hostA, hostB, r1, r2, r3

MCTwoHosts == [r \in Requests |-> IF r = r1 THEN hostA ELSE hostB]

MCConfigurations == {<<>>, <<"json">>}
=============================================================================
