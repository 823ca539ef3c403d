-------------------------- MODULE ConcurrencyLimit --------------------------
(***************************************************************************)
(* What the global concurrency limit promises (options.go: "Concurrent     *)
(* requests limit"): requests are served one time each, and no more than   *)
(* Limit of them at the same moment.  How the crawler enforces it, with a  *)
(* channel used as a counting semaphore, is in module Semaphores, which    *)
(* implements this specification.                                          *)
(***************************************************************************)
EXTENDS Naturals, FiniteSets

CONSTANTS
  Requests,   \* the requests of one run
  Limit       \* how many may be in flight together, 0 for no limit

VARIABLES
  inFlight,   \* requests that are being served
  served      \* requests whose service is over

limitVars == <<inFlight, served>>

Init ==
  /\ inFlight = {}
  /\ served = {}

Begin(r) ==
  /\ r \notin inFlight \cup served
  /\ Limit = 0 \/ Cardinality(inFlight) < Limit
  /\ inFlight' = inFlight \cup {r}
  /\ UNCHANGED served

End(r) ==
  /\ r \in inFlight
  /\ inFlight' = inFlight \ {r}
  /\ served' = served \cup {r}

Next == \E r \in Requests : Begin(r) \/ End(r)

Spec == Init /\ [][Next]_limitVars

=============================================================================
