------------------------ MODULE TerminationDetection ------------------------
(***************************************************************************)
(* What Start promises about the end of a crawl: it is detected when there *)
(* is nothing left that could make another request, and never before.      *)
(* Something that is active, Start itself while it goes through the start  *)
(* URLs or a request whose callback runs, can activate another request.    *)
(* The WaitGroup wgRequests of geziyor.go detects termination by counting; *)
(* module Crawler implements this specification.                           *)
(***************************************************************************)
CONSTANTS
  Requests,   \* the requests of one crawl
  Main        \* the goroutine that runs Start

VARIABLES
  active,     \* who can still make a request
  detected    \* Start knows that the crawl is over

terminationVars == <<active, detected>>

Init ==
  /\ active = {Main}
  /\ detected = FALSE

Activate(c, r) ==
  /\ c \in active
  /\ r \notin active
  /\ active' = active \cup {r}
  /\ UNCHANGED detected

Finish(c) ==
  /\ c \in active
  /\ active' = active \ {c}
  /\ UNCHANGED detected

Detect ==
  /\ active = {}
  /\ detected' = TRUE
  /\ UNCHANGED active

Next ==
  \/ \E c \in Requests \cup {Main}, r \in Requests : Activate(c, r)
  \/ \E c \in Requests \cup {Main} : Finish(c)
  \/ Detect

Spec == Init /\ [][Next]_terminationVars
=============================================================================
