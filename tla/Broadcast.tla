----------------------------- MODULE Broadcast -----------------------------
(***************************************************************************)
(* What g.Exports promises to the exporters (geziyor.go: "Send incoming    *)
(* data from exports to all of the exporter's chans"): every exporter gets *)
(* every item, all of them in the same order, and the crawl ends only      *)
(* after each of them has everything, or has given up with an error.       *)
(* Module ExportPipeline implements this specification.                    *)
(***************************************************************************)
EXTENDS Naturals, Sequences

CONSTANTS
  Items,       \* what the callbacks export
  Exporters    \* the exporters a crawl may be given

VARIABLES
  accepted,    \* the items sent so far, in order
  delivered,   \* how many of them each exporter of this crawl has
  gaveUp,      \* the exporters that returned an error
  finished     \* the crawl is over

broadcastVars == <<accepted, delivered, gaveUp, finished>>

Init ==
  /\ accepted = <<>>
  /\ \E given \in SUBSET Exporters : delivered = [e \in given |-> 0]
  /\ gaveUp = {}
  /\ finished = FALSE

Publish(i) ==
  /\ ~finished
  /\ accepted' = Append(accepted, i)
  /\ UNCHANGED <<delivered, gaveUp, finished>>

Deliver(e) ==
  /\ e \notin gaveUp
  /\ delivered[e] < Len(accepted)
  /\ delivered' = [delivered EXCEPT ![e] = @ + 1]
  /\ UNCHANGED <<accepted, gaveUp, finished>>

GiveUp(e) ==
  /\ ~finished
  /\ gaveUp' = gaveUp \cup {e}
  /\ UNCHANGED <<accepted, delivered, finished>>

Finish ==
  /\ \A e \in DOMAIN delivered \ gaveUp : delivered[e] = Len(accepted)
  /\ finished' = TRUE
  /\ UNCHANGED <<accepted, delivered, gaveUp>>

Next ==
  \/ \E i \in Items : Publish(i)
  \/ \E e \in DOMAIN delivered : Deliver(e) \/ GiveUp(e)
  \/ Finish

Spec == Init /\ [][Next]_broadcastVars
=============================================================================
