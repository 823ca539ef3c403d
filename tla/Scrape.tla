------------------------------- MODULE Scrape -------------------------------
(***************************************************************************)
(* A whole crawl: module Crawler, whose callbacks export an item each,     *)
(* joined with module ExportPipeline.  The two share g.Exports, which      *)
(* Start closes when wgRequests is zero, and wgExporters, for which it     *)
(* waits then.  The item of a request bears the name of the request.       *)
(*                                                                         *)
(* A callback waits in its send while g.Exports is full, and keeps its     *)
(* places in the semaphores meanwhile: the exporters hold up the requests. *)
(***************************************************************************)
EXTENDS Crawler, Sequences

CONSTANTS
  Configurations,  \* what a crawl may have in Opt.Exporters
  NoItem           \* no item

VARIABLES format, offered, accepted, queue, inHand, next, chansClosed, exporter, wgExporters

Pipeline == INSTANCE ExportPipeline
  WITH Items <- Requests, Unencodable <- {}, Rows <- Requests,
       returned <- main \in {"notify", "returned"}

ASSUME ScrapeAssumption ==
  /\ Configurations \subseteq Seq(Pipeline!Formats)
  /\ NoItem \notin Requests

pipelineVars ==
  <<format, offered, accepted, queue, inHand, next, chansClosed, exporter, wgExporters>>
scrapeVars == <<vars, pipelineVars>>

ScrapeInit == Init /\ Pipeline!Init
-----------------------------------------------------------------------------
(* g.Exports <- item in the callback of r, or in its ErrorFunc: the send   *)
(* begins.                                                                 *)
Export(r) ==
  /\ stage[r] = "user"
  /\ inDo[r] = NoRequest
  /\ r \notin offered \cup Pipeline!Sent
  /\ offered' = offered \cup {r}
  /\ UNCHANGED <<vars, format, accepted, queue, inHand, next, chansClosed, exporter, wgExporters>>

(* A callback in a send neither returns nor calls Do.                      *)
CallbackFree(c) == c \notin offered

(* Mutant: Start does not wait for the exporters.                          *)
Mutant_ExportersDone == TRUE

ExportersDone == wgExporters = 0

(* Start, which passes wgExporters.Wait when every exporter is done.       *)
ScrapeMainStep ==
  /\ main = "exporters" => ExportersDone
  /\ MainStep
  /\ UNCHANGED pipelineVars

ScrapeRequestStep(c) ==
  /\ CallbackFree(c)
  /\ RequestStep(c)
  /\ UNCHANGED pipelineVars

(* The goroutines of the pipeline.                                         *)
Deliver(r) == UNCHANGED vars /\ Pipeline!Accept(r)

Distribute == UNCHANGED vars /\ Pipeline!Distribute

ExporterStep(e) ==
  /\ e \in Pipeline!Exporters
  /\ UNCHANGED vars
  /\ Pipeline!Open(e) \/ Pipeline!Write(e) \/ Pipeline!Finish(e)

ExporterFails(e) == UNCHANGED vars /\ Pipeline!Fail(e)

(* A process that was killed takes no further step.                        *)
ScrapeNext ==
  /\ ~killed
  /\ \/ ScrapeMainStep
     \/ \E c \in Requests : ScrapeRequestStep(c) \/ Export(c) \/ Deliver(c)
     \/ \E c, r \in Requests : CallbackFree(c) /\ Do(c, r) /\ UNCHANGED pipelineVars
     \/ SignalStep /\ UNCHANGED pipelineVars
     \/ Distribute
     \/ \E e \in Pipeline!Exporters : ExporterStep(e) \/ ExporterFails(e)

ScrapeSpec == ScrapeInit /\ [][ScrapeNext]_scrapeVars

(* As in the two modules: what can run is run, user code outside its calls *)
(* returns, and a sender that waits for room in g.Exports gets it in turn. *)
ScrapeFairness ==
  /\ WF_scrapeVars(~killed /\ ScrapeMainStep)
  /\ \A c \in Requests : WF_scrapeVars(~killed /\ ScrapeRequestStep(c))
  /\ WF_scrapeVars(~killed /\ WaiterStep /\ UNCHANGED <<semVars, crawlVars, pipelineVars>>)
  /\ \A r \in Requests : SF_scrapeVars(~killed /\ Deliver(r))
  /\ WF_scrapeVars(~killed /\ Distribute)
  /\ \A e \in Pipeline!MostExporters : WF_scrapeVars(~killed /\ ExporterStep(e))

FairScrape == ScrapeSpec /\ ScrapeFairness
-----------------------------------------------------------------------------
(* Properties *)

(* The crawl keeps the two promises the pipeline relies on: g.Exports is   *)
(* not closed while a callback is in a send, and nothing is sent after.    *)
(* With that, all that holds of the pipeline holds of a crawl.             *)
ImplementsPipeline == Pipeline!Spec

(* Start returns unless ^C kills it, and every request gives back what it  *)
(* took, cancelled, failed or panicked ones as well, although callbacks    *)
(* keep their places in the semaphores while they wait for the exporters:  *)
(* provided that no exporter returns an error and no host gets a second    *)
(* channel.                                                                *)
ScrapeEnds ==
  []OneSemaphorePerHost /\ []Pipeline!NoFailure =>
    (main = "requests" ~>
       killed \/ (main = "returned" /\ \A r \in Requests : pc[r] \in {"idle", "ended"}))

(* An exporter that has returned an error holds up the crawl, but does not *)
(* let a callback or its item slip through: once Start has returned, every *)
(* item that was ever offered was taken, and is in the output of each      *)
(* exporter of which no write failed.                                      *)
NothingLost ==
  main = "returned" =>
    /\ offered = {}
    /\ \A e \in Pipeline!Exporters :
         ~exporter[e].fault => \A r \in Pipeline!Sent : \E k \in DOMAIN exporter[e].out : exporter[e].out[k] = r
=============================================================================
