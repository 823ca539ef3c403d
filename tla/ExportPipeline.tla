--------------------------- MODULE ExportPipeline ---------------------------
(***************************************************************************)
(* startExporters of geziyor.go and the exporters of export/: the way of   *)
(* an item from a callback that sends it to g.Exports to the outputs.      *)
(*                                                                         *)
(*   g.Exports     buffered, one place; closed by Start when no request is *)
(*                 left (module Scrape joins the two)                      *)
(*   exporterChan  one unbuffered channel for each exporter                *)
(*                                                                         *)
(* One goroutine takes the items from g.Exports and offers each of them to *)
(* the exporters one after the other; without exporters another one drains *)
(* g.Exports.  An output is a sequence of lines.  A line is written whole  *)
(* or not at all: what a short write leaves in a file is not modelled.     *)
(***************************************************************************)
EXTENDS Naturals, Sequences, SequencesExt

CONSTANTS
  Items,           \* the items the callbacks send, each of them once
  Configurations,  \* what a crawl may have in Opt.Exporters, see Formats
  Unencodable,     \* items encoding/json refuses
  Rows,            \* items that are a slice or a map, which CSV prints
  NoItem           \* no item, and the empty line CSV prints for one not in Rows

(* The exporters of the package: JSONLine, JSON, CSV and PrettyPrint.      *)
Formats == {"jsonline", "json", "csv", "pretty"}

ASSUME ExportAssumption ==
  /\ Configurations \subseteq Seq(Formats)
  /\ Unencodable \subseteq Items
  /\ Rows \subseteq Items
  /\ NoItem \notin Items

VARIABLES
  format,       \* the exporters of this crawl, which stay what they are
  offered,      \* items whose callback is at g.Exports <- item
  accepted,     \* history: what was sent to g.Exports
  exportsClosed,\* g.Exports is closed
  queue,        \* the buffer of g.Exports
  inHand,       \* the item the distributing goroutine is offering
  next,         \* the exporter it offers the item to
  chansClosed,  \* the exporter channels are closed
  exporter,     \* each exporter, see Opening
  wgExporters,  \* the counter of g.wgExporters
  returned      \* g.wgExporters.Wait() of Start has returned

callbackVars == <<offered, accepted, exportsClosed>>
distributorVars == <<inHand, next, chansClosed>>
endVars == <<wgExporters, returned>>
exportVars == <<format, callbackVars, queue, distributorVars, exporter, endVars>>

n == Len(format)
Exporters == 1 .. n
Sent == {accepted[k] : k \in DOMAIN accepted}

(* at: "open", "receiving", "writing", "ended" or "failed"; got: what was  *)
(* received; buffer: the lines in the bufio.Writer of CSV; out: the lines  *)
(* of the output; fault: a write has failed.                               *)
Opening == [at |-> "open", got |-> <<>>, buffer |-> <<>>, out |-> <<>>, fault |-> FALSE]

(* The items that are left when JSON has left out what it cannot encode.   *)
Encodable(items) ==
  LET kept[k \in 0 .. Len(items)] ==
        IF k = 0 THEN <<>>
        ELSE IF items[k] \in Unencodable THEN kept[k - 1] ELSE Append(kept[k - 1], items[k])
  IN  kept[Len(items)]

(* The lines of some items: CSV prints an empty one for what is no row.    *)
Lines(f, items) ==
  IF f = "csv"
    THEN [k \in DOMAIN items |-> IF items[k] \in Rows THEN items[k] ELSE NoItem]
    ELSE Encodable(items)

(* One goroutine for each exporter is counted, or the draining one.        *)
Init ==
  /\ format \in Configurations
  /\ offered = {}
  /\ accepted = <<>>
  /\ exportsClosed = FALSE
  /\ queue = <<>>
  /\ inHand = NoItem
  /\ next = 1
  /\ chansClosed = FALSE
  /\ exporter = [e \in Exporters |-> Opening]
  /\ wgExporters = IF n = 0 THEN 1 ELSE n
  /\ returned = FALSE
-----------------------------------------------------------------------------
(* The callbacks and Start *)

(* A callback, which runs while g.Exports is open, comes to a send.        *)
Offer(i) ==
  /\ ~exportsClosed
  /\ i \notin offered \cup Sent
  /\ offered' = offered \cup {i}
  /\ UNCHANGED <<format, accepted, exportsClosed, queue, distributorVars, exporter, endVars>>

(* Mutant: room for two.                                                   *)
Mutant_HasRoom == Len(queue) < 2

(* make(chan interface{}, 1)                                               *)
HasRoom == Len(queue) < 1

(* g.Exports <- item: waits while the buffer is full.                      *)
Accept(i) ==
  /\ i \in offered
  /\ HasRoom
  /\ offered' = offered \ {i}
  /\ queue' = Append(queue, i)
  /\ accepted' = Append(accepted, i)
  /\ UNCHANGED <<format, exportsClosed, distributorVars, exporter, endVars>>

(* close(g.Exports), when no callback runs any more.                       *)
CloseExports ==
  /\ ~exportsClosed
  /\ offered = {}
  /\ exportsClosed' = TRUE
  /\ UNCHANGED <<format, offered, accepted, queue, distributorVars, exporter, endVars>>

(* Mutant: one exporter is not counted.                                    *)
Mutant_AllDone == wgExporters <= 1

AllDone == wgExporters = 0

(* g.wgExporters.Wait()                                                    *)
WaitExporters ==
  /\ exportsClosed
  /\ AllDone
  /\ ~returned
  /\ returned' = TRUE
  /\ UNCHANGED <<format, callbackVars, queue, distributorVars, exporter, wgExporters>>
-----------------------------------------------------------------------------
(* The distributing goroutine, and the one that drains *)

(* for data := range g.Exports                                             *)
Take ==
  /\ n # 0
  /\ inHand = NoItem
  /\ queue # <<>>
  /\ inHand' = Head(queue)
  /\ queue' = Tail(queue)
  /\ next' = 1
  /\ UNCHANGED <<format, callbackVars, chansClosed, exporter, endVars>>

(* exporterChan <- data, which waits for the exporter's receive.           *)
Hand(e) ==
  /\ inHand # NoItem
  /\ next = e
  /\ exporter[e].at = "receiving"
  /\ exporter' = [exporter EXCEPT ![e].at = "writing", ![e].got = Append(@, inHand)]
  /\ next' = next + 1
  /\ inHand' = IF e = n THEN NoItem ELSE inHand
  /\ UNCHANGED <<format, callbackVars, queue, chansClosed, endVars>>

(* g.Exports is closed and empty: the deferred loop of close(exporterChan).*)
CloseChans ==
  /\ n # 0
  /\ inHand = NoItem
  /\ queue = <<>>
  /\ exportsClosed
  /\ ~chansClosed
  /\ chansClosed' = TRUE
  /\ UNCHANGED <<format, callbackVars, queue, inHand, next, exporter, endVars>>

(* No exporters: for range g.Exports {}                                    *)
Drain ==
  /\ n = 0
  /\ queue # <<>>
  /\ queue' = Tail(queue)
  /\ UNCHANGED <<format, callbackVars, distributorVars, exporter, endVars>>

(* No exporters, g.Exports closed and empty: g.wgExporters.Done()          *)
DrainEnds ==
  /\ n = 0
  /\ queue = <<>>
  /\ exportsClosed
  /\ wgExporters > 0
  /\ wgExporters' = wgExporters - 1
  /\ UNCHANGED <<format, callbackVars, queue, distributorVars, exporter, returned>>
-----------------------------------------------------------------------------
(* An exporter: exporter.Export(exporterChan), defer g.wgExporters.Done()  *)

others == <<format, callbackVars, queue, distributorVars>>

(* The output file is open, and "[" written.                               *)
Open(e) ==
  /\ exporter[e].at = "open"
  /\ exporter' = [exporter EXCEPT ![e].at = "receiving"]
  /\ UNCHANGED <<others, endVars>>

(* The exporter is done with the item it received: the output is out, the  *)
(* buffer of CSV is buffer, and fault tells of a failed write.             *)
Written(e, out, buffer, fault) ==
  /\ exporter' = [exporter EXCEPT ![e].at = "receiving", ![e].out = out,
                                  ![e].buffer = buffer, ![e].fault = fault]
  /\ UNCHANGED <<others, endVars>>

Line(e) == Lines(format[e], <<Last(exporter[e].got)>>)

(* Mutant: writing goes on after an error.                                 *)
Mutant_Stuck(e) == FALSE

(* json.Encoder and bufio.Writer keep the first error of a write and       *)
(* return it for all that follows; PrettyPrint just prints the next item.  *)
Stuck(e) == exporter[e].fault /\ format[e] # "pretty"

(* JSON, JSONLine and PrettyPrint write each item at once, or go on without*)
(* one they cannot encode.                                                 *)
WriteItem(e) ==
  LET x == exporter[e] IN
  /\ format[e] # "csv"
  /\ Stuck(e) => Line(e) = <<>>
  /\ Written(e, x.out \o Line(e), <<>>, x.fault)

(* JSONLine logs the error of a write, and PrettyPrint does not look at it;*)
(* both go on to the next item.                                            *)
LoseItem(e) ==
  /\ format[e] \in {"jsonline", "pretty"}
  /\ Line(e) # <<>>
  /\ Written(e, exporter[e].out, <<>>, TRUE)

(* CSV prints a line into its buffer, which writes the lines it holds when *)
(* it is full.  An error of that write is logged, and all lines in the     *)
(* buffer are lost, as are those that follow.                              *)
BufferRow(e) ==
  LET x == exporter[e] IN
  /\ format[e] = "csv"
  /\ \/ ~Stuck(e) /\ Written(e, x.out, x.buffer \o Line(e), x.fault)
     \/ ~Stuck(e) /\ Written(e, x.out \o x.buffer, Line(e), x.fault)
     \/ Written(e, x.out, <<>>, TRUE)

(* Mutant: wgExporters.Done() is forgotten.                                *)
Mutant_Return(e, as) ==
  /\ exporter' = [exporter EXCEPT ![e] = as]
  /\ UNCHANGED <<others, wgExporters, returned>>

Return(e, as) ==
  /\ exporter' = [exporter EXCEPT ![e] = as]
  /\ wgExporters' = wgExporters - 1
  /\ UNCHANGED <<others, returned>>

(* The file cannot be opened or, with JSON, one of its parts not be        *)
(* written: Export returns the error, and nobody reads from its channel.   *)
Fail(e) ==
  /\ \/ exporter[e].at = "open" /\ format[e] # "pretty"
     \/ exporter[e].at = "writing" /\ format[e] = "json" /\ Line(e) # <<>>
     \/ exporter[e].at = "receiving" /\ format[e] = "json" /\ chansClosed
  /\ Return(e, [exporter[e] EXCEPT !.at = "failed", !.fault = TRUE])

(* Mutant: an exporter that returns while its channel is open.             *)
Mutant_ChannelEnded(e) == chansClosed \/ exporter[e].got # <<>>

ChannelEnded(e) == chansClosed

(* Mutant: no Flush.                                                       *)
Mutant_Ended(e) == {[exporter[e] EXCEPT !.at = "ended"]}

(* JSON writes "]"; CSV flushes its buffer, and nobody looks at the error. *)
Ended(e) ==
  LET x == [exporter[e] EXCEPT !.at = "ended", !.buffer = <<>>] IN
  IF x.fault \/ exporter[e].buffer = <<>>
    THEN {x}
    ELSE {[x EXCEPT !.out = @ \o exporter[e].buffer], [x EXCEPT !.fault = TRUE]}

(* range exports ends as the channel is closed.                            *)
Finish(e) ==
  /\ exporter[e].at = "receiving"
  /\ ChannelEnded(e)
  /\ \E x \in Ended(e) : Return(e, x)
-----------------------------------------------------------------------------
Distribute == Take \/ (\E e \in Exporters : Hand(e)) \/ CloseChans \/ Drain \/ DrainEnds

Write(e) ==
  /\ exporter[e].at = "writing"
  /\ WriteItem(e) \/ LoseItem(e) \/ BufferRow(e)

Next ==
  \/ \E i \in Items : Offer(i) \/ Accept(i)
  \/ CloseExports \/ WaitExporters
  \/ Distribute
  \/ \E e \in Exporters : Open(e) \/ Write(e) \/ Fail(e) \/ Finish(e)

Spec == Init /\ [][Next]_exportVars

MostExporters == UNION {DOMAIN c : c \in Configurations}

(* The goroutines of the pipeline run when they can, and a sender that     *)
(* waits for room gets it in turn; a callback need not export, and a write *)
(* need not fail.                                                          *)
PipelineFairness ==
  /\ WF_exportVars(Distribute)
  /\ \A i \in Items : SF_exportVars(Accept(i))
  /\ \A e \in MostExporters :
       WF_exportVars(e \in Exporters /\ (Open(e) \/ Write(e) \/ Finish(e)))

(* Start comes to close(g.Exports) when the callbacks have ended.          *)
FairSpec ==
  Spec /\ PipelineFairness /\ WF_exportVars(CloseExports) /\ WF_exportVars(WaitExporters)
-----------------------------------------------------------------------------
(* Properties *)

(* The types; g.Exports never holds more than one item, and wgExporters    *)
(* never goes below zero, which would panic.                               *)
ExportTypeOK ==
  /\ format \in Configurations
  /\ offered \subseteq Items
  /\ accepted \in Seq(Items)
  /\ exportsClosed \in BOOLEAN
  /\ queue \in Seq(Items) /\ Len(queue) <= 1
  /\ inHand \in Items \cup {NoItem}
  /\ next \in 1 .. n + 1
  /\ chansClosed \in BOOLEAN
  /\ exporter \in [Exporters ->
       [at: {"open", "receiving", "writing", "ended", "failed"}, got: Seq(Items),
        buffer: Seq(Items \cup {NoItem}), out: Seq(Items \cup {NoItem}), fault: BOOLEAN]]
  /\ wgExporters \in 0 .. n + 1
  /\ returned \in BOOLEAN

(* An output has the lines of the items in the order in which the callbacks*)
(* sent them, from the first one and without a gap, also after a write that*)
(* failed and next to an exporter that has given up.  PrettyPrint, which   *)
(* ignores a failed write, is the exception.                               *)
OutputHasNoGap ==
  \A e \in Exporters :
    format[e] # "pretty" => IsPrefix(exporter[e].out, Lines(format[e], accepted))

(* What a crawl that is killed loses: an output without a failed write     *)
(* lacks at most the last three items the callbacks could send, however    *)
(* slow the exporters are.  CSV is the exception, as it writes whole       *)
(* buffers.                                                                *)
KillLosesFew ==
  \A e \in Exporters :
    format[e] # "csv" /\ ~exporter[e].fault =>
      \E k \in 0 .. Len(accepted) :
        /\ k + 3 >= Len(accepted)
        /\ exporter[e].out = Lines(format[e], SubSeq(accepted, 1, k))

(* When Start goes on, an exporter of which no write failed has written    *)
(* every line of every item, whatever happened to the others.              *)
AllExported ==
  returned => \A e \in Exporters :
    ~exporter[e].fault => exporter[e].out = Lines(format[e], accepted)

(* No exporter has returned an error.                                      *)
NoFailure == \A e \in Exporters : exporter[e].at # "failed"

(* Without a failure Start comes back from wgExporters.Wait.               *)
ExportsEnd == []NoFailure => <>returned

(* Without a failure no callback waits for ever in its send, with any      *)
(* number of exporters or with none.                                       *)
EverySendEnds == []NoFailure => \A i \in Items : i \in offered ~> i \in Sent

(* geziyor.go:342: "When exports closed, close the exporter chans."        *)
ChansCloseAfterExports == exportsClosed /\ n # 0 ~> chansClosed

(* Seen from outside, the pipeline is a broadcast.                         *)
Abstract == INSTANCE Broadcast
  WITH Exporters <- MostExporters,
       delivered <- [e \in Exporters |-> Len(exporter[e].got)],
       gaveUp <- {e \in Exporters : exporter[e].at = "failed"},
       finished <- returned

ImplementsBroadcast == Abstract!Spec
=============================================================================
