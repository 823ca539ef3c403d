------------------------------ MODULE Crawler ------------------------------
(***************************************************************************)
(* One crawl: Start, Do, do and recoverMe of geziyor.go, together with the *)
(* semaphores (module Semaphores) and the SIGINT goroutine (Interrupts).   *)
(*                                                                         *)
(* Every call of Do has a request of its own.  Start calls Do for the      *)
(* start URLs; a callback or an ErrorFunc, which runs in the goroutine of  *)
(* a request, calls it for the links it finds.  Do either starts a         *)
(* goroutine for do or, for a request with the Synchronized flag, calls it *)
(* and waits.                                                              *)
(*                                                                         *)
(* Left out: what a request fetches (modules of the client), the data that *)
(* callbacks export (the exporters are taken to end once g.Exports is      *)
(* closed), logging and the metrics.                                       *)
(***************************************************************************)
EXTENDS Semaphores, Interrupts

CONSTANTS
  Main,           \* the goroutine that runs Start
  StartRequests,  \* the requests for Opt.StartURLs; callbacks make the others
  Malformed,      \* requests whose URL http.NewRequest refuses
  Synchronized,   \* requests with req.Synchronized
  WithCallback,   \* requests with a callback, all of them if Opt.ParseFunc is set
  ErrorFunc,      \* Opt.ErrorFunc is set
  NoRequest       \* not inside a call of Do

ASSUME CrawlerAssumption ==
  /\ Main \notin Requests
  /\ NoRequest \notin Requests
  /\ StartRequests \subseteq Requests
  /\ Malformed \subseteq Requests
  /\ Synchronized \subseteq Requests
  /\ WithCallback \subseteq Requests
  /\ ErrorFunc \in BOOLEAN

Callers == Requests \cup {Main}

VARIABLES
  main,          \* the statement of Start that is next, see MainSteps
  stage,         \* how far each request is, see Stages
  inDo,          \* the request whose Do each caller is executing
  wgRequests,    \* the counter of g.wgRequests
  exportsClosed  \* g.Exports is closed

crawlVars == <<main, stage, inDo, wgRequests, exportsClosed>>
vars == <<semVars, interruptVars, crawlVars>>

(* "start": up to signal.Notify; "requests": the start requests; "wait":   *)
(* wgRequests.Wait; "close": close(g.Exports); "exporters":                *)
(* wgExporters.Wait; "notify": shutdownDoneChan <- ...                     *)
MainSteps == {"start", "requests", "wait", "close", "exporters", "notify", "returned"}

(* "dropped": Do refused it; "admitted": Do has read g.shutdown.  Then the *)
(* parts of do: the request middlewares, DoRequest, the response           *)
(* middlewares, the callback or ErrorFunc, and the deferred recoverMe and  *)
(* wgRequests.Done.                                                        *)
InBody == {"request", "fetch", "response", "user", "panicking", "returning", "recovered"}
Stages == {"none", "dropped", "admitted", "done"} \cup InBody

Init ==
  /\ SemInit
  /\ InterruptInit
  /\ main = "start"
  /\ stage = [r \in Requests |-> "none"]
  /\ inDo = [c \in Callers |-> NoRequest]
  /\ wgRequests = 0
  /\ exportsClosed = FALSE
-----------------------------------------------------------------------------
(* Do *)

(* The caller runs user code that may call Do now.                         *)
CanCall(c) ==
  /\ inDo[c] = NoRequest
  /\ IF c = Main THEN main = "requests" ELSE stage[c] = "user"

(* Get, GetRendered, Head or Post, or Do itself, is called: the first four *)
(* give up on a malformed URL, Do when g.shutdown is raised.  The SIGINT   *)
(* goroutine writes that flag without synchronization, so the read may     *)
(* miss it.                                                                *)
Do(c, r) ==
  /\ CanCall(c)
  /\ stage[r] = "none"
  /\ r \in StartRequests <=> c = Main
  /\ \/ /\ r \in Malformed \/ shutdown
        /\ stage' = [stage EXCEPT ![r] = "dropped"]
        /\ UNCHANGED inDo
     \/ /\ r \notin Malformed
        /\ stage' = [stage EXCEPT ![r] = "admitted"]
        /\ inDo' = [inDo EXCEPT ![c] = r]
  /\ UNCHANGED <<semVars, interruptVars, main, wgRequests, exportsClosed>>

(* Mutant: Add only for the requests that get a goroutine of their own.    *)
Mutant_WgAdd(r) == wgRequests' = wgRequests + (IF r \in Synchronized THEN 0 ELSE 1)

WgAdd(r) == wgRequests' = wgRequests + 1

(* g.wgRequests.Add(1), then go g.do(...), which lets the caller go on, or *)
(* g.do(...), which does not.                                              *)
Issue(c, r) ==
  /\ inDo[c] = r
  /\ stage[r] = "admitted"
  /\ stage' = [stage EXCEPT ![r] = "request"]
  /\ WgAdd(r)
  /\ Enter(r)
  /\ inDo' = IF r \in Synchronized THEN inDo ELSE [inDo EXCEPT ![c] = NoRequest]
  /\ UNCHANGED <<interruptVars, main, exportsClosed>>

(* A synchronous do has returned, and Do with it.                          *)
DoReturns(c, r) ==
  /\ inDo[c] = r
  /\ pc[r] = "ended"
  /\ inDo' = [inDo EXCEPT ![c] = NoRequest]
  /\ UNCHANGED <<semVars, interruptVars, main, stage, wgRequests, exportsClosed>>
-----------------------------------------------------------------------------
(* do, between acquireSem and releaseSem *)

Advance(r, from, to) ==
  /\ pc[r] = "running"
  /\ stage[r] = from
  /\ stage' = [stage EXCEPT ![r] = to]
  /\ UNCHANGED <<semVars, interruptVars, main, inDo, wgRequests, exportsClosed>>

(* A middleware cancels the request, or panics, or all let it pass.        *)
ProcessRequest(r) ==
  \E to \in {"fetch", "returning", "panicking"} : Advance(r, "request", to)

(* g.Client.DoRequest succeeds, panics (in a function of the user, such as *)
(* Opt.ProxyFunc), or fails and ErrorFunc is called if set.                *)
DoRequest(r) ==
  \/ \E to \in {"response", "panicking"} : Advance(r, "fetch", to)
  \/ Advance(r, "fetch", IF ErrorFunc THEN "user" ELSE "returning")

ProcessResponse(r) ==
  \/ Advance(r, "response", IF r \in WithCallback THEN "user" ELSE "returning")
  \/ Advance(r, "response", "panicking")

(* The callback, or ErrorFunc, returns or panics, outside calls of Do.     *)
UserReturns(r) ==
  /\ inDo[r] = NoRequest
  /\ \E to \in {"returning", "panicking"} : Advance(r, "user", to)

(* Deferred: recoverMe stops a panic and does nothing without one.         *)
RecoverMe(r) ==
  \E from \in {"returning", "panicking"} : Advance(r, from, "recovered")

(* Mutant: Done is forgotten.                                              *)
Mutant_WgSub == UNCHANGED wgRequests

WgSub == wgRequests' = wgRequests - 1

(* Deferred: g.wgRequests.Done(), before releaseSem.                       *)
WgDone(r) ==
  /\ stage[r] = "recovered"
  /\ stage' = [stage EXCEPT ![r] = "done"]
  /\ WgSub
  /\ Leave(r)
  /\ UNCHANGED <<interruptVars, main, inDo, exportsClosed>>

Semaphore(r) ==
  /\ AcquireSem(r) \/ ReleaseSem(r)
  /\ UNCHANGED <<interruptVars, crawlVars>>
-----------------------------------------------------------------------------
(* Start *)

MainGoes(from, to) ==
  /\ main = from
  /\ main' = to
  /\ UNCHANGED <<semVars, stage, inDo, wgRequests>>

(* The exporters are started, then the SIGINT goroutine.                   *)
StartNotify ==
  /\ MainGoes("start", "requests")
  /\ NotifyInterrupt
  /\ UNCHANGED exportsClosed

(* The loop over Opt.StartURLs is over.                                    *)
StartRequestsMade ==
  /\ inDo[Main] = NoRequest
  /\ \A r \in StartRequests : stage[r] # "none"
  /\ MainGoes("requests", "wait")
  /\ UNCHANGED <<interruptVars, exportsClosed>>

(* Mutant: Start goes on when one request is left.                         *)
Mutant_WgZero == wgRequests <= 1

WgZero == wgRequests = 0

(* g.wgRequests.Wait()                                                     *)
WaitRequests ==
  /\ WgZero
  /\ MainGoes("wait", "close")
  /\ UNCHANGED <<interruptVars, exportsClosed>>

(* close(g.Exports)                                                        *)
CloseExports ==
  /\ MainGoes("close", "exporters")
  /\ exportsClosed' = TRUE
  /\ UNCHANGED interruptVars

(* g.wgExporters.Wait()                                                    *)
WaitExporters ==
  /\ MainGoes("exporters", "notify")
  /\ UNCHANGED <<interruptVars, exportsClosed>>

(* shutdownDoneChan <- struct{}{}: waits for the goroutine's select.       *)
StartReturns ==
  /\ MainGoes("notify", "returned")
  /\ EndWaiter
  /\ UNCHANGED exportsClosed
-----------------------------------------------------------------------------
MainStep ==
  \/ StartNotify \/ StartRequestsMade \/ WaitRequests
  \/ CloseExports \/ WaitExporters \/ StartReturns
  \/ \E r \in Requests : Do(Main, r) \/ Issue(Main, r) \/ DoReturns(Main, r)

(* A step that is due in the goroutine of request c: all but a call of Do, *)
(* which its callback need not make.                                       *)
RequestStep(c) ==
  \/ Semaphore(c) \/ ProcessRequest(c) \/ DoRequest(c) \/ ProcessResponse(c)
  \/ UserReturns(c) \/ RecoverMe(c) \/ WgDone(c)
  \/ \E r \in Requests : Issue(c, r) \/ DoReturns(c, r)

SignalStep == (WaiterStep \/ Sigint) /\ UNCHANGED <<semVars, crawlVars>>

(* A process that was killed takes no further step.                        *)
Next ==
  /\ ~killed
  /\ \/ MainStep
     \/ \E c \in Requests : RequestStep(c) \/ \E r \in Requests : Do(c, r)
     \/ SignalStep

Spec == Init /\ [][Next]_vars

(* The Go scheduler runs every goroutine that can run; a fetch ends, as    *)
(* http.Client has a Timeout (a page rendered in Chrome, which has none,   *)
(* is taken to end too); and user code returns.  A ^C is never due.        *)
Fairness ==
  /\ WF_vars(~killed /\ MainStep)
  /\ \A c \in Requests : WF_vars(~killed /\ RequestStep(c))
  /\ WF_vars(~killed /\ WaiterStep /\ UNCHANGED <<semVars, crawlVars>>)

FairSpec == Spec /\ Fairness
-----------------------------------------------------------------------------
(* Properties *)

(* The types; wgRequests never goes below zero, which would panic.         *)
CrawlerTypeOK ==
  /\ SemTypeOK
  /\ InterruptTypeOK
  /\ main \in MainSteps
  /\ stage \in [Requests -> Stages]
  /\ inDo \in [Callers -> Requests \cup {NoRequest}]
  /\ wgRequests \in 0 .. Cardinality(Requests)
  /\ exportsClosed \in BOOLEAN

(* The counter of wgRequests is the number of requests between Add and     *)
(* Done, whichever way they leave do: cancelled, failed, panicked or done. *)
WgCounts == wgRequests = Cardinality({r \in Requests : stage[r] \in InBody})

(* No user code runs, and so none can send to g.Exports, once it is closed:*)
(* a send to a closed channel would panic and lose the item.               *)
ExportsOpenWhileUserCodeRuns ==
  exportsClosed =>
    /\ main # "requests"
    /\ \A r \in Requests : stage[r] \notin {"request", "response", "user"}

(* The rule of sync.WaitGroup: an Add that finds the counter at zero comes *)
(* before Wait.  After Start has called Wait, only a request that is still *)
(* counted can issue another.                                              *)
AddFromZeroOnlyBeforeWait ==
  [][(wgRequests = 0 /\ wgRequests' > 0) => main = "requests"]_vars

(* Without a SIGINT, Start returns only when every request anyone asked    *)
(* for, the start requests among them, went through do to its end.         *)
CrawlComplete ==
  main = "returned" /\ ~shutdown =>
    \A r \in Requests \ Malformed :
      \/ stage[r] = "done"
      \/ stage[r] = "none" /\ r \notin StartRequests

(* Counting in wgRequests detects the end of the crawl.                    *)
Termination == INSTANCE TerminationDetection
  WITH active <- {r \in Requests : stage[r] \in InBody}
                   \cup (IF main \in {"start", "requests"} THEN {Main} ELSE {}),
       detected <- main \in {"close", "exporters", "notify", "returned"}

ImplementsTermination == Termination!Spec

(* geziyor.go:312: interruptSignalWaiter "stops scraper if shutdownChan    *)
(* channel receives SIGINT".                                               *)
SigintStopsScraper == shutdown ~> (main = "returned" \/ killed)
=============================================================================
