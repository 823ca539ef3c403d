--------------------------- MODULE CrawlerProofs ---------------------------
(***************************************************************************)
(* What holds of a crawl for every set of requests, whatever the callbacks *)
(* ask for, every limit and every number of ^C; alone, and with exporters: *)
(* a crawl keeps the two promises the export pipeline relies on, so that   *)
(* what is proved of the pipeline holds of a crawl as well.                *)
(***************************************************************************)
EXTENDS Scrape, SemaphoresProofs

PipelineProofs == INSTANCE ExportPipelineProofs
  WITH Items <- Requests, Unencodable <- {}, Rows <- Requests,
       returned <- main \in {"notify", "returned"}

(* These helpers of the actions are expanded everywhere.                   *)
USE DEF WgAdd, WgSub, WgZero, GlobalRoom, HostRoom, Receive, StopDelivery

-----------------------------------------------------------------------------
(* SIGINT *)

(* The channel is registered from signal.Notify to the first signal.Stop:  *)
(* at most one signal is in the buffer then, and at most one was received. *)
InterruptInv ==
  /\ InterruptTypeOK
  /\ announced + pending <= sent
  /\ announced + pending <= 2
  /\ waiter = "none" => announced = 0 /\ pending = 0 /\ ~shutdown /\ ~registered
  /\ registered => announced <= 1
  /\ registered /\ waiter \in {"select", "ended"} => announced = 0
  /\ registered /\ shutdown => waiter = "flagged"

(* The invariant holds before signal.Notify.                               *)
LEMMA InterruptInvInit == InterruptInit => InterruptInv
<1> SUFFICES ASSUME InterruptInit
             PROVE  InterruptInv
    OBVIOUS
<1>1. InterruptTypeOK
  <2>1. /\ sent \in 0 .. MaxSigints
        /\ announced \in 0 .. MaxSigints
        /\ pending \in 0 .. 1
        BY InterruptsAssumption DEF InterruptInit
  <2>2. /\ waiter \in {"none", "select", "announced", "flagged", "ended"}
        /\ registered \in BOOLEAN
        /\ shutdown \in BOOLEAN
        /\ killed \in BOOLEAN
        BY DEF InterruptInit
  <2> QED  BY <2>1, <2>2 DEF InterruptTypeOK
<1>2. announced + pending <= sent /\ announced + pending <= 2 /\ announced <= 1
      BY DEF InterruptInit
<1> QED  BY <1>1, <1>2 DEF InterruptInit, InterruptInv

(* Every step of the user, of Start and of the goroutine keeps it.         *)
LEMMA InterruptInvStep == InterruptInv /\ [InterruptNext]_interruptVars => InterruptInv'
<1> SUFFICES ASSUME InterruptInv, [InterruptNext]_interruptVars
             PROVE  InterruptInv'
    OBVIOUS
<1> USE InterruptsAssumption DEF InterruptInv, InterruptTypeOK
<1>1. CASE NotifyInterrupt
      BY <1>1 DEF NotifyInterrupt
<1>2. CASE Sigint
  <2>1. InterruptTypeOK'
    <3>1. killed' \in BOOLEAN
          BY <1>2 DEF Sigint
    <3> QED  BY <1>2, <3>1 DEF Sigint
  <2>2. /\ announced' + pending' <= sent'
        /\ announced' + pending' <= 2
    <3>1. CASE registered
          BY <1>2, <3>1 DEF Sigint
    <3>2. CASE ~registered
          BY <1>2, <3>2 DEF Sigint
    <3> QED  BY <3>1, <3>2
  <2>3. UNCHANGED <<waiter, registered, shutdown, announced>>
        BY <1>2 DEF Sigint
  <2>4. waiter = "none" => pending' = 0
        BY <1>2 DEF Sigint
  <2> QED  BY <2>1, <2>2, <2>3, <2>4
<1>3. CASE Announce
      BY <1>3 DEF Announce
<1>4. CASE RaiseShutdown
      BY <1>4 DEF RaiseShutdown
<1>5. CASE StopNotify
      BY <1>5 DEF StopNotify
<1>6. CASE EndWaiter
      BY <1>6 DEF EndWaiter
<1>7. CASE UNCHANGED interruptVars
      BY <1>7 DEF interruptVars
<1> QED
  BY <1>1, <1>2, <1>3, <1>4, <1>5, <1>6, <1>7 DEF InterruptNext, WaiterStep

(* The invariant holds whatever the user and the goroutine do.             *)
LEMMA InterruptInvariance == InterruptSpec => []InterruptInv
<1> QED  BY InterruptInvInit, InterruptInvStep, PTL DEF InterruptSpec

(* The runtime never finds more than one signal in shutdownChan.           *)
THEOREM InterruptTypeCorrect == InterruptSpec => []InterruptTypeOK
<1>1. InterruptInv => InterruptTypeOK
      BY DEF InterruptInv
<1> QED  BY <1>1, InterruptInvariance, PTL

(* "Send again to force" is printed twice at most, for any number of ^C.   *)
THEOREM AnnouncedAtMostTwiceHolds == InterruptSpec => []AnnouncedAtMostTwice
<1>1. InterruptInv => AnnouncedAtMostTwice
      BY DEF InterruptInv, InterruptTypeOK, AnnouncedAtMostTwice
<1> QED  BY <1>1, InterruptInvariance, PTL

(* Once the goroutine is back in its select, a further ^C ends the process.*)
THEOREM SettledSigintKillsHolds == InterruptSpec => SettledSigintKills
<1>1. InterruptInv /\ [InterruptNext]_interruptVars =>
        [(sent' # sent /\ shutdown /\ waiter \in {"select", "ended"}) => killed']_interruptVars
  <2> SUFFICES ASSUME InterruptInv, InterruptNext, sent' # sent,
                      shutdown, waiter \in {"select", "ended"}
               PROVE  killed'
      BY DEF interruptVars
  <2>1. Sigint
        BY DEF InterruptNext, WaiterStep, NotifyInterrupt, Announce, RaiseShutdown,
               StopNotify, EndWaiter
  <2> QED  BY <2>1 DEF Sigint, InterruptInv
<1> QED  BY <1>1, InterruptInvariance, PTL DEF InterruptSpec, SettledSigintKills
-----------------------------------------------------------------------------
(* The crawl *)

AfterWait == {"close", "exporters", "notify", "returned"}

(* The goroutine c is in code that may call Do.                            *)
InUserCode(c) == IF c = Main THEN main = "requests" ELSE stage[c] = "user"

CrawlTypes ==
  /\ main \in MainSteps
  /\ stage \in [Requests -> Stages]
  /\ inDo \in [Callers -> Requests \cup {NoRequest}]
  /\ exportsClosed \in BOOLEAN

(* Who is inside a call of Do was counted when the call began and still is.*)
CallersAreActive == \A c \in Callers : inDo[c] # NoRequest => InUserCode(c)

(* A request that Do let pass has its caller still inside Do.              *)
AdmittedHasCaller ==
  \A r \in Requests : stage[r] = "admitted" => \E c \in Callers : inDo[c] = r

NotYetInDo ==
  \A r \in Requests : pc[r] = "idle" <=> stage[r] \in {"none", "dropped", "admitted"}

(* After wgRequests.Wait nothing that could call Do is left.               *)
WaitIsFinal ==
  /\ main \in AfterWait => \A r \in Requests : stage[r] \notin InBody
  /\ exportsClosed => main \in AfterWait

StartRequestsSeen ==
  main \notin {"start", "requests"} => \A r \in StartRequests : stage[r] # "none"

DroppedForAReason ==
  \A r \in Requests : stage[r] = "dropped" => r \in Malformed \/ shutdown

CrawlInv ==
  /\ CrawlTypes
  /\ WgCounts
  /\ CallersAreActive
  /\ AdmittedHasCaller
  /\ NotYetInDo
  /\ WaitIsFinal
  /\ StartRequestsSeen
  /\ DroppedForAReason
-----------------------------------------------------------------------------
(* A crawl is a run of the semaphores and of the SIGINT goroutine *)

(* Every step of a crawl is a step of the semaphores, or leaves them       *)
(* alone: only the goroutine of a request moves its place in acquireSem    *)
(* and releaseSem.                                                         *)
LEMMA CrawlSemStep == [Next]_vars => [SemNext]_semVars
<1> SUFFICES ASSUME [Next]_vars
             PROVE  [SemNext]_semVars
    OBVIOUS
<1>1. CASE MainStep
      BY <1>1 DEF MainStep, StartNotify, StartRequestsMade, WaitRequests, CloseExports,
           WaitExporters, StartReturns, MainGoes, Do, Issue, DoReturns, SemNext
<1>2. ASSUME NEW c \in Requests, RequestStep(c)
      PROVE  [SemNext]_semVars
      BY <1>2 DEF RequestStep, Semaphore, ProcessRequest, DoRequest, ProcessResponse,
           UserReturns, RecoverMe, Advance, WgDone, Issue, DoReturns, SemNext
<1>3. ASSUME NEW c \in Requests, NEW r \in Requests, Do(c, r)
      PROVE  [SemNext]_semVars
      BY <1>3 DEF Do
<1>4. CASE SignalStep
      BY <1>4 DEF SignalStep
<1>5. CASE UNCHANGED vars
      BY <1>5 DEF vars
<1> QED  BY <1>1, <1>2, <1>3, <1>4, <1>5 DEF Next

(* Every step of a crawl is a step of the SIGINT goroutine, or leaves it   *)
(* alone.                                                                  *)
LEMMA CrawlInterruptStep == [Next]_vars => [InterruptNext]_interruptVars
<1> SUFFICES ASSUME [Next]_vars
             PROVE  [InterruptNext]_interruptVars
    OBVIOUS
<1>1. CASE ~killed /\ MainStep
      BY <1>1 DEF MainStep, StartNotify, StartRequestsMade, WaitRequests, CloseExports,
           WaitExporters, StartReturns, MainGoes, Do, Issue, DoReturns, InterruptNext
<1>2. ASSUME NEW c \in Requests, RequestStep(c)
      PROVE  [InterruptNext]_interruptVars
      BY <1>2 DEF RequestStep, Semaphore, ProcessRequest, DoRequest, ProcessResponse,
           UserReturns, RecoverMe, Advance, WgDone, Issue, DoReturns
<1>3. ASSUME NEW c \in Requests, NEW r \in Requests, Do(c, r)
      PROVE  [InterruptNext]_interruptVars
      BY <1>3 DEF Do
<1>4. CASE ~killed /\ SignalStep
      BY <1>4 DEF SignalStep, InterruptNext
<1>5. CASE UNCHANGED vars
      BY <1>5 DEF vars
<1> QED  BY <1>1, <1>2, <1>3, <1>4, <1>5 DEF Next

(* A crawl uses the semaphores as module Semaphores says, one acquireSem   *)
(* and one releaseSem for each request: what is proved there holds here.   *)
THEOREM CrawlIsSemaphores == Spec => SemSpec
<1> QED  BY CrawlSemStep, PTL DEF Spec, Init, SemSpec

(* No crawl has more than ConcurrentRequests requests in the body of do.   *)
THEOREM CrawlGlobalLimit == Spec => []GlobalLimit
<1> QED  BY CrawlIsSemaphores, GlobalLimitHolds, PTL

(* What is proved of the SIGINT goroutine alone holds in a crawl.          *)
LEMMA CrawlIsInterrupts == Spec => InterruptSpec
<1> QED  BY CrawlInterruptStep, PTL DEF Spec, Init, InterruptSpec

(* The semaphores and the SIGINT goroutine keep their types in a crawl.    *)
LEMMA CrawlSubTypes == Spec => [](SemTypeOK /\ InterruptTypeOK)
<1> QED
  BY CrawlIsSemaphores, SemTypeCorrect, CrawlIsInterrupts, InterruptTypeCorrect, PTL
-----------------------------------------------------------------------------
(* The invariant of a crawl *)

(* The invariant holds when Start is called.                               *)
LEMMA CrawlInvInit == Init => CrawlInv
<1> SUFFICES ASSUME Init
             PROVE  CrawlInv
    OBVIOUS
<1> USE CrawlerAssumption DEF Init
<1>1. CrawlTypes
      BY DEF CrawlTypes, MainSteps, Stages, Callers
<1>2. WgCounts
  <2>1. {r \in Requests : stage[r] \in InBody} = {}
        BY DEF InBody
  <2> QED  BY <2>1, FS_EmptySet DEF WgCounts
<1>3. CallersAreActive /\ AdmittedHasCaller
      BY DEF CallersAreActive, AdmittedHasCaller
<1>4. NotYetInDo
      BY DEF NotYetInDo, SemInit
<1>5. WaitIsFinal /\ StartRequestsSeen /\ DroppedForAReason
      BY DEF WaitIsFinal, AfterWait, StartRequestsSeen, DroppedForAReason
<1> QED  BY <1>1, <1>2, <1>3, <1>4, <1>5 DEF CrawlInv

(* The requests in do can be counted.                                      *)
LEMMA CountedFinite == IsFiniteSet({r \in Requests : stage[r] \in InBody})
<1>1. {r \in Requests : stage[r] \in InBody} \in SUBSET Requests
      OBVIOUS
<1> QED  BY <1>1, FS_Subset, SemaphoresAssumption

(* A step that moves no request into or out of the body of do.             *)
LEMMA WgUnmoved ==
  ASSUME WgCounts, wgRequests' = wgRequests,
         \A r \in Requests : stage'[r] \in InBody <=> stage[r] \in InBody
  PROVE  WgCounts'
<1>1. {r \in Requests : stage'[r] \in InBody} = {r \in Requests : stage[r] \in InBody}
      OBVIOUS
<1> QED  BY <1>1 DEF WgCounts, InBody

(* A call of Do, up to the read of g.shutdown, keeps the invariant.        *)
LEMMA DoStep ==
  ASSUME SemTypeOK, CrawlInv, NEW c \in Callers, NEW r \in Requests, Do(c, r)
  PROVE  CrawlInv'
<1> USE CrawlerAssumption
<1>0. CrawlTypes /\ CanCall(c) /\ stage[r] = "none"
      BY DEF CrawlInv, Do
<1>a. /\ UNCHANGED <<pc, main, wgRequests, exportsClosed, shutdown>>
      /\ \/ /\ stage' = [stage EXCEPT ![r] = "dropped"]
            /\ r \in Malformed \/ shutdown
            /\ UNCHANGED inDo
         \/ /\ stage' = [stage EXCEPT ![r] = "admitted"]
            /\ inDo' = [inDo EXCEPT ![c] = r]
      BY DEF Do, semVars, interruptVars
<1>1. CrawlTypes'
      BY <1>0, <1>a DEF CrawlTypes, Stages, InBody
<1>2. WgCounts'
  <2>1. \A x \in Requests : stage'[x] \in InBody <=> stage[x] \in InBody
        BY <1>0, <1>a DEF CrawlTypes, InBody
  <2> QED  BY <1>a, <2>1, WgUnmoved DEF CrawlInv
<1>3. \A x \in Callers : InUserCode(x) => InUserCode(x)'
      BY <1>0, <1>a DEF InUserCode, CrawlTypes, Callers
<1>4. CallersAreActive'
      BY <1>0, <1>a, <1>3 DEF CrawlInv, CallersAreActive, CrawlTypes, CanCall, InUserCode
<1>5. AdmittedHasCaller'
      BY <1>0, <1>a DEF CrawlInv, AdmittedHasCaller, CrawlTypes, CanCall
<1>6. NotYetInDo'
      BY <1>0, <1>a DEF CrawlInv, NotYetInDo, CrawlTypes
<1>7. WaitIsFinal' /\ StartRequestsSeen'
      BY <1>0, <1>a DEF CrawlInv, WaitIsFinal, AfterWait, StartRequestsSeen, CrawlTypes, InBody
<1>8. DroppedForAReason'
      BY <1>0, <1>a DEF CrawlInv, DroppedForAReason, CrawlTypes
<1> QED  BY <1>1, <1>2, <1>4, <1>5, <1>6, <1>7, <1>8 DEF CrawlInv

(* Add and the start of do keep the invariant: the caller is counted       *)
(* itself, or is Start before its Wait.                                    *)
LEMMA IssueStep ==
  ASSUME SemTypeOK, CrawlInv, NEW c \in Callers, NEW r \in Requests, Issue(c, r)
  PROVE  CrawlInv'
<1> USE CrawlerAssumption
<1>0. CrawlTypes /\ stage[r] = "admitted" /\ inDo[c] = r
      BY DEF CrawlInv, Issue
<1>a. /\ UNCHANGED <<main, exportsClosed, shutdown>>
      /\ stage' = [stage EXCEPT ![r] = "request"]
      /\ wgRequests' = wgRequests + 1
      /\ pc' = [pc EXCEPT ![r] = "global"]
      /\ inDo' = inDo \/ inDo' = [inDo EXCEPT ![c] = NoRequest]
      BY DEF Issue, Enter, Goto, interruptVars
<1>b. InUserCode(c)
      BY <1>0 DEF CrawlInv, CallersAreActive
<1>1. CrawlTypes'
      BY <1>0, <1>a DEF CrawlTypes, Stages, InBody
<1>2. WgCounts'
  <2>1. /\ {x \in Requests : stage'[x] \in InBody} = {x \in Requests : stage[x] \in InBody} \cup {r}
        /\ r \notin {x \in Requests : stage[x] \in InBody}
        BY <1>0, <1>a DEF CrawlTypes, InBody
  <2> DEFINE Counted == {x \in Requests : stage[x] \in InBody}
  <2>2. Cardinality(Counted \cup {r}) = Cardinality(Counted) + 1
        BY <2>1, CountedFinite, FS_AddElement
  <2>3. wgRequests = Cardinality(Counted)
        BY DEF CrawlInv, WgCounts
  <2> QED  BY <1>a, <2>1, <2>2, <2>3 DEF WgCounts, InBody
<1>3. \A x \in Callers : InUserCode(x) => InUserCode(x)'
      BY <1>0, <1>a DEF InUserCode, CrawlTypes, Callers
<1>4. CallersAreActive'
      BY <1>0, <1>a, <1>3 DEF CrawlInv, CallersAreActive, CrawlTypes
<1>5. AdmittedHasCaller'
      BY <1>0, <1>a DEF CrawlInv, AdmittedHasCaller, CrawlTypes
<1>6. NotYetInDo'
      BY <1>0, <1>a DEF CrawlInv, NotYetInDo, CrawlTypes, SemTypeOK
<1>7. WaitIsFinal'
  <2>1. main \notin AfterWait
        BY <1>b DEF InUserCode, CrawlInv, WaitIsFinal, AfterWait, InBody, Callers
  <2> QED  BY <1>a, <2>1 DEF CrawlInv, WaitIsFinal, AfterWait
<1>8. StartRequestsSeen' /\ DroppedForAReason'
      BY <1>0, <1>a DEF CrawlInv, StartRequestsSeen, DroppedForAReason, CrawlTypes
<1> QED  BY <1>1, <1>2, <1>4, <1>5, <1>6, <1>7, <1>8 DEF CrawlInv

(* The return of a synchronous Do keeps the invariant.                     *)
LEMMA DoReturnsStep ==
  ASSUME SemTypeOK, CrawlInv, NEW c \in Callers, NEW r \in Requests, DoReturns(c, r)
  PROVE  CrawlInv'
<1> USE CrawlerAssumption
<1>a. /\ UNCHANGED <<pc, main, stage, wgRequests, exportsClosed, shutdown>>
      /\ pc[r] = "ended" /\ inDo[c] = r
      /\ inDo' = [inDo EXCEPT ![c] = NoRequest]
      BY DEF DoReturns, semVars, interruptVars
<1>1. CrawlTypes'
      BY <1>a DEF CrawlInv, CrawlTypes
<1>2. WgCounts' /\ NotYetInDo' /\ WaitIsFinal' /\ StartRequestsSeen' /\ DroppedForAReason'
      BY <1>a DEF CrawlInv, WgCounts, InBody, NotYetInDo, WaitIsFinal, AfterWait,
              StartRequestsSeen, DroppedForAReason
<1>3. CallersAreActive'
      BY <1>a DEF CrawlInv, CrawlTypes, CallersAreActive, InUserCode
<1>4. AdmittedHasCaller'
  <2>1. stage[r] # "admitted"
        BY <1>a DEF CrawlInv, NotYetInDo
  <2> QED  BY <1>a, <2>1 DEF CrawlInv, CrawlTypes, AdmittedHasCaller
<1> QED  BY <1>1, <1>2, <1>3, <1>4 DEF CrawlInv

(* A step within the body of do; user code ends outside calls of Do only.  *)
LEMMA AdvanceStep ==
  ASSUME SemTypeOK, CrawlInv, NEW r \in Requests,
         NEW from \in InBody, NEW to \in InBody, Advance(r, from, to),
         from = "user" => inDo[r] = NoRequest
  PROVE  CrawlInv'
<1> USE CrawlerAssumption
<1>a. /\ UNCHANGED <<pc, main, inDo, wgRequests, exportsClosed, shutdown>>
      /\ stage[r] = from
      /\ stage' = [stage EXCEPT ![r] = to]
      BY DEF Advance, semVars, interruptVars
<1>0. CrawlTypes
      BY DEF CrawlInv
<1>b. \A x \in Requests : stage'[x] # stage[x] => x = r /\ stage'[x] \in InBody /\ stage[x] \in InBody
      BY <1>0, <1>a DEF CrawlTypes
<1>1. CrawlTypes'
      BY <1>0, <1>a DEF CrawlTypes, Stages
<1>2. WgCounts'
      BY <1>a, <1>b, WgUnmoved DEF CrawlInv
<1>3. CallersAreActive'
      BY <1>0, <1>a, <1>b DEF CrawlInv, CallersAreActive, InUserCode, Callers
<1>4. AdmittedHasCaller' /\ NotYetInDo'
      BY <1>a, <1>b DEF CrawlInv, AdmittedHasCaller, NotYetInDo, InBody
<1>5. WaitIsFinal' /\ StartRequestsSeen' /\ DroppedForAReason'
      BY <1>a, <1>b DEF CrawlInv, WaitIsFinal, AfterWait, StartRequestsSeen,
                        DroppedForAReason, InBody
<1> QED  BY <1>1, <1>2, <1>3, <1>4, <1>5 DEF CrawlInv

(* The deferred Done keeps the invariant: nobody is left inside a call of  *)
(* Do that this request made.                                              *)
LEMMA WgDoneStep ==
  ASSUME SemTypeOK, CrawlInv, NEW r \in Requests, WgDone(r)
  PROVE  CrawlInv'
<1> USE CrawlerAssumption
<1>a. /\ UNCHANGED <<main, inDo, exportsClosed, shutdown>>
      /\ stage[r] = "recovered"
      /\ stage' = [stage EXCEPT ![r] = "done"]
      /\ wgRequests' = wgRequests - 1
      /\ pc[r] = "running"
      /\ pc' = [pc EXCEPT ![r] = "relGlobal"]
      BY DEF WgDone, Leave, Goto, interruptVars
<1>0. CrawlTypes
      BY DEF CrawlInv
<1>1. CrawlTypes'
      BY <1>0, <1>a DEF CrawlTypes, Stages
<1>2. WgCounts'
  <2> DEFINE Counted == {x \in Requests : stage[x] \in InBody}
  <2>1. /\ {x \in Requests : stage'[x] \in InBody} = Counted \ {r}
        /\ r \in Counted
        BY <1>0, <1>a DEF CrawlTypes, InBody
  <2>2. Cardinality(Counted \ {r}) = Cardinality(Counted) - 1
        BY <2>1, CountedFinite, FS_RemoveElement
  <2>3. wgRequests = Cardinality(Counted)
        BY DEF CrawlInv, WgCounts
  <2> QED  BY <1>a, <2>1, <2>2, <2>3 DEF WgCounts, InBody
<1>3. CallersAreActive' /\ AdmittedHasCaller' /\ NotYetInDo'
      BY <1>0, <1>a DEF CrawlInv, CrawlTypes, CallersAreActive, InUserCode, Callers,
                        AdmittedHasCaller, NotYetInDo, SemTypeOK
<1>4. WaitIsFinal' /\ StartRequestsSeen' /\ DroppedForAReason'
      BY <1>0, <1>a DEF CrawlInv, CrawlTypes, WaitIsFinal, AfterWait, InBody,
                        StartRequestsSeen, DroppedForAReason
<1> QED  BY <1>1, <1>2, <1>3, <1>4 DEF CrawlInv

(* Waiting for a semaphore and giving it back keep the invariant.          *)
LEMMA SemaphoreStep ==
  ASSUME SemTypeOK, CrawlInv, NEW r \in Requests, Semaphore(r)
  PROVE  CrawlInv'
<1>a. UNCHANGED <<main, stage, inDo, wgRequests, exportsClosed, shutdown>>
      BY DEF Semaphore, crawlVars, interruptVars
<1>b. \A x \in Requests : pc[x] = "idle" <=> pc'[x] = "idle"
      BY DEF Semaphore, AcquireSem, AcquireGlobal, Lookup, Register, AcquireHost,
             ReleaseSem, ReleaseGlobal, ReleaseLookup, ReleaseHost, Goto, SemTypeOK
<1> QED
  BY <1>a, <1>b DEF CrawlInv, CrawlTypes, WgCounts, InBody, CallersAreActive, InUserCode,
     AdmittedHasCaller, NotYetInDo, WaitIsFinal, AfterWait, StartRequestsSeen, DroppedForAReason

(* The steps of Start outside Do keep the invariant.                       *)
LEMMA MainOwnStep ==
  ASSUME SemTypeOK, CrawlInv,
         \/ StartNotify \/ StartRequestsMade \/ WaitRequests
         \/ CloseExports \/ WaitExporters \/ StartReturns
  PROVE  CrawlInv'
<1>0. CrawlTypes
      BY DEF CrawlInv
<1>a. UNCHANGED <<pc, stage, inDo, wgRequests, shutdown>>
      BY DEF StartNotify, StartRequestsMade, WaitRequests, CloseExports, WaitExporters,
             StartReturns, MainGoes, semVars, interruptVars, NotifyInterrupt, EndWaiter
<1>1. WgCounts' /\ AdmittedHasCaller' /\ NotYetInDo' /\ DroppedForAReason'
      BY <1>a DEF CrawlInv, WgCounts, InBody, AdmittedHasCaller, NotYetInDo, DroppedForAReason
<1>2. CASE StartNotify
      BY <1>0, <1>1, <1>2, <1>a
      DEF StartNotify, MainGoes, CrawlInv, CrawlTypes, MainSteps, CallersAreActive, InUserCode,
          WaitIsFinal, AfterWait, StartRequestsSeen
<1>3. CASE StartRequestsMade
      BY <1>0, <1>1, <1>3, <1>a
      DEF StartRequestsMade, MainGoes, CrawlInv, CrawlTypes, MainSteps, CallersAreActive,
          InUserCode, WaitIsFinal, AfterWait, StartRequestsSeen
<1>4. CASE WaitRequests
  <2>1. \A r \in Requests : stage[r] \notin InBody
    <3>1. Cardinality({r \in Requests : stage[r] \in InBody}) = 0
          BY <1>4 DEF WaitRequests, CrawlInv, WgCounts
    <3> QED  BY <3>1, CountedFinite, FS_EmptySet
  <2> QED
    BY <1>0, <1>1, <1>4, <1>a, <2>1
    DEF WaitRequests, MainGoes, CrawlInv, CrawlTypes, MainSteps, CallersAreActive,
        InUserCode, WaitIsFinal, AfterWait, StartRequestsSeen
<1>5. ASSUME main \in AfterWait, main' \in AfterWait, exportsClosed' \in BOOLEAN
      PROVE  CrawlInv'
      BY <1>0, <1>1, <1>5, <1>a
      DEF CrawlInv, CrawlTypes, MainSteps, CallersAreActive, InUserCode, WaitIsFinal,
          AfterWait, StartRequestsSeen
<1>6. CASE CloseExports \/ WaitExporters \/ StartReturns
  <2>1. main \in AfterWait /\ main' \in AfterWait
        BY <1>6 DEF CloseExports, WaitExporters, StartReturns, MainGoes, AfterWait
  <2>2. exportsClosed' \in BOOLEAN
        BY <1>0, <1>6 DEF CloseExports, WaitExporters, StartReturns, CrawlTypes
  <2> QED  BY <1>5, <2>1, <2>2
<1> QED  BY <1>2, <1>3, <1>4, <1>6

(* The SIGINT goroutine keeps the invariant: g.shutdown is never lowered.  *)
LEMMA SignalCrawlStep ==
  ASSUME SemTypeOK, CrawlInv, SignalStep
  PROVE  CrawlInv'
<1>a. UNCHANGED <<pc, main, stage, inDo, wgRequests, exportsClosed>>
      BY DEF SignalStep, crawlVars, semVars
<1>b. shutdown => shutdown'
      BY DEF SignalStep, WaiterStep, Announce, RaiseShutdown, StopNotify, Sigint
<1> QED
  BY <1>a, <1>b DEF CrawlInv, CrawlTypes, WgCounts, InBody, CallersAreActive, InUserCode,
     AdmittedHasCaller, NotYetInDo, WaitIsFinal, AfterWait, StartRequestsSeen, DroppedForAReason

(* The parts of do between acquireSem and Done keep the invariant.         *)
LEMMA BodyStep ==
  ASSUME SemTypeOK, CrawlInv, NEW r \in Requests,
         \/ ProcessRequest(r) \/ DoRequest(r) \/ ProcessResponse(r)
         \/ UserReturns(r) \/ RecoverMe(r)
  PROVE  CrawlInv'
<1>1. PICK from \in InBody, to \in InBody :
        Advance(r, from, to) /\ (from = "user" => inDo[r] = NoRequest)
  <2>1. CASE ProcessRequest(r)
        BY <2>1 DEF ProcessRequest, InBody
  <2>2. CASE DoRequest(r)
        BY <2>2 DEF DoRequest, InBody
  <2>3. CASE ProcessResponse(r)
        BY <2>3 DEF ProcessResponse, InBody
  <2>4. CASE UserReturns(r)
        BY <2>4 DEF UserReturns, InBody
  <2>5. CASE RecoverMe(r)
        BY <2>5 DEF RecoverMe, InBody
  <2> QED  BY <2>1, <2>2, <2>3, <2>4, <2>5
<1> QED  BY <1>1, AdvanceStep

(* Every step of a crawl keeps the invariant.                              *)
LEMMA CrawlInvStep == SemTypeOK /\ CrawlInv /\ [Next]_vars => CrawlInv'
<1> SUFFICES ASSUME SemTypeOK, CrawlInv, [Next]_vars
             PROVE  CrawlInv'
    OBVIOUS
<1>1. CASE MainStep
  <2>1. Main \in Callers
        BY DEF Callers
  <2> QED  BY <1>1, <2>1, MainOwnStep, DoStep, IssueStep, DoReturnsStep DEF MainStep
<1>2. ASSUME NEW c \in Requests, RequestStep(c)
      PROVE  CrawlInv'
  <2>1. c \in Callers
        BY DEF Callers
  <2> QED
    BY <1>2, <2>1, BodyStep, WgDoneStep, SemaphoreStep, IssueStep, DoReturnsStep
    DEF RequestStep
<1>3. ASSUME NEW c \in Requests, NEW r \in Requests, Do(c, r)
      PROVE  CrawlInv'
  <2>1. c \in Callers
        BY DEF Callers
  <2> QED  BY <1>3, <2>1, DoStep
<1>4. CASE SignalStep
      BY <1>4, SignalCrawlStep
<1>5. CASE UNCHANGED vars
      BY <1>5 DEF vars, semVars, interruptVars, crawlVars, CrawlInv, CrawlTypes, WgCounts,
         InBody, CallersAreActive, InUserCode, AdmittedHasCaller, NotYetInDo, WaitIsFinal,
         AfterWait, StartRequestsSeen, DroppedForAReason
<1> QED  BY <1>1, <1>2, <1>3, <1>4, <1>5 DEF Next

(* The invariant holds in every crawl.                                     *)
LEMMA CrawlInvariance == Spec => [](SemTypeOK /\ InterruptTypeOK /\ CrawlInv)
<1> QED  BY CrawlInvInit, CrawlInvStep, CrawlSubTypes, PTL DEF Spec
-----------------------------------------------------------------------------
(* Theorems *)

(* The counter of wgRequests is the number of requests between Add and     *)
(* Done, whichever way they leave do.                                      *)
THEOREM WgCountsHolds == Spec => []WgCounts
<1>1. CrawlInv => WgCounts
      BY DEF CrawlInv
<1> QED  BY <1>1, CrawlInvariance, PTL

(* Type correctness of a crawl: wgRequests never goes below zero, which    *)
(* would panic, nor above the number of requests.                          *)
THEOREM CrawlerTypeCorrect == Spec => []CrawlerTypeOK
<1>1. SemTypeOK /\ InterruptTypeOK /\ CrawlInv => CrawlerTypeOK
  <2> SUFFICES ASSUME SemTypeOK, InterruptTypeOK, CrawlInv
               PROVE  CrawlerTypeOK
      OBVIOUS
  <2> DEFINE Counted == {r \in Requests : stage[r] \in InBody}
  <2>1. Cardinality(Counted) \in Nat
        BY CountedFinite, FS_CardinalityType
  <2>2. Cardinality(Requests) \in Nat /\ Cardinality(Counted) <= Cardinality(Requests)
    <3>1. Counted \in SUBSET Requests
          OBVIOUS
    <3> QED  BY <3>1, SemaphoresAssumption, FS_CardinalityType, FS_Subset
  <2>3. wgRequests \in 0 .. Cardinality(Requests)
        BY <2>1, <2>2 DEF CrawlInv, WgCounts
  <2> QED  BY <2>3 DEF CrawlInv, CrawlTypes, CrawlerTypeOK
<1> QED  BY <1>1, CrawlInvariance, PTL

(* g.Exports is never closed while user code, which may send to it, runs.  *)
THEOREM ExportsOpenHolds == Spec => []ExportsOpenWhileUserCodeRuns
<1>1. CrawlInv => ExportsOpenWhileUserCodeRuns
      BY DEF CrawlInv, WaitIsFinal, AfterWait, InBody, ExportsOpenWhileUserCodeRuns
<1> QED  BY <1>1, CrawlInvariance, PTL

(* Without a SIGINT no request anyone asked for is left out when Start     *)
(* returns.                                                                *)
THEOREM CrawlCompleteHolds == Spec => []CrawlComplete
<1>1. CrawlInv => CrawlComplete
  <2> SUFFICES ASSUME CrawlInv, main = "returned", ~shutdown,
                      NEW r \in Requests \ Malformed
               PROVE  stage[r] = "done" \/ (stage[r] = "none" /\ r \notin StartRequests)
      BY DEF CrawlComplete
  <2>1. stage[r] \in Stages /\ stage[r] \notin InBody
        BY DEF CrawlInv, CrawlTypes, WaitIsFinal, AfterWait
  <2>2. stage[r] # "dropped"
        BY DEF CrawlInv, DroppedForAReason
  <2>3. stage[r] # "admitted"
    <3>1. \A c \in Callers : ~InUserCode(c)
          BY DEF CrawlInv, WaitIsFinal, AfterWait, InUserCode, InBody, Callers
    <3>2. \A c \in Callers : inDo[c] = NoRequest
          BY <3>1 DEF CrawlInv, CallersAreActive
    <3> QED  BY <3>2, CrawlerAssumption DEF CrawlInv, AdmittedHasCaller
  <2>4. r \in StartRequests => stage[r] # "none"
        BY DEF CrawlInv, StartRequestsSeen
  <2> QED  BY <2>1, <2>2, <2>3, <2>4 DEF Stages
<1> QED  BY <1>1, CrawlInvariance, PTL

(* No Add finds the counter at zero once Start has called Wait.            *)
THEOREM AddFromZeroHolds == Spec => AddFromZeroOnlyBeforeWait
<1>1. CrawlInv /\ [Next]_vars =>
        [(wgRequests = 0 /\ wgRequests' > 0) => main = "requests"]_vars
  <2> SUFFICES ASSUME CrawlInv, Next, wgRequests = 0, wgRequests' > 0
               PROVE  main = "requests"
      OBVIOUS
  <2>1. \A r \in Requests : stage[r] \notin InBody
    <3>1. Cardinality({r \in Requests : stage[r] \in InBody}) = 0
          BY DEF CrawlInv, WgCounts
    <3> QED  BY <3>1, CountedFinite, FS_EmptySet
  <2>2. ASSUME wgRequests' = wgRequests PROVE FALSE
        BY <2>2
  <2>3. PICK c \in Callers, r \in Requests : Issue(c, r)
    <3>1. ASSUME NEW r \in Requests
          PROVE  ~WgDone(r)
          BY <2>1 DEF WgDone, InBody
    <3>2. CASE MainStep
          BY <2>2, <3>2 DEF MainStep, Do, DoReturns, StartNotify, StartRequestsMade,
             WaitRequests, CloseExports, WaitExporters, StartReturns, MainGoes, Callers
    <3>3. ASSUME NEW c \in Requests, RequestStep(c)
          PROVE  \E r \in Requests : Issue(c, r)
          BY <2>2, <3>1, <3>3 DEF RequestStep, Semaphore, ProcessRequest, DoRequest,
             ProcessResponse, UserReturns, RecoverMe, Advance, DoReturns, crawlVars
    <3>4. ASSUME NEW c \in Requests, NEW r \in Requests
          PROVE  ~Do(c, r)
          BY <2>2 DEF Do
    <3>5. ~SignalStep
          BY <2>2 DEF SignalStep, crawlVars
    <3> QED  BY <3>2, <3>3, <3>4, <3>5 DEF Next, Callers
  <2>4. InUserCode(c)
        BY <2>3, CrawlerAssumption DEF Issue, CrawlInv, CallersAreActive
  <2> QED  BY <2>1, <2>4 DEF InUserCode, InBody, Callers
<1> QED  BY <1>1, CrawlInvariance, PTL DEF Spec, AddFromZeroOnlyBeforeWait

(* Counting in wgRequests implements termination detection: Start goes on  *)
(* exactly when nothing is left that could make another request.           *)
THEOREM TerminationImplemented == Spec => ImplementsTermination
<1> DEFINE active == {r \in Requests : stage[r] \in InBody}
                       \cup (IF main \in {"start", "requests"} THEN {Main} ELSE {})
           detected == main \in AfterWait
<1>1. Init => Termination!Init
  <2> SUFFICES ASSUME Init
               PROVE  Termination!Init
      OBVIOUS
  <2>1. {r \in Requests : stage[r] \in InBody} = {}
        BY DEF Init, InBody
  <2> QED  BY <2>1 DEF Init, Termination!Init
<1>2. SemTypeOK /\ CrawlInv /\ [Next]_vars => [Termination!Next]_(Termination!terminationVars)
  <2> SUFFICES ASSUME SemTypeOK, CrawlInv, [Next]_vars
               PROVE  [Termination!Next]_(Termination!terminationVars)
      OBVIOUS
  <2>0. CrawlTypes /\ Main \notin Requests /\ NoRequest \notin Requests
        BY CrawlerAssumption DEF CrawlInv
  <2>a. ASSUME main' = main \/ (main \in AfterWait /\ main' \in AfterWait)
                 \/ (main = "start" /\ main' = "requests"),
               \A r \in Requests : stage'[r] \in InBody <=> stage[r] \in InBody
        PROVE  UNCHANGED Termination!terminationVars
    <3>1. active' = active /\ detected' = detected
          BY <2>a DEF AfterWait, InBody
    <3> QED  BY <3>1 DEF Termination!terminationVars, AfterWait
  <2>1. ASSUME NEW c \in Callers, NEW r \in Requests, Issue(c, r)
        PROVE  Termination!Next
    <3>1. c \in active
      <4>1. InUserCode(c)
            BY <2>0, <2>1 DEF Issue, CrawlInv, CallersAreActive
      <4> QED  BY <4>1 DEF InUserCode, InBody, Callers
    <3>2. r \notin active
          BY <2>0, <2>1 DEF Issue, InBody
    <3>3. active' = active \cup {r} /\ detected' = detected
          BY <2>0, <2>1 DEF Issue, CrawlTypes, InBody, AfterWait
    <3>4. Termination!Activate(c, r)
          BY <3>1, <3>2, <3>3 DEF Termination!Activate, AfterWait
    <3> QED  BY <3>4 DEF Termination!Next, Callers
  <2>2. ASSUME NEW r \in Requests, WgDone(r)
        PROVE  Termination!Next
    <3>1. r \in active /\ active' = active \ {r} /\ detected' = detected
          BY <2>0, <2>2 DEF WgDone, CrawlTypes, InBody, AfterWait
    <3>2. Termination!Finish(r)
          BY <3>1 DEF Termination!Finish, AfterWait
    <3> QED  BY <3>2 DEF Termination!Next
  <2>3. CASE StartRequestsMade
    <3>1. Main \in active /\ active' = active \ {Main} /\ detected' = detected
          BY <2>0, <2>3 DEF StartRequestsMade, MainGoes, InBody, AfterWait
    <3>2. Termination!Finish(Main)
          BY <3>1 DEF Termination!Finish, AfterWait
    <3> QED  BY <3>2 DEF Termination!Next
  <2>4. CASE WaitRequests
    <3>1. {r \in Requests : stage[r] \in InBody} = {}
      <4>1. Cardinality({r \in Requests : stage[r] \in InBody}) = 0
            BY <2>4 DEF WaitRequests, CrawlInv, WgCounts
      <4> QED  BY <4>1, CountedFinite, FS_EmptySet
    <3>2. active = {} /\ active' = {} /\ detected' = TRUE
          BY <2>4, <3>1 DEF WaitRequests, MainGoes, InBody, AfterWait
    <3>3. Termination!Detect
          BY <3>2 DEF Termination!Detect, AfterWait
    <3> QED  BY <3>3 DEF Termination!Next
  <2>5. ASSUME StartNotify \/ CloseExports \/ WaitExporters \/ StartReturns
        PROVE  UNCHANGED Termination!terminationVars
    <3>1. stage' = stage
          BY <2>5 DEF StartNotify, CloseExports, WaitExporters, StartReturns, MainGoes
    <3>2. \/ main \in AfterWait /\ main' \in AfterWait
          \/ main = "start" /\ main' = "requests"
          BY <2>5 DEF StartNotify, CloseExports, WaitExporters, StartReturns, MainGoes, AfterWait
    <3> QED  BY <2>a, <3>1, <3>2
  <2>6. ASSUME NEW c \in Callers, NEW r \in Requests, Do(c, r) \/ DoReturns(c, r)
        PROVE  UNCHANGED Termination!terminationVars
    <3>1. main' = main /\ \A x \in Requests : stage'[x] \in InBody <=> stage[x] \in InBody
          BY <2>0, <2>6 DEF Do, DoReturns, CrawlTypes, InBody
    <3> QED  BY <2>a, <3>1
  <2>7. ASSUME NEW r \in Requests, NEW from \in InBody, NEW to \in InBody, Advance(r, from, to)
        PROVE  UNCHANGED Termination!terminationVars
    <3>1. main' = main /\ \A x \in Requests : stage'[x] \in InBody <=> stage[x] \in InBody
          BY <2>0, <2>7 DEF Advance, CrawlTypes
    <3> QED  BY <2>a, <3>1
  <2>8. ASSUME NEW r \in Requests,
               \/ ProcessRequest(r) \/ DoRequest(r) \/ ProcessResponse(r)
               \/ UserReturns(r) \/ RecoverMe(r)
        PROVE  \E from \in InBody, to \in InBody : Advance(r, from, to)
        BY <2>8 DEF ProcessRequest, DoRequest, ProcessResponse, UserReturns, RecoverMe, InBody
  <2>9. ASSUME UNCHANGED <<main, stage>>
        PROVE  UNCHANGED Termination!terminationVars
        BY <2>a, <2>9
  <2>10. CASE MainStep
         BY <2>1, <2>3, <2>4, <2>5, <2>6, <2>10 DEF MainStep, Callers
  <2>11. ASSUME NEW c \in Requests, RequestStep(c)
         PROVE  [Termination!Next]_(Termination!terminationVars)
    <3>1. CASE Semaphore(c)
          BY <2>9, <3>1 DEF Semaphore, crawlVars
    <3>2. CASE \/ ProcessRequest(c) \/ DoRequest(c) \/ ProcessResponse(c)
               \/ UserReturns(c) \/ RecoverMe(c)
          BY <2>7, <2>8, <3>2
    <3> QED  BY <2>1, <2>2, <2>6, <2>11, <3>1, <3>2 DEF RequestStep, Callers
  <2>12. ASSUME NEW c \in Requests, NEW r \in Requests, Do(c, r)
         PROVE  UNCHANGED Termination!terminationVars
         BY <2>6, <2>12 DEF Callers
  <2>13. CASE SignalStep
         BY <2>9, <2>13 DEF SignalStep, crawlVars
  <2>14. CASE UNCHANGED vars
         BY <2>9, <2>14 DEF vars, crawlVars
  <2> QED  BY <2>10, <2>11, <2>12, <2>13, <2>14 DEF Next
<1> QED
  BY <1>1, <1>2, CrawlInvariance, PTL DEF Spec, ImplementsTermination, Termination!Spec
-----------------------------------------------------------------------------
(* What can stop a crawl *)

(* The place of a request in the semaphores tells how far it is in do.     *)
StageHasPlace ==
  \A r \in Requests :
    /\ stage[r] \in InBody => pc[r] \in {"global", "lookup", "register", "host", "running"}
    /\ pc[r] = "running" => stage[r] \in InBody
    /\ stage[r] = "done" => pc[r] \in {"relGlobal", "relLookup", "relHost", "ended"}

(* A call of Do that has started its request is left only later by a       *)
(* caller of a synchronous request.                                        *)
InDoOfSynchronized ==
  \A c \in Callers : inDo[c] # NoRequest =>
    \/ stage[inDo[c]] = "admitted"
    \/ inDo[c] \in Synchronized /\ pc[inDo[c]] # "idle"

(* Two callers are never in the Do of the same request, and it is Start    *)
(* that asks for the start requests.                                       *)
OneCaller ==
  /\ \A c, d \in Callers : inDo[c] = inDo[d] /\ inDo[c] # NoRequest => c = d
  /\ \A c \in Callers : inDo[c] \in StartRequests => c = Main

(* The SIGINT goroutine lives from signal.Notify to the end of Start.      *)
WaiterLives ==
  /\ main = "start" => waiter = "none"
  /\ main \notin {"start", "returned"} => waiter \in {"select", "announced", "flagged"}

GoInv == StageHasPlace /\ InDoOfSynchronized /\ OneCaller /\ WaiterLives

(* Before Start has done anything, nothing waits.                          *)
LEMMA GoInvInit == Init => GoInv
<1> SUFFICES ASSUME Init PROVE GoInv
    OBVIOUS
<1>1. StageHasPlace
      BY DEF Init, SemInit, StageHasPlace, InBody
<1>2. InDoOfSynchronized /\ OneCaller
      BY CrawlerAssumption DEF Init, InDoOfSynchronized, OneCaller
<1>3. WaiterLives
      BY DEF Init, InterruptInit, WaiterLives
<1> QED  BY <1>1, <1>2, <1>3 DEF GoInv

(* Every step keeps the places of the requests in line with their stages.  *)
LEMMA StageStep ==
  SemTypeOK /\ CrawlInv /\ StageHasPlace /\ [Next]_vars => StageHasPlace'
<1> SUFFICES ASSUME SemTypeOK, CrawlInv, StageHasPlace, [Next]_vars
             PROVE  StageHasPlace'
    OBVIOUS
<1>0. CrawlTypes /\ NotYetInDo
      BY DEF CrawlInv
<1>a. ASSUME UNCHANGED <<pc, stage>> PROVE StageHasPlace'
      BY <1>a DEF StageHasPlace, InBody
<1>b. ASSUME NEW c, NEW r \in Requests, Do(c, r) PROVE StageHasPlace'
  <2>1. PICK as \in {"dropped", "admitted"} : stage' = [stage EXCEPT ![r] = as]
        BY <1>b DEF Do
  <2>2. pc' = pc /\ pc[r] = "idle"
        BY <1>0, <1>b DEF Do, semVars, NotYetInDo
  <2>3. /\ stage'[r] \notin InBody /\ stage'[r] # "done"
        /\ \A x \in Requests : x # r => stage'[x] = stage[x]
        BY <1>0, <2>1 DEF CrawlTypes, InBody
  <2> QED  BY <2>2, <2>3 DEF StageHasPlace, InBody
<1>c. ASSUME NEW c, NEW r \in Requests, Issue(c, r) PROVE StageHasPlace'
  <2>1. pc' = [pc EXCEPT ![r] = "global"] /\ stage' = [stage EXCEPT ![r] = "request"]
        BY <1>c DEF Issue, Enter, Goto
  <2> QED  BY <1>0, <2>1 DEF StageHasPlace, SemTypeOK, CrawlTypes, InBody
<1>d. ASSUME NEW r \in Requests, NEW from \in InBody, NEW to \in InBody, Advance(r, from, to)
      PROVE  StageHasPlace'
  <2>1. pc' = pc /\ pc[r] = "running" /\ stage' = [stage EXCEPT ![r] = to]
        BY <1>d DEF Advance, semVars
  <2>2. /\ stage'[r] \in InBody /\ stage'[r] # "done"
        /\ \A x \in Requests : x # r => stage'[x] = stage[x]
        BY <1>0, <1>d, <2>1 DEF CrawlTypes, InBody
  <2> QED  BY <2>1, <2>2 DEF StageHasPlace, InBody
<1>e. ASSUME NEW r \in Requests, WgDone(r) PROVE StageHasPlace'
  <2>1. pc' = [pc EXCEPT ![r] = "relGlobal"] /\ stage' = [stage EXCEPT ![r] = "done"]
        BY <1>e DEF WgDone, Leave, Goto
  <2> QED  BY <1>0, <2>1 DEF StageHasPlace, SemTypeOK, CrawlTypes, InBody
<1>f. ASSUME NEW r \in Requests, Semaphore(r) PROVE StageHasPlace'
  <2>1. stage' = stage /\ pc' = [pc EXCEPT ![r] = pc'[r]]
        BY <1>f DEF Semaphore, crawlVars, AcquireSem, AcquireGlobal, Lookup, Register,
           AcquireHost, ReleaseSem, ReleaseGlobal, ReleaseLookup, ReleaseHost, Goto, SemTypeOK
  <2>2. CASE AcquireSem(r)
    <3>1. /\ pc[r] \in {"global", "lookup", "register", "host"}
          /\ pc'[r] \in {"lookup", "register", "host", "running"}
          BY <2>2 DEF AcquireSem, AcquireGlobal, Lookup, Register, AcquireHost, Goto, SemTypeOK
    <3>2. stage[r] \in InBody
      <4>1. stage[r] \notin {"none", "dropped", "admitted"} /\ stage[r] \in Stages
            BY <1>0, <3>1 DEF NotYetInDo, CrawlTypes
      <4>2. stage[r] # "done"
            BY <3>1 DEF StageHasPlace
      <4> QED  BY <4>1, <4>2 DEF Stages
    <3> QED  BY <2>1, <3>1, <3>2 DEF StageHasPlace, SemTypeOK
  <2>3. CASE ReleaseSem(r)
    <3>1. /\ pc[r] \in {"relGlobal", "relLookup", "relHost"}
          /\ pc'[r] \in {"relLookup", "relHost", "ended"}
          BY <2>3 DEF ReleaseSem, ReleaseGlobal, ReleaseLookup, ReleaseHost, Goto, SemTypeOK
    <3> QED  BY <2>1, <3>1 DEF StageHasPlace, SemTypeOK
  <2> QED  BY <1>f, <2>2, <2>3 DEF Semaphore
<1>1. CASE MainStep
  <2>1. CASE \/ StartNotify \/ StartRequestsMade \/ WaitRequests
             \/ CloseExports \/ WaitExporters \/ StartReturns
        BY <1>a, <2>1 DEF StartNotify, StartRequestsMade, WaitRequests, CloseExports,
           WaitExporters, StartReturns, MainGoes, semVars
  <2>2. ASSUME NEW r \in Requests, DoReturns(Main, r) PROVE StageHasPlace'
        BY <1>a, <2>2 DEF DoReturns, semVars
  <2> QED  BY <1>1, <1>b, <1>c, <2>1, <2>2 DEF MainStep
<1>2. ASSUME NEW c \in Requests, RequestStep(c) PROVE StageHasPlace'
  <2>1. CASE \/ ProcessRequest(c) \/ DoRequest(c) \/ ProcessResponse(c)
             \/ UserReturns(c) \/ RecoverMe(c)
    <3>1. \E from \in InBody, to \in InBody : Advance(c, from, to)
          BY <2>1 DEF ProcessRequest, DoRequest, ProcessResponse, UserReturns, RecoverMe, InBody
    <3> QED  BY <1>d, <3>1
  <2>2. ASSUME NEW r \in Requests, DoReturns(c, r) PROVE StageHasPlace'
        BY <1>a, <2>2 DEF DoReturns, semVars
  <2> QED  BY <1>2, <1>c, <1>e, <1>f, <2>1, <2>2 DEF RequestStep
<1>3. CASE SignalStep
      BY <1>a, <1>3 DEF SignalStep, semVars, crawlVars
<1>4. CASE UNCHANGED vars
      BY <1>a, <1>4 DEF vars, semVars, crawlVars
<1> QED  BY <1>b, <1>1, <1>2, <1>3, <1>4 DEF Next

(* A call of Do begins with a request nobody has asked for yet, and ends   *)
(* in the goroutine that made it.                                          *)
LEMMA CallersStep ==
  ASSUME SemTypeOK, CrawlTypes, NotYetInDo, InDoOfSynchronized, OneCaller, [Next]_vars
  PROVE  InDoOfSynchronized' /\ OneCaller'
<1> DEFINE Kept == InDoOfSynchronized' /\ OneCaller'
<1>0. NoRequest \notin Requests /\ StartRequests \subseteq Requests
      BY CrawlerAssumption
<1>a. ASSUME UNCHANGED inDo,
             \A r \in Requests : stage[r] = "admitted" => stage'[r] = "admitted",
             \A r \in Requests : pc[r] # "idle" => pc'[r] # "idle"
      PROVE  Kept
      BY <1>0, <1>a DEF InDoOfSynchronized, OneCaller, CrawlTypes
<1>b. ASSUME NEW c \in Callers, NEW r \in Requests, Do(c, r) PROVE Kept
  <2>1. /\ pc' = pc /\ stage[r] = "none" /\ pc[r] = "idle"
        /\ r \in StartRequests <=> c = Main
        BY <1>b DEF Do, semVars, NotYetInDo
  <2>2. CASE UNCHANGED inDo /\ stage' = [stage EXCEPT ![r] = "dropped"]
        BY <1>a, <2>1, <2>2 DEF CrawlTypes
  <2>3. CASE inDo' = [inDo EXCEPT ![c] = r] /\ stage' = [stage EXCEPT ![r] = "admitted"]
    <3>1. \A x \in Callers : inDo[x] # r
          BY <1>0, <2>1 DEF InDoOfSynchronized
    <3>2. OneCaller'
          BY <1>0, <2>1, <2>3, <3>1 DEF OneCaller, CrawlTypes
    <3>3. InDoOfSynchronized'
          BY <2>1, <2>3 DEF InDoOfSynchronized, CrawlTypes
    <3> QED  BY <3>2, <3>3
  <2> QED  BY <1>b, <2>2, <2>3 DEF Do
<1>c. ASSUME NEW c \in Callers, NEW r \in Requests, Issue(c, r) PROVE Kept
  <2>1. /\ pc' = [pc EXCEPT ![r] = "global"] /\ stage' = [stage EXCEPT ![r] = "request"]
        /\ inDo[c] = r /\ stage[r] = "admitted"
        /\ inDo' = IF r \in Synchronized THEN inDo ELSE [inDo EXCEPT ![c] = NoRequest]
        BY <1>c DEF Issue, Enter, Goto
  <2>2. \A x \in Callers \ {c} : inDo[x] # r
        BY <1>0, <2>1 DEF OneCaller
  <2>3. OneCaller'
        BY <1>0, <2>1 DEF OneCaller, CrawlTypes
  <2>4. InDoOfSynchronized'
    <3>1. CASE r \in Synchronized
          BY <2>1, <2>2, <3>1 DEF InDoOfSynchronized, CrawlTypes, SemTypeOK
    <3>2. CASE r \notin Synchronized
          BY <2>1, <2>2, <3>2 DEF InDoOfSynchronized, CrawlTypes, SemTypeOK
    <3> QED  BY <3>1, <3>2
  <2> QED  BY <2>3, <2>4
<1>d. ASSUME NEW c \in Callers, NEW r \in Requests, DoReturns(c, r) PROVE Kept
  <2>1. UNCHANGED <<pc, stage>> /\ inDo' = [inDo EXCEPT ![c] = NoRequest]
        BY <1>d DEF DoReturns, semVars
  <2> QED  BY <1>0, <2>1 DEF InDoOfSynchronized, OneCaller, CrawlTypes
<1>e. ASSUME NEW r \in Requests, NEW from \in InBody, NEW to \in InBody, Advance(r, from, to)
      PROVE  Kept
  <2>1. /\ UNCHANGED <<pc, inDo>> /\ stage[r] = from /\ from # "admitted"
        /\ stage' = [stage EXCEPT ![r] = to]
        BY <1>e DEF Advance, semVars, InBody
  <2> QED  BY <1>a, <2>1 DEF CrawlTypes
<1>f. ASSUME NEW r \in Requests, WgDone(r) PROVE Kept
  <2>1. /\ UNCHANGED inDo /\ stage[r] = "recovered"
        /\ pc' = [pc EXCEPT ![r] = "relGlobal"] /\ stage' = [stage EXCEPT ![r] = "done"]
        BY <1>f DEF WgDone, Leave, Goto
  <2> QED  BY <1>a, <2>1 DEF SemTypeOK, CrawlTypes
<1>g. ASSUME NEW r \in Requests, Semaphore(r) PROVE Kept
  <2>1. UNCHANGED <<stage, inDo>>
        BY <1>g DEF Semaphore, crawlVars
  <2>2. \A x \in Requests : pc[x] # "idle" => pc'[x] # "idle"
        BY <1>g DEF Semaphore, AcquireSem, AcquireGlobal, Lookup, Register, AcquireHost,
           ReleaseSem, ReleaseGlobal, ReleaseLookup, ReleaseHost, Goto, SemTypeOK
  <2> QED  BY <1>a, <2>1, <2>2
<1>1. CASE MainStep
  <2>1. CASE \/ StartNotify \/ StartRequestsMade \/ WaitRequests
             \/ CloseExports \/ WaitExporters \/ StartReturns
    <3>1. UNCHANGED <<pc, stage, inDo>>
          BY <2>1 DEF StartNotify, StartRequestsMade, WaitRequests, CloseExports,
             WaitExporters, StartReturns, MainGoes, semVars
    <3> QED  BY <1>a, <3>1
  <2>2. Main \in Callers
        BY DEF Callers
  <2> QED  BY <1>1, <1>b, <1>c, <1>d, <2>1, <2>2 DEF MainStep
<1>2. ASSUME NEW c \in Requests, RequestStep(c) PROVE Kept
  <2>1. CASE \/ ProcessRequest(c) \/ DoRequest(c) \/ ProcessResponse(c)
             \/ UserReturns(c) \/ RecoverMe(c)
    <3>1. \E from \in InBody, to \in InBody : Advance(c, from, to)
          BY <2>1 DEF ProcessRequest, DoRequest, ProcessResponse, UserReturns, RecoverMe, InBody
    <3> QED  BY <1>e, <3>1
  <2>2. c \in Callers
        BY DEF Callers
  <2> QED  BY <1>2, <1>c, <1>d, <1>f, <1>g, <2>1, <2>2 DEF RequestStep
<1>3. ASSUME NEW c \in Requests, NEW r \in Requests, Do(c, r) PROVE Kept
  <2>1. c \in Callers
        BY DEF Callers
  <2> QED  BY <1>3, <1>b, <2>1
<1>4. CASE SignalStep \/ UNCHANGED vars
  <2>1. UNCHANGED <<pc, stage, inDo>>
        BY <1>4 DEF SignalStep, vars, semVars, crawlVars
  <2> QED  BY <1>a, <2>1
<1> QED  BY <1>1, <1>2, <1>3, <1>4 DEF Next

(* The goroutine ends only when it meets the end of Start.                 *)
LEMMA WaiterStays ==
  WaiterLives /\ [Next]_vars => WaiterLives'
<1> SUFFICES ASSUME WaiterLives, [Next]_vars PROVE WaiterLives'
    OBVIOUS
<1>a. ASSUME UNCHANGED <<main, waiter>> PROVE WaiterLives'
      BY <1>a DEF WaiterLives
<1>1. CASE MainStep
  <2>1. CASE StartNotify
        BY <2>1 DEF StartNotify, MainGoes, NotifyInterrupt, WaiterLives
  <2>2. CASE StartReturns
        BY <2>2 DEF StartReturns, MainGoes, EndWaiter, WaiterLives
  <2>3. CASE StartRequestsMade \/ WaitRequests \/ CloseExports \/ WaitExporters
        BY <2>3 DEF StartRequestsMade, WaitRequests, CloseExports, WaitExporters, MainGoes,
           interruptVars, WaiterLives
  <2>4. ASSUME NEW r \in Requests, Do(Main, r) \/ Issue(Main, r) \/ DoReturns(Main, r)
        PROVE  WaiterLives'
        BY <1>a, <2>4 DEF Do, Issue, DoReturns, interruptVars
  <2> QED  BY <1>1, <2>1, <2>2, <2>3, <2>4 DEF MainStep
<1>2. ASSUME NEW c \in Requests, RequestStep(c) PROVE WaiterLives'
      BY <1>a, <1>2 DEF RequestStep, Semaphore, ProcessRequest, DoRequest, ProcessResponse,
         UserReturns, RecoverMe, Advance, WgDone, Issue, DoReturns, interruptVars, crawlVars
<1>3. ASSUME NEW c \in Requests, NEW r \in Requests, Do(c, r) PROVE WaiterLives'
      BY <1>a, <1>3 DEF Do, interruptVars
<1>4. CASE SignalStep
      BY <1>4 DEF SignalStep, WaiterStep, Announce, RaiseShutdown, StopNotify, Sigint,
         crawlVars, WaiterLives
<1>5. CASE UNCHANGED vars
      BY <1>a, <1>5 DEF vars, interruptVars, crawlVars
<1> QED  BY <1>1, <1>2, <1>3, <1>4, <1>5 DEF Next

(* The three hold in every crawl.                                          *)
LEMMA GoInvariance == Spec => []GoInv
<1>1. SemTypeOK /\ CrawlInv /\ GoInv /\ [Next]_vars => GoInv'
      BY StageStep, CallersStep, WaiterStays DEF GoInv, CrawlInv
<1> QED  BY <1>1, GoInvInit, CrawlInvariance, PTL DEF Spec

(* The call of Do that c is in goes on: to Add, or back to c.              *)
InDoGoesOn(c) == stage[inDo[c]] = "admitted" \/ pc[inDo[c]] = "ended"

(* The guard of a step of Start holds.                                     *)
MainGoesOn ==
  \/ main = "start" /\ waiter = "none"
  \/ main = "requests" /\ (inDo[Main] = NoRequest \/ InDoGoesOn(Main))
  \/ main = "wait" /\ WgZero
  \/ main \in {"close", "exporters"}
  \/ main = "notify" /\ waiter = "select"

(* The guard of a step of the goroutine of r holds, other than that of a   *)
(* call its callback need not make.                                        *)
RequestGoesOn(r) ==
  \/ Passes(r)
  \/ /\ pc[r] = "running" /\ stage[r] \in InBody
     /\ stage[r] = "user" => inDo[r] = NoRequest \/ InDoGoesOn(r)

SomebodyGoesOn ==
  \/ MainGoesOn
  \/ waiter \in {"announced", "flagged"}
  \/ \E r \in Requests : RequestGoesOn(r)

(* The callback of r is in the Do of a synchronous request that has not    *)
(* come back, and keeps its own places in the semaphores.                  *)
WaitsInDo(r) ==
  pc[r] = "running" /\ inDo[r] \in Synchronized /\ pc[inDo[r]] \notin {"idle", "ended"}

(* A crawl that has not ended can hang in two ways and no other: releaseSem*)
(* waits for a host channel, or the callback of a request waits in Do for  *)
(* a synchronous request that waits for the semaphores itself.             *)
CrawlGoesOn ==
  ~killed /\ main # "returned" =>
    SomebodyGoesOn \/ \E r \in Requests : WaitsToRelease(r) \/ WaitsInDo(r)

(* If no request is in do, wgRequests.Wait is over.                        *)
LEMMA NobodyInDo ==
  ASSUME CrawlInv, GoInv, main # "returned",
         \A r \in Requests : pc[r] \in {"idle", "ended"}
  PROVE  SomebodyGoesOn
<1>0. CrawlTypes /\ StageHasPlace /\ InDoOfSynchronized /\ WaiterLives
      BY DEF CrawlInv, GoInv
<1>1. wgRequests = 0
  <2>1. {r \in Requests : stage[r] \in InBody} = {}
        BY <1>0 DEF StageHasPlace
  <2> QED  BY <2>1, FS_EmptySet DEF CrawlInv, WgCounts
<1>2. CASE main = "requests"
  <2>1. inDo[Main] # NoRequest => inDo[Main] \in Requests
        BY <1>0 DEF CrawlTypes, Callers
  <2>2. inDo[Main] = NoRequest \/ InDoGoesOn(Main)
        BY <1>0, <2>1 DEF InDoOfSynchronized, InDoGoesOn, Callers
  <2> QED  BY <1>2, <2>2 DEF SomebodyGoesOn, MainGoesOn
<1>3. CASE main # "requests"
      BY <1>0, <1>1, <1>3 DEF SomebodyGoesOn, MainGoesOn, WaiterLives, CrawlTypes, MainSteps
<1> QED  BY <1>2, <1>3

(* geziyor.go:197, :275 and :363: nothing else of Start, Do, do, acquireSem*)
(* and releaseSem, of a cancelled, failed or panicked request or of a ^C   *)
(* can leave the crawl waiting for itself.                                 *)
THEOREM CrawlGoesOnHolds == Spec => []CrawlGoesOn
<1>1. SomebodyPasses /\ SemTypeOK /\ CrawlInv /\ GoInv => CrawlGoesOn
  <2> SUFFICES ASSUME SomebodyPasses, SemTypeOK, CrawlInv, GoInv, main # "returned",
                      ~SomebodyGoesOn, \A r \in Requests : ~WaitsToRelease(r) /\ ~WaitsInDo(r)
               PROVE  FALSE
      BY DEF CrawlGoesOn
  <2>0. CrawlTypes /\ StageHasPlace /\ InDoOfSynchronized
        BY DEF CrawlInv, GoInv
  <2>1. ASSUME NEW r \in Running PROVE FALSE
    <3>1. r \in Requests /\ r \in Callers /\ pc[r] = "running" /\ stage[r] \in InBody
          BY <2>0 DEF Running, StageHasPlace, Callers
    <3>2. ~RequestGoesOn(r)
          BY <3>1 DEF SomebodyGoesOn
    <3>3. stage[r] = "user" /\ inDo[r] # NoRequest /\ ~InDoGoesOn(r)
          BY <3>1, <3>2 DEF RequestGoesOn
    <3>4. inDo[r] \in Synchronized /\ pc[inDo[r]] \notin {"idle", "ended"}
          BY <2>0, <3>1, <3>3 DEF InDoOfSynchronized, InDoGoesOn
    <3> QED  BY <3>1, <3>4 DEF WaitsInDo
  <2>2. Running = {}
        BY <2>1
  <2>3. \A r \in Requests : ~Passes(r)
        BY DEF SomebodyGoesOn, RequestGoesOn
  <2>4. \A r \in Requests : pc[r] \in {"idle", "ended"}
        BY <2>2, <2>3 DEF SomebodyPasses
  <2> QED  BY <2>4, NobodyInDo
<1> QED
  BY <1>1, CrawlIsSemaphores, SomebodyPassesHolds, CrawlInvariance, GoInvariance, PTL

(* Nothing is left to wait for if no request is synchronous, or if nobody  *)
(* but Start makes them, and no host has got a second channel.             *)
CrawlNeverHangs ==
  Synchronized \subseteq StartRequests /\ OneSemaphorePerHost /\ ~killed /\ main # "returned"
    => SomebodyGoesOn

(* A crawl whose callbacks make no synchronous requests, and which makes   *)
(* one channel for each host, never hangs.                                 *)
THEOREM CrawlNeverHangsHolds == Spec => []CrawlNeverHangs
<1>1. CrawlGoesOn /\ ReleaseNeverWaits /\ GoInv => CrawlNeverHangs
  <2> SUFFICES ASSUME ReleaseNeverWaits, GoInv, Synchronized \subseteq StartRequests,
                      OneSemaphorePerHost, NEW r \in Requests,
                      WaitsToRelease(r) \/ WaitsInDo(r)
               PROVE  FALSE
      BY DEF CrawlGoesOn, CrawlNeverHangs
  <2>1. CASE WaitsInDo(r)
    <3>1. inDo[r] \in StartRequests /\ r \in Callers /\ r # Main
          BY <2>1, CrawlerAssumption DEF WaitsInDo, Callers
    <3> QED  BY <3>1 DEF GoInv, OneCaller
  <2>2. CASE WaitsToRelease(r)
    <3>1. HostOf[r] \in Hosts
          BY DEF Hosts
    <3>2. Cardinality(made \cap OfHost(HostOf[r])) <= 1
          BY <3>1 DEF OneSemaphorePerHost
    <3>3. Cardinality(made \cap OfHost(HostOf[r])) > 1
          BY <2>2 DEF ReleaseNeverWaits
    <3>4. Cardinality(made \cap OfHost(HostOf[r])) \in Nat
          BY HoldersFinite, FS_Intersection, FS_CardinalityType
    <3> QED  BY <3>2, <3>3, <3>4
  <2> QED  BY <2>1, <2>2
<1> QED
  BY <1>1, CrawlGoesOnHolds, CrawlIsSemaphores, ReleaseNeverWaitsHolds, GoInvariance, PTL
-----------------------------------------------------------------------------
(* A crawl with exporters *)

(* The exporters change nothing of the crawl, which a send only delays.    *)
THEOREM ScrapeIsCrawl == ScrapeSpec => Spec
<1>1. ScrapeInit => Init
      BY DEF ScrapeInit
<1>2. [ScrapeNext]_scrapeVars => [Next]_vars
  <2> SUFFICES ASSUME [ScrapeNext]_scrapeVars PROVE [Next]_vars
      OBVIOUS
  <2>1. CASE UNCHANGED scrapeVars
        BY <2>1 DEF scrapeVars
  <2>2. ASSUME ~killed, \/ ScrapeMainStep
                        \/ \E c \in Requests : ScrapeRequestStep(c)
                        \/ \E c, r \in Requests : Do(c, r)
                        \/ SignalStep
        PROVE  Next
        BY <2>2 DEF Next, ScrapeMainStep, ScrapeRequestStep
  <2>3. ASSUME \/ \E c \in Requests : Export(c) \/ Deliver(c)
               \/ Distribute
               \/ \E e \in Pipeline!Exporters : ExporterStep(e) \/ ExporterFails(e)
        PROVE  UNCHANGED vars
        BY <2>3 DEF Export, Deliver, Distribute, ExporterStep, ExporterFails
  <2> QED  BY <2>1, <2>2, <2>3 DEF ScrapeNext
<1> QED  BY <1>1, <1>2, PTL DEF ScrapeSpec, Spec

(* So the invariant of the crawl holds.                                    *)
LEMMA ScrapeCrawlInv == ScrapeSpec => [](SemTypeOK /\ InterruptTypeOK /\ CrawlInv)
<1> QED  BY ScrapeIsCrawl, CrawlInvariance, PTL
-----------------------------------------------------------------------------
(* The two promises of a crawl *)

(* A callback in a send is in user code, and g.Exports is closed after     *)
(* wgRequests.Wait and never again.                                        *)
Promises ==
  /\ offered \subseteq {r \in Requests : stage[r] = "user"}
  /\ exportsClosed <=> main \in {"exporters", "notify", "returned"}

(* A goroutine that is not in user code, or outside a send, cannot take    *)
(* another request out of its callback.                                    *)
LEMMA UserCodeStays ==
  ASSUME CrawlTypes, NEW c \in Callers, NEW x \in Requests, x # c, stage[x] = "user",
         \/ c \in Requests /\ RequestStep(c)
         \/ c = Main /\ MainStep
         \/ \E r \in Requests : Do(c, r)
  PROVE  stage'[x] = "user"
<1>1. stage \in [Requests -> Stages]
      BY DEF CrawlTypes
<1>2. ASSUME NEW y, NEW to, y # x, stage' = [stage EXCEPT ![y] = to]
      PROVE  stage'[x] = "user"
      BY <1>1, <1>2
<1>3. ASSUME NEW r \in Requests, Do(c, r) PROVE stage'[x] = "user"
      BY <1>1, <1>3 DEF Do
<1>4. ASSUME NEW r \in Requests, Issue(c, r) PROVE stage'[x] = "user"
      BY <1>1, <1>4 DEF Issue
<1>5. ASSUME NEW r \in Requests, DoReturns(c, r) PROVE stage'[x] = "user"
      BY <1>5 DEF DoReturns
<1>6. CASE \/ StartNotify \/ StartRequestsMade \/ WaitRequests
           \/ CloseExports \/ WaitExporters \/ StartReturns
      BY <1>6 DEF StartNotify, StartRequestsMade, WaitRequests, CloseExports, WaitExporters,
         StartReturns, MainGoes
<1>7. CASE Semaphore(c)
      BY <1>7 DEF Semaphore, crawlVars
<1>8. CASE \/ ProcessRequest(c) \/ DoRequest(c) \/ ProcessResponse(c)
           \/ UserReturns(c) \/ RecoverMe(c)
  <2>1. \E to : stage' = [stage EXCEPT ![c] = to]
        BY <1>8 DEF ProcessRequest, DoRequest, ProcessResponse, UserReturns, RecoverMe, Advance
  <2> QED  BY <1>2, <2>1
<1>9. CASE WgDone(c)
      BY <1>2, <1>9 DEF WgDone
<1> QED
  BY <1>3, <1>4, <1>5, <1>6, <1>7, <1>8, <1>9 DEF RequestStep, MainStep

(* main moves only where Start does.                                       *)
LEMMA OnlyStartMovesMain ==
  ASSUME \/ \E c \in Requests : RequestStep(c)
         \/ \E c \in Callers, r \in Requests : Do(c, r) \/ Issue(c, r) \/ DoReturns(c, r)
         \/ SignalStep
  PROVE  UNCHANGED <<main, exportsClosed>>
<1>1. ASSUME NEW c \in Callers, NEW r \in Requests, Do(c, r) \/ Issue(c, r) \/ DoReturns(c, r)
      PROVE  UNCHANGED <<main, exportsClosed>>
      BY <1>1 DEF Do, Issue, DoReturns
<1>2. ASSUME NEW c \in Requests, RequestStep(c)
      PROVE  UNCHANGED <<main, exportsClosed>>
      BY <1>2 DEF RequestStep, Semaphore, crawlVars, ProcessRequest, DoRequest, ProcessResponse,
         UserReturns, RecoverMe, WgDone, Advance, Issue, DoReturns
<1>3. ASSUME SignalStep PROVE UNCHANGED <<main, exportsClosed>>
      BY <1>3 DEF SignalStep, crawlVars
<1> QED  BY <1>1, <1>2, <1>3

(* Nothing has been offered or closed before Start.                        *)
LEMMA PromisesInit == ScrapeInit => Promises
<1> QED  BY DEF ScrapeInit, Promises, Init, Pipeline!Init

(* A callback in a send stays in user code, and only then is one in a send.*)
LEMMA PromisesStep == CrawlInv /\ Promises /\ [ScrapeNext]_scrapeVars => Promises'
<1> SUFFICES ASSUME CrawlInv, Promises, [ScrapeNext]_scrapeVars PROVE Promises'
    OBVIOUS
<1>1. /\ CrawlTypes /\ offered \subseteq Requests
      /\ \A r \in offered : stage[r] = "user"
      /\ exportsClosed <=> main \in {"exporters", "notify", "returned"}
      BY DEF CrawlInv, Promises
<1>2. ASSUME offered' \subseteq offered, UNCHANGED <<stage, main, exportsClosed>>
      PROVE  Promises'
      BY <1>1, <1>2 DEF Promises
<1>3. CASE UNCHANGED scrapeVars
      BY <1>2, <1>3 DEF scrapeVars, vars, crawlVars, pipelineVars
<1>4. CASE SignalStep /\ UNCHANGED pipelineVars
      BY <1>2, <1>4 DEF SignalStep, crawlVars, pipelineVars
<1>5. ASSUME NEW r \in Requests, Deliver(r) PROVE Promises'
      BY <1>2, <1>5 DEF Deliver, Pipeline!Accept, vars, crawlVars
<1>6. CASE Distribute
      BY <1>2, <1>6 DEF Distribute, vars, crawlVars, Pipeline!Distribute, Pipeline!Take,
         Pipeline!Hand, Pipeline!CloseChans, Pipeline!Drain, Pipeline!DrainEnds,
         Pipeline!callbackVars
<1>7. ASSUME NEW e \in Pipeline!Exporters, ExporterStep(e) \/ ExporterFails(e) PROVE Promises'
      BY <1>2, <1>7 DEF ExporterStep, ExporterFails, vars, crawlVars, Pipeline!Open,
         Pipeline!Write, Pipeline!WriteItem, Pipeline!LoseItem, Pipeline!BufferRow,
         Pipeline!Written, Pipeline!Fail, Pipeline!Finish, Pipeline!Return, Pipeline!others,
         Pipeline!callbackVars
<1>8. ASSUME NEW r \in Requests, Export(r) PROVE Promises'
  <2>1. /\ stage[r] = "user" /\ offered' = offered \cup {r}
        /\ UNCHANGED <<stage, main, exportsClosed>>
        BY <1>8 DEF Export, vars, crawlVars
  <2> QED  BY <1>1, <2>1 DEF Promises
<1>9. ASSUME NEW c \in Callers, CallbackFree(c), UNCHANGED offered,
             \/ c \in Requests /\ RequestStep(c)
             \/ c = Main /\ MainStep
             \/ \E r \in Requests : Do(c, r)
      PROVE  \A r \in offered' : r \in Requests /\ stage'[r] = "user"
      BY <1>1, <1>9, UserCodeStays DEF CallbackFree
<1>10. ASSUME NEW c \in Callers, CallbackFree(c), UNCHANGED offered,
              \/ c \in Requests /\ RequestStep(c)
              \/ \E r \in Requests : Do(c, r)
       PROVE  Promises'
  <2>1. UNCHANGED <<main, exportsClosed>>
        BY <1>10, OnlyStartMovesMain
  <2> QED  BY <1>1, <1>9, <1>10, <2>1 DEF Promises
<1>11. CASE ScrapeMainStep
  <2>1. MainStep /\ UNCHANGED offered /\ CallbackFree(Main) /\ Main \in Callers
        BY <1>1, <1>11, CrawlerAssumption DEF ScrapeMainStep, pipelineVars, CallbackFree, Callers
  <2>2. \A r \in offered' : r \in Requests /\ stage'[r] = "user"
        BY <1>9, <2>1
  <2>3. exportsClosed' <=> main' \in {"exporters", "notify", "returned"}
    <3>1. CASE \E r \in Requests : Do(Main, r) \/ Issue(Main, r) \/ DoReturns(Main, r)
          BY <1>1, <2>1, <3>1, OnlyStartMovesMain
    <3>2. CASE \/ StartNotify \/ StartRequestsMade \/ WaitRequests
               \/ CloseExports \/ WaitExporters \/ StartReturns
          BY <1>1, <3>2 DEF StartNotify, StartRequestsMade, WaitRequests, CloseExports,
             WaitExporters, StartReturns, MainGoes
    <3> QED  BY <2>1, <3>1, <3>2 DEF MainStep
  <2> QED  BY <2>2, <2>3 DEF Promises
<1>12. ASSUME NEW c \in Requests, ScrapeRequestStep(c) PROVE Promises'
       BY <1>10, <1>12 DEF ScrapeRequestStep, pipelineVars, Callers
<1>13. ASSUME NEW c \in Requests, NEW r \in Requests,
              CallbackFree(c), Do(c, r), UNCHANGED pipelineVars
       PROVE  Promises'
       BY <1>10, <1>13 DEF pipelineVars, Callers
<1> QED
  BY <1>3, <1>4, <1>5, <1>6, <1>7, <1>8, <1>11, <1>12, <1>13 DEF ScrapeNext

(* The crawl keeps both promises.                                          *)
LEMMA PromisesKept == ScrapeSpec => [](CrawlInv /\ Promises)
<1> QED  BY PromisesInit, PromisesStep, ScrapeCrawlInv, PTL DEF ScrapeSpec
-----------------------------------------------------------------------------
(* What the pipeline sees of a crawl *)

(* A step of the crawl is one of the pipeline, or leaves it alone.         *)
LEMMA PipelineStep ==
  CrawlInv /\ Promises /\ [ScrapeNext]_scrapeVars => [Pipeline!Next]_(Pipeline!exportVars)
<1> SUFFICES ASSUME CrawlInv, Promises, [ScrapeNext]_scrapeVars
             PROVE  Pipeline!Next \/ UNCHANGED Pipeline!exportVars
    OBVIOUS
<1>1. /\ \A r \in offered : r \in Requests /\ stage[r] = "user"
      /\ exportsClosed <=> main \in {"exporters", "notify", "returned"}
      /\ main \in AfterWait => \A r \in Requests : stage[r] # "user"
      BY DEF CrawlInv, Promises, WaitIsFinal, InBody
<1> USE DEF Pipeline!exportVars, Pipeline!callbackVars, Pipeline!distributorVars,
            Pipeline!endVars, pipelineVars
<1>2. CASE UNCHANGED scrapeVars
      BY <1>2 DEF scrapeVars, vars, crawlVars
<1>3. ASSUME UNCHANGED <<pipelineVars, main, exportsClosed>>
      PROVE  UNCHANGED Pipeline!exportVars
      BY <1>3
<1>4. CASE SignalStep /\ UNCHANGED pipelineVars
      BY <1>3, <1>4 DEF SignalStep, crawlVars
<1>5. ASSUME NEW c \in Requests, ScrapeRequestStep(c)
      PROVE  UNCHANGED Pipeline!exportVars
      BY <1>3, <1>5, OnlyStartMovesMain DEF ScrapeRequestStep
<1>6. ASSUME NEW c \in Requests, NEW r \in Requests, Do(c, r), UNCHANGED pipelineVars
      PROVE  UNCHANGED Pipeline!exportVars
      BY <1>3, <1>6 DEF Do
<1>7. ASSUME NEW r \in Requests, Export(r) PROVE Pipeline!Offer(r)
  <2>1. /\ stage[r] = "user" /\ r \notin offered \cup Pipeline!Sent
        /\ offered' = offered \cup {r}
        /\ UNCHANGED <<main, exportsClosed>>
        /\ UNCHANGED <<format, accepted, queue, inHand, next, chansClosed, exporter, wgExporters>>
        BY <1>7 DEF Export, vars, crawlVars
  <2>2. ~exportsClosed
        BY <1>1, <2>1 DEF AfterWait
  <2> QED  BY <2>1, <2>2 DEF Pipeline!Offer
<1>8. ASSUME NEW r \in Requests, Deliver(r) PROVE Pipeline!Accept(r)
      BY <1>8 DEF Deliver
<1>9. CASE Distribute
      BY <1>9 DEF Distribute, Pipeline!Next
<1>10. ASSUME NEW e \in Pipeline!Exporters, ExporterStep(e) \/ ExporterFails(e)
       PROVE  Pipeline!Next
       BY <1>10 DEF ExporterStep, ExporterFails, Pipeline!Next
<1>11. CASE ScrapeMainStep
  <2>1. MainStep /\ UNCHANGED pipelineVars /\ (main = "exporters" => wgExporters = 0)
        BY <1>11 DEF ScrapeMainStep, ExportersDone
  <2>2. CASE CloseExports
    <3>1. main = "close" /\ main' = "exporters" /\ exportsClosed' = TRUE
          BY <2>2 DEF CloseExports, MainGoes
    <3>2. ~exportsClosed /\ offered = {}
          BY <1>1, <3>1 DEF AfterWait
    <3>3. Pipeline!CloseExports
          BY <2>1, <3>1, <3>2 DEF Pipeline!CloseExports
    <3> QED  BY <3>3 DEF Pipeline!Next
  <2>3. CASE WaitExporters
    <3>1. main = "exporters" /\ main' = "notify" /\ UNCHANGED exportsClosed
          BY <2>3 DEF WaitExporters, MainGoes
    <3>2. exportsClosed
          BY <1>1, <3>1
    <3>3. Pipeline!WaitExporters
          BY <2>1, <3>1, <3>2 DEF Pipeline!WaitExporters, Pipeline!AllDone
    <3> QED  BY <3>3 DEF Pipeline!Next
  <2>4. CASE StartNotify \/ StartRequestsMade \/ WaitRequests \/ StartReturns
        BY <2>1, <2>4 DEF StartNotify, StartRequestsMade, WaitRequests, StartReturns, MainGoes
  <2>5. CASE \E r \in Requests : Do(Main, r) \/ Issue(Main, r) \/ DoReturns(Main, r)
        BY <1>3, <2>1, <2>5, OnlyStartMovesMain DEF Callers
  <2> QED  BY <2>1, <2>2, <2>3, <2>4, <2>5 DEF MainStep
<1> QED
  BY <1>2, <1>4, <1>5, <1>6, <1>7, <1>8, <1>9, <1>10, <1>11 DEF ScrapeNext, Pipeline!Next

(* geziyor.go, Start: g.Exports is not closed while a callback is in a     *)
(* send, and nothing is sent after. A crawl is a use of the pipeline.      *)
THEOREM PipelineImplemented == ScrapeSpec => ImplementsPipeline
<1>1. ScrapeInit => Pipeline!Init
      BY DEF ScrapeInit
<1> QED
  BY <1>1, PipelineStep, PromisesKept, PTL DEF ScrapeSpec, ImplementsPipeline, Pipeline!Spec

(* The pipeline of the crawl and the one of the proofs are the same.       *)
LEMMA SamePipeline == Pipeline!Spec => PipelineProofs!Spec
<1>1. Pipeline!Init => PipelineProofs!Init
      BY DEF Pipeline!Init, PipelineProofs!Init, Pipeline!Exporters, PipelineProofs!Exporters,
         Pipeline!n, PipelineProofs!n, Pipeline!Opening, PipelineProofs!Opening
<1> USE DEF Pipeline!exportVars, Pipeline!callbackVars, Pipeline!distributorVars,
            Pipeline!endVars, Pipeline!others, PipelineProofs!exportVars,
            PipelineProofs!callbackVars, PipelineProofs!distributorVars,
            PipelineProofs!endVars, PipelineProofs!others,
            Pipeline!Exporters, PipelineProofs!Exporters, Pipeline!n, PipelineProofs!n
<1>2. ASSUME NEW r PROVE /\ Pipeline!Offer(r) => PipelineProofs!Offer(r)
                         /\ Pipeline!Accept(r) => PipelineProofs!Accept(r)
      BY DEF Pipeline!Offer, PipelineProofs!Offer, Pipeline!Accept, PipelineProofs!Accept,
         Pipeline!Sent, PipelineProofs!Sent, Pipeline!HasRoom, PipelineProofs!HasRoom
<1>3. /\ Pipeline!CloseExports => PipelineProofs!CloseExports
      /\ Pipeline!WaitExporters => PipelineProofs!WaitExporters
      BY DEF Pipeline!CloseExports, PipelineProofs!CloseExports, Pipeline!WaitExporters,
         PipelineProofs!WaitExporters, Pipeline!AllDone, PipelineProofs!AllDone
<1>4. Pipeline!Distribute => PipelineProofs!Distribute
      BY DEF Pipeline!Distribute, PipelineProofs!Distribute, Pipeline!Take, PipelineProofs!Take,
         Pipeline!Hand, PipelineProofs!Hand, Pipeline!CloseChans, PipelineProofs!CloseChans,
         Pipeline!Drain, PipelineProofs!Drain, Pipeline!DrainEnds, PipelineProofs!DrainEnds
<1>5. \A f, items : Pipeline!Lines(f, items) = PipelineProofs!Lines(f, items)
      BY Zenon DEF Pipeline!Lines, PipelineProofs!Lines, Pipeline!Encodable,
         PipelineProofs!Encodable
<1>6. ASSUME NEW e PROVE Pipeline!Line(e) = PipelineProofs!Line(e)
      BY <1>5, Zenon DEF Pipeline!Line, PipelineProofs!Line, Pipeline!Last, PipelineProofs!Last
<1>7. ASSUME NEW e PROVE Pipeline!Open(e) => PipelineProofs!Open(e)
      BY DEF Pipeline!Open, PipelineProofs!Open
<1>8. ASSUME NEW e PROVE Pipeline!Write(e) => PipelineProofs!Write(e)
      BY <1>6 DEF Pipeline!Write, PipelineProofs!Write, Pipeline!WriteItem,
         PipelineProofs!WriteItem, Pipeline!LoseItem, PipelineProofs!LoseItem,
         Pipeline!BufferRow, PipelineProofs!BufferRow, Pipeline!Stuck, PipelineProofs!Stuck,
         Pipeline!Written, PipelineProofs!Written
<1>9. ASSUME NEW e PROVE Pipeline!Fail(e) => PipelineProofs!Fail(e)
      BY <1>6 DEF Pipeline!Fail, PipelineProofs!Fail, Pipeline!Return, PipelineProofs!Return
<1>10. ASSUME NEW e PROVE Pipeline!Finish(e) => PipelineProofs!Finish(e)
       BY Zenon DEF Pipeline!Finish, PipelineProofs!Finish, Pipeline!Return, PipelineProofs!Return,
          Pipeline!ChannelEnded, PipelineProofs!ChannelEnded, Pipeline!Ended, PipelineProofs!Ended
<1>11. Pipeline!Next => PipelineProofs!Next
       BY <1>2, <1>3, <1>4, <1>7, <1>8, <1>9, <1>10 DEF Pipeline!Next, PipelineProofs!Next
<1>12. UNCHANGED Pipeline!exportVars => UNCHANGED PipelineProofs!exportVars
       OBVIOUS
<1> QED  BY <1>1, <1>11, <1>12, PTL DEF Pipeline!Spec, PipelineProofs!Spec

(* The pipeline has what its theorems need.                                *)
LEMMA PipelineNeeds == PipelineProofs!ExportAssumption
<1> QED  BY ScrapeAssumption DEF PipelineProofs!ExportAssumption, PipelineProofs!Formats,
            Pipeline!Formats

(* What is proved of the pipeline holds in a crawl.                        *)
LEMMA ScrapePipelineInv == ScrapeSpec => [](PipelineProofs!PipelineInv /\ PipelineProofs!AllExported)
<1> QED
  BY PipelineNeeds, PipelineImplemented, SamePipeline, PipelineProofs!PipelineInvariant,
     PipelineProofs!Complete, PTL DEF ImplementsPipeline

(* When Start has returned, no callback is left in a send, and every item  *)
(* that was ever offered is in the output of each exporter of which no     *)
(* write failed, whatever happened to the others.                          *)
THEOREM NothingLostHolds == ScrapeSpec => []NothingLost
<1>1. PipelineProofs!PipelineInv /\ PipelineProofs!AllExported => NothingLost
  <2> SUFFICES ASSUME PipelineProofs!PipelineInv, PipelineProofs!AllExported, main = "returned"
               PROVE  /\ offered = {}
                      /\ \A e \in Pipeline!Exporters : ~exporter[e].fault =>
                           \A r \in Pipeline!Sent :
                             \E k \in DOMAIN exporter[e].out : exporter[e].out[k] = r
      BY DEF NothingLost
  <2>1. offered = {}
        BY DEF PipelineProofs!PipelineInv, PipelineProofs!CountInv,
           PipelineProofs!DistributorInv
  <2>2. ASSUME NEW e \in Pipeline!Exporters, ~exporter[e].fault
        PROVE  exporter[e].out = accepted
    <3>1. exporter[e].out = PipelineProofs!Lines(format[e], accepted)
          BY <2>2 DEF PipelineProofs!AllExported, PipelineProofs!Exporters, PipelineProofs!n,
             Pipeline!Exporters, Pipeline!n
    <3>2. accepted \in Seq(Requests)
          BY DEF PipelineProofs!PipelineInv, PipelineProofs!ExportTypeOK
    <3>3. PipelineProofs!Lines(format[e], accepted) = accepted
          BY <3>2, PipelineNeeds, PipelineProofs!LinesOfPrintable
    <3> QED  BY <3>1, <3>3
  <2>3. ASSUME NEW r \in Pipeline!Sent PROVE \E k \in DOMAIN accepted : accepted[k] = r
        BY DEF Pipeline!Sent
  <2> QED  BY <2>1, <2>2, <2>3
<1> QED  BY <1>1, ScrapePipelineInv, PTL
-----------------------------------------------------------------------------
(* What can stop a crawl with exporters *)

(* The guard of a step of the crawl holds, other than that of a call a     *)
(* callback need not make, of a ^C, or of an exporter that fails.          *)
ScrapeMoves ==
  \/ MainGoesOn /\ (main = "exporters" => ExportersDone)
  \/ waiter \in {"announced", "flagged"}
  \/ \E r \in Requests : CallbackFree(r) /\ RequestGoesOn(r)
  \/ PipelineProofs!PipelineMoves

(* The exporters add one way to hang to the two of a crawl without them.   *)
ScrapeGoesOn ==
  ~killed /\ main # "returned" =>
    \/ ScrapeMoves
    \/ \E r \in Requests : WaitsToRelease(r) \/ WaitsInDo(r)
    \/ PipelineProofs!HeldUp

(* Without a synchronous request in a callback, a second channel for a     *)
(* host and an exporter that returns an error, none of the three is left.  *)
ScrapeNeverHangs ==
  Synchronized \subseteq StartRequests /\ OneSemaphorePerHost /\ Pipeline!NoFailure =>
    (~killed /\ main # "returned" => ScrapeMoves)

(* Whoever waits for g.Exports or g.wgExporters waits for the pipeline,    *)
(* which moves or is held up by a failure.                                 *)
LEMMA WaitsForPipeline ==
  ASSUME Promises, PipelineProofs!OnlyFailureHoldsUp, SomebodyGoesOn
  PROVE  ScrapeMoves \/ PipelineProofs!HeldUp
<1>1. ASSUME offered # {} \/ (exportsClosed /\ ~ExportersDone)
      PROVE  ScrapeMoves \/ PipelineProofs!HeldUp
      BY <1>1 DEF PipelineProofs!OnlyFailureHoldsUp, PipelineProofs!AllDone, ExportersDone,
         ScrapeMoves
<1>2. CASE MainGoesOn
  <2>1. main = "exporters" => exportsClosed
        BY DEF Promises
  <2> QED  BY <1>1, <1>2, <2>1 DEF ScrapeMoves
<1>3. CASE waiter \in {"announced", "flagged"}
      BY <1>3 DEF ScrapeMoves
<1>4. ASSUME NEW r \in Requests, RequestGoesOn(r)
      PROVE  ScrapeMoves \/ PipelineProofs!HeldUp
  <2>1. CASE offered = {}
        BY <1>4, <2>1 DEF ScrapeMoves, CallbackFree
  <2> QED  BY <1>1, <2>1
<1> QED  BY <1>2, <1>3, <1>4 DEF SomebodyGoesOn

(* In a crawl, too, nothing but a failure holds up the pipeline.           *)
LEMMA ScrapeFailures == ScrapeSpec => []PipelineProofs!OnlyFailureHoldsUp
<1> QED
  BY PipelineNeeds, PipelineImplemented, SamePipeline, PipelineProofs!OnlyFailureHoldsUpHolds,
     PTL DEF ImplementsPipeline

(* Start, Do, do, startExporters and Export together: callbacks that keep  *)
(* their places in the semaphores while they wait for the exporters never  *)
(* make the crawl wait for itself.                                         *)
THEOREM ScrapeGoesOnHolds == ScrapeSpec => []ScrapeGoesOn
<1>1. Promises /\ PipelineProofs!OnlyFailureHoldsUp /\ CrawlGoesOn => ScrapeGoesOn
      BY WaitsForPipeline DEF CrawlGoesOn, ScrapeGoesOn
<1> QED
  BY <1>1, PromisesKept, ScrapeFailures, ScrapeIsCrawl, CrawlGoesOnHolds, PTL

(* What ScrapeEnds needs besides fairness: under its conditions some       *)
(* goroutine has a step it can take until Start returns or ^C kills.       *)
THEOREM ScrapeNeverHangsHolds == ScrapeSpec => []ScrapeNeverHangs
<1>1. PipelineProofs!PipelineInv /\ Pipeline!NoFailure => ~PipelineProofs!HeldUp
      BY DEF Pipeline!NoFailure, PipelineProofs!HeldUp, PipelineProofs!Exporters,
         Pipeline!Exporters, PipelineProofs!n, Pipeline!n
<1>2. PipelineProofs!PipelineInv /\ Promises /\ PipelineProofs!OnlyFailureHoldsUp
        /\ CrawlNeverHangs => ScrapeNeverHangs
      BY <1>1, WaitsForPipeline DEF CrawlNeverHangs, ScrapeNeverHangs
<1> QED
  BY <1>2, ScrapePipelineInv, PromisesKept, ScrapeFailures, ScrapeIsCrawl,
     CrawlNeverHangsHolds, PTL
=============================================================================
