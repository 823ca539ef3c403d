---------------------------- MODULE Middlewares ----------------------------
(***************************************************************************)
(* The request middlewares of NewGeziyor (package middleware), which every *)
(* goroutine running `do` takes its request through, in this order:        *)
(* AllowedDomains, DuplicateRequests, Headers, delay, Metrics, RobotsTxt.  *)
(* They are shared by all goroutines: the visited URLs, the robots.txt of  *)
(* each host and the counters are what they share.                         *)
(*                                                                         *)
(* A request belongs to the program: a callback may pass it to Do again,   *)
(* with what the middlewares left in it.  Left out: the headers that are   *)
(* set, the log messages and their logOnlyOnce, and custom middlewares.    *)
(***************************************************************************)
EXTENDS Naturals, FiniteSets, FiniteSetsExt

CONSTANTS
  Requests,
  UrlOf,                  \* the URL of a request
  HostOf,                 \* the host of a URL
  Gets,                   \* the requests with method GET
  AllowedDomains,         \* Opt.AllowedDomains, {}: all
  URLRevisitEnabled,      \* Opt.URLRevisitEnabled
  RequestDelayRandomize,  \* Opt.RequestDelayRandomize
  RequestDelay,           \* Opt.RequestDelay
  RobotsTxtDisabled,      \* Opt.RobotsTxtDisabled
  RobotsAnswers,          \* what a robots.txt may say: sets of forbidden URLs
  NoRules,                \* no robots.txt
  MaxIssues               \* bound: how often a request is passed to Do

Urls == {UrlOf[r] : r \in Requests}
Hosts == {HostOf[u] : u \in Urls}

ASSUME MiddlewaresAssumption ==
  /\ IsFiniteSet(Requests)
  /\ Gets \subseteq Requests
  /\ URLRevisitEnabled \in BOOLEAN
  /\ RequestDelayRandomize \in BOOLEAN
  /\ RequestDelay \in Nat
  /\ RobotsTxtDisabled \in BOOLEAN
  /\ RobotsAnswers \subseteq SUBSET Urls
  /\ NoRules \notin RobotsAnswers
  /\ MaxIssues \in Nat

VARIABLES
  at,          \* the middleware that is next for each request, see Steps
  cancelled,   \* req.Cancelled
  issued,      \* how often each request was passed to Do
  visited,     \* the keys of DuplicateRequests.visitedURLs
  robotsMap,   \* RobotsTxt.robotsMap
  rules,       \* the local variable robotsData of each goroutine
  metrics,     \* the counters the middlewares increment
  passed,      \* history: how often each request got through
  panicked,    \* history: how often a panic ended each request
  forbidden,   \* history: the URLs found forbidden
  failed       \* history: how often robots.txt could not be had, by host

requestVars == <<at, cancelled, issued, passed, panicked>>
robotsVars == <<robotsMap, rules, forbidden, failed>>
vars == <<requestVars, robotsVars, visited, metrics>>

(* "fetch", "store" and "test" are parts of RobotsTxt.                     *)
InChain == {"domains", "duplicates", "delay", "metrics", "robots", "fetch", "store", "test"}
Ended == {"idle", "passed", "cancelled", "panicked"}

Host(r) == HostOf[UrlOf[r]]

Init ==
  /\ at = [r \in Requests |-> "idle"]
  /\ cancelled = [r \in Requests |-> FALSE]
  /\ issued = [r \in Requests |-> 0]
  /\ visited = {}
  /\ robotsMap = [h \in Hosts |-> NoRules]
  /\ rules = [r \in Requests |-> NoRules]
  /\ metrics = [requests |-> 0, robotsRequests |-> [h \in Hosts |-> 0],
                robotsResponses |-> [h \in Hosts |-> 0], robotsForbidden |-> 0]
  /\ passed = [r \in Requests |-> 0]
  /\ panicked = [r \in Requests |-> 0]
  /\ forbidden = {}
  /\ failed = [h \in Hosts |-> 0]
-----------------------------------------------------------------------------
Goto(r, to) == at' = [at EXCEPT ![r] = to]

(* r.Cancel(): the loop of do ends after this middleware.                  *)
Cancel(r) ==
  /\ cancelled' = [cancelled EXCEPT ![r] = TRUE]
  /\ Goto(r, "cancelled")
  /\ UNCHANGED <<issued, passed, panicked>>

(* The next middleware's turn.                                             *)
Continue(r, to) ==
  /\ Goto(r, to)
  /\ UNCHANGED <<cancelled, issued, passed, panicked>>

(* The last middleware is done: the request will be sent.                  *)
Pass(r) ==
  /\ Goto(r, "passed")
  /\ passed' = [passed EXCEPT ![r] = @ + 1]
  /\ UNCHANGED <<cancelled, issued, panicked>>

(* A middleware panics.  do recovers and ends: what the middlewares before *)
(* have recorded of the request stays.                                     *)
Panic(r) ==
  /\ Goto(r, "panicked")
  /\ panicked' = [panicked EXCEPT ![r] = @ + 1]
  /\ UNCHANGED <<cancelled, issued, passed>>

(* do starts on a request, for the first time or again.                    *)
Issue(r) ==
  /\ at[r] \in Ended
  /\ issued[r] < MaxIssues
  /\ issued' = [issued EXCEPT ![r] = @ + 1]
  /\ Goto(r, "domains")
  /\ rules' = [rules EXCEPT ![r] = NoRules]
  /\ UNCHANGED <<cancelled, passed, panicked, visited, robotsMap, metrics, forbidden, failed>>

(* Mutant: the host is not looked at.                                      *)
Mutant_Allowed(r) == TRUE

Allowed(r) == AllowedDomains = {} \/ Host(r) \in AllowedDomains

(* Nobody resets req.Cancelled: a request that was cancelled before ends   *)
(* with the first middleware.                                              *)
ProcessAllowedDomains(r) ==
  /\ at[r] = "domains"
  /\ IF cancelled[r] \/ ~Allowed(r) THEN Cancel(r) ELSE Continue(r, "duplicates")
  /\ UNCHANGED <<robotsVars, visited, metrics>>

(* Mutant: the request is remembered and not its URL.                      *)
Mutant_Key(r) == r

Key(r) == UrlOf[r]

(* visitedURLs.LoadOrStore, one atomic step.                               *)
ProcessDuplicates(r) ==
  /\ at[r] = "duplicates"
  /\ LET checked == ~URLRevisitEnabled /\ r \in Gets
     IN  /\ visited' = IF checked THEN visited \cup {Key(r)} ELSE visited
         /\ IF checked /\ Key(r) \in visited THEN Cancel(r) ELSE Continue(r, "delay")
  /\ UNCHANGED <<robotsVars, metrics>>

(* rand.Intn panics when the interval it draws from, from 0.5 to 1.5 of    *)
(* the delay, is empty.                                                    *)
DelayPanics == RequestDelayRandomize /\ RequestDelay = 0

(* Headers only touches the request, and the delay sleeps.                 *)
ProcessDelay(r) ==
  /\ at[r] = "delay"
  /\ IF DelayPanics THEN Panic(r) ELSE Continue(r, "metrics")
  /\ UNCHANGED <<robotsVars, visited, metrics>>

(* Mutant: only GET requests are counted.                                  *)
Mutant_Count(r) == IF r \in Gets THEN 1 ELSE 0

Count(r) == 1

(* RequestCounter.Add(1), and RobotsTxt if it is disabled.                 *)
ProcessMetrics(r) ==
  /\ at[r] = "metrics"
  /\ metrics' = [metrics EXCEPT !.requests = @ + Count(r)]
  /\ IF RobotsTxtDisabled THEN Pass(r) ELSE Continue(r, "robots")
  /\ UNCHANGED <<robotsVars, visited>>
-----------------------------------------------------------------------------
(* RobotsTxt: read under the read lock, fetch without a lock, write under  *)
(* the write lock.                                                         *)

Known(r) == robotsMap[Host(r)] # NoRules

(* Mutant: a request is cancelled when robots.txt cannot be had.           *)
Mutant_Unchecked(r) ==
  /\ Cancel(r)
  /\ failed' = [failed EXCEPT ![Host(r)] = @ + 1]

Unchecked(r) ==
  /\ Pass(r)
  /\ failed' = [failed EXCEPT ![Host(r)] = @ + 1]

(* The read of the map: a hit, or a miss.  With a Host no URL can be made  *)
(* from, NewRequest fails and the request passes unchecked, uncounted.     *)
RobotsLookup(r) ==
  /\ at[r] = "robots"
  /\ \/ /\ Known(r)
        /\ rules' = [rules EXCEPT ![r] = robotsMap[Host(r)]]
        /\ Continue(r, "test")
        /\ UNCHANGED <<metrics, failed>>
     \/ /\ ~Known(r)
        /\ metrics' = [metrics EXCEPT !.robotsRequests[Host(r)] = @ + 1]
        /\ Continue(r, "fetch")
        /\ UNCHANGED <<rules, failed>>
     \/ /\ ~Known(r)
        /\ Unchecked(r)
        /\ UNCHANGED <<rules, metrics>>
  /\ UNCHANGED <<visited, robotsMap, forbidden>>

(* The request for robots.txt fails, or its answer cannot be parsed: the   *)
(* request passes unchecked.  Or m.client.DoRequest panics, in a ProxyFunc *)
(* of the user's, say.  Otherwise the answer becomes robotsData.           *)
RobotsFetch(r) ==
  /\ at[r] = "fetch"
  /\ \/ /\ Unchecked(r)
        /\ \/ UNCHANGED metrics
           \/ metrics' = [metrics EXCEPT !.robotsResponses[Host(r)] = @ + 1]
        /\ UNCHANGED rules
     \/ Panic(r) /\ UNCHANGED <<rules, metrics, failed>>
     \/ /\ Continue(r, "store")
        /\ metrics' = [metrics EXCEPT !.robotsResponses[Host(r)] = @ + 1]
        /\ \E answer \in RobotsAnswers : rules' = [rules EXCEPT ![r] = answer]
        /\ UNCHANGED failed
  /\ UNCHANGED <<visited, robotsMap, forbidden>>

(* Mutant: the answer is used and not stored.                              *)
Mutant_WithAnswer(r) == robotsMap

(* m.robotsMap[r.Host] = robotsData, over what another goroutine stored.   *)
WithAnswer(r) == [robotsMap EXCEPT ![Host(r)] = rules[r]]

RobotsStore(r) ==
  /\ at[r] = "store"
  /\ Continue(r, "test")
  /\ robotsMap' = WithAnswer(r)
  /\ UNCHANGED <<visited, rules, metrics, forbidden, failed>>

(* Mutant: the verdict of robots.txt is not applied.                       *)
Mutant_Disallowed(r) == FALSE

Disallowed(r) == UrlOf[r] \in rules[r]

(* robotsData.TestAgent, on the goroutine's own robotsData.                *)
RobotsTest(r) ==
  /\ at[r] = "test"
  /\ \/ /\ Disallowed(r)
        /\ metrics' = [metrics EXCEPT !.robotsForbidden = @ + 1]
        /\ forbidden' = forbidden \cup {UrlOf[r]}
        /\ Cancel(r)
     \/ /\ ~Disallowed(r)
        /\ Pass(r)
        /\ UNCHANGED <<metrics, forbidden>>
  /\ UNCHANGED <<visited, robotsMap, rules, failed>>
-----------------------------------------------------------------------------
Process(r) ==
  \/ ProcessAllowedDomains(r) \/ ProcessDuplicates(r) \/ ProcessDelay(r) \/ ProcessMetrics(r)
  \/ RobotsLookup(r) \/ RobotsFetch(r) \/ RobotsStore(r) \/ RobotsTest(r)

Next == \E r \in Requests : Issue(r) \/ Process(r)

Spec == Init /\ [][Next]_vars
-----------------------------------------------------------------------------
(* Properties *)

SumOver(f, S) == MapThenSumSet(LAMBDA x : f[x], S)

(* options.go, URLRevisitEnabled, "Revisiting same URLs is disabled by     *)
(* default": a URL is fetched with GET once, whichever requests ask for it *)
(* together and however often they are passed to Do.                       *)
GetAtMostOnce ==
  ~URLRevisitEnabled =>
    \A u \in Urls : SumOver(passed, {r \in Gets : UrlOf[r] = u}) <= 1

(* A visited URL is accounted for: a request for it got through, or was    *)
(* forbidden by robots.txt, or panicked, or is still on its way.  The mark *)
(* is set long before that, and a request that was cancelled in between    *)
(* would lose the URL without a word.  A panic does lose it: nobody takes  *)
(* the mark back (duplicate_requests.go:19, robotstxt.go:47).              *)
VisitedIsAccounted ==
  \A u \in visited :
    \/ u \in forbidden
    \/ \E r \in Gets :
         UrlOf[r] = u /\ (passed[r] > 0 \/ panicked[r] > 0 \/ at[r] \in InChain)

(* options.go, AllowedDomains: a host that is not allowed gets no request, *)
(* no request for its robots.txt either, and none of its URLs is recorded. *)
DisallowedHostsUntouched ==
  AllowedDomains # {} =>
    /\ \A u \in visited : HostOf[u] \in AllowedDomains
    /\ \A h \in Hosts \ AllowedDomains : metrics.robotsRequests[h] = 0
    /\ \A r \in Requests : Host(r) \notin AllowedDomains => passed[r] = 0

(* The counters tell what became of the requests: each one counted is      *)
(* still at RobotsTxt, was counted again as forbidden, was sent, or is one *)
(* of those lost in a panic.  A delay that panics lets none be counted.    *)
MetricsAddUp ==
  ~DelayPanics =>
    metrics.requests =
      Cardinality({r \in Requests : at[r] \in {"robots", "fetch", "store", "test"}})
        + metrics.robotsForbidden + SumOver(passed, Requests) + SumOver(panicked, Requests)

(* robotstxt.go:35 has it that robots.txt is sometimes asked for more than *)
(* once.  How often is bounded: apart from the attempts that brought       *)
(* nothing, a host is asked by different requests that overlap, once by    *)
(* each of them however often it is passed to Do.                          *)
RobotsDuplicatesBounded ==
  \A h \in Hosts :
    LET toHost == {r \in Requests : Host(r) = h}
    IN  metrics.robotsRequests[h] <=
          failed[h] + SumOver(panicked, toHost) + Cardinality({r \in toHost : issued[r] > 0})

(* A URL that every answer of its host forbids is fetched only if its      *)
(* robots.txt could not be had, and then once for each failure.            *)
ForbiddenOnlyAfterFailure ==
  ~RobotsTxtDisabled =>
    \A h \in Hosts :
      SumOver(passed, {r \in Requests : Host(r) = h /\ \A a \in RobotsAnswers : UrlOf[r] \in a})
        <= failed[h]
=============================================================================
