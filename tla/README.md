# Geziyor in TLA+

[Geziyor](https://github.com/geziyor/geziyor) is a crawling framework in Go: a
program gives it start URLs and callbacks, it fetches pages in one goroutine per
request, hands every page to a callback, and writes what the callbacks export.
This directory holds TLA+ modules of its core, TLC configurations that check
them on small instances, and proofs that TLAPS checks for instances of any size.

Source lines are named as `geziyor.go:226`. Comments in the modules name the Go
code that a definition stands for; `PROJECT.json` has the table.

## 1. The system

| Component | Source | State | Operations |
|---|---|---|---|
| Crawl control | `geziyor.go` | `wgRequests`, `shutdown`, the goroutines | `Start`, `Do`, `do`, `recoverMe`, `Get`/`GetRendered`/`Head`/`Post` |
| Concurrency limits | `geziyor.go` | `semGlobal`, `semHosts` (a map of channels under an RWMutex) | `acquireSem`, `releaseSem` |
| SIGINT handling | `geziyor.go` | `shutdown`, `shutdownChan`, `shutdownDoneChan`, the registration of the signal | `interruptSignalWaiter` |
| Export pipeline | `geziyor.go`, `export/` | `Exports`, one channel per exporter, `wgExporters`, output files | `startExporters`, `Export` of each format |
| Request middlewares | `middleware/` | visited URLs, robots.txt of each host, counters, `req.Cancelled` | `ProcessRequest` of each |
| Response middlewares, headers | `middleware/` | none | `ProcessResponse` |
| Client | `client/` | `req.retryCounter`, the body of a request, cookies, the proxy counter | `DoRequest`, `doRequestClient`, `doRequestChrome`, proxy rotation |
| HTTP cache | `cache/cache.go` | the entries of the store | `RoundTripRFC2616`, `RoundTripDummy`, the header rules |
| Cache stores | `cache/*cache/` | map under a mutex, disk, LevelDB | `Get`, `Set`, `Delete` |
| Rate limiter | `geziyor.go`, x/time/rate | tokens over real time | `Wait` |
| Metrics, options, logger | `metrics/`, `options.go`, `internal/` | counters of a library | registration, serving |

How they interact:

- `Start` runs in the caller's goroutine. It starts the exporters and the SIGINT
  goroutine, calls `Do` for the start URLs, waits for `wgRequests`, closes
  `g.Exports`, waits for `wgExporters`, and ends the SIGINT goroutine.
- `Do` reads `g.shutdown`, adds to `wgRequests` and starts a goroutine for `do`,
  or calls it when the request is `Synchronized`.
- `do` takes a place of each semaphore, goes through the request middlewares,
  the client (with the cache as its transport, if set), the response middlewares
  and the callback. Deferred, in this order: `recoverMe`, `wgRequests.Done`,
  `releaseSem`.
- A callback may call `Do`, also synchronously, and sends items to `g.Exports`. While
  it waits in such a send it keeps its places of the semaphores.
- All goroutines share the semaphores, the middlewares and the cache.

What is hard about it, and hard to test:

- *Counting.* Cancelled requests, errors, `ErrorFunc`, panics in middlewares and
  in callbacks, nested and synchronous calls of `Do`: all have to count down once,
  and a request that a callback makes has to be counted before its maker is not.
- *Limits.* A request holds a place of the global semaphore while it waits for
  one of its host; the map of host channels is read and written in two critical
  sections; a release looks the channel up again.
- *The end.* SIGINT comes at any moment; the flag is read without
  synchronization; a channel closed too early would make a callback panic and
  lose its item; an exporter may have failed.
- *Stale reads.* robots.txt and the cache are read, the network is asked, and
  the result is stored, with other goroutines in between. The cache stores a GET
  when the caller has read the body, which may be much later.
- *State that outlives a call.* `retryCounter`, `Cancelled` and the body of a
  request are left as they are when a callback passes the request to `Do` again.
  Cache entries on disk outlive the process, which may end in the middle of a write.
- *Layers that do not know of each other.* Retries run above the cache, redirects
  below the retries, and neither passes the limiter or the semaphores again.

What makes each component correct:

- crawl control: `Start` returns when, and only when, nothing is left to do;
- limits: no more than so many requests at a time, no place lost, no deadlock;
- SIGINT: none is lost, and the user can always force the end in a while;
- exports: every exporter gets every item, in order, before the program goes on;
- middlewares: one GET for a URL, none for a host that is not allowed, robots.txt
  obeyed if it can be had, counters that add up;
- client: the number of attempts, and of the requests sent for them, is bounded, the
  attempts are not fewer than promised, and the proxies take equal shares;
- cache: what it returns is what the origin had, for the right variant and
  within the permissions of both sides.

`PROJECT.json` lists the single hazards with their lines, and the properties that
are about each of them.

## 2. The modules

```
TerminationDetection   ConcurrencyLimit       Broadcast        (abstract)
        ^                     ^                   ^
        | implements          | implements        | implements
     Crawler --EXTENDS--> Semaphores        ExportPipeline
        |  \---EXTENDS--> Interrupts              ^
        |                                         | INSTANCE, and implements
     Scrape --------------------------------------+

Retry, Proxies, RateLimiter <--EXTENDS-- Fetch
Retry, DummyCache           <--EXTENDS-- CachedRetry
CacheControl, CacheStore    <--EXTENDS-- DummyCache
CacheControl                <--EXTENDS-- CacheTransport
Middlewares

SemaphoresProofs <--EXTENDS-- CrawlerProofs --INSTANCE--> ExportPipelineProofs
FetchProofs   CacheTransportProofs   DummyCacheProofs   MiddlewaresProofs
InductionLemmas, for the proofs that have sums or recursive functions
```

**Semaphores** - `acquireSem` and `releaseSem`. `pc[r]` is the statement a
goroutine is at. A buffered channel is its number of tokens: a send needs room, a
receive needs a token. A host channel is named by the request whose `acquireSem`
made it, so that two channels for a host are two values. `Lookup` and `Register`
are the two critical sections; `ReleaseLookup` takes the channel that is
registered by then. `ConcurrencyLimit` is what the global limit promises.

**Interrupts** - the SIGINT goroutine with the lines of `Start` that begin and end
it. `pending` is the buffer of `shutdownChan` (the runtime drops a signal when it
is full), `registered` the time between `signal.Notify` and `signal.Stop`;
a SIGINT outside that time ends the process (`killed`).

**Crawler** - `Start`, `Do`, `do`, `recoverMe`, over the two modules above. Each
call of `Do` has a request of its own. `stage[r]` tells how far it is: `dropped`
by `Do`, `admitted` (the flag was read), then the parts of `do`. `inDo[c]` is the
call that a caller, `Start` or a callback, is in; for a `Synchronized` request it
stays there until `do` is over. A panic is a way out of every part of `do`, the
client included, which calls functions of the user such as `ProxyFunc`.
`g.shutdown` is written without synchronization, so a read may miss it: `Do` may
admit a request although the flag is up. `TerminationDetection` is what the counting
promises.

**ExportPipeline** - `g.Exports` with its one place, the goroutine that
distributes, the one that drains when there are no exporters, and the exporters.
`format` is the list of exporters of this crawl, a variable that keeps its first
value, so that one run covers none, one and several, of different formats. An
output is a sequence of lines, `exporter[e].out`. JSON returns an error at every
failed write; JSONLine and CSV log it and lose what follows, since `json.Encoder`
and `bufio.Writer` keep their first error; CSV has a buffer, which goes out when it
is full or at the end; PrettyPrint ignores the error of an item. What cannot be
encoded as JSON is left out; what is neither slice nor map is an empty line in
CSV. `Broadcast` is what the pipeline promises.

**Scrape** - `Crawler` and `ExportPipeline` in one crawl. `g.Exports` is closed by
the `CloseExports` of the crawl (the variable `exportsClosed` is shared),
`g.wgExporters.Wait` passes when the counter of the pipeline is zero, and the item of
a request is sent by its callback, which does nothing else while its send waits. A
process that is killed takes no step.

**Middlewares** - the chain of `NewGeziyor` in its order, on requests that may be
passed to `Do` several times. Headers and the log are left out. robots.txt is
three steps, as its locks have it: look up, fetch, store. What a robots.txt says
is the set of URLs it forbids. A middleware can panic in two places, the random delay
and the client that fetches robots.txt (`Panic`, counted in `panicked`); `do` recovers,
and what was recorded of the request before stays.

**Retry** - `DoRequest` of the client, its recursion as a loop. One request goes through
several calls. Its body is any `io.Reader`, and what an attempt has read of it
(`bodyLeft`) is gone for the next. net/http declares the length of some readers and
refuses to send less (`Declared`, `Sendable`); of others it sends what is left, were it
nothing. `fullAt` remembers which answer was the one to the whole body. What an attempt
does is left to two modules: in **Fetch** it is a sequence of requests on the wire
(`hop`, `redirects`, `sent`) ended by a response, an error, or a redirect that
`CheckRedirect` refuses; each takes a proxy of **Proxies**, whose index wraps at
`IndexSize` and which other goroutines use too. Before the first attempt of a call comes
the token bucket of **RateLimiter**.

**CachedRetry** - an attempt that is a round trip through the cache under the Dummy
policy, the default. **DummyCache** is `RoundTripDummy` for goroutines that request one
URL again and again, while the page changes and the process ends and starts again.
**CacheStore** has the three stores: in memory, gone with the process; LevelDB, whose
errors are dropped; diskv, which moreover writes an entry in place, as no `TempDir`
is set (`diskcache.go:50`), so that a crash can leave one cut off (`Torn`). An entry
cut off in its headers cannot be parsed and counts as none, one cut off in its body is
replayed.

**CacheControl** - `varyMatches`, `getFreshness`, `canStaleOnError`, `canStore`
as operators on records of headers: a directive is absent, empty, unreadable, or a
number of any sign. **CacheTransport** is `RoundTripRFC2616` for several
goroutines on one URL: the lookup, the transport, the decision over its answer,
the decision to store and, apart from these, the end of the body. The origin
changes its page with time and answers what the headers of the request allow, with
`Date`, `ETag` and `Cache-Control` or without: a 304 replaces the headers it carries.
The 504 that the transport makes up keeps the number of its version, which no page of
the origin has (`MadeUp`), whatever headers a 304 gives it.

**MC...** modules give the constants values that a cfg cannot express.

In every module with a `Mutant_...` operator, that operator is the definition after
it with a plausible bug; the listed property is violated when it is put in place
of the original. They show that the property depends on the code.

## 3. The runs

Runs that must pass:

| Run | Instance | What it shows |
|---|---|---|
| `crawl_safety` | 4 requests (2 start URLs, 2 by callbacks, one of them synchronized), 2 hosts, limits 2 and 1, two SIGINTs | The counter is right on every way out of `do`; `g.Exports` stays open while user code runs; without SIGINT nothing is left out; the per-host limit holds where one channel was made, and tokens of a host are conserved even over two; the abstract limit and termination detection are implemented; a SIGINT that comes after the goroutine is back in its `select` ends the process. |
| `scrape` | 3 requests to 2 hosts, each with a callback that may export and make the others, limits 1 and 1, one SIGINT, no exporter or one JSON | The crawl implements the pipeline's view of it: no send after `close(g.Exports)`, none pending at it. It ends, with every place given back, although callbacks wait for exporters while they hold places: unless an exporter returns an error, or a host gets a second channel. Once `Start` has returned no item is missing, also after failures. |
| `exports` | 4 items (one cannot be encoded, one is no row), none, one or two exporters in five configurations of the four formats | Outputs have no gap, whatever write fails; a killed crawl loses three items at most (but for the buffer of CSV); what has not failed is complete; without a returned error every send and the whole crawl end; the pipeline is a `Broadcast`. |
| `middlewares` | two GETs of one URL, a POST, a GET to a host that is not allowed, each passed to `Do` twice | One GET for a URL; a recorded URL is sent, forbidden, on its way, or lost in a panic; hosts that are not allowed are not even asked for robots.txt; the counters add up, with the requests lost in panics; robots.txt is asked for by each overlapping request once at most, but for the attempts that failed; a forbidden URL is fetched only after a failed robots.txt. |
| `fetch` | a request, rendered or not, with no body or one of known or unknown length, four calls, the default `RetryTimes`, `MaxRedirect = 3`, 3 proxies and an index of 4 values, 3 requests in 2 seconds | The retries are a budget of the request over all its calls; a call gives up early only when the budget is spent; after an answer to a whole body of known length there is no other, so that the retries on a status code end in errors; the requests on the wire are bounded by attempts times redirects; the proxies are used equally but for the wrap of the index. |
| `cache_rfc2616` | a GET with a validator of the caller; one with the header of `Vary` and `stale-if-error`; one more plain, `only-if-cached`, for a range, HEAD or POST; the origin with `Vary`, with `no-store`, or without any headers, status 200, 500 and 304, errors | Nothing with `no-store` is kept; the date of an entry is a time when the origin had that version, in whatever order bodies are read; nobody is told 304 without asking; a variant goes to those it is for; the made-up 504 gets to others by `stale-if-error`, or once a 304 to a caller's own validators was taken for one about it, and not otherwise; `stale-if-error` helps when a readable entry was there at the start. Dates, variants, the 304 and the 504 have an exception each that is due to validators of a caller, see section 5. |
| `cache_dummy` | a GET with its retries in one goroutine; GETs, GETs for a range and HEADs in any order in another; a good and a bad page; restarts; the three stores | Once stored and with no overlapping request an entry stays, over a restart too if it is on disk; what is replayed came from the origin for the same method, in this process or an earlier one, or was cut off by a crash in diskv. |

Runs that TLC must find violated. Each is a disagreement of the code with a
comment in it, described under "findings" in `PROJECT.json`:

| Run | Disagreement |
|---|---|
| `nested_synchronized` | A callback that makes a `Synchronized` request while the global limit is used up waits for the place it holds itself. SIGINT only raises a flag (`geziyor.go:226`, `:312`). |
| `host_limit` | Two first requests to a host make a channel each and run together under `ConcurrentRequestsPerDomain = 1` (`geziyor.go:284`, `options.go:43`). |
| `exporter_failure` | Once an exporter has returned an error, the distributing goroutine stays in its send and never closes the channels (`geziyor.go:342`, `:352`). |
| `rate_limit` | `RequestsPerSecond` below 1 gives the limiter a burst of 0: its `Wait` fails at once, the error is dropped, and nothing is limited (`geziyor.go:107`, `options.go:95`). |
| `retry_replay` | With `Opt.Cache`, whose policy is Dummy by default, a 503 is stored before its code is looked at, and each retry is answered with it (`cache.go:167`, `options.go:98-106`). |

### Bounds, and why they are enough

- Requests (3 or 4): two that race for the map of a host, a third that finds the
  second channel, a fourth to another host that competes for the global limit;
  a callback that makes a request and one that waits for it. The theorems on
  `Crawler` and `Semaphores` hold for any number.
- `MaxSigints = 2`: one to walk the graceful path and one in each of its windows.
  A third finds the channel full, or no longer registered, like the second.
- Scrape: 3 requests and limits of 1 are the least for which a callback in its send
  holds up another request to the same host and one to another host; one exporter is
  enough to block, as the order among several is the matter of `exports`.
- Items (4): one at each place of the pipeline, that is in the hands of a callback,
  in `g.Exports`, with the distributor, with an exporter. Two exporters: one
  before and one after a failed one; the configurations put each format in some place.
- `MaxIssues = 2` in the middlewares: the second pass meets what the first left.
- `MaxCalls = 4` of `DoRequest`: the default budget of 2 is spent by any split of
  the failures over the first calls, and another call follows. `MaxRedirect = 3` lets an
  attempt follow two redirects and be refused a third.
- `IndexSize = 4` with 3 proxies: the index wraps after a number of picks that 3 does not
  divide, as 2^32 is not divided by 3, and `MaxPicks = 12` has it wrap three times.
- `cache_dummy`: `MaxCalls = 2` and one retry: a call that retries and one that finds what
  it left. Two goroutines suffice for one to store or delete between two steps of the
  other, and two pages for a change; restarts and changes are not bounded.
- `cache_rfc2616`: `max-age=1` makes an entry fresh at its time and stale at the next,
  and with `MaxNow = 3` one that a 304 has renewed becomes stale as well; the page changes
  once in that time. Three round trips are one that stores, one that deletes or
  replaces the entry while another has it in hand; or one that stores the 504, one whose
  validator turns it into a page, and one that gets it. Wider arithmetic is in the theorems
  on `CacheControl`.

### Fairness

- `Crawler`: weak fairness of `Start`, of the goroutine of each request and of the
  SIGINT goroutine, as the Go scheduler runs what can run. A request waits for a
  semaphore with weak fairness only, which is less than Go gives (a channel
  serves its senders in turn); it is enough as a place that becomes free is
  taken by someone, and everyone asks a bounded number of times. That a fetch ends
  is due to the `Timeout` of `http.Client` (`client.go:82`); a page rendered in
  Chrome has no timeout and is taken to end. Calls of `Do`, panics, failures and
  SIGINT are never due.
- `ExportPipeline`: weak fairness of the distributor, of `Start` and of each
  exporter that has not failed; strong fairness of a callback's send, as a Go
  channel queues its senders. `Start` coming to `close(g.Exports)` stands for the
  end of the callbacks.
- `Scrape`: the two together. There the end of the callbacks is no assumption: that
  `g.Exports` is closed follows from the fairness of the requests. A synchronized `Do`
  from a callback is left out of that run, as it can wait for itself
  (`nested_synchronized`).
- The other modules state no liveness.

Deadlock is not checked where the system may stop: all runs end or can hang in a
state that one of the violated runs is about.

## 4. What is proved

With TLAPS, for all values of the constants that the named assumptions admit (finite
sets of requests, limits in `Nat`, distinct sentinels; no assumption is about
behaviour). All safety properties of the runs that must pass are proved, the
refinements included.

- **InductionLemmas.** The induction theorems of the library take an operator as
  parameter, which the provers cannot instantiate. `SetInduction` and
  `SubsetInduction` state induction over the naturals and over finite sets for a
  *set* of them, from the well-foundedness of `<`: in this form it is a first-order
  fact. From it the sum of a function over a finite set (`Total`) is shown to exist,
  to be unique, and to change with one of its values (`TotalStep`, `TotalGrows`).
  What several goroutines hold or count together is such a sum.
- **SemaphoresProofs.** `SemTypeCorrect`. `GlobalLimitHolds`: the limit alone is not
  inductive, since it says nothing of requests that hold a token and wait for
  their host; `GlobalInv` counts the tokens as the holders between send and
  receive. `HostLimitHolds`: for a host with one channel. `HostRefs` says that
  whoever refers to a channel refers to one made for its own host, and `HostCount`
  that the buffer of the only channel has a token for each request between its
  send and its receive. The hard step is `Register`: a channel that becomes
  the only one is new and empty, and nobody holds a token of the host.
  `TokensConservedHolds` is about hosts with any number of channels: the sum of the
  tokens in them is the number of holders, although a holder may take a token from
  another channel than it put one in (`TokensStep`).
  `LimitImplemented`: refinement of `ConcurrencyLimit`, step by step.
  `HostBoundedHolds` says how far the race that `host_limit` shows can go: `TotalBound`
  bounds the tokens by the places of all the channels made for the host. Then who can
  wait for ever: `ReleaseNeverWaitsHolds` (whoever is in `releaseSem` is counted among
  the holders, so that there is a token, unless the host has got a second channel),
  `SomebodyPassesHolds` (with nobody in the body of `do`, nobody but such a release holds
  a token, so that the buffers have room) and, from both, `NoSemaphoreDeadlockHolds`.
- **CrawlerProofs.** First the SIGINT goroutine: type correctness (one signal at most
  in the buffer), `AnnouncedAtMostTwiceHolds` for any number of SIGINTs,
  `SettledSigintKillsHolds`; `InterruptInv` counts received and buffered signals
  while the channel is registered.
  `CrawlIsSemaphores`: a crawl is a run of the semaphores, so
  that `CrawlGlobalLimit` is a corollary. Then `CrawlInv`: `wgRequests` is the
  number of requests in `do`; whoever is inside a call of `Do` is itself
  still counted, or is `Start` before its `Wait` (`CallersAreActive`); after
  `Wait` nothing is left in `do` (`WaitIsFinal`). From it `WgCountsHolds`,
  `CrawlerTypeCorrect` (the counter never gets negative), `ExportsOpenHolds`,
  `CrawlCompleteHolds`, `AddFromZeroHolds` and the refinement
  `TerminationImplemented`.
  *What can stop a crawl*: `CrawlGoesOnHolds` lists all the ways it can hang, which are
  two: `releaseSem` waits for a token that is in another channel of the host, or a
  callback waits in `Do` for a synchronous request that waits for the semaphores (the
  run `nested_synchronized` has that). `GoInv` says how far in `do` a request is that
  holds a place, that a caller waits in `Do` only for a request that has been started,
  that no two wait for the same one, and that the SIGINT goroutine lives as long as
  `Start` waits for it. With neither, `CrawlNeverHangsHolds`.
  Last, the crawl with its exports: `ScrapeIsCrawl` carries all of this over.
  `PipelineImplemented`: what the pipeline takes for granted, no new send once
  `g.Exports` is closed and none pending then, the crawl provides. `Promises` is the
  invariant: a request in a send is in its callback, so that it is still counted.
  `NothingLostHolds` follows from the two and from the theorems about the pipeline,
  which are used for the crawl's own instance of it.
  `ScrapeGoesOnHolds`: the exporters add one way to hang, an exporter that has returned
  an error, although callbacks keep their places in the semaphores while they wait for
  them. `ScrapeNeverHangsHolds` is the safety half of `ScrapeEnds`.
- **ExportPipelineProofs.** `PipelineInvariant` for any number of items and exporters,
  and any failures. `DistributorInv` says that each exporter has got the first items
  that were accepted, all that were taken out of `g.Exports` but, if it is not its turn
  yet, the one in hand; `ExporterInv` that its output with its buffer is `Lines` of what
  it has dealt with, or the output a prefix of that once a write has failed; `CountInv`
  that `wgExporters` is the number of exporters that have not returned. From it
  `ExportTypeCorrect`, `NoGap`, `LosesFew`, `Complete`, and `RefinesBroadcast`: each
  step of a goroutine is a step of the abstract broadcast or a stutter. `Lines` is
  computed item by item, so the proofs rest on lemmas about it by `SetInduction`: that
  the lines of a longer sequence begin with those of a shorter one, and add those of its
  last item. `OnlyFailureHoldsUpHolds`: while somebody waits for the pipeline it moves,
  or the distributing goroutine offers its item to an exporter that has returned an
  error (`HeldUp`); `JSONStops`, that JSON returns its first error, is what it needs
  besides. `StaysHeldUpHolds`: from then on no exporter gets anything.
- **MiddlewaresProofs.** `OneMoves` and `StepCounts` reduce a step of a goroutine to one
  request that moves, is sent, forbidden, or panics. `GetAtMostOnceHolds`: `OnceOnly`
  adds, for every URL, the GETs sent and those on their way past `DuplicateRequests`.
  `VisitedAccounted`: a marked URL is lost in a panic only. `DisallowedUntouched`.
  `MetricsAddUpHolds`, where `DelayPanics`, which ends requests that are not counted
  yet, is excluded. `RobotsDuplicatesBoundedHolds`: a host is asked by a request that
  has brought its answer once only, as the entry stays. `ForbiddenNeedsFailure`, whose
  invariant `Checked` says that a verdict that is being tested is one the host has
  really given.
- **FetchProofs.** Of the retries: `RetryBudgetHolds`, `WholeBodyAnsweredLastHolds`,
  `GivesUpLastHolds`, for every `RetryTimes`, negative ones included. `RetryInv`
  ties the number of attempts to calls and counter.
  `FetchIsRetry`: what happens on the wire is a run of `Retry`, so
  that its theorems hold of it. `TrafficBoundedHolds`: with `WireInv`, that each finished
  attempt has sent `Hops` requests at most and the one under way as many as it has
  followed redirects, plus one when an answer is there; the step that ends an attempt
  needs that multiplication distributes and is monotonic (`OneMore`, `ProductGrows`).
  `ProxiesBalancedHolds`, for any number of proxies and any size of the index: `ProxyInv`
  says that within one round of the index each proxy before it has had one turn more.
  `RateKeptFromOne`: with one request per second or more the rate is kept, so that a rate
  below one is the only way to what the run `rate_limit` shows.
- **CacheTransportProofs.** Of the rules, for any headers and times: what is stale stays
  stale (`FreshnessExpires`), `min-fresh` is freshness that much later
  (`MinFreshLooksAhead`), a response past its expiration is returned only with the
  permission of the request (`StaleOnlyWithPermission`), and `stale-if-error` ends
  (`StaleOnErrorEnds`). Of the round trips: `TransportInvariant`, for any number of
  them, any requests and policies. It says of each response in the cache or in
  somebody's hands where it came from: its date, if it has one, is of a time when the
  origin had its version (`Matches`), the made-up 504 has neither date nor validators
  until a 304 was taken for one about it (`Bare`, `TimeoutTaken`), the variant it
  remembers is the one it is (`Sound`), a 304 among the pages was asked for by somebody
  (`PageOK`); of a validator on its way, that it is the entry's or the caller's
  (`SentOK`); and what is returned each way (`ReturnOK`). The history only grows
  (`Later`), so that a step of one goroutine keeps what is said of the others. From it
  the seven properties of the run, and two about what a caller gets:
  `BodiesAreOfTheirDateHolds`, with `AnswersTrue` for a response on its way out, and
  `FreshIsRecentHolds`, which joins the invariant and the rules: what comes from the
  cache unasked was the page less than its lifetime ago.
- **DummyCacheProofs.** `DummyInv`: what a store has, on disk also after any number of
  restarts, what is about to be stored and what was replayed came from the origin under
  the same key, or was cut off by a crash of diskv. `ReplayedWasReturnedHolds`,
  `EntriesStayHolds`, and `CachedIsDummy`: the client's retries take no other steps, so
  that both hold of the run `cache_dummy`.

Some proofs corrected what they were about. `StaleIfErrorHelps` needs that the entry's
own `stale-if-error`, if it has one, can be read (`cache.go:432` gives up otherwise);
`VaryRespected` has the exception of `DatesAreTrue`, as a 304 that was not about the
entry replaces its `Vary` too.

Only model-checked: all liveness (`ScrapeEnds`, `ExportsEnd`, `EverySendEnds`) is out of
reach of the prover, which knows nothing of fairness and `ENABLED`. Their safety half is
proved: the theorems on what can hang say that as long as something is waited for, the
guard of some step holds. The guards are spelled out there (`Passes`, `MainGoesOn`,
`RequestGoesOn`, `PipelineMoves`, `ScrapeMoves`), as `ENABLED` cannot be used; TLC has
compared them with `ENABLED` of the steps they stand for on the instances of the runs. They
leave out the steps nobody has to take: that a callback calls `Do` or sends an item, that
a SIGINT comes, that a write fails. That each waiting goroutine gets its turn, and that
the steps come to an end, is left to TLC. That the violated runs are violated is what TLC
finds, and no matter of proof.

## 5. What is not modelled, and why

- Delays, and the rate of what the limiter lets through within a second: time has
  whole seconds in `RateLimiter`, and the other modules have none but the clock of the
  cache. A context with a deadline, for which `Wait` fails as it does with burst 0.
- Decoding, the content of cookies, where a redirect leads (`AllowedDomains` does not
  see it, as it does not pass the middlewares again), and what Chrome does by itself.
- Parsing of proxy URLs: `RoundRobinProxy` returns nil for one that is malformed, and
  the crawl goes on without proxies (`proxy.go:43`).
- Headers, `parse_html`, `log_stats`, metrics registration, options, logger: no
  shared state that decides anything.
- The bytes of the output formats, and a line that a short write cuts off.
- Concurrent reads and writes of one entry inside diskv and LevelDB: the operations of a
  store are atomic here, by the locks of the libraries.
- `CacheTransport` over the two stores on disk: it has the memory store, and one URL.
- In `CacheTransport`, `last-modified` (used as `etag` is) and the mark `X-From-Cache`.
  `MarkCachedResponses` changes no decision.
- The text of headers. `parseCacheControl` looks at the first `Cache-Control` line of
  a message only, and at directives in lower case: a `no-store` elsewhere, or written
  otherwise, is one that the records of `CacheControl` do not have.

Seen while reading, and described here since no run is about it:

- `geziyor.go:317` prints "Send again to force" before `signal.Stop`; a SIGINT
  between the two is received by the channel and forces nothing. `Interrupts` has
  that window, `SettledSigintKills` begins after it.
- `geziyor.go:172`: without a SIGINT the channel is still registered when `Start`
  returns, and the goroutine that read it is gone: the next SIGINT is ignored.
- `cache.go:179-181` says that a 304 makes the cached response the result; line
  232 does so for GET only. A HEAD is answered with the 304, which is stored.
- `cache.go:189`: a POST is to invalidate "an existing value", but its key is
  `POST url`, and the entry of the GET stays. A GET for a range does delete it.
- `cache.go:241` asks for `stale-if-error` whether or not `Vary` matches.
- `cache.go:30-31` and the Dummy policy: a POST is never replayed.
- `client_test.go:143-148` expects no response and an error when the retries on
  a status 500 are used up; `DoRequest` returns the last response and no error,
  and `do` passes it to the callback.
- `json.go`: the comma after the last item makes the array invalid JSON.
- `delay.go:26`: `RequestDelayRandomize` without `RequestDelay` makes `rand.Intn(0)`
  panic, and every request with it; `Middlewares` has the panic (`options.go:86`).
- `cache.go:212-216` means to leave validators of the caller alone, but looks for a
  request header `etag`: the caller's `If-None-Match` is replaced when the entry is stale.
  When the entry may not be returned for another reason (`Vary`, `no-cache`), the
  caller's goes out, and line 232 takes the 304 for one about the entry: an old body
  gets the date and the etag of the version the caller has, and keeps them. `DatesAreTrue`
  and `VaryRespected` have that exception (`Mistaken`).
- `cache.go:259`: the 504 that is made up for `only-if-cached` is stored. It has no
  validators, so that a caller that finds it and has its own sends them, and line 232
  makes the 504 its answer, with the `Date`, `ETag` and `Cache-Control` of the 304; from
  then on it may be fresh, for anybody. `GatewayTimeoutKeptPrivate` has that exception
  (`TimeoutTaken`) and `stale-if-error`; both occur in the run.
- `cache.go:287`: the response whose body is read last stays, also when it is older than
  the one it replaces. It has its own date (`DatesAreTrue`), so that it is fresh no
  longer than it may.
- `client.go:96`: a retry sends the request again with what is left of its body. When
  its length is unknown that is an empty body, which the server answers as if it were
  the request. `Retry` has it; `WholeBodyAnsweredLast` does not hold there, and says so.
- `robotstxt.go:47`: when the client panics there, in a `ProxyFunc` say, the URL stays
  marked as visited (`duplicate_requests.go:19`) and is never sent, as with the panic of
  the delay. `VisitedIsAccounted` names it.
- `cache.go:268` stores any status: a 304 that a caller with validators of its own gets
  while nothing is cached becomes the entry, and callers that did not ask are told 304
  as long as it is fresh. `NotModifiedOnlyIfAsked` says that this is the only way.
- `cache.go:432`: an unreadable `stale-if-error` in the entry forbids what the request
  permits, since the directives of the response are looked at first.
- `client.go:234`: after `doRequestChrome` the request has the URL and headers of the page
  it ended at, and a retry, or a callback that passes it to `Do` again, goes there.
- `client.go:147` guesses the charset from the `Content-Type` of the request.
- `csv.go:54`: the error of the last `Flush` is not looked at.

## 6. Plan

Done, in this order, the most important behaviour first: the semaphores and their limit;
SIGINT; the crawl over both; exports; middlewares; retry; cache rules; the two
transports; the formats; the crawl with its exports; fetching with proxies and limiter;
the stores and restarts; retries over the cache. The proofs: the semaphores, SIGINT, the
crawl, retry, fetching and the rules; then the pipeline, its refinement and the whole
crawl, the middlewares, the proxies, the limiter, and the two transports; then what can
hang a crawl, the bound on the race of `acquireSem`, and what callers of the RFC 2616
transport get.

Left:

1. The model: `CacheTransport` over `CacheStore`, with restarts; `Middlewares` with more
   than one goroutine for the same request object, as a callback that passes its own
   request on can cause.
2. The proofs: that no goroutine takes a step of `do` twice, so that the steps of a crawl
   come to an end; with the theorems on what can hang that is all of `ScrapeEnds` but the
   fairness.
