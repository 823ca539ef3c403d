SPECIFICATION Spec
CONSTANTS
  r1 = r1
  r2 = r2
  r3 = r3
  r4 = r4
  hostA = hostA
  hostB = hostB
  Main = Main
  NoSem = NoSem
  NoRequest = NoRequest
  Requests = {r1, r2, r3, r4}
  HostOf <- MCTwoHosts
  ConcurrentRequests = 2
  ConcurrentRequestsPerDomain = 1
  StartRequests = {r1, r2}
  Malformed = {}
  Synchronized = {r3}
  WithCallback = {r1, r2, r3}
  ErrorFunc = TRUE
  MaxSigints = 2
INVARIANTS
  CrawlerTypeOK
  WgCounts
  ExportsOpenWhileUserCodeRuns
  CrawlComplete
  HostLimitWithOneSemaphore
  TokensConserved
PROPERTIES
  AddFromZeroOnlyBeforeWait
  ImplementsTermination
  ImplementsLimit
  SettledSigintKills
\* the crawl ends, and the race of acquireSem can make it hang
CHECK_DEADLOCK FALSE
