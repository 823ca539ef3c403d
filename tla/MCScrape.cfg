SPECIFICATION FairScrape
CONSTANTS
  r1 = r1
  r2 = r2
  r3 = r3
  hostA = hostA
  hostB = hostB
  Main = Main
  NoSem = NoSem
  NoRequest = NoRequest
  NoItem = NoItem
  Requests = {r1, r2, r3}
  HostOf <- MCTwoHosts
  ConcurrentRequests = 1
  ConcurrentRequestsPerDomain = 1
  StartRequests = {r1}
  Malformed = {}
  Synchronized = {}
  WithCallback = {r1, r2, r3}
  ErrorFunc = FALSE
  MaxSigints = 1
  Configurations <- MCConfigurations
INVARIANTS
  NothingLost
PROPERTIES
  ImplementsPipeline
  ScrapeEnds
\* nothing happens after the crawl, and a failed exporter can make it hang
CHECK_DEADLOCK FALSE
