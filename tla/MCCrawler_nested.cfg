SPECIFICATION FairSpec
CONSTANTS
  r1 = r1
  r2 = r2
  r3 = r3
  r4 = r4
  hostA = hostA
  hostB = hostB
  Main = Main
  NoSem = NoSem
  NoRequest = NoRequest
  Requests = {r1, r2, r3}
  HostOf <- MCOneHost
  ConcurrentRequests = 1
  ConcurrentRequestsPerDomain = 0
  StartRequests = {r1}
  Malformed = {}
  Synchronized = {r2}
  WithCallback = {r1}
  ErrorFunc = FALSE
  MaxSigints = 1
PROPERTIES
  SigintStopsScraper
CHECK_DEADLOCK FALSE
