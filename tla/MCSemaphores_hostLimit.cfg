SPECIFICATION SemSpec
CONSTANTS
  r1 = r1
  r2 = r2
  r3 = r3
  hostA = hostA
  NoSem = NoSem
  Requests = {r1, r2, r3}
  HostOf <- MCOneHost
  ConcurrentRequests = 0
  ConcurrentRequestsPerDomain = 1
INVARIANT
  HostLimit
\* a goroutine can wait for ever on a channel it did not send to
CHECK_DEADLOCK FALSE
