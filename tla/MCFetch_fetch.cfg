SPECIFICATION FetchSpec
CONSTANTS
  ok = ok
  unavailable = unavailable
  OptRetryTimes = 0
  Codes = {ok, unavailable}
  RetryHTTPCodes = {unavailable}
  NoResponse = NoResponse
  MaxCalls = 4
  MaxRedirect = 3
  NProxies = 3
  IndexSize = 4
  MaxPicks = 12
  RateNum = 3
  RateDen = 2
  MaxSeconds = 3
INVARIANTS
  RetryBudget
  
  TrafficBounded
  ProxiesBalanced
PROPERTIES
  GivesUpLast
\* the request is used MaxCalls times
CHECK_DEADLOCK FALSE
