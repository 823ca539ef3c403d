SPECIFICATION FetchSpec
CONSTANTS
  ok = ok
  unavailable = unavailable
  OptRetryTimes = 0
  Codes = {ok, unavailable}
  RetryHTTPCodes = {unavailable}
  NoResponse = NoResponse
  MaxCalls = 4
  MaxRedirect = 2
  NProxies = 3
  IndexSize = 4
  MaxPicks = 9
  RateNum = 1
  RateDen = 2
  MaxSeconds = 2
INVARIANT
  RateKept
\* the request is used MaxCalls times
CHECK_DEADLOCK FALSE
