SPECIFICATION CachedSpec
CONSTANTS
  Absent = Absent
  Empty = Empty
  Bad = Bad
  ok = ok
  unavailable = unavailable
  good = good
  bad = bad
  me = me
  other = other
  OptRetryTimes = 0
  Codes = {ok, unavailable}
  RetryHTTPCodes = {unavailable}
  NoResponse = NoResponse
  MaxCalls = 2
  Keys = {"GET", "HEAD"}
  NoEntry = NoEntry
  Torn = Torn
  RoundTrips = {me}
  RequestsOf <- MCRequestsOf
  Pages = {good, bad}
  CodeOf <- MCCodeOf
INVARIANT
  RetryIsDownload
