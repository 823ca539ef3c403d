SPECIFICATION Spec
CONSTANTS
  conditional = conditional
  german = german
  special = special
  Absent = Absent
  Empty = Empty
  Bad = Bad
  NoVariant = NoVariant
  NoResponse = NoResponse
  RoundTrips = {conditional, german, special}
  RequestsOf <- MCRequestsOf
  Policies <- MCPolicies
  Statuses = {200, 500}
  MaxNow = 3
  MaxVersions = 2
INVARIANTS
  TransportTypeOK
  NoStoreNotKept
  DatesAreTrue
  NotModifiedOnlyIfAsked
  GatewayTimeoutKeptPrivate
  StaleIfErrorHelps
  VaryRespected
\* every round trip has returned
CHECK_DEADLOCK FALSE
