SPECIFICATION Spec
CONSTANTS
  get1 = get1
  get2 = get2
  post = post
  other = other
  hostA = hostA
  hostB = hostB
  Requests = {get1, get2, post, other}
  UrlOf <- MCUrlOf
  HostOf <- MCHostOf
  Gets = {get1, get2, other}
  AllowedDomains = {hostA}
  URLRevisitEnabled = FALSE
  RequestDelayRandomize = FALSE
  RequestDelay = 0
  RobotsTxtDisabled = FALSE
  RobotsAnswers <- MCTwoAnswers
  NoRules = NoRules
  MaxIssues = 2
INVARIANTS
  GetAtMostOnce
  VisitedIsAccounted
  DisallowedHostsUntouched
  MetricsAddUp
  RobotsDuplicatesBounded
  ForbiddenOnlyAfterFailure
\* every request is decided
CHECK_DEADLOCK FALSE
