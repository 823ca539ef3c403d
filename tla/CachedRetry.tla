---------------------------- MODULE CachedRetry ----------------------------
(***************************************************************************)
(* The retries of DoRequest with a cache: NewGeziyor puts the Transport of *)
(* Opt.Cache, of policy Dummy unless Opt.CachePolicy says otherwise, under *)
(* the client, so that each attempt is a round trip through it.  One       *)
(* goroutine, me, calls DoRequest with a GET; the others, and the process  *)
(* that ends, are those of DummyCache.                                     *)
(***************************************************************************)
EXTENDS Retry, DummyCache

CONSTANTS
  me,       \* the round trip of the request that is retried
  CodeOf    \* the status code of each page

ASSUME CachedRetryAssumption ==
  /\ me \in RoundTrips
  /\ CodeOf \in [Pages -> Codes]

VARIABLE retried    \* history: the answer that made the attempt a retry

cachedVars == <<retryVars, dummyVars, retried>>

CachedInit ==
  /\ RetryInit /\ body = "none"
  /\ DummyInit
  /\ retried = NoResponse

Ask ==
  /\ DoRequest
  /\ UNCHANGED <<dummyVars, retried>>

(* A step of the round trip of the attempt, or of another one.             *)
Trip(r) ==
  /\ r = me => doing = "attempt"
  /\ RoundTrip(r) \/ (r # me /\ Leave(r))
  /\ UNCHANGED <<retryVars, retried>>

(* The round trip has returned, and the client reads the body: one that is *)
(* cut off is an error, but where its end is the end of the entry.         *)
Attempted ==
  /\ Leave(me)
  /\ \/ resp[me] \in {NoEntry, Torn} /\ Errored
     \/ resp[me] = Torn /\ Answered
     \/ resp[me] \in Pages /\ Answered /\ answer' = CodeOf[resp[me]]
  /\ UNCHANGED retried

Decide ==
  /\ \/ Again /\ retried' = answer
     \/ Return /\ retried' = NoResponse
  /\ UNCHANGED dummyVars

Elsewhere ==
  /\ Change
  /\ UNCHANGED <<retryVars, retried>>

(* The process ends; the next one makes the request anew.                  *)
RunAgain ==
  /\ Restart
  /\ doing' = "idle"
  /\ retryCounter' = 0 /\ calls' = 0 /\ attempts' = 0 /\ answered' = 0 /\ fullAt' = 0
  /\ answer' = NoResponse /\ retried' = NoResponse
  /\ UNCHANGED <<body, bodyLeft>>

CachedNext ==
  \/ Ask \/ Attempted \/ Decide \/ Elsewhere \/ RunAgain
  \/ \E r \in RoundTrips : Trip(r)

CachedSpec == CachedInit /\ [][CachedNext]_cachedVars
-----------------------------------------------------------------------------
(* Properties *)

(* options.go:98, "Which HTTP response codes to retry", with RetryTimes    *)
(* "in addition to the first download": what answers a retry of a status   *)
(* code is a download.                                                     *)
RetryIsDownload ==
  at[me] = "done" /\ retried \in RetryHTTPCodes => me \notin replayed
=============================================================================
