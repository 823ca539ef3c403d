----------------------------- MODULE FetchProofs -----------------------------
(***************************************************************************)
(* What holds of the retries for every RetryTimes, negative ones included, *)
(* every set of codes and any number of calls with one request, and of the *)
(* requests on the wire for every MaxRedirect, rate and number of proxies. *)
(***************************************************************************)
EXTENDS Fetch, TLAPS

-----------------------------------------------------------------------------
(* The retries *)

(* The retry counter of the request tells the attempts beyond the first of *)
(* each call; it never passes RetryTimes and is never reset.               *)
RetryInv ==
  /\ RetryTypeOK
  /\ retryCounter <= Retries
  /\ attempts = calls + retryCounter - (IF doing = "attempt" THEN 1 ELSE 0)
  /\ body = "known" /\ fullAt > 0 => answered = fullAt /\ bodyLeft = "gone"

(* The number of retries is a number, and not below RetryTimes.            *)
LEMMA RetryTimesInt == RetryTimes \in Int /\ Retries \in Nat /\ RetryTimes <= Retries
<1> QED  BY RetryAssumption DEF RetryTimes, Retries, DefaultRetryTimes

(* A new request satisfies it.                                             *)
LEMMA RetryInvInit == RetryInit => RetryInv
<1> QED  BY RetryAssumption, RetryTimesInt DEF RetryInit, RetryInv, RetryTypeOK

(* No attempt makes a body longer.                                         *)
LEMMA BodyShrinks ==
  ASSUME RetryTypeOK, bodyLeft' \in Remainders
  PROVE  /\ bodyLeft' \in {"whole", "part", "gone"}
         /\ bodyLeft = "gone" => bodyLeft' = "gone"
<1> QED  BY DEF RetryTypeOK, Remainders

(* Every step of DoRequest keeps it.                                       *)
LEMMA RetryInvStep == RetryInv /\ [RetryNext]_retryVars => RetryInv'
<1> SUFFICES ASSUME RetryInv, [RetryNext]_retryVars
             PROVE  RetryInv'
    OBVIOUS
<1> USE RetryAssumption, RetryTimesInt DEF RetryInv, RetryTypeOK
<1>1. CASE DoRequest
      BY <1>1 DEF DoRequest
<1>2. CASE Answered
  <2>1. /\ doing' = "decide" /\ doing = "attempt" /\ Sendable
        /\ attempts' = attempts + 1 /\ answered' = answered + 1
        /\ answer' \in Codes /\ bodyLeft' \in Remainders
        /\ fullAt' = IF bodyLeft = "whole" /\ bodyLeft' = "gone" THEN answered' ELSE fullAt
        /\ UNCHANGED <<body, retryCounter, calls>>
        BY <1>2 DEF Answered
  <2>2. bodyLeft' \in {"whole", "part", "gone"}
        BY <2>1, BodyShrinks
  <2>3. fullAt' \in 0 .. answered'
        BY <2>1
  <2>4. body' = "known" /\ fullAt' > 0 => answered' = fullAt' /\ bodyLeft' = "gone"
        BY <2>1 DEF Sendable, Declared
  <2> QED  BY <2>1, <2>2, <2>3, <2>4 DEF Retries
<1>3. CASE Errored
  <2>1. bodyLeft' \in {"whole", "part", "gone"} /\ (bodyLeft = "gone" => bodyLeft' = "gone")
        BY <1>3, BodyShrinks DEF Errored
  <2> QED  BY <1>3, <2>1 DEF Errored, Retries
<1>4. CASE Again
  <2>1. retryCounter + 1 <= Retries
        BY <1>4 DEF Again, RetriesLeft
  <2> QED  BY <1>4, <2>1 DEF Again
<1>5. CASE Return
      BY <1>5 DEF Return
<1>6. CASE UNCHANGED retryVars
      BY <1>6 DEF retryVars, Retries
<1> QED  BY <1>1, <1>2, <1>3, <1>4, <1>5, <1>6 DEF RetryNext

(* The invariant holds in every sequence of calls of DoRequest.            *)
LEMMA RetryInvariance == RetrySpec => []RetryInv
<1> QED  BY RetryInvInit, RetryInvStep, PTL DEF RetrySpec

(* options.go, RetryTimes: all calls with a request together retry it that *)
(* many times at most, and not at all when it is negative.                 *)
THEOREM RetryBudgetHolds == RetrySpec => []RetryBudget
<1>1. RetryInv => RetryBudget
      BY RetryTimesInt DEF RetryInv, RetryTypeOK, RetryBudget
<1> QED  BY <1>1, RetryInvariance, PTL

(* client.go:94-121: a body of known length that has been answered whole   *)
(* is not answered again, in no retry and no later call.                   *)
THEOREM WholeBodyAnsweredLastHolds == RetrySpec => []WholeBodyAnsweredLast
<1>1. RetryInv => WholeBodyAnsweredLast
      BY DEF RetryInv, WholeBodyAnsweredLast
<1> QED  BY <1>1, RetryInvariance, PTL

(* A call that ends without a good answer has used up the retries.         *)
THEOREM GivesUpLastHolds == RetrySpec => GivesUpLast
<1>1. RetryInv /\ [RetryNext]_retryVars =>
        [(/\ doing = "decide" /\ doing' = "idle"
          /\ answer \in RetryHTTPCodes \cup {NoResponse})
            => attempts = calls + Retries]_retryVars
  <2> SUFFICES ASSUME RetryInv, RetryNext, doing = "decide", doing' = "idle",
                      answer \in RetryHTTPCodes \cup {NoResponse}
               PROVE  attempts = calls + Retries
      OBVIOUS
  <2>1. Return
        BY DEF RetryNext, DoRequest, Answered, Errored, Again
  <2>2. retryCounter >= RetryTimes
        BY <2>1, RetryTimesInt DEF RetryInv, RetryTypeOK, Return, RetriesLeft, ToRetry
  <2>3. retryCounter = Retries
        BY <2>2, RetryTimesInt DEF Retries, RetryInv, RetryTypeOK
  <2> QED  BY <2>3, RetryTimesInt DEF RetryInv, RetryTypeOK
<1> QED  BY <1>1, RetryInvariance, PTL DEF RetrySpec, GivesUpLast
-----------------------------------------------------------------------------
(* What is sent *)

(* The product is monotonic.                                               *)
LEMMA ProductGrows ==
  ASSUME NEW m \in Nat, NEW n \in Nat, NEW h \in Nat, m <= n
  PROVE  m * h <= n * h
<1>1. PICK d \in Nat : n = m + d
      <2>1. n - m \in Nat /\ n = m + (n - m)
            OBVIOUS
      <2> QED  BY <2>1
<1>2. n * h = m * h + d * h
      BY <1>1
<1>3. d * h \in Nat /\ m * h \in Nat
      OBVIOUS
<1> QED  BY <1>2, <1>3

(* One more attempt is one more time the redirects that it may follow.     *)
LEMMA OneMore ==
  ASSUME NEW m \in Nat, NEW h \in Nat
  PROVE  m * h \in Nat /\ (m + 1) * h = m * h + h
<1> QED  OBVIOUS

(* Every step on the wire is a step of DoRequest, or none.                 *)
LEMMA FetchStep == [FetchNext]_fetchVars => [RetryNext]_retryVars
<1> SUFFICES ASSUME [FetchNext]_fetchVars
             PROVE  [RetryNext]_retryVars
    OBVIOUS
<1>1. CASE Begin
      BY <1>1 DEF Begin, RetryNext
<1>2. CASE RoundTrip
      BY <1>2 DEF RoundTrip, RetryNext
<1>3. CASE Follow
      BY <1>3 DEF Follow
<1>4. CASE Read \/ Render
      BY <1>4 DEF Read, Render, RetryNext
<1>5. CASE Finish
      BY <1>5 DEF Finish, RetryNext
<1>6. CASE Elsewhere \/ UNCHANGED fetchVars
      BY <1>6 DEF Elsewhere, fetchVars
<1> QED  BY <1>1, <1>2, <1>3, <1>4, <1>5, <1>6 DEF FetchNext

(* What is sent implements the retries: all that is proved of RetrySpec    *)
(* holds of the requests on the wire.                                      *)
THEOREM FetchIsRetry == FetchSpec => RetrySpec
<1>1. FetchInit => RetryInit
      BY DEF FetchInit
<1> QED  BY <1>1, FetchStep, PTL DEF FetchSpec, RetrySpec

(* The requests that the attempt under way has sent.                       *)
Underway ==
  IF doing = "attempt" THEN redirects + (IF hop = "answered" THEN 1 ELSE 0) ELSE 0

(* An attempt sends one request and one for each redirect it follows, of   *)
(* which there are fewer than Hops.                                        *)
WireInv ==
  /\ hop \in {"ready", "answered"}
  /\ redirects \in Nat
  /\ sent \in Nat
  /\ redirects + 1 <= Hops
  /\ doing # "attempt" \/ rendered => hop = "ready" /\ redirects = 0
  /\ sent <= attempts * Hops + Underway

(* The number of requests of an attempt is a positive number.              *)
LEMMA HopsPositive == RedirectLimit \in Int /\ Hops \in Nat \ {0} /\ RedirectLimit <= Hops
<1> QED  BY FetchAssumption DEF RedirectLimit, Hops

(* A request that was just made has sent nothing.                          *)
LEMMA WireInit == FetchInit => WireInv
<1> SUFFICES ASSUME FetchInit PROVE WireInv
    OBVIOUS
<1>1. attempts * Hops = 0
      BY HopsPositive DEF FetchInit, RetryInit
<1> QED  BY <1>1, HopsPositive DEF FetchInit, RetryInit, WireInv, Underway

(* Every step keeps the count of the requests sent.                        *)
LEMMA WireStep == RetryInv /\ WireInv /\ [FetchNext]_fetchVars => WireInv'
<1> SUFFICES ASSUME RetryInv, WireInv, [FetchNext]_fetchVars
             PROVE  WireInv'
    OBVIOUS
<1>0. /\ attempts \in Nat /\ Hops \in Nat \ {0} /\ Hops' = Hops
      /\ attempts * Hops \in Nat /\ (attempts + 1) * Hops = attempts * Hops + Hops
  <2>1. attempts \in Nat
        BY DEF RetryInv, RetryTypeOK
  <2> QED  BY <2>1, HopsPositive, OneMore DEF Hops, RedirectLimit
<1> USE DEF WireInv, Underway
<1>1. CASE Begin
      BY <1>1, <1>0 DEF Begin, DoRequest, wireVars
<1>2. CASE RoundTrip
  <2>1. CASE Errored
    <3>1. /\ attempts' = attempts + 1 /\ doing' = "decide"
          /\ redirects' = 0 /\ hop' = "ready" /\ hop = "ready" /\ sent' = sent + 1
          BY <1>2, <2>1 DEF RoundTrip, Errored, retryVars
    <3>2. sent <= attempts * Hops + redirects
          BY <1>2, <3>1 DEF RoundTrip
    <3>3. attempts' * Hops = attempts * Hops + Hops
          BY <3>1, <1>0
    <3>4. sent' <= attempts' * Hops
          BY <3>1, <3>2, <3>3, <1>0
    <3> QED  BY <3>1, <3>4, <1>0
  <2>2. CASE ~Errored
        BY <1>2, <2>2, <1>0 DEF RoundTrip, retryVars
  <2> QED  BY <2>1, <2>2
<1>3. CASE Follow
      BY <1>3, <1>0, HopsPositive DEF Follow, Refused, retryVars
<1>4. CASE Read \/ Render
  <2>1. /\ attempts' = attempts + 1 /\ doing' = "decide" /\ doing = "attempt"
        /\ redirects' = 0 /\ hop' = "ready" /\ sent' = sent
        BY <1>4 DEF Read, Render, Answered, Errored, wireVars
  <2>2. sent <= attempts * Hops + redirects + 1
        BY <1>0
  <2>3. attempts' * Hops = attempts * Hops + Hops
        BY <2>1, <1>0
  <2>4. sent' <= attempts' * Hops
        BY <2>1, <2>2, <2>3, <1>0
  <2> QED  BY <2>1, <2>4, <1>0
<1>5. CASE Finish
      BY <1>5, <1>0 DEF Finish, Again, Return, wireVars
<1>6. CASE Elsewhere \/ UNCHANGED fetchVars
      BY <1>6, <1>0 DEF Elsewhere, fetchVars, retryVars, wireVars
<1> QED  BY <1>1, <1>2, <1>3, <1>4, <1>5, <1>6 DEF FetchNext

(* However the servers redirect and answer, the requests of all calls      *)
(* together are bounded by their attempts and the redirects of each.       *)
THEOREM TrafficBoundedHolds == FetchSpec => []TrafficBounded
<1>1. RetryInv /\ WireInv => TrafficBounded
  <2> SUFFICES ASSUME RetryInv, WireInv
               PROVE  TrafficBounded
      OBVIOUS
  <2>1. /\ calls \in Nat /\ attempts \in Nat /\ retryCounter \in Nat /\ Retries \in Nat
        /\ retryCounter <= Retries /\ Hops \in Nat
        /\ attempts = calls + retryCounter - (IF doing = "attempt" THEN 1 ELSE 0)
        BY HopsPositive, RetryTimesInt, RetryAssumption DEF RetryInv, RetryTypeOK
  <2>2. calls + Retries \in Nat
        BY <2>1
  <2>3. CASE doing = "attempt"
    <3>1. attempts + 1 <= calls + Retries
          BY <2>1, <2>3
    <3>2. (attempts + 1) * Hops <= (calls + Retries) * Hops
          BY <3>1, <2>1, <2>2, ProductGrows
    <3>3. sent <= attempts * Hops + Hops
          BY <2>1, <2>3, OneMore DEF WireInv, Underway
    <3> QED  BY <3>2, <3>3, <2>1, <2>2, OneMore DEF TrafficBounded, WireInv
  <2>4. CASE doing # "attempt"
    <3>1. attempts <= calls + Retries
          BY <2>1, <2>4
    <3>2. attempts * Hops <= (calls + Retries) * Hops
          BY <3>1, <2>1, <2>2, ProductGrows
    <3> QED  BY <3>2, <2>1, <2>2, <2>4, OneMore DEF TrafficBounded, WireInv, Underway
  <2> QED  BY <2>3, <2>4
<1>2. FetchInit => RetryInv /\ WireInv
      BY RetryInvInit, WireInit DEF FetchInit
<1>3. RetryInv /\ WireInv /\ [FetchNext]_fetchVars => (RetryInv /\ WireInv)'
      BY RetryInvStep, FetchStep, WireStep
<1> QED  BY <1>1, <1>2, <1>3, PTL DEF FetchSpec
-----------------------------------------------------------------------------
(* The proxies *)

(* Counting on by one: the remainder wraps and the quotient grows then.    *)
LEMMA NextRemainder ==
  ASSUME NEW n \in Nat, NEW m \in Nat \ {0}
  PROVE  /\ n % m \in 0 .. m - 1 /\ n \div m \in Nat
         /\ (n + 1) % m = IF (n % m) + 1 = m THEN 0 ELSE (n % m) + 1
         /\ (n + 1) \div m = (n \div m) + IF (n % m) + 1 = m THEN 1 ELSE 0
<1> DEFINE q == n \div m
           r == n % m
<1>1. q \in Nat /\ r \in 0 .. m - 1 /\ n = m * q + r
  OBVIOUS
<1>2. \A a \in Nat, b \in 0 .. m - 1 :
        n + 1 = m * a + b => (n + 1) % m = b /\ (n + 1) \div m = a
  OBVIOUS
<1> HIDE DEF q, r
<1>3. CASE r + 1 = m
  <2>1. n + 1 = m * (q + 1) + 0
    BY <1>1, <1>3
  <2>2. q + 1 \in Nat /\ 0 \in 0 .. m - 1
    BY <1>1
  <2>3. (n + 1) % m = 0 /\ (n + 1) \div m = q + 1
    BY <1>2, <2>1, <2>2
  <2> QED
    BY <1>1, <1>3, <2>3 DEF q, r
<1>4. CASE r + 1 # m
  <2>1. n + 1 = m * q + (r + 1)
    BY <1>1
  <2>2. q \in Nat /\ r + 1 \in 0 .. m - 1
    BY <1>1, <1>4
  <2>3. (n + 1) % m = r + 1 /\ (n + 1) \div m = q
    BY <1>2, <2>1, <2>2
  <2> QED
    BY <1>1, <1>4, <2>3 DEF q, r
<1> QED
  BY <1>3, <1>4

(* The proxies before the one whose turn it is have been used once more    *)
(* than the others; without that, two of them differ by the number of      *)
(* times that the index has wrapped.                                       *)
InTurn(p) == IF p < index % NProxies THEN 1 ELSE 0

ProxyInv ==
  /\ used \in [ProxyNumbers -> Nat]
  /\ picks \in Nat
  /\ index = picks % IndexSize
  /\ \A p, q \in ProxyNumbers :
       used[p] - InTurn(p) <= used[q] - InTurn(q) + (picks \div IndexSize)

(* No proxy has been used yet.                                             *)
LEMMA ProxyInvInit == ProxyInit => ProxyInv
<1> SUFFICES ASSUME ProxyInit PROVE ProxyInv
  OBVIOUS
<1>1. 0 % IndexSize = 0 /\ 0 \div IndexSize = 0 /\ 0 % NProxies = 0
  BY ProxiesAssumption
<1> QED
  BY <1>1 DEF ProxyInit, ProxyInv, InTurn, ProxyNumbers

(* GetProxy keeps the balance.                                             *)
LEMMA GetProxyKeepsBalance == ProxyInv /\ GetProxy => ProxyInv'
<1> SUFFICES ASSUME ProxyInv, GetProxy PROVE ProxyInv'
  OBVIOUS
<1> DEFINE c == index % NProxies
           d == index' % NProxies
           w == picks \div IndexSize
           wraps == index + 1 = IndexSize
<1>1. /\ NProxies \in Nat \ {0} /\ IndexSize \in Nat \ {0}
      /\ picks \in Nat /\ index = picks % IndexSize /\ index \in Nat
  <2>1. NProxies \in Nat \ {0} /\ IndexSize \in Nat \ {0} /\ picks \in Nat
        /\ index = picks % IndexSize
    BY ProxiesAssumption DEF ProxyInv
  <2> QED
    BY <2>1, NextRemainder
<1>2. c \in ProxyNumbers /\ d \in ProxyNumbers /\ w \in Nat
  <2>1. index' = (index + 1) % IndexSize
    BY DEF GetProxy, NextIndex
  <2>2. index' \in Nat
    BY <1>1, <2>1
  <2> QED
    BY <1>1, <2>2, NextRemainder DEF ProxyNumbers
<1>3. /\ picks' = picks + 1 /\ picks' \in Nat
      /\ index' = picks' % IndexSize
      /\ index' = IF wraps THEN 0 ELSE index + 1
      /\ picks' \div IndexSize = w + IF wraps THEN 1 ELSE 0
  <2>1. picks' = picks + 1 /\ index' = (index + 1) % IndexSize
    BY DEF GetProxy, NextIndex
  <2>2. /\ picks' % IndexSize = IF wraps THEN 0 ELSE index + 1
        /\ picks' \div IndexSize = w + IF wraps THEN 1 ELSE 0
    BY <1>1, <2>1, NextRemainder
  <2>3. index \in 0 .. IndexSize - 1
    BY <1>1, NextRemainder
  <2>4. index % IndexSize = index
    BY <1>1, <2>3
  <2>5. (index + 1) % IndexSize = IF wraps THEN 0 ELSE index + 1
    <3>1. \A n \in Nat : (n + 1) % IndexSize
            = IF (n % IndexSize) + 1 = IndexSize THEN 0 ELSE (n % IndexSize) + 1
      BY <1>1, NextRemainder
    <3> QED
      BY <1>1, <2>4, <3>1
  <2> QED
    BY <1>1, <2>1, <2>2, <2>5
<1>4. d = IF wraps \/ c + 1 = NProxies THEN 0 ELSE c + 1
  <2>1. (index + 1) % NProxies = IF c + 1 = NProxies THEN 0 ELSE c + 1
    BY <1>1, NextRemainder
  <2>2. 0 % NProxies = 0
    BY <1>1
  <2> QED
    BY <1>3, <2>1, <2>2
<1>5. /\ used \in [ProxyNumbers -> Nat] /\ used' \in [ProxyNumbers -> Nat]
      /\ \A p \in ProxyNumbers : used'[p] = used[p] + IF p = c THEN 1 ELSE 0
  BY <1>2 DEF ProxyInv, GetProxy
<1>6. ASSUME NEW p \in ProxyNumbers, NEW q \in ProxyNumbers
      PROVE  used[p] - (IF p < c THEN 1 ELSE 0) <= used[q] - (IF q < c THEN 1 ELSE 0) + w
  BY <1>6 DEF ProxyInv, InTurn
<1> HIDE DEF c, d, w
<1>7. ASSUME NEW p \in ProxyNumbers, NEW q \in ProxyNumbers
      PROVE  used'[p] - (IF p < d THEN 1 ELSE 0)
               <= used'[q] - (IF q < d THEN 1 ELSE 0) + w + IF wraps THEN 1 ELSE 0
  <2> DEFINE a == used[p]
             b == used[q]
  <2>1. /\ a \in Nat /\ b \in Nat /\ w \in Nat
        /\ c \in 0 .. NProxies - 1 /\ p \in 0 .. NProxies - 1 /\ q \in 0 .. NProxies - 1
        /\ a - (IF p < c THEN 1 ELSE 0) <= b - (IF q < c THEN 1 ELSE 0) + w
        /\ used'[p] = a + (IF p = c THEN 1 ELSE 0)
        /\ used'[q] = b + (IF q = c THEN 1 ELSE 0)
    BY <1>1, <1>2, <1>5, <1>6 DEF ProxyNumbers
  <2> HIDE DEF a, b, wraps
  <2>2. CASE d = 0 /\ wraps
    BY <1>1, <2>1, <2>2
  <2>3. CASE d = 0 /\ ~wraps /\ c + 1 = NProxies
    BY <1>1, <2>1, <2>3
  <2>4. CASE d = c + 1 /\ ~wraps
    BY <1>1, <2>1, <2>4
  <2> QED
    BY <1>4, <2>2, <2>3, <2>4
<1>8. ASSUME NEW p \in ProxyNumbers, NEW q \in ProxyNumbers
      PROVE  used'[p] - InTurn(p)' <= used'[q] - InTurn(q)' + (picks' \div IndexSize)
  <2>1. /\ used'[p] \in Nat /\ used'[q] \in Nat /\ w \in Nat
        /\ InTurn(p)' = IF p < d THEN 1 ELSE 0
        /\ InTurn(q)' = IF q < d THEN 1 ELSE 0
    BY <1>2, <1>5 DEF InTurn, d
  <2> QED
    BY <1>3, <1>7, <2>1
<1> QED
  BY <1>3, <1>5, <1>8 DEF ProxyInv

(* Every request takes the proxies in turn, whoever sends it.              *)
LEMMA ProxyInvStep == ProxyInv /\ [FetchNext]_fetchVars => ProxyInv'
<1> SUFFICES ASSUME ProxyInv, [FetchNext]_fetchVars PROVE ProxyInv'
  OBVIOUS
<1>1. CASE GetProxy
  BY <1>1, GetProxyKeepsBalance
<1>2. CASE UNCHANGED proxyVars
  BY <1>2 DEF proxyVars, ProxyInv, InTurn
<1>3. GetProxy \/ UNCHANGED proxyVars
  BY DEF FetchNext, Begin, RoundTrip, Follow, Read, Render, Finish, Elsewhere, OtherPick,
     fetchVars, proxyVars
<1> QED
  BY <1>1, <1>2, <1>3

(* client.go, RoundRobinProxy: the proxies are used equally often, but for *)
(* one request in turn and one for each time that the index has wrapped.   *)
THEOREM ProxiesBalancedHolds == FetchSpec => []ProxiesBalanced
<1>1. ProxyInv => ProxiesBalanced
  <2> SUFFICES ASSUME ProxyInv, NEW p \in ProxyNumbers, NEW q \in ProxyNumbers
               PROVE  used[p] <= used[q] + 1 + (picks \div IndexSize)
    BY DEF ProxiesBalanced
  <2>1. /\ used[p] \in Nat /\ used[q] \in Nat /\ (picks \div IndexSize) \in Nat
        /\ used[p] - InTurn(p) <= used[q] - InTurn(q) + (picks \div IndexSize)
    BY ProxiesAssumption, NextRemainder DEF ProxyInv
  <2>2. InTurn(p) \in {0, 1} /\ InTurn(q) \in {0, 1}
    BY DEF InTurn
  <2> QED
    BY <2>1, <2>2
<1>2. FetchInit => ProxyInv
  BY ProxyInvInit DEF FetchInit
<1> QED
  BY <1>1, <1>2, ProxyInvStep, PTL DEF FetchSpec
-----------------------------------------------------------------------------
(* The rate *)

(* A call costs a token, and the bucket gets no more of them than the rate *)
(* gives.                                                                  *)
RateInv ==
  /\ now \in Nat /\ tokens \in Nat
  /\ RateDen * calls + tokens <= RateNum * now + Burst * RateDen

(* The burst is a number, and so are the products of the rate.             *)
LEMMA RateNumbers ==
  /\ Burst \in Nat /\ Burst * RateDen \in Nat
  /\ \A n \in Nat : /\ RateNum * n \in Nat /\ RateNum * (n + 1) = RateNum * n + RateNum
                    /\ RateDen * n \in Nat /\ RateDen * (n + 1) = RateDen * n + RateDen
<1>1. RateNum \in Nat /\ RateDen \in Nat \ {0}
  BY RateAssumption
<1>2. Burst \in Nat
  <2>1. RateNum \div RateDen \in Nat
    BY <1>1
  <2> QED
    BY <2>1 DEF Burst
<1>3. \A a, b \in Nat : a * b \in Nat /\ a * (b + 1) = a * b + a
  OBVIOUS
<1> QED
  BY <1>1, <1>2, <1>3

(* A full bucket, and no call.                                             *)
LEMMA RateInvInit == FetchInit => RateInv
<1> SUFFICES ASSUME FetchInit PROVE RateInv
  OBVIOUS
<1>1. now = 0 /\ tokens = Burst * RateDen /\ calls = 0
  BY DEF FetchInit, RateInit, RetryInit
<1>2. RateDen * 0 = 0 /\ RateNum * 0 = 0
  BY RateAssumption
<1> QED
  BY <1>1, <1>2, RateNumbers DEF RateInv

(* A call takes a token, a second brings at most RateNum.                  *)
LEMMA RateInvStep == Burst # 0 /\ RetryTypeOK /\ RateInv /\ [FetchNext]_fetchVars => RateInv'
<1> SUFFICES ASSUME Burst # 0, RetryTypeOK, RateInv, [FetchNext]_fetchVars PROVE RateInv'
  OBVIOUS
<1> DEFINE full == Burst * RateDen
<1>1. /\ RateNum \in Nat /\ RateDen \in Nat \ {0} /\ full \in Nat /\ calls \in Nat
      /\ now \in Nat /\ tokens \in Nat
      /\ RateDen * calls + tokens <= RateNum * now + full
  BY RateAssumption, RateNumbers DEF RetryTypeOK, RateInv
<1>2. /\ RateDen * calls \in Nat /\ RateDen * (calls + 1) = RateDen * calls + RateDen
      /\ RateNum * now \in Nat /\ RateNum * (now + 1) = RateNum * now + RateNum
  BY <1>1, RateNumbers
<1> DEFINE spent == RateDen * calls
           given == RateNum * now
<1>3. CASE Begin
  <2>1. now' = now /\ tokens' = tokens - RateDen /\ tokens >= RateDen /\ calls' = calls + 1
    BY <1>3 DEF Begin, Wait, DoRequest
  <2>2. RateDen * calls' = spent + RateDen
    BY <1>2, <2>1
  <2>3. tokens' \in Nat /\ spent + RateDen + tokens' <= given + full
    <3> HIDE DEF spent, given, full
    <3>1. spent \in Nat /\ given \in Nat /\ spent + tokens <= given + full
      BY <1>1, <1>2 DEF spent, given
    <3> QED
      BY <1>1, <2>1, <3>1
  <2> QED
    BY <1>1, <2>1, <2>2, <2>3 DEF RateInv
<1>4. CASE Tick /\ UNCHANGED retryVars
  <2>1. /\ now' = now + 1 /\ calls' = calls
        /\ tokens' = IF tokens + RateNum < full THEN tokens + RateNum ELSE full
    BY <1>4 DEF Tick, retryVars
  <2>2. RateNum * now' = given + RateNum
    BY <1>2, <2>1
  <2>3. tokens' \in Nat /\ spent + tokens' <= given + RateNum + full
    <3> HIDE DEF spent, given, full
    <3>1. spent \in Nat /\ given \in Nat /\ spent + tokens <= given + full
      BY <1>1, <1>2 DEF spent, given
    <3> QED
      BY <1>1, <2>1, <3>1
  <2> QED
    BY <1>1, <2>1, <2>2, <2>3 DEF RateInv
<1>5. CASE UNCHANGED rateVars /\ calls' = calls
  BY <1>5 DEF RateInv, rateVars
<1>6. Begin \/ (Tick /\ UNCHANGED retryVars) \/ (UNCHANGED rateVars /\ calls' = calls)
  BY DEF FetchNext, RoundTrip, Follow, Read, Render, Finish, Elsewhere, fetchVars,
     Errored, Answered, Again, Return, retryVars, rateVars
<1> QED
  BY <1>3, <1>4, <1>5, <1>6

(* options.go:95: with a rate of at least one request per second, the      *)
(* calls do not outrun it; the run that checks RateKept has a lower rate.  *)
THEOREM RateKeptFromOne == FetchSpec => [](Burst # 0 => RateKept)
<1>1. RetryTypeOK /\ RateInv => (Burst # 0 => RateKept)
  <2> SUFFICES ASSUME RetryTypeOK, RateInv, Burst # 0 PROVE RateDen * calls <= Allowance
    BY DEF RateKept
  <2>1. /\ RateDen * calls \in Nat /\ RateNum * now \in Nat /\ Burst * RateDen \in Nat
        /\ tokens \in Nat /\ RateDen * calls + tokens <= RateNum * now + Burst * RateDen
    BY RateNumbers DEF RetryTypeOK, RateInv
  <2>2. Burst * RateDen = RateDen * Burst
    BY RateNumbers, RateAssumption
  <2>3. Allowance = RateNum * now + Burst * RateDen
    BY <2>2 DEF Allowance
  <2>4. \A a, b, c, d \in Nat : a + b <= c + d => a <= c + d
    OBVIOUS
  <2> QED
    BY <2>1, <2>3, <2>4
<1>2. CASE Burst = 0
  <2>1. Burst = 0 => (Burst # 0 => RateKept)
    OBVIOUS
  <2> QED
    BY <1>2, <2>1, PTL
<1>3. CASE Burst # 0
  <2>1. RetryInv => RetryTypeOK
    BY DEF RetryInv
  <2>2. RetryTypeOK /\ RateInv /\ [FetchNext]_fetchVars => RateInv'
    BY <1>3, RateInvStep
  <2> QED
    BY <1>1, <2>1, <2>2, RateInvInit, FetchIsRetry, RetryInvariance, PTL DEF FetchSpec
<1> QED
  BY <1>2, <1>3
=============================================================================
