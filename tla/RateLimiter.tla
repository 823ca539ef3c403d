---------------------------- MODULE RateLimiter ----------------------------
(***************************************************************************)
(* The rate limiter of geziyor.go, made in NewGeziyor and waited for at    *)
(* the beginning of acquireSem.  The limiter is a token bucket of the      *)
(* library golang.org/x/time/rate (external), with a burst that NewGeziyor *)
(* sets to int(RequestsPerSecond).  RequestsPerSecond is the fraction      *)
(* RateNum/RateDen, and tokens are counted in units of 1/RateDen.  The     *)
(* context of a request is taken to have no deadline; with one that ends   *)
(* before the turn of the request, Wait returns at once as well.           *)
(***************************************************************************)
EXTENDS Naturals

CONSTANTS
  RateNum, RateDen,  \* Opt.RequestsPerSecond, RateNum = 0: no limit
  MaxSeconds         \* bound on the time

ASSUME RateAssumption ==
  /\ RateNum \in Nat
  /\ RateDen \in Nat \ {0}
  /\ MaxSeconds \in Nat

VARIABLES
  now,      \* seconds since the limiter was made
  tokens    \* what is in the bucket

rateVars == <<now, tokens>>

(* int(opt.RequestsPerSecond)                                              *)
Burst == RateNum \div RateDen

RateInit == now = 0 /\ tokens = Burst * RateDen

Tick ==
  /\ now < MaxSeconds
  /\ now' = now + 1
  /\ tokens' = IF tokens + RateNum < Burst * RateDen THEN tokens + RateNum ELSE Burst * RateDen

(* _ = g.rateLimiter.Wait(req.Context()): waits for a token.  A bucket     *)
(* that never holds one is an error at once, which acquireSem ignores, and *)
(* without a limit there is no limiter.                                    *)
Wait ==
  /\ Burst # 0 => tokens >= RateDen
  /\ tokens' = IF Burst = 0 THEN tokens ELSE tokens - RateDen
  /\ UNCHANGED now

(* How many requests may have begun by now, times RateDen: what the rate   *)
(* gives, and those that may come at once, at least one.                   *)
Allowance == RateNum * now + RateDen * (IF Burst = 0 THEN 1 ELSE Burst)
=============================================================================
