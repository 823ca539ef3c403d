------------------------------- MODULE Retry -------------------------------
(***************************************************************************)
(* DoRequest of client/client.go: a request is repeated on an error and on *)
(* certain status codes, with a counter that lives in the request.  The    *)
(* recursive calls are a loop here.  One request is followed through       *)
(* several calls of DoRequest, as a callback may pass r.Request to Do      *)
(* again.  What an attempt consists of is in module Fetch, and what the    *)
(* attempts bring when responses are cached in module CachedRetry.         *)
(*                                                                         *)
(* The body of a request is any io.Reader, and what an attempt has read of *)
(* it is not there for the next one.  net/http (external) knows the length *)
(* of some readers, declares it, and refuses to send less; from any other  *)
(* reader it sends what is left, or no body at all.                        *)
(***************************************************************************)
EXTENDS Integers

CONSTANTS
  OptRetryTimes,     \* Opt.RetryTimes as the user set it
  RetryHTTPCodes,    \* Opt.RetryHTTPCodes
  Codes,             \* the status codes the server may answer
  NoResponse,        \* no response, an error instead
  MaxCalls           \* bound: calls of DoRequest with this request

ASSUME RetryAssumption ==
  /\ OptRetryTimes \in Int
  /\ RetryHTTPCodes \subseteq Codes
  /\ NoResponse \notin Codes
  /\ MaxCalls \in Nat

(* NewGeziyor: 0 stands for the default.                                   *)
DefaultRetryTimes == 2
RetryTimes == IF OptRetryTimes = 0 THEN DefaultRetryTimes ELSE OptRetryTimes

VARIABLES
  body,          \* "none", or a reader of "known" or "unknown" length
  doing,         \* "idle", "attempt", "decide"
  retryCounter,  \* req.retryCounter
  bodyLeft,      \* what has not been read of it: "whole", "part" or "gone"
  answer,        \* result of the last attempt: a code or NoResponse
  calls,         \* history: calls of DoRequest
  attempts,      \* history: attempts in all these calls
  answered,      \* history: attempts that got an answer
  fullAt         \* history: which answer was the one to the whole body

retryVars ==
  <<body, doing, retryCounter, bodyLeft, answer, calls, attempts, answered, fullAt>>

(* A request that was just made.                                           *)
RetryInit ==
  /\ body \in {"none", "known", "unknown"}
  /\ doing = "idle"
  /\ retryCounter = 0
  /\ bodyLeft = IF body = "none" THEN "gone" ELSE "whole"
  /\ answer = NoResponse
  /\ calls = 0
  /\ attempts = 0
  /\ answered = 0
  /\ fullAt = 0

(* do calls g.Client.DoRequest(req); nothing in the request is reset.      *)
DoRequest ==
  /\ doing = "idle"
  /\ calls < MaxCalls
  /\ calls' = calls + 1
  /\ doing' = "attempt"
  /\ UNCHANGED <<body, retryCounter, bodyLeft, answer, attempts, answered, fullAt>>

(* Mutant: NewRequest wraps the reader, and net/http cannot tell its type. *)
Mutant_Declared == FALSE

(* NewRequest passes the reader on as it is: the length is declared.       *)
Declared == body = "known"

(* Of a part of a declared body, the server may answer what it has seen    *)
(* before the rest is missed; with nothing left nothing is sent.           *)
Sendable == Declared => bodyLeft # "gone"

(* What an attempt may leave of the body.                                  *)
Remainders ==
  CASE bodyLeft = "whole" -> {"whole", "part", "gone"}
    [] bodyLeft = "part"  -> {"part", "gone"}
    [] bodyLeft = "gone"  -> {"gone"}

(* doRequestClient, doRequestChrome: an attempt ends with a response, for  *)
(* which the server need not have read the body.                           *)
Answered ==
  /\ doing = "attempt"
  /\ Sendable
  /\ doing' = "decide"
  /\ attempts' = attempts + 1
  /\ answer' \in Codes
  /\ bodyLeft' \in Remainders
  /\ answered' = answered + 1
  /\ fullAt' = IF bodyLeft = "whole" /\ bodyLeft' = "gone" THEN answered' ELSE fullAt
  /\ UNCHANGED <<body, retryCounter, calls>>

(* It ends with an error, before or after the body went out.               *)
Errored ==
  /\ doing = "attempt"
  /\ doing' = "decide"
  /\ attempts' = attempts + 1
  /\ answer' = NoResponse
  /\ bodyLeft' \in Remainders
  /\ UNCHANGED <<body, retryCounter, calls, answered, fullAt>>

(* Mutant: status codes are not retried.                                   *)
Mutant_ToRetry == answer = NoResponse

ToRetry == answer = NoResponse \/ answer \in RetryHTTPCodes

(* Mutant: one retry too many.                                             *)
Mutant_RetriesLeft == retryCounter <= RetryTimes

RetriesLeft == retryCounter < RetryTimes

(* "Retry on Error" and "Retry on http status codes"                       *)
Again ==
  /\ doing = "decide"
  /\ ToRetry /\ RetriesLeft
  /\ retryCounter' = retryCounter + 1
  /\ doing' = "attempt"
  /\ UNCHANGED <<body, bodyLeft, answer, calls, attempts, answered, fullAt>>

(* DoRequest returns the response, or the error of the last attempt.       *)
Return ==
  /\ doing = "decide"
  /\ ~(ToRetry /\ RetriesLeft)
  /\ doing' = "idle"
  /\ UNCHANGED <<body, retryCounter, bodyLeft, answer, calls, attempts, answered, fullAt>>

RetryNext == DoRequest \/ Answered \/ Errored \/ Again \/ Return

RetrySpec == RetryInit /\ [][RetryNext]_retryVars
-----------------------------------------------------------------------------
(* Properties *)

(* The types.                                                              *)
RetryTypeOK ==
  /\ body \in {"none", "known", "unknown"}
  /\ doing \in {"idle", "attempt", "decide"}
  /\ retryCounter \in Nat
  /\ bodyLeft \in {"whole", "part", "gone"}
  /\ answer \in Codes \cup {NoResponse}
  /\ calls \in 0 .. MaxCalls
  /\ attempts \in Nat
  /\ answered \in 0 .. attempts
  /\ fullAt \in 0 .. answered

Retries == IF RetryTimes < 0 THEN 0 ELSE RetryTimes

(* options.go, RetryTimes: "Maximum number of times to retry, in addition  *)
(* to the first download", and -1 for none.  It is a budget of the request *)
(* and not of the call: all the calls together have that many retries.     *)
RetryBudget == attempts <= calls + Retries

(* Nothing is given up early: a call that ends without a good answer has   *)
(* used the retries that earlier calls left.                               *)
GivesUpLast ==
  [][(/\ doing = "decide" /\ doing' = "idle"
      /\ answer \in RetryHTTPCodes \cup {NoResponse})
        => attempts = calls + Retries]_retryVars

(* An answer to the whole of a body with a known length is the last answer *)
(* that request gets, even when it is one of RetryHTTPCodes: the retries,  *)
(* and the calls of a callback that gives the request to Do again, end in  *)
(* errors.  No server gets such a request a second time with less of its   *)
(* body, as it gets those whose length is unknown.                         *)
WholeBodyAnsweredLast == body = "known" /\ fullAt > 0 => answered = fullAt
=============================================================================
