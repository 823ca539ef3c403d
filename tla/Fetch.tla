------------------------------- MODULE Fetch -------------------------------
(***************************************************************************)
(* What an attempt of DoRequest does on the wire: doRequestClient and      *)
(* doRequestChrome of client/client.go, with the rate limiter that is      *)
(* passed before DoRequest and the proxies that are used for every request *)
(* sent.  Retries and redirects pass neither the limiter nor the           *)
(* semaphores again.                                                       *)
(*                                                                         *)
(* net/http (external) sends the request, follows redirects as long as     *)
(* CheckRedirect has no objection, and asks for a proxy each time.  Chrome *)
(* does all this by itself, and neither the body nor the proxies of the    *)
(* request reach it.  Left out: where redirects lead to, and what is in    *)
(* the headers and bodies.                                                 *)
(***************************************************************************)
EXTENDS Retry, Proxies, RateLimiter

CONSTANT MaxRedirect     \* Opt.MaxRedirect

ASSUME FetchAssumption == MaxRedirect \in Int

VARIABLES
  rendered,   \* req.Rendered
  hop,        \* "ready" to send, or "answered"
  redirects,  \* how many redirects the attempt has followed
  sent        \* history: the requests sent

wireVars == <<hop, redirects, sent>>
fetchVars == <<retryVars, proxyVars, rateVars, rendered, wireVars>>

(* The default of net/http stands for 0.                                   *)
RedirectLimit == IF MaxRedirect = 0 THEN 10 ELSE MaxRedirect

FetchInit ==
  /\ RetryInit
  /\ ProxyInit
  /\ RateInit
  /\ rendered \in {FALSE, body = "none"}
  /\ hop = "ready"
  /\ redirects = 0
  /\ sent = 0

(* acquireSem waits for the limiter, and do calls DoRequest.               *)
Begin ==
  /\ Wait
  /\ DoRequest
  /\ UNCHANGED <<proxyVars, rendered, wireVars>>

(* One request is sent, through the next proxy: a response comes, or an    *)
(* error that ends the attempt.  A redirect is sent with a fresh body.     *)
RoundTrip ==
  /\ doing = "attempt" /\ ~rendered
  /\ hop = "ready"
  /\ GetProxy
  /\ sent' = sent + 1
  /\ \/ /\ redirects = 0 => Sendable
        /\ hop' = "answered"
        /\ UNCHANGED <<retryVars, redirects>>
     \/ /\ Errored
        /\ redirects' = 0
        /\ UNCHANGED hop
  /\ UNCHANGED <<rateVars, rendered>>

(* Mutant: one redirect too many.                                          *)
Mutant_Refused == redirects >= RedirectLimit

(* NewRedirectionHandler: len(via) >= maxRedirect, where via has the first *)
(* request as well, so that a limit of 1 allows no redirect.               *)
Refused == redirects + 1 >= RedirectLimit

(* The response is a redirect, which net/http follows.                     *)
Follow ==
  /\ doing = "attempt"
  /\ hop = "answered"
  /\ ~Refused
  /\ hop' = "ready"
  /\ redirects' = redirects + 1
  /\ UNCHANGED <<retryVars, proxyVars, rateVars, rendered, sent>>

(* The attempt ends with what was answered: a redirect that CheckRedirect  *)
(* refuses, an error of charset detection or of reading, or a response     *)
(* whose body has been read.                                               *)
Read ==
  /\ hop = "answered"
  /\ Errored \/ Answered
  /\ hop' = "ready"
  /\ redirects' = 0
  /\ UNCHANGED <<proxyVars, rateVars, rendered, sent>>

(* doRequestChrome                                                         *)
Render ==
  /\ rendered
  /\ Errored \/ Answered
  /\ UNCHANGED <<proxyVars, rateVars, rendered, wireVars>>

Finish ==
  /\ Again \/ Return
  /\ UNCHANGED <<proxyVars, rateVars, rendered, wireVars>>

Elsewhere ==
  \/ OtherPick /\ UNCHANGED <<retryVars, rateVars, rendered, wireVars>>
  \/ Tick /\ UNCHANGED <<retryVars, proxyVars, rendered, wireVars>>

FetchNext == Begin \/ RoundTrip \/ Follow \/ Read \/ Render \/ Finish \/ Elsewhere

FetchSpec == FetchInit /\ [][FetchNext]_fetchVars
-----------------------------------------------------------------------------
(* Properties *)

Hops == IF RedirectLimit < 1 THEN 1 ELSE RedirectLimit

(* The worst the servers can see of one request, whatever they redirect    *)
(* and answer: one budget of retries for all the calls that the limiter    *)
(* lets through, and RedirectLimit requests for each attempt.              *)
TrafficBounded == sent <= (calls + Retries) * Hops

(* options.go:95, "RequestsPerSecond limits requests that is made per      *)
(* seconds": not even the first attempts outrun the rate.                  *)
RateKept == RateNum # 0 => RateDen * calls <= Allowance
=============================================================================
