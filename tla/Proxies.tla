------------------------------ MODULE Proxies ------------------------------
(***************************************************************************)
(* roundRobinProxy of client/proxy.go: GetProxy, which http.Transport      *)
(* calls for every request it sends, takes the proxy URLs in turn, with an *)
(* index of 32 bits that all goroutines increment atomically and that      *)
(* wraps.                                                                  *)
(***************************************************************************)
EXTENDS Naturals

CONSTANTS
  NProxies,   \* the number of proxy URLs
  IndexSize,  \* the number of values of the index, 2^32 in the code
  MaxPicks    \* bound: how often the other goroutines pick a proxy

ASSUME ProxiesAssumption ==
  /\ NProxies \in Nat \ {0}
  /\ IndexSize \in Nat \ {0}
  /\ MaxPicks \in Nat

VARIABLES
  index,   \* roundRobinProxy.index
  used,    \* history: how often each proxy was picked
  picks    \* history: how many times GetProxy was called

proxyVars == <<index, used, picks>>

ProxyNumbers == 0 .. NProxies - 1

ProxyInit ==
  /\ index = 0
  /\ used = [p \in ProxyNumbers |-> 0]
  /\ picks = 0

(* Mutant: an index that stops at its last value.                          *)
Mutant_NextIndex == IF index + 1 = IndexSize THEN index ELSE index + 1

(* atomic.AddUint32(&r.index, 1)                                           *)
NextIndex == (index + 1) % IndexSize

(* The index before the addition, also where it wraps, gives the proxy.    *)
GetProxy ==
  /\ index' = NextIndex
  /\ used' = [used EXCEPT ![index % NProxies] = @ + 1]
  /\ picks' = picks + 1

(* Another goroutine sends a request.                                      *)
OtherPick == picks < MaxPicks /\ GetProxy
-----------------------------------------------------------------------------
(* client.go, RoundRobinProxy: "rotates ProxyURLs on every request".  The  *)
(* proxies are used equally often, but for one request in turn and, where  *)
(* IndexSize is no multiple of NProxies, one for each time the index has   *)
(* wrapped.                                                                *)
ProxiesBalanced ==
  \A p, q \in ProxyNumbers : used[p] <= used[q] + 1 + picks \div IndexSize
=============================================================================
