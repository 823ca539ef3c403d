----------------------------- MODULE Semaphores -----------------------------
(***************************************************************************)
(* acquireSem and releaseSem of geziyor.go: the two counting semaphores    *)
(* that every goroutine running `do` passes before and after its request.  *)
(*                                                                         *)
(*   semGlobal  one buffered channel of capacity Opt.ConcurrentRequests    *)
(*   semHosts   a map from host to a buffered channel of capacity          *)
(*              Opt.ConcurrentRequestsPerDomain, filled on first use       *)
(*                                                                         *)
(* A send to a buffered channel is a step enabled while the buffer has     *)
(* room, a receive one enabled while it holds a token.  The map is read    *)
(* under a read lock and written under a write lock, in two separate       *)
(* critical sections: every section is one step here, and other goroutines *)
(* may run between the two.  A channel is named by the request whose       *)
(* acquireSem made it.  The wait for the rate limiter that precedes the    *)
(* global semaphore only delays that step.                                 *)
(***************************************************************************)
EXTENDS Naturals, FiniteSets, FiniteSetsExt

CONSTANTS
  Requests,                     \* calls of do in one run, a goroutine each
  HostOf,                       \* req.Host of each request
  ConcurrentRequests,           \* Opt.ConcurrentRequests, 0: no limit
  ConcurrentRequestsPerDomain,  \* Opt.ConcurrentRequestsPerDomain, 0: no limit
  NoSem                         \* no channel: the host is not in the map

ASSUME SemaphoresAssumption ==
  /\ IsFiniteSet(Requests)
  /\ HostOf = [r \in Requests |-> HostOf[r]]
  /\ ConcurrentRequests \in Nat
  /\ ConcurrentRequestsPerDomain \in Nat
  /\ NoSem \notin Requests

Hosts == {HostOf[r] : r \in Requests}

VARIABLES
  pc,         \* where each goroutine is, see PCs
  semGlobal,  \* number of tokens in the buffer of g.semGlobal
  hostSems,   \* g.semHosts.hostSems
  made,       \* the host channels made so far, registered or overwritten
  buffered,   \* number of tokens in the buffer of each host channel
  hostSem     \* the local variable hostSem of acquireSem and of releaseSem

semVars == <<pc, semGlobal, hostSems, made, buffered, hostSem>>

(* "idle": do not called yet; "global", "lookup", "register", "host": the  *)
(* statements of acquireSem; "running": the body of do; "relGlobal",       *)
(* "relLookup", "relHost": the statements of releaseSem.                   *)
PCs == {"idle", "global", "lookup", "register", "host", "running",
        "relGlobal", "relLookup", "relHost", "ended"}

Running == {r \in Requests : pc[r] = "running"}

OfHost(h) == {r \in Requests : HostOf[r] = h}

(* The requests between their send to g.semGlobal and their receive.       *)
GlobalHolders ==
  {r \in Requests : pc[r] \in {"lookup", "register", "host", "running", "relGlobal"}}

(* The requests of host h between their send to a host channel and their   *)
(* receive from one.                                                       *)
HostHolders(h) ==
  {r \in OfHost(h) : pc[r] \in {"running", "relGlobal", "relLookup", "relHost"}}

SemInit ==
  /\ pc = [r \in Requests |-> "idle"]
  /\ semGlobal = 0
  /\ hostSems = [h \in Hosts |-> NoSem]
  /\ made = {}
  /\ buffered = [c \in Requests |-> 0]
  /\ hostSem = [r \in Requests |-> NoSem]

Goto(r, from, to) ==
  /\ pc[r] = from
  /\ pc' = [pc EXCEPT ![r] = to]
-----------------------------------------------------------------------------
(* acquireSem *)

(* The goroutine of a request starts do, whose first call is acquireSem.   *)
Enter(r) ==
  /\ Goto(r, "idle", "global")
  /\ UNCHANGED <<semGlobal, hostSems, made, buffered, hostSem>>

(* Mutant: the global semaphore with one place too many.                   *)
Mutant_GlobalRoom == semGlobal <= ConcurrentRequests

GlobalRoom == semGlobal < ConcurrentRequests

(* g.semGlobal <- struct{}{}: waits while the buffer is full.              *)
AcquireGlobal(r) ==
  /\ Goto(r, "global", "lookup")
  /\ \/ ConcurrentRequests = 0 /\ UNCHANGED semGlobal
     \/ /\ GlobalRoom
        /\ semGlobal' = semGlobal + 1
  /\ UNCHANGED <<hostSems, made, buffered, hostSem>>

(* hostSem, exists := hostSems[req.Host], under the read lock.             *)
Lookup(r) ==
  /\ \/ /\ ConcurrentRequestsPerDomain = 0
        /\ Goto(r, "lookup", "running")
        /\ UNCHANGED hostSem
     \/ /\ ConcurrentRequestsPerDomain # 0
        /\ hostSems[HostOf[r]] # NoSem
        /\ Goto(r, "lookup", "host")
        /\ hostSem' = [hostSem EXCEPT ![r] = hostSems[HostOf[r]]]
     \/ /\ ConcurrentRequestsPerDomain # 0
        /\ hostSems[HostOf[r]] = NoSem
        /\ Goto(r, "lookup", "register")
        /\ UNCHANGED hostSem
  /\ UNCHANGED <<semGlobal, hostSems, made, buffered>>

(* hostSem = make(chan ...); hostSems[req.Host] = hostSem, under the write *)
(* lock: the entry is not looked up again, an existing one is overwritten. *)
Register(r) ==
  /\ Goto(r, "register", "host")
  /\ made' = made \cup {r}
  /\ hostSem' = [hostSem EXCEPT ![r] = r]
  /\ hostSems' = [hostSems EXCEPT ![HostOf[r]] = r]
  /\ UNCHANGED <<semGlobal, buffered>>

(* Mutant: a host semaphore with one place too many.                       *)
Mutant_HostRoom(c) == buffered[c] <= ConcurrentRequestsPerDomain

HostRoom(c) == buffered[c] < ConcurrentRequestsPerDomain

(* hostSem <- struct{}{}: waits while the buffer of that channel is full.  *)
AcquireHost(r) ==
  /\ Goto(r, "host", "running")
  /\ HostRoom(hostSem[r])
  /\ buffered' = [buffered EXCEPT ![hostSem[r]] = @ + 1]
  /\ UNCHANGED <<semGlobal, hostSems, made, hostSem>>
-----------------------------------------------------------------------------
(* releaseSem *)

(* The body of do is over; its last deferred call is releaseSem.           *)
Leave(r) ==
  /\ Goto(r, "running", "relGlobal")
  /\ UNCHANGED <<semGlobal, hostSems, made, buffered, hostSem>>

(* <-g.semGlobal                                                           *)
ReleaseGlobal(r) ==
  /\ Goto(r, "relGlobal", "relLookup")
  /\ \/ ConcurrentRequests = 0 /\ UNCHANGED semGlobal
     \/ /\ ConcurrentRequests # 0
        /\ semGlobal > 0
        /\ semGlobal' = semGlobal - 1
  /\ UNCHANGED <<hostSems, made, buffered, hostSem>>

(* hostSem := hostSems[req.Host], under the read lock: the channel that is *)
(* registered now, which need not be the one the goroutine sent to.        *)
ReleaseLookup(r) ==
  /\ \/ /\ ConcurrentRequestsPerDomain = 0
        /\ Goto(r, "relLookup", "ended")
        /\ UNCHANGED hostSem
     \/ /\ ConcurrentRequestsPerDomain # 0
        /\ Goto(r, "relLookup", "relHost")
        /\ hostSem' = [hostSem EXCEPT ![r] = hostSems[HostOf[r]]]
  /\ UNCHANGED <<semGlobal, hostSems, made, buffered>>

(* Mutant: a release that takes no token back.                             *)
Mutant_Receive(c) == UNCHANGED buffered

Receive(c) == buffered' = [buffered EXCEPT ![c] = @ - 1]

(* <-hostSem: waits while the buffer of that channel is empty, for ever    *)
(* when the channel is nil.                                                *)
ReleaseHost(r) ==
  /\ Goto(r, "relHost", "ended")
  /\ hostSem[r] # NoSem
  /\ buffered[hostSem[r]] > 0
  /\ Receive(hostSem[r])
  /\ UNCHANGED <<semGlobal, hostSems, made, hostSem>>
-----------------------------------------------------------------------------
AcquireSem(r) == AcquireGlobal(r) \/ Lookup(r) \/ Register(r) \/ AcquireHost(r)

ReleaseSem(r) == ReleaseGlobal(r) \/ ReleaseLookup(r) \/ ReleaseHost(r)

SemNext == \E r \in Requests : Enter(r) \/ AcquireSem(r) \/ Leave(r) \/ ReleaseSem(r)

SemSpec == SemInit /\ [][SemNext]_semVars
-----------------------------------------------------------------------------
(* Properties *)

(* The types; no channel holds more tokens than it has places.             *)
SemTypeOK ==
  /\ pc \in [Requests -> PCs]
  /\ semGlobal \in 0 .. ConcurrentRequests
  /\ hostSems \in [Hosts -> Requests \cup {NoSem}]
  /\ made \in SUBSET Requests
  /\ buffered \in [Requests -> 0 .. ConcurrentRequestsPerDomain]
  /\ hostSem \in [Requests -> Requests \cup {NoSem}]

(* options.go, ConcurrentRequests: no more than that many requests are in  *)
(* the body of do at the same moment, however the goroutines interleave    *)
(* with releases, and whatever happens to the per-host semaphores.         *)
GlobalLimit ==
  ConcurrentRequests # 0 => Cardinality(Running) <= ConcurrentRequests

(* options.go, ConcurrentRequestsPerDomain: no more than that many requests*)
(* to one host are in the body of do at the same moment.                   *)
HostLimit ==
  ConcurrentRequestsPerDomain # 0 =>
    \A h \in Hosts :
      Cardinality(Running \cap OfHost(h)) <= ConcurrentRequestsPerDomain

(* acquireSem has made at most one channel for each host.                  *)
OneSemaphorePerHost == \A h \in Hosts : Cardinality(made \cap OfHost(h)) <= 1

(* The only way past the per-host limit is a second channel made for the   *)
(* same host: as long as acquireSem made one, the limit holds.             *)
HostLimitWithOneSemaphore ==
  ConcurrentRequestsPerDomain # 0 =>
    \A h \in Hosts :
      Cardinality(made \cap OfHost(h)) <= 1 =>
        Cardinality(Running \cap OfHost(h)) <= ConcurrentRequestsPerDomain

(* The tokens of a host are neither lost nor duplicated: over all channels *)
(* made for it, there is one for every request between its send and its    *)
(* receive, although the two may go to different channels.                 *)
TokensConserved ==
  ConcurrentRequestsPerDomain # 0 =>
    \A h \in Hosts :
      MapThenSumSet(LAMBDA c : buffered[c], OfHost(h)) = Cardinality(HostHolders(h))

(* The global semaphore implements the abstract limit.                     *)
Limit == INSTANCE ConcurrencyLimit
  WITH Limit <- ConcurrentRequests,
       inFlight <- Running,
       served <- {r \in Requests : pc[r] \in {"relGlobal", "relLookup", "relHost", "ended"}}

ImplementsLimit == Limit!Spec
=============================================================================
