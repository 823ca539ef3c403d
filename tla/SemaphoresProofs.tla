-------------------------- MODULE SemaphoresProofs --------------------------
(***************************************************************************)
(* What holds of the semaphores of geziyor.go for every number of          *)
(* requests, every assignment of hosts and every limit.                    *)
(***************************************************************************)
EXTENDS Semaphores, FiniteSetTheorems, InductionLemmas, TLAPS

(* These helpers of the actions are expanded everywhere.                   *)
USE DEF GlobalRoom, HostRoom, Receive

(* Every step of a goroutine keeps the types: the buffers never exceed     *)
(* their capacity and never go below zero.                                 *)
LEMMA SemTypeStep == SemTypeOK /\ [SemNext]_semVars => SemTypeOK'
<1> SUFFICES ASSUME SemTypeOK, [SemNext]_semVars
             PROVE  SemTypeOK'
    OBVIOUS
<1> USE SemaphoresAssumption DEF SemTypeOK, PCs, Goto, Hosts
<1>1. ASSUME NEW r \in Requests, Enter(r) PROVE SemTypeOK'
      BY <1>1 DEF Enter
<1>2. ASSUME NEW r \in Requests, AcquireGlobal(r) PROVE SemTypeOK'
      BY <1>2 DEF AcquireGlobal
<1>3. ASSUME NEW r \in Requests, Lookup(r) PROVE SemTypeOK'
      BY <1>3 DEF Lookup
<1>4. ASSUME NEW r \in Requests, Register(r) PROVE SemTypeOK'
      BY <1>4 DEF Register
<1>5. ASSUME NEW r \in Requests, AcquireHost(r) PROVE SemTypeOK'
  <2>1. pc' \in [Requests -> PCs] /\ UNCHANGED <<semGlobal, hostSems, made, hostSem>>
        BY <1>5 DEF AcquireHost
  <2>2. buffered' \in [Requests -> 0 .. ConcurrentRequestsPerDomain]
    <3>1. buffered' = [buffered EXCEPT ![hostSem[r]] = @ + 1]
          BY <1>5 DEF AcquireHost
    <3>2. CASE hostSem[r] \in Requests
      <4>1. buffered[hostSem[r]] < ConcurrentRequestsPerDomain
            BY <1>5 DEF AcquireHost
      <4> QED  BY <3>1, <3>2, <4>1
    <3>3. CASE hostSem[r] \notin Requests
      <4>1. buffered' = buffered
            BY <3>1, <3>3
      <4> QED  BY <4>1
    <3> QED  BY <3>2, <3>3
  <2> QED  BY <2>1, <2>2
<1>6. ASSUME NEW r \in Requests, Leave(r) PROVE SemTypeOK'
      BY <1>6 DEF Leave
<1>7. ASSUME NEW r \in Requests, ReleaseGlobal(r) PROVE SemTypeOK'
      BY <1>7 DEF ReleaseGlobal
<1>8. ASSUME NEW r \in Requests, ReleaseLookup(r) PROVE SemTypeOK'
      BY <1>8 DEF ReleaseLookup
<1>9. ASSUME NEW r \in Requests, ReleaseHost(r) PROVE SemTypeOK'
      BY <1>9 DEF ReleaseHost
<1>10. CASE UNCHANGED semVars
      BY <1>10 DEF semVars
<1> QED
  BY <1>1, <1>2, <1>3, <1>4, <1>5, <1>6, <1>7, <1>8, <1>9, <1>10
  DEF SemNext, AcquireSem, ReleaseSem

(* Type correctness of the semaphores.                                     *)
THEOREM SemTypeCorrect == SemSpec => []SemTypeOK
<1>1. SemInit => SemTypeOK
      BY SemaphoresAssumption DEF SemInit, SemTypeOK, PCs
<1> QED  BY <1>1, SemTypeStep, PTL DEF SemSpec
-----------------------------------------------------------------------------
(* The global semaphore *)

(* The tokens in g.semGlobal are counted by the goroutines between their   *)
(* send and their receive: GlobalLimit alone says nothing of those that    *)
(* hold a token and wait for their host.                                   *)
GlobalInv ==
  ConcurrentRequests # 0 => semGlobal = Cardinality(GlobalHolders)

(* Those who hold a token can be counted.                                  *)
LEMMA HoldersFinite ==
  /\ IsFiniteSet(GlobalHolders)
  /\ \A h : IsFiniteSet(HostHolders(h)) /\ IsFiniteSet(OfHost(h))
<1>1. /\ GlobalHolders \in SUBSET Requests
      /\ \A h : HostHolders(h) \in SUBSET Requests /\ OfHost(h) \in SUBSET Requests
      BY DEF GlobalHolders, HostHolders, OfHost
<1> QED  BY <1>1, FS_Subset, SemaphoresAssumption

(* Every step of a goroutine keeps GlobalInv.                              *)
LEMMA GlobalStep ==
  SemTypeOK /\ GlobalInv /\ [SemNext]_semVars => GlobalInv'
<1> SUFFICES ASSUME SemTypeOK, GlobalInv, [SemNext]_semVars, ConcurrentRequests # 0
             PROVE  semGlobal' = Cardinality(GlobalHolders')
    BY DEF GlobalInv
<1>0. semGlobal = Cardinality(GlobalHolders) /\ semGlobal \in Nat
      BY SemaphoresAssumption DEF GlobalInv, SemTypeOK
<1>1. ASSUME NEW r \in Requests, AcquireGlobal(r)
      PROVE  semGlobal' = Cardinality(GlobalHolders')
  <2>1. GlobalHolders' = GlobalHolders \cup {r} /\ r \notin GlobalHolders
        BY <1>1 DEF AcquireGlobal, Goto, GlobalHolders, SemTypeOK
  <2>2. semGlobal' = semGlobal + 1
        BY <1>1 DEF AcquireGlobal
  <2> QED  BY <1>0, <2>1, <2>2, HoldersFinite, FS_AddElement
<1>2. ASSUME NEW r \in Requests, ReleaseGlobal(r)
      PROVE  semGlobal' = Cardinality(GlobalHolders')
  <2>1. GlobalHolders' = GlobalHolders \ {r} /\ r \in GlobalHolders
        BY <1>2 DEF ReleaseGlobal, Goto, GlobalHolders, SemTypeOK
  <2>2. semGlobal' = semGlobal - 1
        BY <1>2 DEF ReleaseGlobal
  <2> QED  BY <1>0, <2>1, <2>2, HoldersFinite, FS_RemoveElement
<1>3. ASSUME NEW r \in Requests,
             \/ Enter(r) \/ Lookup(r) \/ Register(r) \/ AcquireHost(r)
             \/ Leave(r) \/ ReleaseLookup(r) \/ ReleaseHost(r)
      PROVE  semGlobal' = Cardinality(GlobalHolders')
  <2>1. semGlobal' = semGlobal
        BY <1>3 DEF Enter, Lookup, Register, AcquireHost, Leave, ReleaseLookup, ReleaseHost
  <2>2. GlobalHolders' = GlobalHolders
        BY <1>3 DEF Enter, Lookup, Register, AcquireHost, Leave, ReleaseLookup,
                    ReleaseHost, Goto, GlobalHolders, SemTypeOK
  <2> QED  BY <1>0, <2>1, <2>2
<1>4. CASE UNCHANGED semVars
      BY <1>0, <1>4 DEF semVars, GlobalHolders
<1> QED
  BY <1>1, <1>2, <1>3, <1>4 DEF SemNext, AcquireSem, ReleaseSem

(* The tokens of g.semGlobal are counted right at every moment.            *)
LEMMA GlobalInvariance == SemSpec => [](SemTypeOK /\ GlobalInv)
<1>1. SemInit => GlobalInv
  <2>1. SemInit => GlobalHolders = {}
        BY DEF SemInit, GlobalHolders
  <2> QED  BY <2>1, FS_EmptySet DEF SemInit, GlobalInv
<1> QED  BY <1>1, SemTypeCorrect, GlobalStep, PTL DEF SemSpec

(* A right count of the tokens bounds the requests in the body of do.      *)
LEMMA GlobalInvGivesLimit == SemTypeOK /\ GlobalInv => GlobalLimit
<1> SUFFICES ASSUME SemTypeOK, GlobalInv, ConcurrentRequests # 0
             PROVE  Cardinality(Running) <= ConcurrentRequests
    BY DEF GlobalLimit
<1>1. Running \in SUBSET GlobalHolders
      BY DEF Running, GlobalHolders
<1>2. Cardinality(Running) <= Cardinality(GlobalHolders)
      BY <1>1, HoldersFinite, FS_Subset
<1>3. Cardinality(Running) \in Nat
      BY <1>1, HoldersFinite, FS_Subset, FS_CardinalityType
<1> QED  BY <1>2, <1>3, SemaphoresAssumption DEF GlobalInv, SemTypeOK

(* options.go, ConcurrentRequests: never more than that many requests in   *)
(* the body of do, for every interleaving of acquireSem and releaseSem.    *)
THEOREM GlobalLimitHolds == SemSpec => []GlobalLimit
<1> QED  BY GlobalInvariance, GlobalInvGivesLimit, PTL
-----------------------------------------------------------------------------
(* The per-host semaphores *)

OneSemaphore(h) == \A c, d \in made \cap OfHost(h) : c = d

(* Who waits for, holds or returns a token of a host channel.              *)
UsesHost(r) ==
  ConcurrentRequestsPerDomain # 0 /\ pc[r] \in {"host", "running", "relGlobal", "relLookup", "relHost"}

(* A channel is only used for the host it was made for, and holds nothing  *)
(* before it is made.                                                      *)
HostRefs ==
  /\ \A h \in Hosts : hostSems[h] # NoSem => hostSems[h] \in made \cap OfHost(h)
  /\ \A r \in Requests : hostSem[r] # NoSem => hostSem[r] \in made \cap OfHost(HostOf[r])
  /\ \A r \in Requests : UsesHost(r) => hostSem[r] # NoSem /\ hostSems[HostOf[r]] # NoSem
  /\ \A c \in Requests \ made : buffered[c] = 0

(* As long as a host has one channel, that channel counts the requests to  *)
(* the host that hold a token.                                             *)
HostCount ==
  ConcurrentRequestsPerDomain # 0 =>
    \A h \in Hosts : OneSemaphore(h) =>
      \A c \in made \cap OfHost(h) : buffered[c] = Cardinality(HostHolders(h))

HostInv == SemTypeOK /\ HostRefs /\ HostCount

(* Every step of a goroutine keeps HostRefs.                               *)
LEMMA HostRefsStep == SemTypeOK /\ HostRefs /\ [SemNext]_semVars => HostRefs'
<1> SUFFICES ASSUME SemTypeOK, HostRefs, [SemNext]_semVars
             PROVE  HostRefs'
    OBVIOUS
<1> USE SemaphoresAssumption DEF SemTypeOK, OfHost, Hosts, Goto
<1>1. ASSUME NEW r \in Requests,
             Enter(r) \/ AcquireGlobal(r) \/ Leave(r) \/ ReleaseGlobal(r)
      PROVE  HostRefs'
  <2>1. UNCHANGED <<hostSems, made, buffered, hostSem>>
        BY <1>1 DEF Enter, AcquireGlobal, Leave, ReleaseGlobal
  <2>2. \A x \in Requests : UsesHost(x)' => UsesHost(x)
        BY <1>1 DEF Enter, AcquireGlobal, Leave, ReleaseGlobal, UsesHost
  <2> QED  BY <2>1, <2>2 DEF HostRefs
<1>2. ASSUME NEW r \in Requests, Lookup(r) PROVE HostRefs'
  <2>1. UNCHANGED <<hostSems, made, buffered>>
        BY <1>2 DEF Lookup
  <2>2. CASE /\ \/ ConcurrentRequestsPerDomain = 0
                \/ Goto(r, "lookup", "register")
             /\ UNCHANGED hostSem
    <3>1. \A x \in Requests : UsesHost(x)' => UsesHost(x)
          BY <1>2, <2>2 DEF Lookup, UsesHost
    <3> QED  BY <2>1, <2>2, <3>1 DEF HostRefs
  <2>3. CASE /\ hostSems[HostOf[r]] # NoSem
             /\ hostSem' = [hostSem EXCEPT ![r] = hostSems[HostOf[r]]]
    <3>1. \A x \in Requests : UsesHost(x)' => UsesHost(x) \/ x = r
          BY <1>2 DEF Lookup, UsesHost
    <3>2. hostSems[HostOf[r]] \in made \cap OfHost(HostOf[r])
          BY <2>3 DEF HostRefs
    <3>3. \A x \in Requests : hostSem'[x] # NoSem => hostSem'[x] \in made \cap OfHost(HostOf[x])
          BY <2>3, <3>2 DEF HostRefs
    <3>4. \A x \in Requests : UsesHost(x)' => hostSem'[x] # NoSem /\ hostSems[HostOf[x]] # NoSem
          BY <2>3, <3>1 DEF HostRefs
    <3> QED  BY <2>1, <3>3, <3>4 DEF HostRefs
  <2> QED  BY <1>2, <2>2, <2>3 DEF Lookup
<1>3. ASSUME NEW r \in Requests, Register(r) PROVE HostRefs'
  <2>1. /\ made' = made \cup {r}
        /\ hostSem' = [hostSem EXCEPT ![r] = r]
        /\ hostSems' = [hostSems EXCEPT ![HostOf[r]] = r]
        /\ buffered' = buffered
        BY <1>3 DEF Register
  <2>2. \A x \in Requests : UsesHost(x)' => UsesHost(x) \/ x = r
        BY <1>3 DEF Register, UsesHost
  <2> QED  BY <2>1, <2>2 DEF HostRefs
<1>4. ASSUME NEW r \in Requests, AcquireHost(r) PROVE HostRefs'
  <2>1. /\ UNCHANGED <<hostSems, made, hostSem>>
        /\ buffered' = [buffered EXCEPT ![hostSem[r]] = @ + 1]
        BY <1>4 DEF AcquireHost
  <2>2. \A x \in Requests : UsesHost(x)' => UsesHost(x)
        BY <1>4 DEF AcquireHost, UsesHost
  <2>3. hostSem[r] \notin Requests \ made
        BY DEF HostRefs
  <2> QED  BY <2>1, <2>2, <2>3 DEF HostRefs
<1>5. ASSUME NEW r \in Requests, ReleaseLookup(r) PROVE HostRefs'
  <2>1. UNCHANGED <<hostSems, made, buffered>>
        BY <1>5 DEF ReleaseLookup
  <2>2. \A x \in Requests : UsesHost(x)' => UsesHost(x)
        BY <1>5 DEF ReleaseLookup, UsesHost
  <2>3. CASE UNCHANGED hostSem
        BY <2>1, <2>2, <2>3 DEF HostRefs
  <2>4. CASE /\ UsesHost(r)
             /\ hostSem' = [hostSem EXCEPT ![r] = hostSems[HostOf[r]]]
    <3>1. hostSems[HostOf[r]] # NoSem /\ hostSems[HostOf[r]] \in made \cap OfHost(HostOf[r])
          BY <2>4 DEF HostRefs
    <3>2. \A x \in Requests : hostSem'[x] # NoSem => hostSem'[x] \in made \cap OfHost(HostOf[x])
          BY <2>4, <3>1 DEF HostRefs
    <3>3. \A x \in Requests : UsesHost(x)' => hostSem'[x] # NoSem /\ hostSems[HostOf[x]] # NoSem
          BY <2>2, <2>4, <3>1 DEF HostRefs
    <3> QED  BY <2>1, <3>2, <3>3 DEF HostRefs
  <2>5. \/ UNCHANGED hostSem
        \/ UsesHost(r) /\ hostSem' = [hostSem EXCEPT ![r] = hostSems[HostOf[r]]]
    <3>1. CASE pc[r] = "relLookup" /\ ConcurrentRequestsPerDomain # 0
          BY <1>5, <3>1 DEF ReleaseLookup, UsesHost
    <3> QED  BY <1>5, <3>1 DEF ReleaseLookup
  <2> QED  BY <2>3, <2>4, <2>5
<1>6. ASSUME NEW r \in Requests, ReleaseHost(r) PROVE HostRefs'
  <2>1. /\ UNCHANGED <<hostSems, made, hostSem>>
        /\ buffered' = [buffered EXCEPT ![hostSem[r]] = @ - 1]
        BY <1>6 DEF ReleaseHost
  <2>2. \A x \in Requests : UsesHost(x)' => UsesHost(x)
        BY <1>6 DEF ReleaseHost, UsesHost
  <2>3. hostSem[r] \notin Requests \ made
        BY DEF HostRefs
  <2> QED  BY <2>1, <2>2, <2>3 DEF HostRefs
<1>7. CASE UNCHANGED semVars
      BY <1>7 DEF semVars, HostRefs, UsesHost
<1> QED
  BY <1>1, <1>2, <1>3, <1>4, <1>5, <1>6, <1>7 DEF SemNext, AcquireSem, ReleaseSem

(* Every step of a goroutine keeps HostCount.                              *)
LEMMA HostCountStep == HostInv /\ [SemNext]_semVars => HostCount'
<1> SUFFICES ASSUME HostInv, [SemNext]_semVars, ConcurrentRequestsPerDomain # 0,
                    NEW h \in Hosts, OneSemaphore(h)',
                    NEW c \in (made \cap OfHost(h))'
             PROVE  buffered'[c] = Cardinality(HostHolders(h)')
    BY DEF HostCount, Hosts
<1>0. SemTypeOK /\ HostRefs /\ HostCount
      BY DEF HostInv
<1>a. c \in Requests /\ HostOf[c] = h /\ c \in made'
      BY DEF OfHost
<1>b. /\ IsFiniteSet(HostHolders(h)) /\ Cardinality(HostHolders(h)) \in Nat
      BY HoldersFinite, FS_CardinalityType
<1>c. ASSUME made' = made PROVE buffered[c] = Cardinality(HostHolders(h))
      BY <1>0, <1>c, <1>a DEF HostCount, OneSemaphore, OfHost
<1>1. ASSUME NEW r \in Requests,
             \/ Enter(r) \/ AcquireGlobal(r) \/ Lookup(r)
             \/ Leave(r) \/ ReleaseGlobal(r) \/ ReleaseLookup(r)
      PROVE  buffered'[c] = Cardinality(HostHolders(h)')
  <2>1. UNCHANGED <<made, buffered>>
        BY <1>1 DEF Enter, AcquireGlobal, Lookup, Leave, ReleaseGlobal, ReleaseLookup
  <2>2. HostHolders(h)' = HostHolders(h)
        BY <1>0, <1>1 DEF Enter, AcquireGlobal, Lookup, Leave, ReleaseGlobal,
             ReleaseLookup, Goto, HostHolders, OfHost, SemTypeOK
  <2> QED  BY <1>c, <2>1, <2>2
<1>2. ASSUME NEW r \in Requests, Register(r)
      PROVE  buffered'[c] = Cardinality(HostHolders(h)')
  <2>1. made' = made \cup {r} /\ UNCHANGED buffered
        BY <1>2 DEF Register
  <2>2. HostHolders(h)' = HostHolders(h)
        BY <1>0, <1>2 DEF Register, Goto, HostHolders, OfHost, SemTypeOK
  <2>3. CASE HostOf[r] # h \/ r \in made
        BY <1>0, <1>a, <2>1, <2>2, <2>3 DEF HostCount, OneSemaphore, OfHost
  <2>4. CASE HostOf[r] = h /\ r \notin made
    <3>1. c = r /\ made \cap OfHost(h) = {}
          BY <1>a, <2>1, <2>4 DEF OneSemaphore, OfHost
    <3>2. HostHolders(h) = {}
          BY <1>0, <3>1 DEF HostRefs, HostHolders, UsesHost, OfHost, Hosts
    <3>3. buffered[c] = 0
          BY <1>0, <2>4, <3>1 DEF HostRefs
    <3> QED  BY <2>1, <2>2, <3>2, <3>3, FS_EmptySet
  <2> QED  BY <2>3, <2>4
<1>3. ASSUME NEW r \in Requests, AcquireHost(r)
      PROVE  buffered'[c] = Cardinality(HostHolders(h)')
  <2>1. /\ made' = made
        /\ buffered' = [buffered EXCEPT ![hostSem[r]] = @ + 1]
        BY <1>3 DEF AcquireHost
  <2>2. hostSem[r] \in made \cap OfHost(HostOf[r])
        BY <1>0, <1>3 DEF AcquireHost, Goto, HostRefs, UsesHost
  <2>3. CASE HostOf[r] = h
    <3>1. c = hostSem[r]
          BY <1>a, <2>1, <2>2, <2>3 DEF OneSemaphore, OfHost
    <3>2. buffered'[c] = buffered[c] + 1
          BY <1>0, <1>a, <2>1, <3>1 DEF SemTypeOK
    <3>3. HostHolders(h)' = HostHolders(h) \cup {r} /\ r \notin HostHolders(h)
          BY <1>0, <1>3, <2>3 DEF AcquireHost, Goto, HostHolders, OfHost, SemTypeOK
    <3>4. Cardinality(HostHolders(h)') = Cardinality(HostHolders(h)) + 1
          BY <1>b, <3>3, FS_AddElement
    <3> QED  BY <1>c, <2>1, <3>2, <3>4
  <2>4. CASE HostOf[r] # h
    <3>1. buffered'[c] = buffered[c]
          BY <1>0, <1>a, <2>1, <2>2, <2>4 DEF OfHost, SemTypeOK
    <3>2. HostHolders(h)' = HostHolders(h)
          BY <1>0, <1>3, <2>4 DEF AcquireHost, Goto, HostHolders, OfHost, SemTypeOK
    <3> QED  BY <1>c, <2>1, <3>1, <3>2
  <2> QED  BY <2>3, <2>4
<1>4. ASSUME NEW r \in Requests, ReleaseHost(r)
      PROVE  buffered'[c] = Cardinality(HostHolders(h)')
  <2>1. /\ made' = made
        /\ buffered' = [buffered EXCEPT ![hostSem[r]] = @ - 1]
        BY <1>4 DEF ReleaseHost
  <2>2. hostSem[r] \in made \cap OfHost(HostOf[r])
        BY <1>0, <1>4 DEF ReleaseHost, HostRefs
  <2>3. CASE HostOf[r] = h
    <3>1. c = hostSem[r]
          BY <1>a, <2>1, <2>2, <2>3 DEF OneSemaphore, OfHost
    <3>2. buffered'[c] = buffered[c] - 1
          BY <1>0, <1>a, <2>1, <3>1 DEF SemTypeOK
    <3>3. HostHolders(h)' = HostHolders(h) \ {r} /\ r \in HostHolders(h)
          BY <1>0, <1>4, <2>3 DEF ReleaseHost, Goto, HostHolders, OfHost, SemTypeOK
    <3> QED  BY <1>b, <1>c, <2>1, <3>2, <3>3, FS_RemoveElement
  <2>4. CASE HostOf[r] # h
    <3>1. buffered'[c] = buffered[c]
          BY <1>0, <1>a, <2>1, <2>2, <2>4 DEF OfHost, SemTypeOK
    <3>2. HostHolders(h)' = HostHolders(h)
          BY <1>0, <1>4, <2>4 DEF ReleaseHost, Goto, HostHolders, OfHost, SemTypeOK
    <3> QED  BY <1>c, <2>1, <3>1, <3>2
  <2> QED  BY <2>3, <2>4
<1>5. CASE UNCHANGED semVars
  <2>1. UNCHANGED <<made, buffered>> /\ HostHolders(h)' = HostHolders(h)
        BY <1>5 DEF semVars, HostHolders, OfHost
  <2> QED  BY <1>c, <2>1
<1> QED
  BY <1>1, <1>2, <1>3, <1>4, <1>5 DEF SemNext, AcquireSem, ReleaseSem

(* The channels of a host are referred to and counted right at every       *)
(* moment.                                                                 *)
LEMMA HostInvariance == SemSpec => []HostInv
<1>1. SemInit => HostInv
      BY SemaphoresAssumption
      DEF SemInit, HostInv, SemTypeOK, PCs, HostRefs, HostCount, UsesHost
<1>2. HostInv /\ [SemNext]_semVars => HostInv'
      BY SemTypeStep, HostRefsStep, HostCountStep DEF HostInv
<1> QED  BY <1>1, <1>2, PTL DEF SemSpec

(* A right count of the only channel of a host bounds its requests.        *)
LEMMA HostInvGivesLimit == HostInv => HostLimitWithOneSemaphore
<1> SUFFICES ASSUME HostInv, ConcurrentRequestsPerDomain # 0, NEW h \in Hosts,
                    Cardinality(made \cap OfHost(h)) <= 1
             PROVE  Cardinality(Running \cap OfHost(h)) <= ConcurrentRequestsPerDomain
    BY DEF HostLimitWithOneSemaphore
<1>0. SemTypeOK /\ HostRefs /\ HostCount
      BY DEF HostInv
<1> DEFINE mine == made \cap OfHost(h)
<1>1. Running \cap OfHost(h) \in SUBSET HostHolders(h)
      BY DEF Running, HostHolders
<1>2. /\ Cardinality(Running \cap OfHost(h)) <= Cardinality(HostHolders(h))
      /\ Cardinality(Running \cap OfHost(h)) \in Nat
      /\ Cardinality(HostHolders(h)) \in Nat
      BY <1>1, HoldersFinite, FS_Subset, FS_CardinalityType
<1>3. IsFiniteSet(mine) /\ Cardinality(mine) \in Nat
      BY HoldersFinite, FS_Intersection, FS_CardinalityType
<1>4. CASE mine = {}
  <2>1. HostHolders(h) = {}
        BY <1>0, <1>4 DEF HostRefs, HostHolders, UsesHost, OfHost, Hosts
  <2> QED  BY <1>2, <2>1, FS_EmptySet, SemaphoresAssumption
<1>5. CASE mine # {}
  <2>1. Cardinality(mine) = 1
        BY <1>3, <1>5, FS_EmptySet
  <2>2. PICK c : mine = {c}
        BY <1>3, <2>1, FS_Singleton
  <2>3. OneSemaphore(h)
        BY <2>2 DEF OneSemaphore
  <2>4. buffered[c] = Cardinality(HostHolders(h)) /\ c \in Requests
        BY <1>0, <2>2, <2>3 DEF HostCount, OfHost
  <2>5. buffered[c] \in 0 .. ConcurrentRequestsPerDomain
        BY <1>0, <2>4 DEF SemTypeOK
  <2> QED  BY <1>2, <2>4, <2>5, SemaphoresAssumption
<1> QED  BY <1>4, <1>5

(* options.go, ConcurrentRequestsPerDomain: never more than that many      *)
(* requests to a host in the body of do, unless acquireSem made a second   *)
(* channel for it.                                                         *)
THEOREM HostLimitHolds == SemSpec => []HostLimitWithOneSemaphore
<1> QED  BY HostInvariance, HostInvGivesLimit, PTL
-----------------------------------------------------------------------------
(* The tokens of a host *)

(* The tokens in all the channels made for a host.                         *)
Tokens(h) == Total(buffered, OfHost(h))

TokensHeld ==
  ConcurrentRequestsPerDomain # 0 =>
    \A h \in Hosts : Tokens(h) = Cardinality(HostHolders(h))

(* What the run checks, with the name of the sum.                          *)
LEMMA TokensHeldIsConserved == TokensHeld <=> TokensConserved
<1>1. ASSUME NEW h PROVE Tokens(h) = MapThenSumSet(LAMBDA c : buffered[c], OfHost(h))
      BY DEF Tokens, Total
<1> QED  BY <1>1 DEF TokensHeld, TokensConserved

(* Every step of a goroutine keeps the number of tokens that of the        *)
(* requests that hold one, whichever channel they are sent to or taken     *)
(* from.                                                                   *)
LEMMA TokensStep ==
  /\ SemTypeOK /\ SemTypeOK' /\ HostRefs /\ TokensHeld
  /\ [SemNext]_semVars
  => TokensHeld'
<1> SUFFICES ASSUME SemTypeOK, SemTypeOK', HostRefs, TokensHeld, [SemNext]_semVars,
                    ConcurrentRequestsPerDomain # 0, NEW h \in Hosts
             PROVE  Tokens(h)' = Cardinality(HostHolders(h)')
    BY DEF TokensHeld, Hosts
<1>0. /\ Tokens(h) = Cardinality(HostHolders(h))
      /\ IsFiniteSet(OfHost(h)) /\ OfHost(h)' = OfHost(h)
      /\ IsFiniteSet(HostHolders(h)) /\ Cardinality(HostHolders(h)) \in Nat
  <2>1. Tokens(h) = Cardinality(HostHolders(h))
        BY DEF TokensHeld
  <2> QED  BY <2>1, HoldersFinite, FS_CardinalityType DEF OfHost
<1>1. \A c \in OfHost(h) : buffered[c] \in Nat /\ buffered'[c] \in Nat
      BY SemaphoresAssumption DEF SemTypeOK, OfHost
<1>2. ASSUME UNCHANGED buffered, HostHolders(h)' = HostHolders(h)
      PROVE  Tokens(h)' = Cardinality(HostHolders(h)')
      BY <1>0, <1>2 DEF Tokens
<1>3. ASSUME NEW r \in Requests, HostOf[r] # h, pc' = [pc EXCEPT ![r] = pc'[r]]
      PROVE  HostHolders(h)' = HostHolders(h)
      BY <1>3 DEF HostHolders, OfHost, SemTypeOK
<1>4. ASSUME NEW r \in Requests, NEW k \in {1, -1}, HostOf[r] # h,
             hostSem[r] \in made \cap OfHost(HostOf[r]),
             pc' = [pc EXCEPT ![r] = pc'[r]],
             buffered' = [buffered EXCEPT ![hostSem[r]] = @ + k]
      PROVE  Tokens(h)' = Cardinality(HostHolders(h)')
  <2>1. \A c \in OfHost(h) : buffered'[c] = buffered[c]
        BY <1>4 DEF OfHost, SemTypeOK
  <2>2. Tokens(h)' = Tokens(h)
        BY <1>0, <1>1, <2>1, TotalSame DEF Tokens
  <2> QED  BY <1>0, <1>3, <1>4, <2>2
<1>5. ASSUME NEW r \in Requests, AcquireHost(r)
      PROVE  Tokens(h)' = Cardinality(HostHolders(h)')
  <2>1. /\ buffered' = [buffered EXCEPT ![hostSem[r]] = @ + 1]
        /\ pc[r] = "host" /\ pc' = [pc EXCEPT ![r] = "running"] /\ pc'[r] = "running"
        BY <1>5 DEF AcquireHost, Goto, SemTypeOK
  <2>2. hostSem[r] \in made \cap OfHost(HostOf[r])
        BY <2>1 DEF HostRefs, UsesHost
  <2>3. CASE HostOf[r] = h
    <3>1. hostSem[r] \in OfHost(h)
          BY <2>2, <2>3
    <3>2. /\ buffered'[hostSem[r]] = buffered[hostSem[r]] + 1
          /\ \A c \in OfHost(h) \ {hostSem[r]} : buffered'[c] = buffered[c]
          BY <2>1, <3>1 DEF OfHost, SemTypeOK
    <3>3. Tokens(h)' = Tokens(h) + 1
          BY <1>0, <1>1, <3>1, <3>2, TotalGrows DEF Tokens
    <3>4. HostHolders(h)' = HostHolders(h) \cup {r} /\ r \notin HostHolders(h)
          BY <2>1, <2>3 DEF HostHolders, OfHost, SemTypeOK
    <3>5. Cardinality(HostHolders(h)') = Cardinality(HostHolders(h)) + 1
          BY <1>0, <3>4, FS_AddElement
    <3> QED  BY <1>0, <3>3, <3>5
  <2>4. CASE HostOf[r] # h
        BY <1>4, <2>1, <2>2, <2>4
  <2> QED  BY <2>3, <2>4
<1>6. ASSUME NEW r \in Requests, ReleaseHost(r)
      PROVE  Tokens(h)' = Cardinality(HostHolders(h)')
  <2>1. /\ buffered' = [buffered EXCEPT ![hostSem[r]] = @ - 1] /\ hostSem[r] # NoSem
        /\ pc[r] = "relHost" /\ pc' = [pc EXCEPT ![r] = "ended"] /\ pc'[r] = "ended"
        BY <1>6 DEF ReleaseHost, Goto, SemTypeOK
  <2>2. hostSem[r] \in made \cap OfHost(HostOf[r])
        BY <2>1 DEF HostRefs
  <2>3. /\ buffered' = [buffered EXCEPT ![hostSem[r]] = @ + (-1)]
        /\ buffered'[hostSem[r]] = buffered[hostSem[r]] + (-1)
    <3>1. hostSem[r] \in Requests /\ buffered[hostSem[r]] \in Nat
          BY <2>2, SemaphoresAssumption DEF OfHost, SemTypeOK
    <3>2. buffered[hostSem[r]] - 1 = buffered[hostSem[r]] + (-1)
          BY <3>1
    <3> QED  BY <2>1, <3>1, <3>2 DEF SemTypeOK
  <2>4. CASE HostOf[r] = h
    <3>1. hostSem[r] \in OfHost(h)
          BY <2>2, <2>4
    <3>2. \A c \in OfHost(h) \ {hostSem[r]} : buffered'[c] = buffered[c]
          BY <2>1, <3>1 DEF OfHost, SemTypeOK
    <3>3. Tokens(h)' = Tokens(h) + (-1)
      <4> DEFINE f == buffered
                 g == buffered'
                 c == hostSem[r]
                 k == 0 - 1
      <4>1. k \in Int /\ c \in OfHost(h) /\ g[c] = f[c] + k
            BY <2>3, <3>1
      <4>2. \A x \in OfHost(h) \ {c} : g[x] = f[x]
            BY <3>2
      <4>3. \A x \in OfHost(h) : f[x] \in Nat /\ g[x] \in Nat
            BY <1>1
      <4> HIDE DEF f, g, c, k
      <4>4. Total(g, OfHost(h)) = Total(f, OfHost(h)) + k
            BY <1>0, <4>1, <4>2, <4>3, TotalGrows
      <4> QED  BY <1>0, <4>4 DEF f, g, k, Tokens
    <3>4. HostHolders(h)' = HostHolders(h) \ {r} /\ r \in HostHolders(h)
          BY <2>1, <2>4 DEF HostHolders, OfHost, SemTypeOK
    <3>5. Cardinality(HostHolders(h)') = Cardinality(HostHolders(h)) - 1
      <4>1. IsFiniteSet(HostHolders(h))
            BY <1>0
      <4> QED  BY <3>4, <4>1, FS_RemoveElement
    <3> QED  BY <1>0, <3>3, <3>5
  <2>5. CASE HostOf[r] # h
        BY <1>4, <2>1, <2>2, <2>3, <2>5
  <2> QED  BY <2>4, <2>5
<1>7. ASSUME NEW r \in Requests,
             \/ Enter(r) \/ AcquireGlobal(r) \/ Lookup(r) \/ Register(r)
             \/ Leave(r) \/ ReleaseGlobal(r) \/ ReleaseLookup(r)
      PROVE  Tokens(h)' = Cardinality(HostHolders(h)')
  <2>1. UNCHANGED buffered
        BY <1>7 DEF Enter, AcquireGlobal, Lookup, Register, Leave, ReleaseGlobal, ReleaseLookup
  <2>2. HostHolders(h)' = HostHolders(h)
        BY <1>7 DEF Enter, AcquireGlobal, Lookup, Register, Leave, ReleaseGlobal,
             ReleaseLookup, Goto, HostHolders, OfHost, SemTypeOK
  <2> QED  BY <1>2, <2>1, <2>2
<1>8. CASE UNCHANGED semVars
  <2>1. UNCHANGED buffered /\ HostHolders(h)' = HostHolders(h)
        BY <1>8 DEF semVars, HostHolders, OfHost
  <2> QED  BY <1>2, <2>1
<1> QED
  BY <1>5, <1>6, <1>7, <1>8 DEF SemNext, AcquireSem, ReleaseSem

(* The tokens of a host are neither lost nor duplicated, also when the     *)
(* race of acquireSem has made several channels for it.                    *)
THEOREM TokensConservedHolds == SemSpec => []TokensConserved
<1>1. SemInit => TokensHeld
  <2> SUFFICES ASSUME SemInit, NEW h \in Hosts
               PROVE  Tokens(h) = Cardinality(HostHolders(h))
      BY DEF TokensHeld
  <2>1. \A c \in OfHost(h) : buffered[c] = 0
        BY DEF SemInit, OfHost
  <2>2. HostHolders(h) = {}
        BY DEF SemInit, HostHolders, OfHost
  <2> QED  BY <2>1, <2>2, HoldersFinite, TotalZero, FS_EmptySet DEF Tokens
<1>2. HostInv => SemTypeOK /\ HostRefs
      BY DEF HostInv
<1>3. SemTypeOK /\ [SemNext]_semVars => SemTypeOK'
      BY SemTypeStep
<1> QED  BY <1>1, <1>2, <1>3, TokensStep, TokensHeldIsConserved, HostInvariance, PTL DEF SemSpec

(* The tokens of a host are in the channels made for it: one of them holds *)
(* no more than all of them, and all of them no more than their places.    *)
LEMMA TokensBounds ==
  ASSUME SemTypeOK, HostRefs, TokensHeld, ConcurrentRequestsPerDomain # 0,
         NEW h \in Hosts
  PROVE  /\ \A c \in OfHost(h) : buffered[c] <= Cardinality(HostHolders(h))
         /\ Cardinality(HostHolders(h))
              <= ConcurrentRequestsPerDomain * Cardinality(made \cap OfHost(h))
<1> DEFINE n == ConcurrentRequestsPerDomain
           S == OfHost(h)
<1>1. IsFiniteSet(S) /\ n \in Nat
      BY HoldersFinite, SemaphoresAssumption
<1>2. \A c \in S : buffered[c] \in 0 .. n
      BY DEF SemTypeOK, OfHost
<1>3. \A c \in S \ made : buffered[c] = 0
      BY DEF HostRefs, OfHost
<1>4. Tokens(h) = Cardinality(HostHolders(h))
      BY DEF TokensHeld
<1> HIDE DEF n, S
<1>5. Total(buffered, S) <= n * Cardinality(made \cap S)
      BY <1>1, <1>2, <1>3, TotalBound
<1>6. ASSUME NEW c \in S PROVE buffered[c] <= Total(buffered, S)
  <2>1. \A x \in S : buffered[x] \in Nat
        BY <1>1, <1>2
  <2>2. /\ Total(buffered, S) = buffered[c] + Total(buffered, S \ {c})
        /\ Total(buffered, S \ {c}) \in Nat
        BY <1>1, <2>1, TotalRemove
  <2> QED  BY <2>1, <2>2
<1> QED  BY <1>4, <1>5, <1>6 DEF Tokens, n, S

(* What the properties below rest on.                                      *)
LEMMA TokensInvariance == SemSpec => [](HostInv /\ GlobalInv /\ TokensHeld)
<1> QED  BY HostInvariance, GlobalInvariance, TokensConservedHolds, TokensHeldIsConserved, PTL

(* How far past options.go, ConcurrentRequestsPerDomain, the race of       *)
(* acquireSem can go: the requests to a host in the body of do are never   *)
(* more than the places of all the channels made for that host, so every   *)
(* channel made too many adds the limit once more and no more than that.   *)
HostBounded ==
  ConcurrentRequestsPerDomain # 0 =>
    \A h \in Hosts :
      Cardinality(Running \cap OfHost(h))
        <= ConcurrentRequestsPerDomain * Cardinality(made \cap OfHost(h))

(* The requests in the body of do are among those that hold a token, which *)
(* is in one of the channels made for the host (acquireSem).               *)
THEOREM HostBoundedHolds == SemSpec => []HostBounded
<1>1. HostInv /\ TokensHeld => HostBounded
  <2> SUFFICES ASSUME HostInv, TokensHeld, ConcurrentRequestsPerDomain # 0, NEW h \in Hosts
               PROVE  Cardinality(Running \cap OfHost(h))
                        <= ConcurrentRequestsPerDomain * Cardinality(made \cap OfHost(h))
      BY DEF HostBounded
  <2> DEFINE places == ConcurrentRequestsPerDomain * Cardinality(made \cap OfHost(h))
  <2>1. Cardinality(HostHolders(h)) <= places
        BY TokensBounds DEF HostInv
  <2>2. Running \cap OfHost(h) \in SUBSET HostHolders(h)
        BY DEF Running, HostHolders
  <2>3. /\ Cardinality(Running \cap OfHost(h)) <= Cardinality(HostHolders(h))
        /\ Cardinality(Running \cap OfHost(h)) \in Nat
        /\ Cardinality(HostHolders(h)) \in Nat
        BY <2>2, HoldersFinite, FS_Subset, FS_CardinalityType
  <2>4. Cardinality(made \cap OfHost(h)) \in Nat /\ ConcurrentRequestsPerDomain \in Nat
        BY HoldersFinite, FS_Subset, FS_CardinalityType, SemaphoresAssumption
  <2>5. places \in Nat
        BY <2>4
  <2> HIDE DEF places
  <2>6. Cardinality(Running \cap OfHost(h)) <= places
        BY <2>1, <2>3, <2>5
  <2> QED  BY <2>6 DEF places
<1> QED  BY <1>1, TokensInvariance, PTL
-----------------------------------------------------------------------------
(* Who can wait for ever *)

(* The statement of acquireSem or releaseSem at which r stands is not      *)
(* waiting for a channel: the guard of its action holds.                   *)
Passes(r) ==
  \/ pc[r] = "global" /\ (ConcurrentRequests = 0 \/ GlobalRoom)
  \/ pc[r] \in {"lookup", "register", "relLookup"}
  \/ pc[r] = "host" /\ HostRoom(hostSem[r])
  \/ pc[r] = "relGlobal" /\ (ConcurrentRequests = 0 \/ semGlobal > 0)
  \/ pc[r] = "relHost" /\ hostSem[r] # NoSem /\ buffered[hostSem[r]] > 0

(* releaseSem waits to receive from a channel that holds nothing: the      *)
(* token r sent is in another one.                                         *)
WaitsToRelease(r) == pc[r] = "relHost" /\ ~Passes(r)

(* The per-host statements are reached only with a per-host limit.         *)
HostLimited ==
  \A r \in Requests :
    pc[r] \in {"register", "host", "relHost"} => ConcurrentRequestsPerDomain # 0

(* Nobody gets to them but from the lookup of acquireSem or releaseSem.    *)
LEMMA HostLimitedHolds == SemSpec => []HostLimited
<1>1. SemInit => HostLimited
      BY DEF SemInit, HostLimited
<1>2. SemTypeOK /\ HostLimited /\ [SemNext]_semVars => HostLimited'
  <2> SUFFICES ASSUME SemTypeOK, HostLimited, [SemNext]_semVars
               PROVE  HostLimited'
      OBVIOUS
  <2>1. ASSUME NEW r \in Requests, Enter(r) \/ AcquireSem(r) \/ Leave(r) \/ ReleaseSem(r)
        PROVE  HostLimited'
    <3>1. pc' = [pc EXCEPT ![r] = pc'[r]]
          BY <2>1 DEF Enter, AcquireSem, AcquireGlobal, Lookup, Register, AcquireHost, Leave,
               ReleaseSem, ReleaseGlobal, ReleaseLookup, ReleaseHost, Goto, SemTypeOK
    <3>2. pc'[r] \in {"register", "host", "relHost"}
          => ConcurrentRequestsPerDomain # 0
          BY <2>1 DEF Enter, AcquireSem, AcquireGlobal, Lookup, Register, AcquireHost, Leave,
               ReleaseSem, ReleaseGlobal, ReleaseLookup, ReleaseHost, Goto, SemTypeOK, HostLimited
    <3> QED  BY <3>1, <3>2 DEF HostLimited, SemTypeOK
  <2>2. CASE UNCHANGED semVars
        BY <2>2 DEF semVars, HostLimited
  <2> QED  BY <2>1, <2>2 DEF SemNext
<1> QED  BY <1>1, <1>2, SemTypeCorrect, PTL DEF SemSpec

(* releaseSem never waits for g.semGlobal, and never for the channel of a  *)
(* host for which one channel was made: there is a token in it, its own.   *)
ReleaseNeverWaits ==
  \A r \in Requests :
    /\ pc[r] = "relGlobal" => Passes(r)
    /\ WaitsToRelease(r) => Cardinality(made \cap OfHost(HostOf[r])) > 1

(* A goroutine in releaseSem is one of those that hold a token.            *)
LEMMA ReleaseHolds ==
  SemTypeOK /\ GlobalInv /\ HostInv /\ HostLimited => ReleaseNeverWaits
<1> SUFFICES ASSUME SemTypeOK, GlobalInv, HostInv, HostLimited, NEW r \in Requests
             PROVE  /\ pc[r] = "relGlobal" => Passes(r)
                    /\ WaitsToRelease(r) => Cardinality(made \cap OfHost(HostOf[r])) > 1
    BY DEF ReleaseNeverWaits
<1>1. ASSUME pc[r] = "relGlobal", ConcurrentRequests # 0 PROVE semGlobal > 0
  <2>1. r \in GlobalHolders
        BY <1>1 DEF GlobalHolders
  <2>2. Cardinality(GlobalHolders) # 0 /\ Cardinality(GlobalHolders) \in Nat
        BY <2>1, HoldersFinite, FS_EmptySet, FS_CardinalityType
  <2> QED  BY <1>1, <2>2 DEF GlobalInv
<1>2. ASSUME WaitsToRelease(r), Cardinality(made \cap OfHost(HostOf[r])) <= 1
      PROVE  FALSE
  <2> DEFINE h == HostOf[r]
             c == hostSem[r]
             mine == made \cap OfHost(h)
  <2>1. /\ SemTypeOK /\ HostRefs /\ HostCount
        /\ ConcurrentRequestsPerDomain # 0 /\ pc[r] = "relHost" /\ ~Passes(r)
        BY <1>2 DEF HostInv, WaitsToRelease, HostLimited
  <2>2. hostSem[r] # NoSem /\ c \in mine /\ h \in Hosts
        BY <2>1 DEF HostRefs, UsesHost, Hosts
  <2>3. IsFiniteSet(mine) /\ Cardinality(mine) \in Nat /\ Cardinality(mine) <= 1
        BY <1>2, HoldersFinite, FS_Intersection, FS_CardinalityType
  <2>4. Cardinality(mine) = 1
        BY <2>2, <2>3, FS_EmptySet
  <2>5. PICK d : mine = {d}
        BY <2>3, <2>4, FS_Singleton
  <2>6. OneSemaphore(h)
        BY <2>5 DEF OneSemaphore
  <2>7. buffered[c] = Cardinality(HostHolders(h))
        BY <2>1, <2>2, <2>6 DEF HostCount
  <2>8. r \in HostHolders(h)
        BY <2>1 DEF HostHolders, OfHost
  <2>9. Cardinality(HostHolders(h)) # 0 /\ Cardinality(HostHolders(h)) \in Nat
        BY <2>8, HoldersFinite, FS_EmptySet, FS_CardinalityType
  <2> QED  BY <2>1, <2>2, <2>7, <2>9 DEF Passes
<1>3. WaitsToRelease(r) => Cardinality(made \cap OfHost(HostOf[r])) > 1
  <2>1. Cardinality(made \cap OfHost(HostOf[r])) \in Nat
        BY HoldersFinite, FS_Intersection, FS_CardinalityType
  <2> QED  BY <1>2, <2>1
<1> QED  BY <1>1, <1>3 DEF Passes

(* geziyor.go, releaseSem: the only receive that can block is that from    *)
(* the channel of a host for which acquireSem made a second one.           *)
THEOREM ReleaseNeverWaitsHolds == SemSpec => []ReleaseNeverWaits
<1> QED  BY TokensInvariance, SemTypeCorrect, HostLimitedHolds, ReleaseHolds, PTL

(* Somebody is in acquireSem or releaseSem and nobody in the body of do:   *)
(* then somebody passes, or somebody waits to release.                     *)
SomebodyPasses ==
  Running = {} /\ (\E r \in Requests : pc[r] \notin {"idle", "ended"}) =>
    \E r \in Requests : Passes(r) \/ WaitsToRelease(r)

(* With nobody past its acquisition the buffers have room.                 *)
LEMMA RoomWithoutHolders ==
  SemTypeOK /\ GlobalInv /\ HostInv /\ TokensHeld /\ HostLimited => SomebodyPasses
<1> SUFFICES ASSUME SemTypeOK, GlobalInv, HostInv, TokensHeld, HostLimited, Running = {},
                    NEW q \in Requests, pc[q] \notin {"idle", "ended"},
                    \A r \in Requests : ~Passes(r) /\ ~WaitsToRelease(r)
             PROVE  FALSE
    BY DEF SomebodyPasses
<1>1. \A r \in Requests : pc[r] # "relGlobal"
      BY ReleaseHolds DEF ReleaseNeverWaits
<1>2. \A r \in Requests : pc[r] \in {"idle", "global", "host", "ended"}
      BY <1>1 DEF Passes, WaitsToRelease, Running, SemTypeOK, PCs
<1>3. ASSUME NEW r \in Requests, pc[r] = "host" PROVE FALSE
  <2> DEFINE h == HostOf[r]
             c == hostSem[r]
  <2>1. HostRefs /\ ConcurrentRequestsPerDomain # 0
        BY <1>3 DEF HostInv, HostLimited
  <2>2. c \in OfHost(h) /\ h \in Hosts
        BY <1>3, <2>1 DEF HostRefs, UsesHost, Hosts
  <2>3. HostHolders(h) = {}
        BY <1>2 DEF HostHolders, OfHost
  <2>4. Cardinality(HostHolders(h)) = 0
        BY <2>3, FS_EmptySet
  <2>5. buffered[c] <= Cardinality(HostHolders(h))
        BY <2>1, <2>2, TokensBounds
  <2>6. buffered[c] \in Nat /\ ConcurrentRequestsPerDomain \in Nat
        BY <2>2, SemaphoresAssumption DEF SemTypeOK, OfHost
  <2>7. HostRoom(c)
        BY <2>1, <2>4, <2>5, <2>6
  <2> QED  BY <1>3, <2>7 DEF Passes
<1>4. GlobalHolders = {}
      BY <1>2, <1>3 DEF GlobalHolders
<1>5. ConcurrentRequests = 0 \/ GlobalRoom
      BY <1>4, FS_EmptySet, SemaphoresAssumption DEF GlobalInv
<1>6. pc[q] = "global"
      BY <1>2, <1>3
<1> QED  BY <1>5, <1>6 DEF Passes

(* geziyor.go, acquireSem: the goroutines do not wait for each other in a  *)
(* ring, whatever the limits: unless a second channel was made for a host, *)
(* somebody always gets on when the body of do is empty.                   *)
THEOREM SomebodyPassesHolds == SemSpec => []SomebodyPasses
<1> QED  BY TokensInvariance, SemTypeCorrect, HostLimitedHolds, RoomWithoutHolders, PTL

(* Both together, with one channel for each host: no deadlock at all.      *)
NoSemaphoreDeadlock ==
  OneSemaphorePerHost /\ Running = {} /\ (\E r \in Requests : pc[r] \notin {"idle", "ended"})
    => \E r \in Requests : Passes(r)

(* geziyor.go:275: without a second channel for a host the two semaphores  *)
(* never stop the crawl.                                                   *)
THEOREM NoSemaphoreDeadlockHolds == SemSpec => []NoSemaphoreDeadlock
<1>1. ReleaseNeverWaits /\ SomebodyPasses => NoSemaphoreDeadlock
  <2> SUFFICES ASSUME ReleaseNeverWaits, OneSemaphorePerHost,
                      NEW r \in Requests, WaitsToRelease(r)
               PROVE  FALSE
      BY DEF SomebodyPasses, NoSemaphoreDeadlock
  <2>1. HostOf[r] \in Hosts
        BY DEF Hosts
  <2>2. Cardinality(made \cap OfHost(HostOf[r])) <= 1
        BY <2>1 DEF OneSemaphorePerHost
  <2>3. Cardinality(made \cap OfHost(HostOf[r])) > 1
        BY DEF ReleaseNeverWaits
  <2>4. Cardinality(made \cap OfHost(HostOf[r])) \in Nat
        BY HoldersFinite, FS_Intersection, FS_CardinalityType
  <2> QED  BY <2>2, <2>3, <2>4
<1> QED  BY <1>1, ReleaseNeverWaitsHolds, SomebodyPassesHolds, PTL
-----------------------------------------------------------------------------
(* Refinement *)

(* The global semaphore implements the limit of options.go: a request      *)
(* enters the body of do only when fewer than ConcurrentRequests are in it.*)
THEOREM LimitImplemented == SemSpec => ImplementsLimit
<1>1. SemInit => Limit!Init
      BY DEF SemInit, Limit!Init, Running
<1>2. SemTypeOK /\ GlobalInv /\ [SemNext]_semVars => [Limit!Next]_(Limit!limitVars)
  <2> SUFFICES ASSUME SemTypeOK, GlobalInv, [SemNext]_semVars
               PROVE  [Limit!Next]_(Limit!limitVars)
      OBVIOUS
  <2> DEFINE served == {r \in Requests : pc[r] \in {"relGlobal", "relLookup", "relHost", "ended"}}
  <2>a. ASSUME NEW r \in Requests, Running' = Running \cup {r}, served' = served,
               pc[r] \in {"lookup", "host"}
        PROVE  Limit!Begin(r)
    <3>1. r \notin Running \cup served
          BY <2>a DEF Running
    <3>2. ConcurrentRequests = 0 \/ Cardinality(Running) < ConcurrentRequests
      <4> SUFFICES ASSUME ConcurrentRequests # 0
                   PROVE  Cardinality(Running) < ConcurrentRequests
          OBVIOUS
      <4>1. Running \cup {r} \in SUBSET GlobalHolders /\ Running \in SUBSET GlobalHolders
            BY <2>a DEF Running, GlobalHolders
      <4>2. IsFiniteSet(Running) /\ Cardinality(Running) \in Nat
            BY <4>1, HoldersFinite, FS_Subset, FS_CardinalityType
      <4>3. Cardinality(Running \cup {r}) = Cardinality(Running) + 1
            BY <3>1, <4>2, FS_AddElement
      <4>4. Cardinality(Running \cup {r}) <= Cardinality(GlobalHolders)
            BY <4>1, HoldersFinite, FS_Subset
      <4> QED  BY <4>2, <4>3, <4>4, SemaphoresAssumption DEF GlobalInv, SemTypeOK
    <3> QED  BY <2>a, <3>1, <3>2 DEF Limit!Begin, Limit!Cardinality, Cardinality
  <2>b. ASSUME Running' = Running, served' = served
        PROVE  UNCHANGED Limit!limitVars
        BY <2>b DEF Limit!limitVars
  <2>1. ASSUME NEW r \in Requests,
               \/ Enter(r) \/ AcquireGlobal(r) \/ Register(r)
               \/ ReleaseGlobal(r) \/ ReleaseLookup(r) \/ ReleaseHost(r)
        PROVE  UNCHANGED Limit!limitVars
    <3>1. Running' = Running /\ served' = served
          BY <2>1 DEF Enter, AcquireGlobal, Register, ReleaseGlobal, ReleaseLookup,
               ReleaseHost, Goto, Running, SemTypeOK
    <3> QED  BY <2>b, <3>1
  <2>2. ASSUME NEW r \in Requests, Lookup(r)
        PROVE  Limit!Begin(r) \/ UNCHANGED Limit!limitVars
    <3>1. CASE Goto(r, "lookup", "running")
      <4>1. Running' = Running \cup {r} /\ served' = served /\ pc[r] = "lookup"
            BY <3>1 DEF Goto, Running, SemTypeOK
      <4> QED  BY <2>a, <4>1
    <3>2. CASE Goto(r, "lookup", "host") \/ Goto(r, "lookup", "register")
      <4>1. Running' = Running /\ served' = served
            BY <3>2 DEF Goto, Running, SemTypeOK
      <4> QED  BY <2>b, <4>1
    <3> QED  BY <2>2, <3>1, <3>2 DEF Lookup
  <2>3. ASSUME NEW r \in Requests, AcquireHost(r)
        PROVE  Limit!Begin(r)
    <3>1. Running' = Running \cup {r} /\ served' = served /\ pc[r] = "host"
          BY <2>3 DEF AcquireHost, Goto, Running, SemTypeOK
    <3> QED  BY <2>a, <3>1
  <2>4. ASSUME NEW r \in Requests, Leave(r)
        PROVE  Limit!End(r)
    <3>1. /\ r \in Running
          /\ Running' = Running \ {r}
          /\ served' = served \cup {r}
          BY <2>4 DEF Leave, Goto, Running, SemTypeOK
    <3> QED  BY <3>1 DEF Limit!End
  <2>5. CASE UNCHANGED semVars
    <3>1. Running' = Running /\ served' = served
          BY <2>5 DEF semVars, Running
    <3> QED  BY <2>b, <3>1
  <2> QED
    BY <2>1, <2>2, <2>3, <2>4, <2>5 DEF SemNext, AcquireSem, ReleaseSem, Limit!Next
<1> QED  BY <1>1, <1>2, GlobalInvariance, PTL DEF SemSpec, ImplementsLimit, Limit!Spec
=============================================================================
