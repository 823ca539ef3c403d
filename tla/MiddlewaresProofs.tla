------------------------- MODULE MiddlewaresProofs -------------------------
(***************************************************************************)
(* What holds of the request middlewares for every number of requests,     *)
(* URLs and hosts, every robots.txt and however often a request is passed  *)
(* to Do.                                                                  *)
(***************************************************************************)
EXTENDS Middlewares, InductionLemmas

-----------------------------------------------------------------------------
(* Types *)

Counters == [requests : Nat, robotsRequests : [Hosts -> Nat],
             robotsResponses : [Hosts -> Nat], robotsForbidden : Nat]

ChainTypeOK ==
  /\ at \in [Requests -> InChain \cup Ended]
  /\ cancelled \in [Requests -> BOOLEAN]
  /\ issued \in [Requests -> Nat]
  /\ visited \subseteq Urls
  /\ robotsMap \in [Hosts -> RobotsAnswers \cup {NoRules}]
  /\ rules \in [Requests -> RobotsAnswers \cup {NoRules}]
  /\ metrics \in Counters
  /\ passed \in [Requests -> Nat]
  /\ panicked \in [Requests -> Nat]
  /\ forbidden \subseteq Urls
  /\ failed \in [Hosts -> Nat]

(* A request has a URL, and that a host.                                   *)
LEMMA UrlAndHost == \A r \in Requests : UrlOf[r] \in Urls /\ Host(r) \in Hosts
<1> QED  BY DEF Host, Hosts, Urls

(* The middlewares start with nothing recorded.                            *)
LEMMA ChainTypeInit == Init => ChainTypeOK
<1> SUFFICES ASSUME Init PROVE ChainTypeOK
    OBVIOUS
<1>1. metrics \in Counters
      BY DEF Init, Counters
<1> QED  BY <1>1 DEF Init, ChainTypeOK, InChain, Ended

(* The counters are incremented one at a time.                             *)
LEMMA CountersGrow ==
  ASSUME NEW h \in Hosts, NEW k \in Nat, metrics \in Counters
  PROVE  /\ [metrics EXCEPT !.requests = @ + k] \in Counters
         /\ [metrics EXCEPT !.robotsForbidden = @ + 1] \in Counters
         /\ [metrics EXCEPT !.robotsRequests[h] = @ + 1] \in Counters
         /\ [metrics EXCEPT !.robotsResponses[h] = @ + 1] \in Counters
<1>1. [metrics EXCEPT !.requests = @ + k] \in Counters
      BY DEF Counters
<1>2. [metrics EXCEPT !.robotsForbidden = @ + 1] \in Counters
      BY DEF Counters
<1>3. [metrics EXCEPT !.robotsRequests[h] = @ + 1] \in Counters
      BY DEF Counters
<1>4. [metrics EXCEPT !.robotsResponses[h] = @ + 1] \in Counters
      BY DEF Counters
<1> QED  BY <1>1, <1>2, <1>3, <1>4

(* Every step of a middleware keeps the types.                             *)
LEMMA ChainTypeStep == ChainTypeOK /\ [Next]_vars => ChainTypeOK'
<1> SUFFICES ASSUME ChainTypeOK, [Next]_vars PROVE ChainTypeOK'
    OBVIOUS
<1> USE UrlAndHost DEF ChainTypeOK, InChain, Ended
<1>1. ASSUME NEW r \in Requests, Issue(r) PROVE ChainTypeOK'
      BY <1>1 DEF Issue, Goto
<1>2. ASSUME NEW r \in Requests, ProcessAllowedDomains(r) PROVE ChainTypeOK'
      BY <1>2 DEF ProcessAllowedDomains, Cancel, Continue, Goto, robotsVars
<1>3. ASSUME NEW r \in Requests, ProcessDuplicates(r) PROVE ChainTypeOK'
      BY <1>3 DEF ProcessDuplicates, Key, Cancel, Continue, Goto, robotsVars
<1>4. ASSUME NEW r \in Requests, ProcessDelay(r) PROVE ChainTypeOK'
      BY <1>4 DEF ProcessDelay, Panic, Continue, Goto, robotsVars
<1>5. ASSUME NEW r \in Requests, ProcessMetrics(r) PROVE ChainTypeOK'
  <2>1. metrics' \in Counters
        BY <1>5, CountersGrow DEF ProcessMetrics, Count
  <2> QED  BY <1>5, <2>1 DEF ProcessMetrics, Count, Pass, Continue, Goto, robotsVars
<1>6. ASSUME NEW r \in Requests, RobotsLookup(r) PROVE ChainTypeOK'
  <2>1. metrics' \in Counters
        BY <1>6, CountersGrow DEF RobotsLookup
  <2>2. failed' \in [Hosts -> Nat] /\ passed' \in [Requests -> Nat]
        BY <1>6 DEF RobotsLookup, Unchecked, Pass, Continue
  <2>3. rules' \in [Requests -> RobotsAnswers \cup {NoRules}]
        BY <1>6 DEF RobotsLookup
  <2>4. at' \in [Requests -> InChain \cup Ended]
        BY <1>6 DEF RobotsLookup, Unchecked, Pass, Continue, Goto
  <2>5. UNCHANGED <<cancelled, issued, panicked, visited, robotsMap, forbidden>>
        BY <1>6 DEF RobotsLookup, Unchecked, Pass, Continue
  <2> QED  BY <2>1, <2>2, <2>3, <2>4, <2>5
<1>7. ASSUME NEW r \in Requests, RobotsFetch(r) PROVE ChainTypeOK'
  <2>1. metrics' \in Counters
    <3>1. /\ metrics \in Counters /\ Host(r) \in Hosts
          /\ \/ UNCHANGED metrics
             \/ metrics' = [metrics EXCEPT !.robotsResponses[Host(r)] = @ + 1]
          BY <1>7 DEF RobotsFetch
    <3> QED  BY <3>1, CountersGrow
  <2>2. /\ failed' \in [Hosts -> Nat]
        /\ passed' \in [Requests -> Nat] /\ panicked' \in [Requests -> Nat]
        BY <1>7 DEF RobotsFetch, Unchecked, Pass, Panic, Continue
  <2>3. rules' \in [Requests -> RobotsAnswers \cup {NoRules}]
        BY <1>7 DEF RobotsFetch
  <2>4. at' \in [Requests -> InChain \cup Ended]
        BY <1>7 DEF RobotsFetch, Unchecked, Pass, Panic, Continue, Goto
  <2>5. UNCHANGED <<cancelled, issued, visited, robotsMap, forbidden>>
        BY <1>7 DEF RobotsFetch, Unchecked, Pass, Panic, Continue
  <2> QED  BY <2>1, <2>2, <2>3, <2>4, <2>5
<1>8. ASSUME NEW r \in Requests, RobotsStore(r) PROVE ChainTypeOK'
      BY <1>8 DEF RobotsStore, WithAnswer, Continue, Goto
<1>9. ASSUME NEW r \in Requests, RobotsTest(r) PROVE ChainTypeOK'
  <2>1. metrics' \in Counters
        BY <1>9, CountersGrow DEF RobotsTest
  <2>2. CASE forbidden' = forbidden \cup {UrlOf[r]} /\ Cancel(r)
        BY <1>9, <2>1, <2>2 DEF RobotsTest, Cancel, Goto
  <2>3. CASE UNCHANGED forbidden /\ Pass(r)
        BY <1>9, <2>1, <2>3 DEF RobotsTest, Pass, Goto
  <2> QED  BY <1>9, <2>2, <2>3 DEF RobotsTest
<1>10. CASE UNCHANGED vars
       BY <1>10 DEF vars, requestVars, robotsVars
<1> QED
  BY <1>1, <1>2, <1>3, <1>4, <1>5, <1>6, <1>7, <1>8, <1>9, <1>10 DEF Next, Process

(* The types of the middlewares' state.                                    *)
LEMMA ChainTypes == Spec => []ChainTypeOK
<1> QED  BY ChainTypeInit, ChainTypeStep, PTL DEF Spec
-----------------------------------------------------------------------------
(* Counting requests *)

(* Behind DuplicateRequests, and at RobotsTxt.                             *)
AtRobots == {"robots", "fetch", "store", "test"}
Behind == {"delay", "metrics"} \cup AtRobots

(* The requests of a set that are in some of the steps.                    *)
In(where, S, T) == Cardinality({x \in S : where[x] \in T})

(* One request moves: the count changes by that one.                       *)
LEMMA OneMoves ==
  ASSUME NEW S \in SUBSET Requests, NEW T, NEW r \in Requests,
         \A x \in Requests \ {r} : at'[x] = at[x]
  PROVE  /\ In(at, S, T) \in Nat /\ In(at', S, T) \in Nat
         /\ In(at', S, T) + (IF r \in S /\ at[r] \in T THEN 1 ELSE 0) =
              In(at, S, T) + (IF r \in S /\ at'[r] \in T THEN 1 ELSE 0)
<1> DEFINE A == {x \in S : at[x] \in T}
           B == {x \in S : at'[x] \in T}
           C == {x \in S \ {r} : at[x] \in T}
<1>1. IsFiniteSet(A) /\ IsFiniteSet(B) /\ IsFiniteSet(C)
      BY MiddlewaresAssumption, FS_Subset
<1>2. A = IF r \in S /\ at[r] \in T THEN C \cup {r} ELSE C
      OBVIOUS
<1>3. B = IF r \in S /\ at'[r] \in T THEN C \cup {r} ELSE C
      OBVIOUS
<1>4. r \notin C
      OBVIOUS
<1> HIDE DEF A, B, C
<1>5. Cardinality(C \cup {r}) = Cardinality(C) + 1 /\ Cardinality(C) \in Nat
      BY <1>1, <1>4, FS_AddElement, FS_CardinalityType
<1>6. Cardinality(A) = Cardinality(C) + IF r \in S /\ at[r] \in T THEN 1 ELSE 0
      BY <1>2, <1>5
<1>7. Cardinality(B) = Cardinality(C) + IF r \in S /\ at'[r] \in T THEN 1 ELSE 0
      BY <1>3, <1>5
<1>8. In(at, S, T) = Cardinality(A) /\ In(at', S, T) = Cardinality(B)
      BY DEF In, A, B
<1> QED  BY <1>5, <1>6, <1>7, <1>8

(* One request is sent: the sum of passed changes by that one.             *)
LEMMA OneSent ==
  ASSUME NEW S \in SUBSET Requests, NEW r \in Requests,
         NEW f \in [Requests -> Nat]
  PROVE  /\ Total(f, S) \in Nat
         /\ Total([f EXCEPT ![r] = @ + 1], S) = Total(f, S) + IF r \in S THEN 1 ELSE 0
<1> DEFINE e == [f EXCEPT ![r] = @ + 1]
<1>1. IsFiniteSet(S)
      BY MiddlewaresAssumption, FS_Subset
<1>2. e[r] = f[r] + 1 /\ \A x \in S : f[x] \in Nat /\ e[x] \in Nat
      OBVIOUS
<1>3. \A x \in S \ {r} : e[x] = f[x]
      OBVIOUS
<1> HIDE DEF e
<1>4. Total(f, S) \in Nat
      BY <1>1, <1>2, TotalStep
<1>5. CASE r \in S
  <2>1. 1 \in Int /\ e[r] = f[r] + 1
        BY <1>2
  <2>2. Total(e, S) = Total(f, S) + 1
        BY <1>1, <1>2, <1>3, <1>5, <2>1, TotalGrows
  <2> QED  BY <1>4, <1>5, <2>2 DEF e
<1>6. CASE r \notin S
  <2>1. \A x \in S : f[x] \in Nat /\ f[x] = e[x]
        BY <1>2, <1>3, <1>6
  <2>2. Total(f, S) = Total(e, S)
        BY <1>1, <2>1, TotalSame
  <2> QED  BY <1>4, <1>6, <2>2 DEF e
<1> QED  BY <1>4, <1>5, <1>6

(* The name the model gives to a sum.                                      *)
LEMMA SumIsTotal == \A f, S : SumOver(f, S) = Total(f, S)
<1> QED  BY DEF SumOver, Total
-----------------------------------------------------------------------------
(* What one goroutine does *)

(* The part of a step that the invariants are about: one request moves, in *)
(* front of DuplicateRequests, through it, or behind it.                   *)
InFront(r) ==
  /\ at[r] \notin Behind /\ at'[r] \notin Behind
  /\ UNCHANGED <<passed, panicked, visited, forbidden>>

Through(r) ==
  /\ at[r] = "duplicates"
  /\ UNCHANGED <<passed, panicked, forbidden>>
  /\ \/ /\ URLRevisitEnabled \/ r \notin Gets
        /\ at'[r] = "delay"
        /\ visited' = visited
     \/ /\ ~URLRevisitEnabled /\ r \in Gets
        /\ visited' = visited \cup {UrlOf[r]}
        /\ at'[r] = IF UrlOf[r] \in visited THEN "cancelled" ELSE "delay"

Sent(r) ==
  /\ at[r] \in Behind /\ at'[r] = "passed"
  /\ passed' = [passed EXCEPT ![r] = @ + 1]
  /\ UNCHANGED <<panicked, visited, forbidden>>

Forbidden(r) ==
  /\ at[r] \in AtRobots /\ at'[r] = "cancelled"
  /\ forbidden' = forbidden \cup {UrlOf[r]}
  /\ UNCHANGED <<passed, panicked, visited>>

Panicked(r) ==
  /\ at[r] \in Behind /\ at'[r] = "panicked"
  /\ panicked' = [panicked EXCEPT ![r] = @ + 1]
  /\ UNCHANGED <<passed, visited, forbidden>>

Onward(r) ==
  /\ at[r] \in Behind /\ at'[r] \in Behind
  /\ UNCHANGED <<passed, panicked, visited, forbidden>>

(* Every step of a goroutine is one of these.                              *)
LEMMA OneOfThese ==
  ASSUME ChainTypeOK, NEW r \in Requests, Issue(r) \/ Process(r)
  PROVE  /\ \A x \in Requests \ {r} : at'[x] = at[x]
         /\ \/ InFront(r) \/ Through(r) \/ Sent(r)
            \/ Forbidden(r) \/ Panicked(r) \/ Onward(r)
<1>1. /\ at \in [Requests -> InChain \cup Ended]
      BY DEF ChainTypeOK
<1> USE <1>1 DEF AtRobots, Behind, InFront, Through, Sent, Forbidden, Panicked, Onward,
                 Goto, InChain, Ended
<1>2. CASE Issue(r)
      BY <1>2 DEF Issue
<1>3. CASE ProcessAllowedDomains(r)
      BY <1>3 DEF ProcessAllowedDomains, Cancel, Continue, robotsVars
<1>4. CASE ProcessDuplicates(r)
      BY <1>4 DEF ProcessDuplicates, Key, Cancel, Continue, robotsVars
<1>5. CASE ProcessDelay(r)
      BY <1>5 DEF ProcessDelay, Panic, Continue, robotsVars
<1>6. CASE ProcessMetrics(r)
      BY <1>6 DEF ProcessMetrics, Pass, Continue, robotsVars
<1>7. CASE RobotsLookup(r)
      BY <1>7 DEF RobotsLookup, Unchecked, Pass, Continue
<1>8. CASE RobotsFetch(r)
      BY <1>8 DEF RobotsFetch, Unchecked, Pass, Panic, Continue
<1>9. CASE RobotsStore(r)
      BY <1>9 DEF RobotsStore, Continue
<1>10. CASE RobotsTest(r)
       BY <1>10 DEF RobotsTest, Cancel, Pass
<1> QED
  BY <1>2, <1>3, <1>4, <1>5, <1>6, <1>7, <1>8, <1>9, <1>10 DEF Process

(* The counters a step increments, with where the request goes.            *)
LEMMA StepCounts ==
  ASSUME ChainTypeOK, NEW r \in Requests, Issue(r) \/ Process(r)
  PROVE  /\ \/ metrics'.robotsRequests = metrics.robotsRequests
            \/ metrics' = [metrics EXCEPT !.robotsRequests[Host(r)] = @ + 1] /\ at[r] = "robots"
         /\ passed' = passed \/ passed' = [passed EXCEPT ![r] = @ + 1]
         /\ panicked' = panicked \/ panicked' = [panicked EXCEPT ![r] = @ + 1]
         /\ \/ DelayPanics
            \/ /\ at[r] \notin AtRobots /\ at'[r] \notin AtRobots
               /\ metrics'.requests = metrics.requests
               /\ metrics'.robotsForbidden = metrics.robotsForbidden
               /\ passed' = passed /\ panicked' = panicked
            \/ /\ at[r] \notin AtRobots
               /\ metrics'.requests = metrics.requests + 1
               /\ metrics'.robotsForbidden = metrics.robotsForbidden
               /\ panicked' = panicked
               /\ \/ at'[r] \in AtRobots /\ passed' = passed
                  \/ at'[r] \notin AtRobots /\ passed' = [passed EXCEPT ![r] = @ + 1]
            \/ /\ at[r] \in AtRobots
               /\ metrics'.requests = metrics.requests
               /\ metrics'.robotsForbidden = metrics.robotsForbidden
               /\ panicked' = panicked
               /\ \/ at'[r] \in AtRobots /\ passed' = passed
                  \/ at'[r] \notin AtRobots /\ passed' = [passed EXCEPT ![r] = @ + 1]
            \/ /\ at[r] \in AtRobots /\ at'[r] \notin AtRobots
               /\ metrics'.requests = metrics.requests
               /\ metrics'.robotsForbidden = metrics.robotsForbidden
               /\ passed' = passed /\ panicked' = [panicked EXCEPT ![r] = @ + 1]
            \/ /\ at[r] \in AtRobots /\ at'[r] \notin AtRobots
               /\ metrics'.requests = metrics.requests
               /\ metrics'.robotsForbidden = metrics.robotsForbidden + 1
               /\ passed' = passed /\ panicked' = panicked
<1>1. at \in [Requests -> InChain \cup Ended]
      BY DEF ChainTypeOK
<1>2. \A h \in Hosts :
        /\ [metrics EXCEPT !.robotsRequests[h] = @ + 1].requests = metrics.requests
        /\ [metrics EXCEPT !.robotsRequests[h] = @ + 1].robotsForbidden = metrics.robotsForbidden
        /\ [metrics EXCEPT !.robotsResponses[h] = @ + 1].requests = metrics.requests
        /\ [metrics EXCEPT !.robotsResponses[h] = @ + 1].robotsForbidden = metrics.robotsForbidden
        /\ [metrics EXCEPT !.robotsResponses[h] = @ + 1].robotsRequests = metrics.robotsRequests
      BY DEF ChainTypeOK, Counters
<1>3. /\ [metrics EXCEPT !.requests = @ + 1].requests = metrics.requests + 1
      /\ [metrics EXCEPT !.requests = @ + 1].robotsForbidden = metrics.robotsForbidden
      /\ [metrics EXCEPT !.requests = @ + 1].robotsRequests = metrics.robotsRequests
      /\ [metrics EXCEPT !.robotsForbidden = @ + 1].requests = metrics.requests
      /\ [metrics EXCEPT !.robotsForbidden = @ + 1].robotsForbidden = metrics.robotsForbidden + 1
      /\ [metrics EXCEPT !.robotsForbidden = @ + 1].robotsRequests = metrics.robotsRequests
      BY DEF ChainTypeOK, Counters
<1> USE <1>1, UrlAndHost DEF AtRobots, Goto, InChain, Ended
<1>4. CASE Issue(r)
      BY <1>4 DEF Issue
<1>5. CASE ProcessAllowedDomains(r)
      BY <1>5 DEF ProcessAllowedDomains, Cancel, Continue, robotsVars
<1>6. CASE ProcessDuplicates(r)
      BY <1>6 DEF ProcessDuplicates, Key, Cancel, Continue, robotsVars
<1>7. CASE ProcessDelay(r)
      BY <1>7 DEF ProcessDelay, Panic, Continue, robotsVars
<1>8. CASE ProcessMetrics(r)
      BY <1>3, <1>8 DEF ProcessMetrics, Count, Pass, Continue, robotsVars
<1>9. CASE RobotsLookup(r)
  <2>1. /\ Host(r) \in Hosts /\ at[r] = "robots" /\ panicked' = panicked
        /\ \/ at'[r] = "test" /\ UNCHANGED metrics /\ passed' = passed
           \/ /\ at'[r] = "fetch" /\ passed' = passed
              /\ metrics' = [metrics EXCEPT !.robotsRequests[Host(r)] = @ + 1]
           \/ /\ at'[r] = "passed" /\ UNCHANGED metrics
              /\ passed' = [passed EXCEPT ![r] = @ + 1]
        BY <1>9 DEF RobotsLookup, Unchecked, Pass, Continue
  <2> QED  BY <1>2, <2>1
<1>10. CASE RobotsFetch(r)
  <2>1. /\ Host(r) \in Hosts /\ at[r] = "fetch"
        /\ \/ UNCHANGED metrics
           \/ metrics' = [metrics EXCEPT !.robotsResponses[Host(r)] = @ + 1]
        /\ \/ /\ at'[r] = "passed" /\ panicked' = panicked
              /\ passed' = [passed EXCEPT ![r] = @ + 1]
           \/ /\ at'[r] = "panicked" /\ passed' = passed
              /\ panicked' = [panicked EXCEPT ![r] = @ + 1]
           \/ at'[r] = "store" /\ passed' = passed /\ panicked' = panicked
        BY <1>10 DEF RobotsFetch, Unchecked, Pass, Panic, Continue
  <2> QED  BY <1>2, <2>1
<1>11. CASE RobotsStore(r)
       BY <1>11 DEF RobotsStore, Continue
<1>12. CASE RobotsTest(r)
       BY <1>3, <1>12 DEF RobotsTest, Cancel, Pass
<1> QED
  BY <1>4, <1>5, <1>6, <1>7, <1>8, <1>9, <1>10, <1>11, <1>12 DEF Process
-----------------------------------------------------------------------------
(* DuplicateRequests *)

GetsOf(u) == {r \in Gets : UrlOf[r] = u}

(* A URL that has been visited was sent, or has one request on its way;    *)
(* a URL that has not, neither.                                            *)
OnceOnly ==
  ~URLRevisitEnabled =>
    \A u \in Urls :
      Total(passed, GetsOf(u)) + In(at, GetsOf(u), Behind) <= IF u \in visited THEN 1 ELSE 0

(* Nothing is sent before the first request.                               *)
LEMMA OnceOnlyInit == Init => OnceOnly
<1> SUFFICES ASSUME Init, NEW u \in Urls
             PROVE  Total(passed, GetsOf(u)) + In(at, GetsOf(u), Behind) <= 0
    BY DEF OnceOnly, Init
<1>1. IsFiniteSet(GetsOf(u)) /\ GetsOf(u) \subseteq Requests
      BY MiddlewaresAssumption, FS_Subset DEF GetsOf
<1>2. \A r \in GetsOf(u) : passed[r] = 0
      BY <1>1 DEF Init
<1>3. Total(passed, GetsOf(u)) = 0
      BY <1>1, <1>2, TotalZero
<1>4. {r \in GetsOf(u) : at[r] \in Behind} = {}
      BY <1>1 DEF Init, Behind, AtRobots
<1>5. In(at, GetsOf(u), Behind) = 0
      BY <1>4, FS_EmptySet DEF In
<1> QED  BY <1>3, <1>5

(* DuplicateRequests lets the first request for a URL go on, and no other. *)
LEMMA OnceOnlyStep == ChainTypeOK /\ OnceOnly /\ [Next]_vars => OnceOnly'
<1> SUFFICES ASSUME ChainTypeOK, OnceOnly, [Next]_vars, ~URLRevisitEnabled, NEW u \in Urls
             PROVE  Total(passed', GetsOf(u)) + In(at', GetsOf(u), Behind)
                      <= IF u \in visited' THEN 1 ELSE 0
    BY DEF OnceOnly, Urls, GetsOf, Behind, AtRobots
<1> DEFINE G == GetsOf(u)
           sum == Total(passed, G)
           way == In(at, G, Behind)
<1>1. IsFiniteSet(G) /\ G \in SUBSET Requests
      BY MiddlewaresAssumption, FS_Subset DEF GetsOf
<1>2. sum + way <= IF u \in visited THEN 1 ELSE 0
      BY DEF OnceOnly
<1>3. CASE UNCHANGED vars
      BY <1>2, <1>3 DEF vars, requestVars
<1>4. ASSUME NEW r \in Requests, Issue(r) \/ Process(r)
      PROVE  Total(passed', G) + In(at', G, Behind) <= IF u \in visited' THEN 1 ELSE 0
  <2>1. /\ \A x \in Requests \ {r} : at'[x] = at[x]
        /\ \/ InFront(r) \/ Through(r) \/ Sent(r)
           \/ Forbidden(r) \/ Panicked(r) \/ Onward(r)
        BY <1>4, OneOfThese
  <2>2. /\ way \in Nat /\ In(at', G, Behind) \in Nat
        /\ In(at', G, Behind) + (IF r \in G /\ at[r] \in Behind THEN 1 ELSE 0) =
             way + (IF r \in G /\ at'[r] \in Behind THEN 1 ELSE 0)
    <3> HIDE DEF G
    <3> QED  BY <1>1, <2>1, OneMoves DEF way
  <2>3. /\ sum \in Nat
        /\ Total([passed EXCEPT ![r] = @ + 1], G) = sum + IF r \in G THEN 1 ELSE 0
    <3>1. passed \in [Requests -> Nat]
          BY DEF ChainTypeOK
    <3> HIDE DEF G
    <3> QED  BY <1>1, <3>1, OneSent DEF sum
  <2> DEFINE sum2 == Total(passed', G)
             way2 == In(at', G, Behind)
  <2>4. CASE Through(r)
    <3>1. passed' = passed /\ sum2 = sum
          BY <2>4 DEF Through
    <3>2. CASE r \in G
      <4>1. r \in Gets /\ UrlOf[r] = u
            BY <3>2 DEF GetsOf
      <4>2. at[r] = "duplicates" /\ u \in visited'
            /\ at'[r] = IF u \in visited THEN "cancelled" ELSE "delay"
            BY <2>4, <4>1 DEF Through
      <4>3. at[r] \notin Behind /\ (at'[r] \in Behind <=> u \notin visited)
            BY <4>2 DEF Behind, AtRobots
      <4> HIDE DEF G, sum, way, sum2, way2
      <4> QED  BY <1>2, <2>2, <2>3, <3>1, <3>2, <4>2, <4>3 DEF sum2, way2
    <3>3. CASE r \notin G
      <4>1. way2 = way
            BY <2>2, <3>3
      <4>2. u \in visited => u \in visited'
            BY <2>4 DEF Through
      <4> HIDE DEF G, sum, way, sum2, way2
      <4> QED  BY <1>2, <2>2, <2>3, <3>1, <4>1, <4>2 DEF sum2, way2
    <3> QED  BY <3>2, <3>3
  <2>5. CASE Sent(r)
    <3>1. /\ visited' = visited /\ sum2 = sum + IF r \in G THEN 1 ELSE 0
          /\ at[r] \in Behind /\ at'[r] \notin Behind
          BY <2>3, <2>5 DEF Sent, Behind, AtRobots
    <3> HIDE DEF G, sum, way, sum2, way2
    <3> QED  BY <1>2, <2>2, <2>3, <3>1 DEF sum2, way2
  <2>6. CASE InFront(r) \/ Forbidden(r) \/ Panicked(r) \/ Onward(r)
    <3>1. /\ visited' = visited /\ sum2 = sum
          /\ at[r] \in Behind \/ at'[r] \notin Behind
          BY <2>6 DEF InFront, Forbidden, Panicked, Onward, Behind, AtRobots
    <3> HIDE DEF G, sum, way, sum2, way2
    <3> QED  BY <1>2, <2>2, <2>3, <3>1 DEF sum2, way2
  <2> QED  BY <2>1, <2>4, <2>5, <2>6
<1> QED  BY <1>3, <1>4 DEF Next

(* options.go, URLRevisitEnabled: a URL is fetched with GET once, however  *)
(* many requests for it there are and however often Do gets them.          *)
THEOREM GetAtMostOnceHolds == Spec => []GetAtMostOnce
<1>1. ChainTypeOK /\ OnceOnly => GetAtMostOnce
  <2> SUFFICES ASSUME ChainTypeOK, OnceOnly, ~URLRevisitEnabled, NEW u \in Urls
               PROVE  Total(passed, GetsOf(u)) <= 1
      BY SumIsTotal DEF GetAtMostOnce, GetsOf
  <2>1. IsFiniteSet(GetsOf(u)) /\ \A r \in GetsOf(u) : passed[r] \in Nat
        BY MiddlewaresAssumption, FS_Subset DEF GetsOf, ChainTypeOK
  <2>2. Total(passed, GetsOf(u)) \in Nat
        BY <2>1, TotalStep
  <2>3. In(at, GetsOf(u), Behind) \in Nat
        BY <2>1, FS_Subset, FS_CardinalityType DEF In
  <2>4. Total(passed, GetsOf(u)) + In(at, GetsOf(u), Behind) <= 1
        BY <2>2, <2>3 DEF OnceOnly
  <2> QED  BY <2>2, <2>3, <2>4
<1> QED  BY <1>1, ChainTypes, OnceOnlyInit, OnceOnlyStep, PTL DEF Spec

(* What accounts for a visited URL: as in VisitedIsAccounted, but the      *)
(* request on its way is the one that DuplicateRequests let through.       *)
Accounted ==
  \A u \in visited :
    \/ u \in forbidden
    \/ \E r \in GetsOf(u) : passed[r] > 0 \/ panicked[r] > 0 \/ at[r] \in Behind

(* The request that marked a URL is not cancelled without leaving a trace. *)
LEMMA AccountedStep == ChainTypeOK /\ Accounted /\ [Next]_vars => Accounted'
<1> SUFFICES ASSUME ChainTypeOK, Accounted, [Next]_vars, NEW u \in visited'
             PROVE  \/ u \in forbidden'
                    \/ \E r \in GetsOf(u) :
                         passed'[r] > 0 \/ panicked'[r] > 0 \/ at'[r] \in Behind
    BY DEF Accounted, GetsOf, Behind, AtRobots
<1>1. CASE UNCHANGED vars
      BY <1>1 DEF Accounted, vars, requestVars, robotsVars
<1>2. ASSUME NEW r \in Requests, Issue(r) \/ Process(r)
      PROVE  \/ u \in forbidden'
             \/ \E x \in GetsOf(u) :
                  passed'[x] > 0 \/ panicked'[x] > 0 \/ at'[x] \in Behind
  <2>1. /\ \A x \in Requests \ {r} : at'[x] = at[x]
        /\ \/ InFront(r) \/ Through(r) \/ Sent(r)
           \/ Forbidden(r) \/ Panicked(r) \/ Onward(r)
        BY <1>2, OneOfThese
  <2>2. /\ passed \in [Requests -> Nat] /\ panicked \in [Requests -> Nat]
        /\ GetsOf(u) \subseteq Requests
        /\ r \in GetsOf(u) => UrlOf[r] = u
        BY MiddlewaresAssumption DEF ChainTypeOK, GetsOf
  <2>3. ASSUME u \in visited, u \notin forbidden'
        PROVE  \E x \in GetsOf(u) :
                 passed'[x] > 0 \/ panicked'[x] > 0 \/ at'[x] \in Behind
    <3>1. u \notin forbidden
          BY <2>1, <2>3 DEF InFront, Through, Sent, Forbidden, Panicked, Onward
    <3>2. PICK x \in GetsOf(u) : passed[x] > 0 \/ panicked[x] > 0 \/ at[x] \in Behind
          BY <2>3, <3>1 DEF Accounted
    <3>3. x \in Requests /\ passed[x] \in Nat /\ panicked[x] \in Nat
          BY <2>2
    <3>4. passed'[x] >= passed[x] /\ panicked'[x] >= panicked[x]
          BY <2>1, <2>2, <3>3 DEF InFront, Through, Sent, Forbidden, Panicked, Onward
    <3>5. CASE passed[x] > 0 \/ panicked[x] > 0 \/ x # r
          BY <2>1, <2>2, <3>2, <3>3, <3>4, <3>5 DEF InFront, Through, Sent, Forbidden,
             Panicked, Onward
    <3>6. CASE at[x] \in Behind /\ x = r
      <4>1. ~InFront(r) /\ ~Through(r)
            BY <3>6 DEF InFront, Through, Behind, AtRobots
      <4>2. ~Forbidden(r)
            BY <2>2, <2>3, <3>6 DEF Forbidden
      <4>3. CASE Sent(r)
            BY <2>2, <3>3, <3>6, <4>3 DEF Sent
      <4>4. CASE Onward(r)
            BY <3>6, <4>4 DEF Onward
      <4>5. CASE Panicked(r)
            BY <2>2, <3>3, <3>6, <4>5 DEF Panicked
      <4> QED  BY <2>1, <4>1, <4>2, <4>3, <4>4, <4>5
    <3> QED  BY <3>2, <3>5, <3>6
  <2>4. CASE u \notin visited
    <3>1. Through(r) /\ r \in Gets /\ UrlOf[r] = u /\ at'[r] = "delay"
          BY <2>1, <2>4 DEF InFront, Through, Sent, Forbidden, Panicked, Onward
    <3> QED  BY <3>1 DEF GetsOf, Behind
  <2> QED  BY <2>3, <2>4
<1> QED  BY <1>1, <1>2 DEF Next

(* A URL that is marked visited is not lost on the way without a trace: it *)
(* is sent, is found forbidden, or ends in a panic.                        *)
THEOREM VisitedAccounted == Spec => []VisitedIsAccounted
<1>1. Init => Accounted
      BY DEF Init, Accounted
<1>2. Accounted => VisitedIsAccounted
      BY DEF Accounted, VisitedIsAccounted, GetsOf, Behind, AtRobots, InChain
<1> QED  BY <1>1, <1>2, AccountedStep, ChainTypes, PTL DEF Spec
-----------------------------------------------------------------------------
(* AllowedDomains *)

(* Nobody gets past AllowedDomains to a host that is not allowed.          *)
Untouched ==
  AllowedDomains # {} =>
    /\ \A r \in Requests : at[r] \in {"duplicates"} \cup Behind => Host(r) \in AllowedDomains
    /\ DisallowedHostsUntouched

(* AllowedDomains comes first, whoever passes the request to Do again.     *)
LEMMA UntouchedStep == ChainTypeOK /\ Untouched /\ [Next]_vars => Untouched'
<1> SUFFICES ASSUME ChainTypeOK, Untouched, [Next]_vars, AllowedDomains # {}
             PROVE  /\ \A r \in Requests :
                         at'[r] \in {"duplicates"} \cup Behind => Host(r) \in AllowedDomains
                    /\ \A u \in visited' : HostOf[u] \in AllowedDomains
                    /\ \A h \in Hosts \ AllowedDomains : metrics'.robotsRequests[h] = 0
                    /\ \A r \in Requests : Host(r) \notin AllowedDomains => passed'[r] = 0
    BY DEF Untouched, DisallowedHostsUntouched, Behind, AtRobots, Host, Hosts, Urls
<1>1. /\ \A r \in Requests : at[r] \in {"duplicates"} \cup Behind => Host(r) \in AllowedDomains
      /\ \A u \in visited : HostOf[u] \in AllowedDomains
      /\ \A h \in Hosts \ AllowedDomains : metrics.robotsRequests[h] = 0
      /\ \A r \in Requests : Host(r) \notin AllowedDomains => passed[r] = 0
      BY DEF Untouched, DisallowedHostsUntouched
<1>2. CASE UNCHANGED vars
      BY <1>1, <1>2 DEF vars, requestVars, robotsVars
<1>3. ASSUME NEW r \in Requests, Issue(r) \/ Process(r)
      PROVE  /\ \A x \in Requests :
                  at'[x] \in {"duplicates"} \cup Behind => Host(x) \in AllowedDomains
             /\ \A u \in visited' : HostOf[u] \in AllowedDomains
             /\ \A h \in Hosts \ AllowedDomains : metrics'.robotsRequests[h] = 0
             /\ \A x \in Requests : Host(x) \notin AllowedDomains => passed'[x] = 0
  <2>1. /\ \A x \in Requests \ {r} : at'[x] = at[x]
        /\ \/ InFront(r) \/ Through(r) \/ Sent(r)
           \/ Forbidden(r) \/ Panicked(r) \/ Onward(r)
        BY <1>3, OneOfThese
  <2>2. at'[r] \in {"duplicates"} \cup Behind => Host(r) \in AllowedDomains
    <3>1. CASE at[r] \in {"duplicates"} \cup Behind
          BY <1>1, <3>1
    <3>2. CASE at[r] \notin {"duplicates"} \cup Behind
      <4>1. InFront(r)
            BY <2>1, <3>2 DEF Through, Sent, Forbidden, Panicked, Onward, Behind, AtRobots
      <4>2. CASE Issue(r)
            BY <4>2 DEF Issue, Goto, ChainTypeOK, Behind, AtRobots
      <4>3. CASE ProcessAllowedDomains(r)
            BY <4>3 DEF ProcessAllowedDomains, Allowed, Cancel, Goto, ChainTypeOK, Behind,
               AtRobots
      <4> QED
        BY <1>3, <3>2, <4>2, <4>3 DEF Process, ProcessDuplicates, ProcessDelay, ProcessMetrics,
           RobotsLookup, RobotsFetch, RobotsStore, RobotsTest, Behind, AtRobots
    <3> QED  BY <3>1, <3>2
  <2>3. \A u \in visited' : HostOf[u] \in AllowedDomains
        BY <1>1, <2>1 DEF InFront, Through, Sent, Forbidden, Panicked, Onward, Host
  <2>4. \A x \in Requests : Host(x) \notin AllowedDomains => passed'[x] = 0
        BY <1>1, <2>1 DEF InFront, Through, Sent, Forbidden, Panicked, Onward, ChainTypeOK
  <2>5. \A h \in Hosts \ AllowedDomains : metrics'.robotsRequests[h] = 0
    <3>1. CASE metrics'.robotsRequests = metrics.robotsRequests
          BY <1>1, <3>1
    <3>2. CASE metrics' = [metrics EXCEPT !.robotsRequests[Host(r)] = @ + 1] /\ at[r] = "robots"
      <4>1. Host(r) \in AllowedDomains
            BY <1>1, <3>2 DEF Behind, AtRobots
      <4>2. metrics'.robotsRequests = [metrics.robotsRequests EXCEPT ![Host(r)] = @ + 1]
            BY <3>2 DEF ChainTypeOK, Counters
      <4>3. metrics.robotsRequests \in [Hosts -> Nat]
            BY DEF ChainTypeOK, Counters
      <4> QED  BY <1>1, <4>1, <4>2, <4>3
    <3>3. \/ metrics'.robotsRequests = metrics.robotsRequests
          \/ metrics' = [metrics EXCEPT !.robotsRequests[Host(r)] = @ + 1] /\ at[r] = "robots"
          BY <1>3, StepCounts
    <3> QED  BY <3>1, <3>2, <3>3
  <2> QED  BY <1>1, <2>1, <2>2, <2>3, <2>4, <2>5
<1> QED  BY <1>2, <1>3 DEF Next

(* options.go, AllowedDomains: a host that is not allowed gets no request, *)
(* none for its robots.txt either, and none of its URLs is marked visited. *)
THEOREM DisallowedUntouched == Spec => []DisallowedHostsUntouched
<1>1. Init => Untouched
      BY DEF Init, Untouched, DisallowedHostsUntouched, Behind, AtRobots
<1>2. Untouched => DisallowedHostsUntouched
      BY DEF Untouched, DisallowedHostsUntouched
<1> QED  BY <1>1, <1>2, UntouchedStep, ChainTypes, PTL DEF Spec
-----------------------------------------------------------------------------
(* The counters *)

(* The counters add up.                                                    *)
LEMMA MetricsInit == Init => MetricsAddUp
<1> SUFFICES ASSUME Init PROVE MetricsAddUp
    OBVIOUS
<1>1. {r \in Requests : at[r] \in {"robots", "fetch", "store", "test"}} = {}
      BY DEF Init
<1>2. \A r \in Requests : passed[r] = 0 /\ panicked[r] = 0
      BY DEF Init
<1>3. Total(passed, Requests) = 0 /\ Total(panicked, Requests) = 0
      BY <1>2, MiddlewaresAssumption, TotalZero
<1>4. metrics.requests = 0 /\ metrics.robotsForbidden = 0
      BY DEF Init
<1> QED  BY <1>1, <1>3, <1>4, FS_EmptySet, SumIsTotal DEF MetricsAddUp

(* The request counter and what becomes of the request change together,    *)
(* or else the request stays at RobotsTxt.                                 *)
LEMMA MetricsStep == ChainTypeOK /\ MetricsAddUp /\ [Next]_vars => MetricsAddUp'
<1> SUFFICES ASSUME ChainTypeOK, MetricsAddUp, [Next]_vars, ~DelayPanics
             PROVE  metrics'.requests =
                      In(at', Requests, AtRobots) + metrics'.robotsForbidden
                        + Total(passed', Requests) + Total(panicked', Requests)
    BY SumIsTotal DEF MetricsAddUp, In, AtRobots, DelayPanics
<1> DEFINE sum == Total(passed, Requests)
           lost == Total(panicked, Requests)
           there == In(at, Requests, AtRobots)
<1>1. metrics.requests = there + metrics.robotsForbidden + sum + lost
      BY SumIsTotal DEF MetricsAddUp, In, AtRobots
<1>2. CASE UNCHANGED vars
      BY <1>1, <1>2 DEF vars, requestVars
<1>3. ASSUME NEW r \in Requests, Issue(r) \/ Process(r)
      PROVE  metrics'.requests =
               In(at', Requests, AtRobots) + metrics'.robotsForbidden
                 + Total(passed', Requests) + Total(panicked', Requests)
  <2> DEFINE sum2 == Total(passed', Requests)
             lost2 == Total(panicked', Requests)
             there2 == In(at', Requests, AtRobots)
  <2>1. \A x \in Requests \ {r} : at'[x] = at[x]
        BY <1>3, OneOfThese
  <2>2. /\ there \in Nat /\ there2 \in Nat
        /\ there2 + (IF at[r] \in AtRobots THEN 1 ELSE 0) =
             there + (IF at'[r] \in AtRobots THEN 1 ELSE 0)
        BY <2>1, OneMoves
  <2>3. /\ sum \in Nat /\ Total([passed EXCEPT ![r] = @ + 1], Requests) = sum + 1
        /\ lost \in Nat /\ Total([panicked EXCEPT ![r] = @ + 1], Requests) = lost + 1
        BY OneSent DEF ChainTypeOK
  <2>4. metrics.requests \in Nat /\ metrics.robotsForbidden \in Nat
        BY DEF ChainTypeOK, Counters
  <2>5. /\ passed' = passed => sum2 = sum
        /\ passed' = [passed EXCEPT ![r] = @ + 1] => sum2 = sum + 1
        /\ panicked' = panicked => lost2 = lost
        /\ panicked' = [panicked EXCEPT ![r] = @ + 1] => lost2 = lost + 1
        BY <2>3
  <2> HIDE DEF sum, lost, there, sum2, lost2, there2
  <2>6. \/ /\ at[r] \notin AtRobots /\ at'[r] \notin AtRobots
           /\ metrics'.requests = metrics.requests
           /\ metrics'.robotsForbidden = metrics.robotsForbidden
           /\ sum2 = sum /\ lost2 = lost
        \/ /\ at[r] \notin AtRobots
           /\ metrics'.requests = metrics.requests + 1
           /\ metrics'.robotsForbidden = metrics.robotsForbidden
           /\ lost2 = lost
           /\ \/ at'[r] \in AtRobots /\ sum2 = sum
              \/ at'[r] \notin AtRobots /\ sum2 = sum + 1
        \/ /\ at[r] \in AtRobots
           /\ metrics'.requests = metrics.requests
           /\ metrics'.robotsForbidden = metrics.robotsForbidden
           /\ \/ at'[r] \in AtRobots /\ sum2 = sum /\ lost2 = lost
              \/ at'[r] \notin AtRobots /\ sum2 = sum + 1 /\ lost2 = lost
              \/ at'[r] \notin AtRobots /\ sum2 = sum /\ lost2 = lost + 1
        \/ /\ at[r] \in AtRobots /\ at'[r] \notin AtRobots
           /\ metrics'.requests = metrics.requests
           /\ metrics'.robotsForbidden = metrics.robotsForbidden + 1
           /\ sum2 = sum /\ lost2 = lost
        BY <1>3, <2>5, StepCounts
  <2>7. metrics'.requests = there2 + metrics'.robotsForbidden + sum2 + lost2
        BY <1>1, <2>2, <2>3, <2>4, <2>6
  <2> QED  BY <2>7 DEF there2, sum2, lost2
<1> QED  BY <1>2, <1>3 DEF Next

(* metrics.go: the request counter is the sum of the requests still at     *)
(* RobotsTxt, those it has forbidden, those that were sent and those that  *)
(* a panic ended.                                                          *)
THEOREM MetricsAddUpHolds == Spec => []MetricsAddUp
<1> QED  BY MetricsInit, MetricsStep, ChainTypes, PTL DEF Spec
-----------------------------------------------------------------------------
(* RobotsTxt *)

(* What is stored and tested is an answer.                                 *)
HaveAnswer == \A r \in Requests : at[r] \in {"store", "test"} => rules[r] \in RobotsAnswers

LEMMA HaveAnswerStep == ChainTypeOK /\ HaveAnswer /\ [Next]_vars => HaveAnswer'
<1> SUFFICES ASSUME ChainTypeOK, HaveAnswer, [Next]_vars PROVE HaveAnswer'
    OBVIOUS
<1> USE DEF HaveAnswer
<1>1. /\ at \in [Requests -> InChain \cup Ended]
      /\ rules \in [Requests -> RobotsAnswers \cup {NoRules}]
      /\ robotsMap \in [Hosts -> RobotsAnswers \cup {NoRules}]
      BY DEF ChainTypeOK
<1>2. CASE UNCHANGED vars
      BY <1>2 DEF vars, requestVars, robotsVars
<1>3. ASSUME NEW r \in Requests, Issue(r) \/ Process(r) PROVE HaveAnswer'
  <2>1. CASE \/ Issue(r) \/ ProcessAllowedDomains(r) \/ ProcessDuplicates(r)
             \/ ProcessDelay(r) \/ ProcessMetrics(r)
        BY <1>1, <2>1 DEF Issue, ProcessAllowedDomains, ProcessDuplicates, ProcessDelay,
           ProcessMetrics, Cancel, Continue, Pass, Panic, Goto, robotsVars
  <2>2. CASE RobotsLookup(r)
        BY <1>1, <2>2, UrlAndHost DEF RobotsLookup, Known, Unchecked, Pass, Continue, Goto
  <2>3. CASE RobotsFetch(r) \/ RobotsStore(r) \/ RobotsTest(r)
        BY <1>1, <2>3 DEF RobotsFetch, RobotsStore, RobotsTest, Unchecked, Cancel, Continue,
           Pass, Panic, Goto
  <2> QED  BY <1>3, <2>1, <2>2, <2>3 DEF Process
<1> QED  BY <1>2, <1>3 DEF Next

(* Nobody stores or tests NoRules.                                         *)
LEMMA HaveAnswers == Spec => []HaveAnswer
<1>1. Init => HaveAnswer
      BY DEF Init, HaveAnswer
<1> QED  BY <1>1, HaveAnswerStep, ChainTypes, PTL DEF Spec

(* The requests to a host, and the ways a step concerns its robots.txt.    *)
ToHost(h) == {r \in Requests : Host(r) = h}

Asking == {"fetch", "store"}

AsksHost(r) ==
  /\ at[r] = "robots" /\ at'[r] = "fetch" /\ robotsMap[Host(r)] = NoRules
  /\ metrics'.robotsRequests = [metrics.robotsRequests EXCEPT ![Host(r)] = @ + 1]
  /\ UNCHANGED <<robotsMap, failed, panicked, issued>>

Fails(r) ==
  /\ at[r] = "fetch" /\ at'[r] \notin Asking
  /\ \/ failed' = [failed EXCEPT ![Host(r)] = @ + 1] /\ panicked' = panicked
     \/ panicked' = [panicked EXCEPT ![r] = @ + 1] /\ failed' = failed
  /\ metrics'.robotsRequests = metrics.robotsRequests
  /\ UNCHANGED <<robotsMap, issued>>

Stores(r) ==
  /\ at[r] = "store" /\ at'[r] \notin Asking
  /\ robotsMap' = [robotsMap EXCEPT ![Host(r)] = rules[r]]
  /\ metrics'.robotsRequests = metrics.robotsRequests
  /\ UNCHANGED <<failed, panicked, issued>>

Elsewhere(r) ==
  /\ at[r] \in Asking <=> at'[r] \in Asking
  /\ failed' = failed \/ failed' = [failed EXCEPT ![Host(r)] = @ + 1]
  /\ panicked' = panicked \/ panicked' = [panicked EXCEPT ![r] = @ + 1]
  /\ issued' = issued \/ issued' = [issued EXCEPT ![r] = @ + 1]
  /\ metrics'.robotsRequests = metrics.robotsRequests
  /\ UNCHANGED robotsMap

(* Every step of a goroutine is one of these, and starts from Issue.       *)
LEMMA AboutRobots ==
  ASSUME ChainTypeOK, NEW r \in Requests, Issue(r) \/ Process(r)
  PROVE  /\ AsksHost(r) \/ Fails(r) \/ Stores(r) \/ Elsewhere(r)
         /\ at'[r] \in InChain => at[r] \in InChain \/ issued'[r] = issued[r] + 1
<1>1. /\ at \in [Requests -> InChain \cup Ended] /\ issued \in [Requests -> Nat]
      /\ Host(r) \in Hosts
      BY UrlAndHost DEF ChainTypeOK
<1>2. /\ [metrics EXCEPT !.requests = @ + 1].robotsRequests = metrics.robotsRequests
      /\ [metrics EXCEPT !.robotsForbidden = @ + 1].robotsRequests = metrics.robotsRequests
      /\ [metrics EXCEPT !.robotsResponses[Host(r)] = @ + 1].robotsRequests =
           metrics.robotsRequests
      /\ [metrics EXCEPT !.robotsRequests[Host(r)] = @ + 1].robotsRequests =
           [metrics.robotsRequests EXCEPT ![Host(r)] = @ + 1]
      BY DEF ChainTypeOK, Counters
<1> USE <1>1 DEF Asking, Goto, InChain, Ended
<1>3. CASE Issue(r)
      BY <1>3 DEF Issue, Elsewhere
<1>4. CASE ProcessAllowedDomains(r)
      BY <1>4 DEF ProcessAllowedDomains, Elsewhere, Cancel, Continue, robotsVars
<1>5. CASE ProcessDuplicates(r)
      BY <1>5 DEF ProcessDuplicates, Elsewhere, Cancel, Continue, robotsVars
<1>6. CASE ProcessDelay(r)
      BY <1>6 DEF ProcessDelay, Elsewhere, Panic, Continue, robotsVars
<1>7. CASE ProcessMetrics(r)
      BY <1>2, <1>7 DEF ProcessMetrics, Count, Elsewhere, Pass, Continue, robotsVars
<1>8. CASE RobotsLookup(r)
      BY <1>2, <1>8 DEF RobotsLookup, Known, AsksHost, Elsewhere, Unchecked, Pass, Continue
<1>9. CASE RobotsFetch(r)
      BY <1>2, <1>9 DEF RobotsFetch, Fails, Elsewhere, Unchecked, Pass, Panic, Continue
<1>10. CASE RobotsStore(r)
       BY <1>10 DEF RobotsStore, WithAnswer, Stores, Continue
<1>11. CASE RobotsTest(r)
       BY <1>2, <1>11 DEF RobotsTest, Elsewhere, Cancel, Pass
<1> QED
  BY <1>3, <1>4, <1>5, <1>6, <1>7, <1>8, <1>9, <1>10, <1>11 DEF Process

(* Until an answer is stored, every request for robots.txt failed or is    *)
(* still under way, so that the next one is the first of its request.      *)
Duplicates ==
  /\ \A r \in Requests : at[r] \in InChain => issued[r] > 0
  /\ \A h \in Hosts :
       robotsMap[h] = NoRules =>
         metrics.robotsRequests[h] <=
           failed[h] + Total(panicked, ToHost(h)) + In(at, ToHost(h), Asking)
  /\ RobotsDuplicatesBounded

(* Nobody has asked at the start.                                          *)
LEMMA DuplicatesInit == Init => Duplicates
<1> SUFFICES ASSUME Init, NEW h \in Hosts
             PROVE  /\ 0 <= failed[h] + Total(panicked, ToHost(h)) + In(at, ToHost(h), Asking)
                    /\ 0 <= failed[h] + Total(panicked, ToHost(h))
                              + Cardinality({r \in ToHost(h) : issued[r] > 0})
  <2>1. ASSUME Init
        PROVE  /\ \A r \in Requests : at[r] \notin InChain
               /\ \A k \in Hosts : metrics.robotsRequests[k] = 0
        BY <2>1 DEF Init, InChain
  <2> QED  BY <2>1, SumIsTotal DEF Duplicates, RobotsDuplicatesBounded, ToHost
<1>1. IsFiniteSet(ToHost(h)) /\ ToHost(h) \subseteq Requests
      BY MiddlewaresAssumption, FS_Subset DEF ToHost
<1>2. \A r \in ToHost(h) : panicked[r] = 0
      BY <1>1 DEF Init
<1>3. Total(panicked, ToHost(h)) = 0 /\ failed[h] = 0
      BY <1>1, <1>2, TotalZero DEF Init
<1>4. IsFiniteSet({r \in ToHost(h) : issued[r] > 0}) /\ IsFiniteSet({r \in ToHost(h) : at[r] \in Asking})
      BY <1>1, FS_Subset
<1>5. /\ Cardinality({r \in ToHost(h) : issued[r] > 0}) \in Nat
      /\ In(at, ToHost(h), Asking) \in Nat
      BY <1>4, FS_CardinalityType DEF In
<1> QED  BY <1>3, <1>5

(* A request for robots.txt that ends without an answer is counted as      *)
(* failed or panicked, and a second one of the same request finds the      *)
(* answer that the first has stored.                                       *)
LEMMA DuplicatesStep == ChainTypeOK /\ HaveAnswer /\ Duplicates /\ [Next]_vars => Duplicates'
<1> SUFFICES ASSUME ChainTypeOK, HaveAnswer, Duplicates, [Next]_vars
             PROVE  Duplicates'
    OBVIOUS
<1>1. CASE UNCHANGED vars
      BY <1>1 DEF vars, requestVars, robotsVars, Duplicates, RobotsDuplicatesBounded, In, ToHost,
         Host, Hosts, Urls
<1>2. ASSUME NEW r \in Requests, Issue(r) \/ Process(r)
      PROVE  /\ \A x \in Requests : at'[x] \in InChain => issued'[x] > 0
             /\ \A h \in Hosts :
                  /\ robotsMap'[h] = NoRules =>
                       metrics'.robotsRequests[h] <=
                         failed'[h] + Total(panicked', ToHost(h)) + In(at', ToHost(h), Asking)
                  /\ metrics'.robotsRequests[h] <=
                       failed'[h] + Total(panicked', ToHost(h))
                         + Cardinality({x \in ToHost(h) : issued'[x] > 0})
  <2>1. /\ \A x \in Requests \ {r} : at'[x] = at[x]
        /\ AsksHost(r) \/ Fails(r) \/ Stores(r) \/ Elsewhere(r)
        /\ at'[r] \in InChain => at[r] \in InChain \/ issued'[r] = issued[r] + 1
        BY <1>2, OneOfThese, AboutRobots
  <2>2. /\ issued \in [Requests -> Nat] /\ failed \in [Hosts -> Nat]
        /\ panicked \in [Requests -> Nat] /\ metrics.robotsRequests \in [Hosts -> Nat]
        BY DEF ChainTypeOK, Counters
  <2>3. \A x \in Requests : issued[x] > 0 => issued'[x] > 0
        BY <2>1, <2>2 DEF AsksHost, Fails, Stores, Elsewhere
  <2>4. \A x \in Requests : at'[x] \in InChain => issued'[x] > 0
    <3>1. \A x \in Requests : at[x] \in InChain => issued[x] > 0
          BY DEF Duplicates
    <3> QED  BY <2>1, <2>2, <2>3, <3>1
  <2>5. ASSUME NEW h \in Hosts
        PROVE  /\ robotsMap'[h] = NoRules =>
                    metrics'.robotsRequests[h] <=
                      failed'[h] + Total(panicked', ToHost(h)) + In(at', ToHost(h), Asking)
               /\ metrics'.robotsRequests[h] <=
                    failed'[h] + Total(panicked', ToHost(h))
                      + Cardinality({x \in ToHost(h) : issued'[x] > 0})
    <3> DEFINE H == ToHost(h)
               asked == metrics.robotsRequests[h]
               lost == Total(panicked, H)
               away == In(at, H, Asking)
               seen == Cardinality({x \in H : issued[x] > 0})
               asked2 == metrics'.robotsRequests[h]
               lost2 == Total(panicked', H)
               away2 == In(at', H, Asking)
               seen2 == Cardinality({x \in H : issued'[x] > 0})
    <3>1. H \in SUBSET Requests /\ IsFiniteSet(H) /\ (r \in H <=> Host(r) = h)
          BY MiddlewaresAssumption, FS_Subset DEF ToHost
    <3>2. /\ robotsMap[h] = NoRules => asked <= failed[h] + lost + away
          /\ asked <= failed[h] + lost + seen
          BY SumIsTotal DEF Duplicates, RobotsDuplicatesBounded, ToHost
    <3>3. /\ away \in Nat /\ away2 \in Nat
          /\ away2 + (IF r \in H /\ at[r] \in Asking THEN 1 ELSE 0) =
               away + (IF r \in H /\ at'[r] \in Asking THEN 1 ELSE 0)
      <4> HIDE DEF H
      <4> QED  BY <2>1, <3>1, OneMoves DEF away, away2
    <3>4. /\ lost \in Nat
          /\ Total([panicked EXCEPT ![r] = @ + 1], H) = lost + IF r \in H THEN 1 ELSE 0
      <4> HIDE DEF H
      <4> QED  BY <2>2, <3>1, OneSent DEF lost
    <3>5. /\ panicked' = panicked => lost2 = lost
          /\ panicked' = [panicked EXCEPT ![r] = @ + 1] => lost2 = lost + IF r \in H THEN 1 ELSE 0
          BY <3>4
    <3>6. seen \in Nat /\ seen2 \in Nat /\ seen <= seen2 /\ away2 <= seen2
      <4> DEFINE A == {x \in H : issued[x] > 0}
                 B == {x \in H : issued'[x] > 0}
                 C == {x \in H : at'[x] \in Asking}
      <4>1. IsFiniteSet(A) /\ IsFiniteSet(B) /\ IsFiniteSet(C)
            BY <3>1, FS_Subset
      <4>2. A \subseteq B
            BY <2>3, <3>1
      <4>3. C \subseteq B
            BY <2>4, <3>1 DEF Asking, InChain
      <4> HIDE DEF A, B, C
      <4>4. Cardinality(A) <= Cardinality(B) /\ Cardinality(C) <= Cardinality(B)
            BY <4>1, <4>2, <4>3, FS_Subset
      <4>5. Cardinality(A) \in Nat /\ Cardinality(B) \in Nat
            BY <4>1, FS_CardinalityType
      <4> QED  BY <4>4, <4>5 DEF A, B, C, In
    <3>7. asked \in Nat /\ failed[h] \in Nat
          BY <2>2
    <3>8. /\ failed' = failed => failed'[h] = failed[h]
          /\ failed' = [failed EXCEPT ![Host(r)] = @ + 1] =>
               failed'[h] = failed[h] + IF r \in H THEN 1 ELSE 0
          /\ metrics'.robotsRequests = metrics.robotsRequests => asked2 = asked
          /\ metrics'.robotsRequests = [metrics.robotsRequests EXCEPT ![Host(r)] = @ + 1] =>
               asked2 = asked + IF r \in H THEN 1 ELSE 0
          BY <2>2, <3>1
    <3> HIDE DEF H, asked, lost, away, seen, asked2, lost2, away2, seen2
    <3>9. /\ robotsMap'[h] = NoRules => asked2 <= failed'[h] + lost2 + away2
          /\ asked2 <= failed'[h] + lost2 + seen2
      <4>1. CASE AsksHost(r)
        <5>1. /\ asked2 = asked + IF r \in H THEN 1 ELSE 0
              /\ failed'[h] = failed[h] /\ lost2 = lost /\ robotsMap' = robotsMap
              /\ at[r] \notin Asking /\ at'[r] \in Asking
              /\ r \in H => robotsMap[h] = NoRules
              BY <3>1, <3>5, <3>8, <4>1 DEF AsksHost, Asking
        <5> QED  BY <3>2, <3>3, <3>4, <3>6, <3>7, <5>1
      <4>2. CASE Fails(r)
        <5>1. /\ asked2 = asked /\ robotsMap' = robotsMap
              /\ at[r] \in Asking /\ at'[r] \notin Asking
              /\ \/ failed'[h] = failed[h] + (IF r \in H THEN 1 ELSE 0) /\ lost2 = lost
                 \/ lost2 = lost + (IF r \in H THEN 1 ELSE 0) /\ failed'[h] = failed[h]
              BY <3>5, <3>8, <4>2 DEF Fails, Asking
        <5> QED  BY <3>2, <3>3, <3>4, <3>6, <3>7, <5>1
      <4>3. CASE Stores(r)
        <5>1. /\ asked2 = asked /\ failed'[h] = failed[h] /\ lost2 = lost
              /\ at[r] \in Asking /\ at'[r] \notin Asking
              BY <3>5, <3>8, <4>3 DEF Stores, Asking
        <5>2. rules[r] # NoRules
              BY <4>3, MiddlewaresAssumption DEF Stores, HaveAnswer
        <5>3. robotsMap'[h] = NoRules => robotsMap[h] = NoRules /\ r \notin H
              BY <3>1, <4>3, <5>2 DEF Stores, ChainTypeOK
        <5> QED  BY <3>2, <3>3, <3>4, <3>6, <3>7, <5>1, <5>3
      <4>4. CASE Elsewhere(r)
        <5>1. /\ asked2 = asked /\ robotsMap' = robotsMap
              /\ at[r] \in Asking <=> at'[r] \in Asking
              /\ failed'[h] = failed[h] \/ failed'[h] = failed[h] + IF r \in H THEN 1 ELSE 0
              /\ lost2 = lost \/ lost2 = lost + IF r \in H THEN 1 ELSE 0
              BY <3>5, <3>8, <4>4 DEF Elsewhere
        <5> QED  BY <3>2, <3>3, <3>4, <3>6, <3>7, <5>1
      <4> QED  BY <2>1, <4>1, <4>2, <4>3, <4>4
    <3> QED  BY <3>9 DEF H, asked2, lost2, away2, seen2
  <2> QED  BY <2>4, <2>5
<1>3. CASE Next
  <2>1. PICK r \in Requests : Issue(r) \/ Process(r)
        BY <1>3 DEF Next
  <2>2. /\ \A x \in Requests : at'[x] \in InChain => issued'[x] > 0
        /\ \A h \in Hosts :
             /\ robotsMap'[h] = NoRules =>
                  metrics'.robotsRequests[h] <=
                    failed'[h] + Total(panicked', ToHost(h)) + In(at', ToHost(h), Asking)
             /\ metrics'.robotsRequests[h] <=
                  failed'[h] + Total(panicked', ToHost(h))
                    + Cardinality({x \in ToHost(h) : issued'[x] > 0})
        BY <1>2, <2>1
  <2> QED  BY <2>2, SumIsTotal DEF Duplicates, RobotsDuplicatesBounded, ToHost, Host, Hosts, Urls,
              InChain, Asking
<1> QED  BY <1>1, <1>3

(* robotstxt.go:35: a host gets more than one request for its robots.txt   *)
(* only from attempts without an answer and from different requests that   *)
(* overlap.                                                                *)
THEOREM RobotsDuplicatesBoundedHolds == Spec => []RobotsDuplicatesBounded
<1>1. Duplicates => RobotsDuplicatesBounded
      BY DEF Duplicates
<1> QED  BY <1>1, DuplicatesInit, DuplicatesStep, HaveAnswers, ChainTypes, PTL DEF Spec

(* The requests to a host that every robots.txt forbids.                   *)
AlwaysForbidden(h) ==
  {r \in Requests : Host(r) = h /\ \A a \in RobotsAnswers : UrlOf[r] \in a}

(* Of the requests that every answer forbids only the failures let one     *)
(* pass.                                                                   *)
Checked ==
  ~RobotsTxtDisabled => \A h \in Hosts : Total(passed, AlwaysForbidden(h)) <= failed[h]

(* Nothing is sent before the first request.                               *)
LEMMA CheckedInit == Init => Checked
<1> SUFFICES ASSUME Init, NEW h \in Hosts
             PROVE  Total(passed, AlwaysForbidden(h)) <= failed[h]
    BY DEF Init, Checked
<1>1. IsFiniteSet(AlwaysForbidden(h)) /\ AlwaysForbidden(h) \subseteq Requests
      BY MiddlewaresAssumption, FS_Subset DEF AlwaysForbidden
<1>2. \A r \in AlwaysForbidden(h) : passed[r] = 0
      BY <1>1 DEF Init
<1>3. Total(passed, AlwaysForbidden(h)) = 0
      BY <1>1, <1>2, TotalZero
<1> QED  BY <1>3 DEF Init

(* A failed robots.txt lets the request that asked for it pass, a verdict  *)
(* none of those.                                                          *)
LEMMA CheckedStep == ChainTypeOK /\ HaveAnswer /\ Checked /\ [Next]_vars => Checked'
<1> SUFFICES ASSUME ChainTypeOK, HaveAnswer, Checked, [Next]_vars, ~RobotsTxtDisabled
             PROVE  \A h \in Hosts : Total(passed', AlwaysForbidden(h)) <= failed'[h]
    BY DEF Checked, AlwaysForbidden, Host, Hosts, Urls
<1>1. \A h \in Hosts : Total(passed, AlwaysForbidden(h)) <= failed[h]
      BY DEF Checked
<1>2. CASE UNCHANGED vars
      BY <1>1, <1>2 DEF vars, requestVars, robotsVars
<1>3. ASSUME NEW r \in Requests, Issue(r) \/ Process(r), NEW h \in Hosts
      PROVE  Total(passed', AlwaysForbidden(h)) <= failed'[h]
  <2> DEFINE F == AlwaysForbidden(h)
             sum == Total(passed, F)
  <2>1. /\ sum \in Nat
        /\ Total([passed EXCEPT ![r] = @ + 1], F) = sum + IF r \in F THEN 1 ELSE 0
    <3>1. F \in SUBSET Requests
          BY DEF AlwaysForbidden
    <3>2. passed \in [Requests -> Nat]
          BY DEF ChainTypeOK
    <3> HIDE DEF F
    <3> QED  BY <3>1, <3>2, OneSent
  <2>2. sum <= failed[h] /\ failed \in [Hosts -> Nat] /\ failed[h] \in Nat
        BY <1>1 DEF ChainTypeOK
  <2>3. r \in F => Host(r) = h
        BY DEF AlwaysForbidden
  <2>4. CASE passed' = passed /\ failed' = failed
        BY <2>2, <2>4
  <2>5. CASE /\ passed' = [passed EXCEPT ![r] = @ + 1]
             /\ failed' = [failed EXCEPT ![Host(r)] = @ + 1]
    <3>1. failed'[h] = failed[h] + IF Host(r) = h THEN 1 ELSE 0
          BY <2>2, <2>5
    <3> HIDE DEF F, sum
    <3>2. Total(passed', F) = sum + IF r \in F THEN 1 ELSE 0
          BY <2>1, <2>5
    <3>3. Total(passed', F) <= failed'[h]
          BY <2>1, <2>2, <2>3, <3>1, <3>2
    <3> QED  BY <3>3 DEF F
  <2>6. CASE passed' = [passed EXCEPT ![r] = @ + 1] /\ failed' = failed /\ r \notin F
    <3> HIDE DEF F, sum
    <3>1. Total(passed', F) = sum
          BY <2>1, <2>6
    <3>2. Total(passed', F) <= failed'[h]
          BY <2>2, <2>6, <3>1
    <3> QED  BY <3>2 DEF F
  <2>7. CASE RobotsTest(r) /\ passed' # passed
    <3>1. rules[r] \in RobotsAnswers /\ UrlOf[r] \notin rules[r]
          BY <2>7 DEF RobotsTest, Disallowed, Cancel, HaveAnswer
    <3>2. r \notin F
          BY <3>1 DEF AlwaysForbidden
    <3> QED  BY <2>6, <2>7, <3>2 DEF RobotsTest, Cancel, Pass
  <2>8. CASE RobotsFetch(r) \/ RobotsLookup(r)
        BY <2>4, <2>5, <2>8 DEF RobotsFetch, RobotsLookup, Unchecked, Pass, Panic, Continue
  <2>9. CASE ~RobotsFetch(r) /\ ~RobotsLookup(r) /\ ~(RobotsTest(r) /\ passed' # passed)
    <3>1. failed' = failed /\ passed' = passed
          BY <1>3, <2>9 DEF Process, Issue, ProcessAllowedDomains, ProcessDuplicates,
             ProcessDelay, ProcessMetrics, RobotsStore, RobotsTest, Cancel, Continue, Pass,
             Panic, robotsVars
    <3> QED  BY <2>4, <3>1
  <2> QED  BY <2>7, <2>8, <2>9
<1> QED  BY <1>2, <1>3 DEF Next

(* A URL that every answer of its host forbids is fetched only if its      *)
(* robots.txt could not be had, and once for each failure.                 *)
THEOREM ForbiddenNeedsFailure == Spec => []ForbiddenOnlyAfterFailure
<1>1. Checked => ForbiddenOnlyAfterFailure
      BY SumIsTotal DEF Checked, ForbiddenOnlyAfterFailure, AlwaysForbidden
<1> QED  BY <1>1, CheckedInit, CheckedStep, HaveAnswers, ChainTypes, PTL DEF Spec
=============================================================================
