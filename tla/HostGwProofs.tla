---------------------------- MODULE HostGwProofs ----------------------------
(***************************************************************************)
(* Theorems about the host-gw worker, for every set of nodes and podCIDRs   *)
(* and every combination of faults: what it believes to be routed is, it    *)
(* knows every route it made, and no podCIDR goes to two nodes.             *)
(***************************************************************************)
EXTENDS HostGw, TLAPS

-----------------------------------------------------------------------------
(* The inductive invariant.                                                 *)

\* What is known of a node was said of that node.
Belongs(f) == \A n \in Other : f[n] \in InfoOf[n] \cup {None}

\* The loops visit nodes of the snapshot, and then nodes of the cache.
Visiting ==
    /\ pc = "add" => \A n \in todo : cluster[n] # None
    /\ pc = "del" => todo \subseteq Cached

\* The kernel has one route per destination.
OneRoute == \A r, s \in routes : r.dest = s.dest => r = s

\* The facts about routes and cache that the handler relies on.
Kept ==
    /\ routes \subseteq {RouteTo(i) : i \in Info}
    /\ left \subseteq {RouteTo(i) : i \in Info}
    /\ cache \in [Other -> Info \cup {None}]
    /\ Belongs(cache)
    /\ OneRoute
    /\ CachedIsRouted
    /\ RoutesAreKnown

\* The variables that Kept says nothing of.
RestType ==
    /\ api \in [Other -> Info \cup {None}]
    /\ recorded \subseteq Other \cup {Self}
    /\ cluster \in [Other -> Info \cup {None}]
    /\ pc \in {"sleep", "own", "add", "del"}
    /\ own \in BOOLEAN
    /\ todo \subseteq Other
    /\ faults \in 0 .. MaxFaults

IInv ==
    /\ Kept
    /\ RestType
    /\ Belongs(api) /\ Belongs(cluster)
    /\ Visiting

-----------------------------------------------------------------------------
(* Calls of the Nic object.                                                 *)

\* The fields of the route a node stands for.
LEMMA RouteFields ==
    \A i \in Info : /\ RouteTo(i).dest = i.cidr
                    /\ RouteTo(i).via = i.ip
                    /\ RouteTo(i) = [dest |-> i.cidr, via |-> i.ip, dev |-> Underlay]
BY DEF RouteTo, Route

\* The routes that `ip route show` finds for a node are the one it stands for.
LEMMA FoundRoute ==
    ASSUME routes \subseteq {RouteTo(i) : i \in Info}, NEW i \in Info
    PROVE  /\ RoutesOf(routes, i.cidr, i.ip, None) = routes \cap {RouteTo(i)}
           /\ i.ip # None
<1>1. ASSUME NEW r \in routes
      PROVE  (r.dest = i.cidr /\ r.via = i.ip) <=> r = RouteTo(i)
  <2>1. PICK j \in Info : r = RouteTo(j)
    OBVIOUS
  <2>2. r = [dest |-> j.cidr, via |-> j.ip, dev |-> Underlay]
    BY <2>1, RouteFields
  <2> QED BY <2>2, RouteFields
<1>2. i.ip # None
  BY HostGwAssumption
<1> QED BY <1>1, <1>2 DEF RoutesOf

\* addRoute() returns true exactly when the route is there afterwards.
LEMMA AddRouteResult ==
    ASSUME routes \subseteq {RouteTo(i) : i \in Info}, NEW i \in Info, NEW ran \in Ran
    PROVE  LET added == AddRoute(routes, i.cidr, i.ip, None, ran)
           IN  \/ added = Result(TRUE, routes) /\ RouteTo(i) \in routes
               \/ /\ added = Result(TRUE, routes \cup {RouteTo(i)})
                  /\ \A r \in routes : r.dest # i.cidr
               \/ added = Result(FALSE, routes)
<1> DEFINE shown == RouteIsExist(routes, i.cidr, i.ip, None, ran)
           clash == RouteClash(routes, i.cidr)
<1>1. AddRoute(routes, i.cidr, i.ip, None, ran) = Add(routes, shown, clash, RouteTo(i), ran)
  BY DEF AddRoute, RouteTo
<1>2. shown => RouteTo(i) \in routes
  BY FoundRoute DEF RouteIsExist
<1>3. ~ clash => \A r \in routes : r.dest # i.cidr
  BY DEF RouteClash
<1> HIDE DEF shown, clash
<1>4. CASE shown
  BY <1>1, <1>2, <1>4 DEF Add
<1>5. CASE ~ shown
  BY <1>1, <1>3, <1>5 DEF Add
<1> QED BY <1>4, <1>5

\* delRoute() returns true without deleting only when there is no such route or
\* when it could not be shown.
LEMMA DelRouteResult ==
    ASSUME routes \subseteq {RouteTo(i) : i \in Info}, NEW i \in Info, NEW ran \in Ran
    PROVE  LET deleted == DelRoute(routes, i.cidr, i.ip, None, ran)
           IN  \/ /\ deleted = Result(TRUE, routes)
                  /\ RouteTo(i) \notin routes \/ ~ ran.show
               \/ deleted = Result(TRUE, routes \ {RouteTo(i)})
               \/ deleted = Result(FALSE, routes)
<1> DEFINE shown == RouteIsExist(routes, i.cidr, i.ip, None, ran)
           found == routes \cap {RouteTo(i)}
<1>1. DelRoute(routes, i.cidr, i.ip, None, ran) = Del(routes, shown, found, ran)
  BY FoundRoute DEF DelRoute
<1>2. ~ shown => RouteTo(i) \notin routes \/ ~ ran.show
  BY FoundRoute DEF RouteIsExist
<1>3. routes \ found = routes \ {RouteTo(i)}
  OBVIOUS
<1> HIDE DEF shown, found
<1>4. CASE shown
  BY <1>1, <1>3, <1>4 DEF Del
<1>5. CASE ~ shown
  BY <1>1, <1>2, <1>5 DEF Del
<1> QED BY <1>4, <1>5

\* Routes to two nodes differ.
LEMMA RoutesDiffer ==
    ASSUME NEW m \in Other, NEW n \in Other, m # n,
           NEW i \in InfoOf[m], NEW j \in InfoOf[n]
    PROVE  RouteTo(i).via # RouteTo(j).via
<1>1. i \in Info /\ j \in Info
  BY DEF Info
<1>2. i.ip # j.ip
  BY HostGwAssumption
<1> QED BY <1>1, <1>2, RouteFields

\* What the API may say of a node is something, and not the empty answer.
LEMMA InfoOfNode ==
    ASSUME NEW n \in Other
    PROVE  InfoOf[n] \subseteq Info /\ None \notin InfoOf[n]
<1>1. InfoOf[n] \subseteq Info
  BY DEF Info
<1> QED BY <1>1, HostGwAssumption

\* A fault is counted within the bound.
LEMMA FaultType ==
    ASSUME faults \in 0 .. MaxFaults, NEW kind, Fault(kind)
    PROVE  faults' \in 0 .. MaxFaults
BY HostGwAssumption DEF Fault

LEMMA OutcomeType ==
    ASSUME faults \in 0 .. MaxFaults, NEW ran, Outcome(ran)
    PROVE  faults' \in 0 .. MaxFaults
BY FaultType DEF Outcome

LEMMA GetSubnetType ==
    ASSUME faults \in 0 .. MaxFaults, NEW n, NEW found, GetSubnet(n, found)
    PROVE  faults' \in 0 .. MaxFaults /\ found \in BOOLEAN
<1>1. faults' \in 0 .. MaxFaults
  BY FaultType DEF GetSubnet
<1>2. (n \in recorded) \in BOOLEAN
  OBVIOUS
<1>3. found = (n \in recorded) \/ found = FALSE
  BY DEF GetSubnet
<1> QED BY <1>1, <1>2, <1>3

-----------------------------------------------------------------------------
(* The two steps that change routes and cache together.                     *)

\* addRoute() and what the handler does with its result.
LEMMA AddKeeps ==
    ASSUME Kept, NEW n \in Other, cache[n] = None, NEW i \in InfoOf[n], NEW ran \in Ran,
           LET added == AddRoute(routes, i.cidr, i.ip, None, ran)
           IN  /\ routes' = added.table
               /\ cache' = IF added.ok THEN [cache EXCEPT ![n] = i] ELSE cache,
           left' = left
    PROVE  Kept'
<1> DEFINE added == AddRoute(routes, i.cidr, i.ip, None, ran)
<1>0. i \in Info /\ i # None /\ RouteTo(i).dest = i.cidr
  BY InfoOfNode, RouteFields
<1>a. /\ routes' = added.table
      /\ cache' = IF added.ok THEN [cache EXCEPT ![n] = i] ELSE cache
  OBVIOUS
<1>b. \/ added = Result(TRUE, routes) /\ RouteTo(i) \in routes
      \/ /\ added = Result(TRUE, routes \cup {RouteTo(i)})
         /\ \A r \in routes : r.dest # i.cidr
      \/ added = Result(FALSE, routes)
  BY <1>0, AddRouteResult DEF Kept
<1> HIDE DEF added
<1>1. CASE added = Result(FALSE, routes)
  <2>1. routes' = routes /\ cache' = cache
    BY <1>a, <1>1 DEF Result
  <2> QED BY <2>1 DEF Kept, Belongs, OneRoute, CachedIsRouted, RoutesAreKnown, Cached
<1>2. CASE \/ added = Result(TRUE, routes) /\ RouteTo(i) \in routes
           \/ /\ added = Result(TRUE, routes \cup {RouteTo(i)})
              /\ \A r \in routes : r.dest # i.cidr
  <2>1. /\ added.ok
        /\ added.table = routes \cup {RouteTo(i)}
        /\ RouteTo(i) \in routes \/ \A r \in routes : r.dest # i.cidr
    BY <1>2 DEF Result
  <2>2. /\ routes' = routes \cup {RouteTo(i)}
        /\ cache' = [cache EXCEPT ![n] = i]
    BY <1>a, <2>1
  <2>3. OneRoute'
    BY <1>0, <2>1, <2>2 DEF Kept, OneRoute
  <2>4. cache' \in [Other -> Info \cup {None}] /\ Belongs(cache)'
    BY <1>0, <2>2 DEF Kept, Belongs
  <2>5. Cached' = Cached \cup {n}
    BY <1>0, <2>2 DEF Kept, Cached
  <2>6. \A m \in Cached : m # n /\ cache'[m] = cache[m]
    BY <2>2 DEF Kept, Cached
  <2>7. cache'[n] = i
    BY <2>2 DEF Kept
  <2>8. CachedIsRouted'
    BY <2>2, <2>5, <2>6, <2>7 DEF Kept, CachedIsRouted
  <2>9. RoutesAreKnown'
    BY <2>2, <2>5, <2>6, <2>7 DEF Kept, RoutesAreKnown
  <2> QED BY <1>0, <2>2, <2>3, <2>4, <2>8, <2>9 DEF Kept
<1> QED BY <1>b, <1>1, <1>2

\* delRoute() and what the handler does with its result.
LEMMA DelKeeps ==
    ASSUME Kept, NEW n \in Other, cache[n] # None, NEW ran \in Ran,
           LET deleted == DelRoute(routes, cache[n].cidr, cache[n].ip, None, ran)
           IN  /\ routes' = deleted.table
               /\ cache' = IF deleted.ok THEN [cache EXCEPT ![n] = None] ELSE cache,
           left' = IF ran.show THEN left ELSE left \cup {RouteTo(cache[n])}
    PROVE  Kept' /\ (\A m \in Other \ {n} : cache'[m] = cache[m])
<1> DEFINE i == cache[n]
           deleted == DelRoute(routes, i.cidr, i.ip, None, ran)
<1>0. i \in Info /\ i \in InfoOf[n]
  BY DEF Kept, Belongs
<1>a. /\ routes' = deleted.table
      /\ cache' = IF deleted.ok THEN [cache EXCEPT ![n] = None] ELSE cache
      /\ left' = IF ran.show THEN left ELSE left \cup {RouteTo(i)}
  OBVIOUS
<1>b. \/ /\ deleted = Result(TRUE, routes)
         /\ RouteTo(i) \notin routes \/ ~ ran.show
      \/ deleted = Result(TRUE, routes \ {RouteTo(i)})
      \/ deleted = Result(FALSE, routes)
  BY <1>0, DelRouteResult DEF Kept
<1>c. i = cache[n]
  OBVIOUS
<1> HIDE DEF deleted, i
<1>1. left \subseteq left' /\ left' \subseteq {RouteTo(j) : j \in Info}
  BY <1>0, <1>a DEF Kept
<1>2. CASE deleted = Result(FALSE, routes)
  <2>1. routes' = routes /\ cache' = cache
    BY <1>a, <1>2 DEF Result
  <2> QED
    BY <1>1, <2>1 DEF Kept, Belongs, OneRoute, CachedIsRouted, RoutesAreKnown, Cached
<1>3. CASE \/ /\ deleted = Result(TRUE, routes)
              /\ RouteTo(i) \notin routes \/ ~ ran.show
           \/ deleted = Result(TRUE, routes \ {RouteTo(i)})
  <2>1. /\ deleted.ok
        /\ deleted.table \subseteq routes
        /\ routes \ deleted.table \subseteq {RouteTo(i)}
        /\ RouteTo(i) \notin deleted.table \/ ~ ran.show
    BY <1>3 DEF Result
  <2>2. /\ routes' \subseteq routes
        /\ routes \ routes' \subseteq {RouteTo(i)}
        /\ RouteTo(i) \notin routes' \/ RouteTo(i) \in left'
        /\ cache' = [cache EXCEPT ![n] = None]
    BY <1>a, <2>1
  <2>3. OneRoute'
    BY <2>2 DEF Kept, OneRoute
  <2>4. cache' \in [Other -> Info \cup {None}] /\ Belongs(cache)'
    BY <2>2 DEF Kept, Belongs
  <2>5. Cached' = Cached \ {n}
    BY <2>2 DEF Kept, Cached
  <2>6. \A m \in Other \ {n} : cache'[m] = cache[m]
    BY <2>2 DEF Kept
  <2>7. \A m \in Cached \ {n} : RouteTo(cache[m]) # RouteTo(i)
    <3> SUFFICES ASSUME NEW m \in Cached \ {n} PROVE RouteTo(cache[m]) # RouteTo(i)
      OBVIOUS
    <3>1. m \in Other /\ m # n /\ cache[m] \in InfoOf[m]
      BY DEF Kept, Belongs, Cached
    <3> QED BY <1>0, <3>1, RoutesDiffer
  <2>8. CachedIsRouted'
    BY <2>2, <2>5, <2>6, <2>7 DEF Kept, CachedIsRouted, Cached
  <2>9. RoutesAreKnown'
    <3> SUFFICES ASSUME NEW r \in routes'
                 PROVE  r \in left' \cup {RouteTo(cache'[m]) : m \in Cached'}
      BY DEF RoutesAreKnown
    <3>1. r \in left \/ \E m \in Cached : r = RouteTo(cache[m])
      BY <2>2 DEF Kept, RoutesAreKnown
    <3>2. CASE r \in left
      BY <1>1, <3>2
    <3>3. ASSUME NEW m \in Cached, r = RouteTo(cache[m])
          PROVE  r \in left' \cup {RouteTo(cache'[k]) : k \in Cached'}
      <4>1. CASE m = n
        BY <1>c, <2>2, <3>3, <4>1
      <4>2. CASE m # n
        BY <2>5, <2>6, <3>3, <4>2 DEF Cached
      <4> QED BY <4>1, <4>2
    <3> QED BY <3>1, <3>2, <3>3
  <2>10. routes' \subseteq {RouteTo(j) : j \in Info}
    BY <2>2 DEF Kept
  <2> QED BY <1>1, <2>3, <2>4, <2>6, <2>8, <2>9, <2>10 DEF Kept
<1> QED BY <1>b, <1>2, <1>3

-----------------------------------------------------------------------------
(* The invariant holds.                                                     *)

LEMMA InitIInv == Init => IInv
<1> SUFFICES ASSUME Init PROVE IInv
  OBVIOUS
<1>1. NoNodes \in [Other -> Info \cup {None}] /\ Belongs(NoNodes)
  BY DEF NoNodes, Belongs
<1>2. Cached = {}
  BY DEF Init, NoNodes, Cached
<1>3. Kept
  BY <1>1, <1>2 DEF Init, Kept, OneRoute, CachedIsRouted, RoutesAreKnown
<1>4. RestType
  <2>1. 0 \in 0 .. MaxFaults
    BY HostGwAssumption
  <2>2. own \in BOOLEAN
    BY DEF Init
  <2> QED BY <1>1, <2>1, <2>2 DEF Init, RestType
<1> QED BY <1>1, <1>3, <1>4 DEF Init, Visiting, IInv

\* What does not touch routes and cache keeps them right.
LEMMA SameKept ==
    ASSUME Kept, UNCHANGED <<routes, cache, left>>
    PROVE  Kept'
BY DEF Kept, Belongs, OneRoute, CachedIsRouted, RoutesAreKnown, Cached

LEMMA StepIInv ==
    ASSUME IInv, Step
    PROVE  IInv'
<1> USE DEF IInv
<1>1. CASE Poll
  <2>1. NoNodes \in [Other -> Info \cup {None}] /\ Belongs(NoNodes)
    BY DEF NoNodes, Belongs
  <2>2. faults' \in 0 .. MaxFaults
    BY <1>1, FaultType DEF Poll, RestType
  <2>3. cluster' \in [Other -> Info \cup {None}] /\ Belongs(cluster')
    BY <1>1, <2>1 DEF Poll, RestType
  <2>4. Kept'
    BY <1>1, SameKept DEF Poll
  <2>5. RestType'
    BY <1>1, <2>2, <2>3 DEF Poll, RestType, world
  <2>6. Belongs(api)'
    BY <1>1 DEF Poll, world, Belongs
  <2>7. Visiting'
    BY <1>1 DEF Poll, Visiting
  <2> QED BY <2>3, <2>4, <2>5, <2>6, <2>7 DEF Belongs
<1>2. CASE ReadOwn
  <2>1. faults' \in 0 .. MaxFaults /\ own' \in BOOLEAN
    BY <1>2, GetSubnetType DEF ReadOwn, RestType
  <2>2. Kept'
    BY <1>2, SameKept DEF ReadOwn
  <2>3. todo' \subseteq {n \in Other : cluster[n] # None}
    BY <1>2 DEF ReadOwn
  <2>4. RestType'
    BY <1>2, <2>1, <2>3 DEF ReadOwn, RestType, world
  <2>5. Belongs(api)' /\ Belongs(cluster)'
    BY <1>2 DEF ReadOwn, world, Belongs
  <2>6. Visiting'
    BY <1>2, <2>3 DEF ReadOwn, Visiting
  <2> QED BY <2>2, <2>4, <2>5, <2>6
<1>3. CASE AllVisited
  <2>1. Kept'
    BY <1>3, SameKept DEF AllVisited
  <2>2. RestType'
    BY <1>3 DEF AllVisited, RestType, world, Cached
  <2>3. Belongs(api)' /\ Belongs(cluster)'
    BY <1>3 DEF AllVisited, world, Belongs
  <2>4. Visiting'
    BY <1>3 DEF AllVisited, Visiting, Cached
  <2> QED BY <2>1, <2>2, <2>3, <2>4
<1>4. ASSUME NEW n \in Other, AddNode(n)
      PROVE  IInv'
  <2>1. pc = "add" /\ n \in todo /\ todo' = todo \ {n}
    BY <1>4 DEF AddNode
  <2>2. Kept'
    <3>1. CASE UNCHANGED <<routes, cache>>
      BY <1>4, <3>1, SameKept DEF AddNode
    <3>2. CASE ~ UNCHANGED <<routes, cache>>
      <4>1. cache[n] = None /\ left' = left
        BY <1>4, <3>2 DEF AddNode
      <4>2. PICK ran \in Ran :
              LET added == AddRoute(routes, cluster[n].cidr, cluster[n].ip, None, ran)
              IN  /\ routes' = added.table
                  /\ cache' = IF added.ok THEN [cache EXCEPT ![n] = cluster[n]] ELSE cache
        BY <1>4, <3>2 DEF AddNode
      <4>3. cluster[n] \in InfoOf[n]
        BY <2>1 DEF Visiting, Belongs
      <4> QED BY <4>1, <4>2, <4>3, AddKeeps
    <3> QED BY <3>1, <3>2
  <2>3. faults' \in 0 .. MaxFaults
    BY <1>4, OutcomeType, GetSubnetType DEF AddNode, RestType
  <2>4. RestType'
    BY <1>4, <2>1, <2>3 DEF AddNode, RestType, world
  <2>5. Belongs(api)' /\ Belongs(cluster)'
    BY <1>4 DEF AddNode, world, Belongs
  <2>6. Visiting'
    BY <1>4, <2>1 DEF AddNode, Visiting
  <2> QED BY <2>2, <2>4, <2>5, <2>6
<1>5. ASSUME NEW n \in Other, DelNode(n)
      PROVE  IInv'
  <2>1. pc = "del" /\ n \in todo /\ todo' = todo \ {n}
    BY <1>5 DEF DelNode
  <2>2. cache[n] # None
    BY <2>1 DEF Visiting, Cached
  <2>3. Kept' /\ \A m \in Other \ {n} : cache'[m] = cache[m]
    <3>1. CASE UNCHANGED <<routes, cache, left>>
      BY <3>1, SameKept
    <3>2. CASE ~ UNCHANGED <<routes, cache, left>>
      <4>1. PICK ran \in Ran :
              LET deleted == DelRoute(routes, cache[n].cidr, cache[n].ip, None, ran)
              IN  /\ routes' = deleted.table
                  /\ cache' = IF deleted.ok THEN [cache EXCEPT ![n] = None] ELSE cache
                  /\ left' = IF ran.show THEN left ELSE left \cup {RouteTo(cache[n])}
        BY <1>5, <3>2 DEF DelNode
      <4> QED BY <2>2, <4>1, DelKeeps
    <3> QED BY <3>1, <3>2
  <2>4. faults' \in 0 .. MaxFaults
    BY <1>5, OutcomeType, GetSubnetType DEF DelNode, RestType
  <2>5. RestType'
    BY <1>5, <2>1, <2>4 DEF DelNode, RestType, world
  <2>6. Belongs(api)' /\ Belongs(cluster)'
    BY <1>5 DEF DelNode, world, Belongs
  <2>7. Visiting'
    BY <1>5, <2>1, <2>3 DEF DelNode, Visiting, Cached, world
  <2> QED BY <2>3, <2>5, <2>6, <2>7
<1> QED BY <1>1, <1>2, <1>3, <1>4, <1>5 DEF Step

LEMMA EnvironmentIInv ==
    ASSUME IInv, Environment
    PROVE  IInv'
<1> USE DEF IInv
<1>1. ASSUME NEW n \in Other, Join(n) \/ Leave(n)
      PROVE  IInv'
  <2>1. PICK i \in InfoOf[n] \cup {None} : api' = [api EXCEPT ![n] = i]
    BY <1>1 DEF Join, Leave
  <2>2. api' \in [Other -> Info \cup {None}] /\ Belongs(api)'
    BY <2>1, InfoOfNode DEF RestType, Belongs
  <2>3. Kept'
    BY <1>1, SameKept DEF Join, Leave, worker
  <2>4. RestType'
    BY <1>1, <2>2 DEF Join, Leave, worker, RestType
  <2>5. Belongs(cluster)' /\ Visiting'
    BY <1>1 DEF Join, Leave, worker, Belongs, Visiting, Cached
  <2> QED BY <2>2, <2>3, <2>4, <2>5
<1>2. ASSUME NEW n \in Other \cup {Self}, Record(n)
      PROVE  IInv'
  <2>1. Kept'
    BY <1>2, SameKept DEF Record, worker
  <2>2. RestType'
    BY <1>2 DEF Record, worker, RestType
  <2>3. Belongs(api)' /\ Belongs(cluster)' /\ Visiting'
    BY <1>2 DEF Record, worker, Belongs, Visiting, Cached
  <2> QED BY <2>1, <2>2, <2>3
<1>3. CASE Restart
  <2>1. NoNodes \in [Other -> Info \cup {None}] /\ Belongs(NoNodes)
    BY DEF NoNodes, Belongs
  <2>2. faults' \in 0 .. MaxFaults
    BY <1>3, FaultType DEF Restart, RestType
  <2>3. Cached' = {}
    BY <1>3 DEF Restart, NoNodes, Cached
  <2>4. /\ routes' \subseteq routes
        /\ routes' \subseteq left'
        /\ left' \subseteq {RouteTo(i) : i \in Info}
        /\ cache' = NoNodes
    BY <1>3 DEF Restart, Kept
  <2>5. Kept'
    BY <2>1, <2>3, <2>4 DEF Kept, OneRoute, CachedIsRouted, RoutesAreKnown, Belongs
  <2>6. RestType'
    BY <1>3, <2>1, <2>2 DEF Restart, RestType, world
  <2>7. Belongs(api)' /\ Belongs(cluster)' /\ Visiting'
    BY <1>3, <2>1 DEF Restart, world, Belongs, Visiting
  <2> QED BY <2>5, <2>6, <2>7
<1> QED BY <1>1, <1>2, <1>3 DEF Environment

\* The inductive invariant.
THEOREM Invariance == Spec => []IInv
<1>1. ASSUME IInv, [Next]_vars
      PROVE  IInv'
  <2>1. CASE Next
    BY <1>1, <2>1, StepIInv, EnvironmentIInv DEF Next
  <2>2. CASE UNCHANGED vars
    <3>1. Kept'
      BY <1>1, <2>2, SameKept DEF IInv, vars, worker
    <3>2. RestType' /\ Belongs(api)' /\ Belongs(cluster)' /\ Visiting'
      BY <1>1, <2>2
         DEF IInv, vars, world, worker, RestType, Belongs, Visiting, Cached
    <3> QED BY <3>1, <3>2 DEF IInv
  <2> QED BY <1>1, <2>1, <2>2
<1> QED BY <1>1, InitIInv, PTL DEF Spec

\* The handler reads only nodes it has data of: the type invariant of
\* eventHandler() (host_gw.cc:36).
THEOREM TypeCorrect == Spec => []TypeOK
<1>1. IInv => TypeOK
  BY DEF IInv, Kept, RestType, TypeOK
<1> QED BY <1>1, Invariance, PTL

\* A cached node has its route, whatever failed (host_gw.cc:58-69).
THEOREM CachedNodesAreRouted == Spec => []CachedIsRouted
<1>1. IInv => CachedIsRouted
  BY DEF IInv, Kept
<1> QED BY <1>1, Invariance, PTL

\* No route is forgotten but by a restart or a failed `ip route show`
\* (host_gw.cc:82-91).
THEOREM NoRouteIsForgotten == Spec => []RoutesAreKnown
<1>1. IInv => RoutesAreKnown
  BY DEF IInv, Kept
<1> QED BY <1>1, Invariance, PTL

\* No podCIDR is routed to two nodes (host_gw.cc:60).
THEOREM CidrsGoToOneNode == Spec => []CachedCidrsDiffer
<1>1. IInv => CachedCidrsDiffer
  <2> SUFFICES ASSUME IInv, NEW m \in Cached, NEW n \in Cached, m # n,
                      cache[m].cidr = cache[n].cidr
               PROVE  FALSE
    BY DEF CachedCidrsDiffer
  <2>1. /\ m \in Other /\ n \in Other
        /\ cache[m] \in InfoOf[m] /\ cache[n] \in InfoOf[n]
    BY DEF IInv, Kept, Belongs, Cached
  <2>2. cache[m] \in Info /\ cache[n] \in Info
    BY <2>1, InfoOfNode
  <2>3. RouteTo(cache[m]).dest = RouteTo(cache[n]).dest
    BY <2>2, RouteFields
  <2>4. RouteTo(cache[m]) = RouteTo(cache[n])
    BY <2>3 DEF IInv, Kept, CachedIsRouted, OneRoute
  <2> QED BY <2>1, <2>4, RoutesDiffer
<1> QED BY <1>1, Invariance, PTL
=============================================================================
