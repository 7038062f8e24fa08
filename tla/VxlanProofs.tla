----------------------------- MODULE VxlanProofs -----------------------------
(***************************************************************************)
(* Theorems about the vxlan worker, for every set of nodes, podCIDRs and    *)
(* VTEPs, whichever node has them when, and every combination of faults:    *)
(* what it believes to be installed is, no route is forgotten, and what it  *)
(* erases it deletes.                                                       *)
(***************************************************************************)
EXTENDS VxlanBackend, FiniteSetTheorems, TLAPS

-----------------------------------------------------------------------------
(* The inductive invariant.                                                 *)

\* The deletions visit what is cached, all of it when this node has no VTEP; an
\* addition what is not, with data the API gave.
Visiting ==
    /\ pc = "del" => todo \subseteq Cached /\ (own \/ todo = Cached)
    /\ pc \in {"add", "neigh", "fdb"} => \A n \in todo \cup ({at} \ {None}) : cluster[n] # None
    /\ at \notin Cached

\* How far the addition has come.
HalfAdded ==
    at # None /\ at \notin flushed =>
        /\ RouteTo(cluster[at], got) \in routes
        /\ pc = "fdb" => NeighsOf(neighs, got.addr) # {}

IInv ==
    /\ TypeOK
    /\ Visiting
    /\ HalfAdded
    /\ CachedIsInstalled
    /\ NoForgottenRoute

-----------------------------------------------------------------------------
(* Entries.                                                                 *)

\* What the tables may hold.
Routes == {RouteTo(i, v) : i \in Info, v \in Vtep}
Neighs == {Neigh(v.addr, mac) : v \in Vtep, mac \in {u.mac : u \in Vtep} \cup {None}}
Fdbs   == {FdbTo(i, v) : i \in Info, v \in Vtep}

\* The fields of what data and a VTEP stand for.
LEMMA Fields ==
    ASSUME NEW i \in Info, NEW v \in Vtep
    PROVE  /\ RouteTo(i, v).dest = i.cidr
           /\ RouteTo(i, v).via = v.addr
           /\ RouteTo(i, v).dev = IF OHNOV = None THEN Underlay ELSE OHNOV
           /\ FdbTo(i, v).mac = v.mac
           /\ FdbTo(i, v).dst = i.ip
BY DEF RouteTo, Route, FdbTo, Fdb

\* A VTEP has an address and a MAC, so it is not the missing record.
LEMMA VtepIsThere ==
    ASSUME NEW v \in Vtep
    PROVE  v.addr # None /\ v.mac # None /\ v # NoVtep
BY VxlanAssumption DEF NoVtep

\* Routes with the same destination and gateway are the same.
LEMMA OneRoute ==
    ASSUME NEW i \in Info, NEW j \in Info, NEW u \in Vtep, NEW v \in Vtep,
           i.cidr = j.cidr, u.addr = v.addr
    PROVE  RouteTo(i, u) = RouteTo(j, v)
BY DEF RouteTo

\* A cached node was added with data and a VTEP.
LEMMA CachedEntry ==
    ASSUME TypeOK, NEW n \in Cached
    PROVE  /\ n \in Other /\ cache[n] \in Entry /\ cache[n] # None
           /\ cache[n].info \in Info /\ cache[n].vtep \in Vtep
<1>1. n \in Other /\ cache[n] \in Entry /\ cache[n] # None
  BY DEF TypeOK, RecordType, Cached
<1> QED BY <1>1 DEF Entry

-----------------------------------------------------------------------------
(* Calls of the Nic object.                                                 *)

\* The routes `ip route show` finds, by whatever device it looks, are the one that
\* data and VTEP stand for.
LEMMA FoundRoute ==
    ASSUME routes \subseteq Routes, NEW i \in Info, NEW v \in Vtep, NEW dev \in {OHNOV, None}
    PROVE  RoutesOf(routes, i.cidr, v.addr, dev) = routes \cap {RouteTo(i, v)}
<1>1. ASSUME NEW r \in routes
      PROVE  (r.dest = i.cidr /\ r.via = v.addr /\ dev \in {None, r.dev}) <=> r = RouteTo(i, v)
  <2>1. PICK j \in Info, u \in Vtep : r = RouteTo(j, u)
    BY DEF Routes
  <2> QED BY <2>1, Fields, OneRoute
<1> QED BY <1>1 DEF RoutesOf

\* addRoute() returns true exactly when the route is there afterwards.
LEMMA AddRouteResult ==
    ASSUME routes \subseteq Routes, NEW i \in Info, NEW v \in Vtep, NEW ran \in Ran
    PROVE  LET added == AddRoute(routes, i.cidr, v.addr, OHNOV, ran)
           IN  \/ added = Result(TRUE, routes) /\ RouteTo(i, v) \in routes
               \/ added = Result(TRUE, routes \cup {RouteTo(i, v)})
               \/ added = Result(FALSE, routes)
<1> DEFINE shown == RouteIsExist(routes, i.cidr, v.addr, OHNOV, ran)
           clash == RouteClash(routes, i.cidr)
<1>1. AddRoute(routes, i.cidr, v.addr, OHNOV, ran) = Add(routes, shown, clash, RouteTo(i, v), ran)
  BY DEF AddRoute, RouteTo
<1>2. shown => RouteTo(i, v) \in routes
  BY FoundRoute DEF RouteIsExist
<1> HIDE DEF shown, clash
<1> QED BY <1>1, <1>2 DEF Add

\* delRoute() touches no other route, and when its commands succeed the route is
\* gone.
LEMMA DelRouteResult ==
    ASSUME routes \subseteq Routes, NEW i \in Info, NEW v \in Vtep, NEW dev \in {OHNOV, None},
           NEW ran \in Ran
    PROVE  LET table == DelRoute(routes, i.cidr, v.addr, dev, ran).table
           IN  /\ table \in {routes, routes \ {RouteTo(i, v)}}
               /\ ran = AllRan => RouteTo(i, v) \notin table
<1> DEFINE shown == RouteIsExist(routes, i.cidr, v.addr, dev, ran)
           found == routes \cap {RouteTo(i, v)}
<1>1. DelRoute(routes, i.cidr, v.addr, dev, ran) = Del(routes, shown, found, ran)
  BY FoundRoute DEF DelRoute
<1>2. shown => found # {}
  BY FoundRoute DEF RouteIsExist
<1>3. ~ shown /\ ran = AllRan => RouteTo(i, v) \notin routes
  BY FoundRoute, VtepIsThere DEF RouteIsExist, AllRan
<1>4. routes \ found = routes \ {RouteTo(i, v)}
  OBVIOUS
<1> HIDE DEF shown, found
<1> QED BY <1>1, <1>2, <1>3, <1>4 DEF Del, Result, AllRan

\* addNeigh() returns true exactly when the address has a neighbour afterwards.
LEMMA AddNeighResult ==
    ASSUME NEW v \in Vtep, NEW ran \in Ran
    PROVE  LET added == AddNeigh(neighs, v.addr, v.mac, ran)
           IN  \/ added = Result(TRUE, neighs) /\ NeighsOf(neighs, v.addr) # {}
               \/ added = Result(TRUE, neighs \cup {Neigh(v.addr, v.mac)})
               \/ added = Result(FALSE, neighs)
<1> DEFINE shown == NeighIsExist(neighs, v.addr, ran)
           clash == NeighsOf(neighs, v.addr) # {}
<1>1. AddNeigh(neighs, v.addr, v.mac, ran) = Add(neighs, shown, clash, Neigh(v.addr, v.mac), ran)
  BY DEF AddNeigh
<1>2. shown => NeighsOf(neighs, v.addr) # {}
  BY VtepIsThere DEF NeighIsExist
<1> HIDE DEF shown, clash
<1> QED BY <1>1, <1>2 DEF Add

\* delNeigh() touches no other neighbour, and when its commands succeed the address
\* has none afterwards.
LEMMA DelNeighResult ==
    ASSUME NEW v \in Vtep, NEW ran \in Ran
    PROVE  LET table == DelNeigh(neighs, v.addr, ran).table
           IN  /\ table \in {neighs, neighs \ NeighsOf(neighs, v.addr)}
               /\ ran = AllRan => NeighsOf(table, v.addr) = {}
<1> DEFINE shown == NeighIsExist(neighs, v.addr, ran)
           found == NeighsOf(neighs, v.addr)
<1>1. DelNeigh(neighs, v.addr, ran) = Del(neighs, shown, found, ran)
  BY DEF DelNeigh
<1>2. shown => found # {}
  BY VtepIsThere DEF NeighIsExist
<1>3. ~ shown /\ ran = AllRan => found = {}
  BY VtepIsThere DEF NeighIsExist, AllRan
<1>4. NeighsOf(neighs \ found, v.addr) = {}
  BY DEF NeighsOf
<1> HIDE DEF shown
<1>5. CASE shown
  BY <1>1, <1>2, <1>4, <1>5 DEF Del, Result, AllRan
<1>6. CASE ~ shown
  BY <1>1, <1>3, <1>6 DEF Del, Result
<1> QED BY <1>5, <1>6

\* addFdb() returns true exactly when the entry is there afterwards.
LEMMA AddFdbResult ==
    ASSUME NEW i \in Info, NEW v \in Vtep, NEW ran \in Ran
    PROVE  LET added == AddFdb(fdbs, v.mac, i.ip, ran)
           IN  \/ added = Result(TRUE, fdbs) /\ FdbTo(i, v) \in fdbs
               \/ added = Result(TRUE, fdbs \cup {FdbTo(i, v)})
               \/ added = Result(FALSE, fdbs)
BY DEF AddFdb, FdbIsExist, Add, FdbTo

\* delFdb() touches no other entry, and when its commands succeed the entry is
\* gone.
LEMMA DelFdbResult ==
    ASSUME NEW i \in Info, NEW v \in Vtep, NEW ran \in Ran
    PROVE  LET table == DelFdb(fdbs, v.mac, i.ip, ran).table
           IN  /\ table \in {fdbs, fdbs \ {FdbTo(i, v)}}
               /\ ran = AllRan => FdbTo(i, v) \notin table
BY VtepIsThere DEF DelFdb, FdbIsExist, Del, FdbTo, Result, AllRan

\* Without a record the deletion has no keys, and deletes nothing.
LEMMA DelNothing ==
    ASSUME neighs \subseteq Neighs, NEW i \in Info,
           NEW run1 \in Ran, NEW run2 \in Ran, NEW run3 \in Ran
    PROVE  /\ DelRoute(routes, i.cidr, NoVtep.addr, OHNOV, run1).table = routes
           /\ DelNeigh(neighs, NoVtep.addr, run2).table = neighs
           /\ DelFdb(fdbs, NoVtep.mac, i.ip, run3).table = fdbs
<1>1. NoVtep.addr = None /\ NoVtep.mac = None
  BY DEF NoVtep
<1>2. NeighsOf(neighs, None) = {}
  <2> SUFFICES ASSUME NEW e \in neighs PROVE e.addr # None
    BY DEF NeighsOf
  <2>1. PICK v \in Vtep : e.addr = v.addr
    BY DEF Neighs, Neigh
  <2> QED BY <2>1, VtepIsThere
<1>3. DelRoute(routes, i.cidr, NoVtep.addr, OHNOV, run1).table = routes
  BY <1>1 DEF DelRoute, RouteIsExist, Del, Result
<1>4. DelNeigh(neighs, NoVtep.addr, run2).table = neighs
  BY <1>1, <1>2 DEF DelNeigh, Del, Result
<1>5. DelFdb(fdbs, NoVtep.mac, i.ip, run3).table = fdbs
  BY <1>1 DEF DelFdb, FdbIsExist, Del, Result
<1> QED BY <1>3, <1>4, <1>5

-----------------------------------------------------------------------------
(* Faults.                                                                  *)

\* A fault is counted within the bound.
LEMMA FaultType ==
    ASSUME faults \in 0 .. MaxFaults, NEW kind, Fault(kind)
    PROVE  faults' \in 0 .. MaxFaults /\ faults' # faults
BY VxlanAssumption DEF Fault

\* The failing commands of some calls are finitely many ...
LEMMA FailedCount ==
    ASSUME NEW command, NEW rans, NEW k \in Nat, DOMAIN rans = 1 .. k
    PROVE  /\ Cardinality(Failed(command, rans)) \in Nat
           /\ Cardinality(Failed(command, rans)) = 0 <=> Failed(command, rans) = {}
<1>1. IsFiniteSet(1 .. k)
  BY FS_Interval
<1>2. IsFiniteSet(Failed(command, rans))
  BY <1>1, FS_Subset DEF Failed
<1> QED BY <1>2, FS_CardinalityType, FS_EmptySet

\* ... and counted within the bound, so that calls that add nothing went well.
LEMMA OutcomeType ==
    ASSUME faults \in 0 .. MaxFaults, NEW rans, NEW k \in Nat, DOMAIN rans = 1 .. k, Outcome(rans)
    PROVE  /\ faults' \in 0 .. MaxFaults
           /\ faults' = faults => AllWent(rans)
<1> DEFINE shows == Cardinality(Failed("show", rans))
           sets  == Cardinality(Failed("set", rans))
<1>1. shows \in Nat /\ sets \in Nat
  BY FailedCount
<1>2. faults' = faults + shows + sets /\ faults' <= MaxFaults
  BY DEF Outcome
<1> HIDE DEF shows, sets
<1>3. faults' \in 0 .. MaxFaults /\ (faults' = faults => shows = 0 /\ sets = 0)
  BY <1>1, <1>2, VxlanAssumption
<1> QED BY <1>3, FailedCount DEF AllWent, shows, sets

\* The same for the calls there are in a step.
LEMMA CallsType ==
    ASSUME faults \in 0 .. MaxFaults, NEW a, NEW b, NEW c,
           Outcome(<<a>>) \/ Outcome(<<a, b>>) \/ Outcome(<<a, b, c>>)
    PROVE  faults' \in 0 .. MaxFaults
<1>1. DOMAIN <<a>> = 1 .. 1 /\ DOMAIN <<a, b>> = 1 .. 2 /\ DOMAIN <<a, b, c>> = 1 .. 3
  OBVIOUS
<1>2. CASE Outcome(<<a>>)
  BY <1>1, <1>2, OutcomeType
<1>3. CASE Outcome(<<a, b>>)
  BY <1>1, <1>3, OutcomeType
<1>4. CASE Outcome(<<a, b, c>>)
  BY <1>1, <1>4, OutcomeType
<1> QED BY <1>2, <1>3, <1>4

\* Calls that went well ran both commands.
LEMMA AllWentRan ==
    /\ \A a, b \in Ran : AllWent(<<a, b>>) => a = AllRan /\ b = AllRan
    /\ \A a, b, c \in Ran : AllWent(<<a, b, c>>) => a = AllRan /\ b = AllRan /\ c = AllRan
<1>1. ASSUME NEW a \in Ran, a.show, a.set PROVE a = AllRan
  BY <1>1 DEF Ran, AllRan
<1>2. ASSUME NEW a \in Ran, NEW b \in Ran, AllWent(<<a, b>>)
      PROVE  a.show /\ a.set /\ b.show /\ b.set
  <2>1. \A i \in 1 .. 2 : <<a, b>>[i].show /\ <<a, b>>[i].set
    BY <1>2 DEF AllWent, Failed
  <2> QED BY <2>1
<1>3. ASSUME NEW a \in Ran, NEW b \in Ran, NEW c \in Ran, AllWent(<<a, b, c>>)
      PROVE  a.show /\ a.set /\ b.show /\ b.set /\ c.show /\ c.set
  <2>1. \A i \in 1 .. 3 : <<a, b, c>>[i].show /\ <<a, b, c>>[i].set
    BY <1>3 DEF AllWent, Failed
  <2> QED BY <2>1
<1> QED BY <1>1, <1>2, <1>3

LEMMA GetVtepType ==
    ASSUME faults \in 0 .. MaxFaults, NEW n, NEW v, GetVtep(n, v)
    PROVE  faults' \in 0 .. MaxFaults /\ v \in {vtep[n], NoVtep}
BY FaultType DEF GetVtep

-----------------------------------------------------------------------------
(* What a step leaves installed and known.                                  *)

\* What was installed and is not touched stays installed.
LEMMA StaysInstalled ==
    ASSUME CachedIsInstalled, NEW n \in Settled, cache'[n] = cache[n],
           RouteOf(n) \in routes => RouteOf(n) \in routes',
           NeighsOf(neighs, cache[n].vtep.addr) \subseteq NeighsOf(neighs', cache[n].vtep.addr),
           FdbTo(cache[n].info, cache[n].vtep) \in fdbs =>
               FdbTo(cache[n].info, cache[n].vtep) \in fdbs'
    PROVE  Installed(cache[n].info, cache[n].vtep)'
BY DEF CachedIsInstalled, Installed, RouteOf

\* Steps that delete no entry and cache nobody keep what is installed.
LEMMA GrowingTables ==
    ASSUME CachedIsInstalled, UNCHANGED cache, Settled' \subseteq Settled,
           routes \subseteq routes', neighs \subseteq neighs', fdbs \subseteq fdbs'
    PROVE  CachedIsInstalled'
<1> SUFFICES ASSUME NEW n \in Settled' PROVE Installed(cache[n].info, cache[n].vtep)'
  BY DEF CachedIsInstalled
<1>1. NeighsOf(neighs, cache[n].vtep.addr) \subseteq NeighsOf(neighs', cache[n].vtep.addr)
  BY DEF NeighsOf
<1> QED BY <1>1, StaysInstalled

\* Steps that leave tables and cache alone, and the node being added, too.
LEMMA QuietStep ==
    ASSUME HalfAdded, CachedIsInstalled, NoForgottenRoute,
           UNCHANGED <<kernel, cache, flushed, left, at>>,
           at = None \/ UNCHANGED <<pc, got, cluster>>, Settled' \subseteq Settled
    PROVE  HalfAdded' /\ CachedIsInstalled' /\ NoForgottenRoute'
<1>1. HalfAdded'
  BY DEF kernel, HalfAdded
<1>2. CachedIsInstalled'
  BY GrowingTables DEF kernel
<1>3. NoForgottenRoute'
  BY DEF kernel, NoForgottenRoute, Cached, RouteOf
<1> QED BY <1>1, <1>2, <1>3

\* What a step changes in the cache when it forgets, or caches, one node.
LEMMA CacheChange ==
    ASSUME RecordType, NEW n \in Other, NEW e \in Entry \cup {None},
           cache' = [cache EXCEPT ![n] = e]
    PROVE  /\ cache' \in [Other -> Entry \cup {None}]
           /\ \A m \in Other : cache'[m] = IF m = n THEN e ELSE cache[m]
           /\ Cached' = IF e = None THEN Cached \ {n} ELSE Cached \cup {n}
<1>1. \A m \in Other : cache'[m] = IF m = n THEN e ELSE cache[m]
  BY DEF RecordType
<1> QED BY <1>1 DEF RecordType, Cached

\* A roll-back takes at most the route of the node being added, and whoever shares
\* that node's VTEP address has lost it.
LEMMA UndoRouteResult ==
    ASSUME IInv, at # None, NEW ran \in Ran, UndoRoute(ran)
    PROVE  /\ cluster[at] \in Info /\ got \in Vtep
           /\ routes' \in {routes, routes \ {RouteTo(cluster[at], got)}}
           /\ RouteTo(cluster[at], got) \in left' \/ RouteTo(cluster[at], got) \notin routes'
           /\ left' \in {left, left \cup {RouteTo(cluster[at], got)}}
           /\ \A n \in Cached \ flushed' : n \notin flushed /\ cache[n].vtep.addr # got.addr
<1>1. cluster[at] \in Info /\ got \in Vtep /\ routes \subseteq Routes
  BY DEF IInv, TypeOK, KernelType, RecordType, LoopType, Visiting, Routes
<1>2. /\ routes' \in {routes, routes \ {RouteTo(cluster[at], got)}}
      /\ ran = AllRan => RouteTo(cluster[at], got) \notin routes'
  BY <1>1, DelRouteResult DEF UndoRoute
<1> QED BY <1>1, <1>2 DEF UndoRoute

\* So the cached nodes that did not lose it keep their entries.
LEMMA OthersKeep ==
    ASSUME IInv, at # None, NEW ran \in Ran, UndoRoute(ran),
           neighs' \in {neighs, neighs \ NeighsOf(neighs, got.addr)},
           UNCHANGED <<cache, fdbs>>, pc # "del", pc' # "del"
    PROVE  CachedIsInstalled'
<1> SUFFICES ASSUME NEW n \in Settled' PROVE Installed(cache[n].info, cache[n].vtep)'
  BY DEF CachedIsInstalled
<1>1. n \in Cached /\ n \in Cached \ flushed'
  BY DEF Settled, Cached
<1>2. n \in Settled /\ cache[n].vtep.addr # got.addr
  BY <1>1, UndoRouteResult DEF Settled
<1>3. cache[n].info \in Info /\ cache[n].vtep \in Vtep
  BY <1>1, CachedEntry DEF IInv
<1>4. RouteOf(n) # RouteTo(cluster[at], got)
  BY <1>2, <1>3, UndoRouteResult, Fields DEF RouteOf
<1>5. RouteOf(n) \in routes => RouteOf(n) \in routes'
  BY <1>4, UndoRouteResult
<1>6. NeighsOf(neighs, cache[n].vtep.addr) \subseteq NeighsOf(neighs', cache[n].vtep.addr)
  BY <1>2 DEF NeighsOf
<1> QED BY <1>2, <1>5, <1>6, StaysInstalled DEF IInv

-----------------------------------------------------------------------------
(* The invariant is kept.                                                   *)

\* The handler goes from one loop to the next, or passes over a node.
LEMMA LoopStep ==
    ASSUME IInv,
           Poll \/ ReadOwn \/ AllVisited \/ \E n \in Other : Skip(n) \/ Keep(n)
    PROVE  IInv'
<1> USE DEF IInv, TypeOK
<1>1. /\ UNCHANGED <<world, kernel, cache, flushed, left>>
      /\ pc \in {"sleep", "own", "add", "del"} /\ pc' \in {"sleep", "own", "add", "del"}
  BY DEF Poll, ReadOwn, AllVisited, Skip, Keep, NextNode
<1>2. at = None /\ got = NoVtep /\ at' = None /\ got' = NoVtep
  BY <1>1 DEF LoopType, Poll, ReadOwn, AllVisited, Skip, Keep, NextNode
<1>3. Cached \subseteq Other /\ Cached' = Cached
  BY <1>1 DEF Cached
<1>4. Settled' \subseteq Settled
  <2> USE <1>1, <1>3 DEF Settled
  <2>1. CASE Poll \/ ReadOwn \/ \E n \in Other : Skip(n)
    BY <2>1 DEF Poll, ReadOwn, Skip, NextNode
  <2>2. CASE AllVisited
    BY <2>2 DEF AllVisited
  <2>3. CASE \E n \in Other : Keep(n)
    BY <2>3 DEF Keep
  <2> QED BY <2>1, <2>2, <2>3
<1>5. HalfAdded' /\ CachedIsInstalled' /\ NoForgottenRoute'
  BY <1>1, <1>2, <1>4, QuietStep
<1>6. faults' \in 0 .. MaxFaults
  BY FaultType, GetVtepType DEF Poll, ReadOwn, AllVisited, Skip, Keep, GetHttpResponse
<1>7. KernelType'
  BY <1>1 DEF KernelType, kernel
<1>8. RecordType'
  BY <1>1 DEF RecordType, world, Poll, ReadOwn, AllVisited, Skip, Keep, NoNodes
<1>9. LoopType'
  <2> USE <1>1, <1>2, <1>3 DEF LoopType
  <2>1. CASE Poll \/ \E n \in Other : Keep(n)
    BY <2>1 DEF Poll, Keep
  <2>2. CASE ReadOwn
    <3>1. pc' = "add" /\ todo' = IF own' THEN {n \in Other : cluster[n] # None} ELSE {}
      BY <2>2 DEF ReadOwn
    <3>2. own' \in BOOLEAN
      BY <2>2 DEF ReadOwn, RecordType
    <3> QED BY <3>1, <3>2
  <2>3. CASE AllVisited
    BY <2>3 DEF AllVisited
  <2>4. CASE \E n \in Other : Skip(n)
    BY <2>4 DEF Skip, NextNode
  <2> QED BY <2>1, <2>2, <2>3, <2>4
<1>10. Visiting'
  <2> USE <1>1, <1>2, <1>3 DEF Visiting
  <2>1. CASE Poll \/ AllVisited
    BY <2>1 DEF Poll, AllVisited
  <2>2. CASE ReadOwn
    <3>1. pc' = "add" /\ cluster' = cluster /\ \A n \in todo' : cluster[n] # None
      BY <2>2 DEF ReadOwn
    <3> QED BY <3>1
  <2>3. CASE \E n \in Other : Skip(n) \/ Keep(n)
    BY <2>3 DEF Skip, Keep, NextNode
  <2> QED BY <2>1, <2>2, <2>3
<1> QED BY <1>5, <1>6, <1>7, <1>8, <1>9, <1>10

\* The addition begins with the route, and goes on or fails.
LEMMA AddRouteStep ==
    ASSUME IInv, NEW n \in Other, AddNodeRoute(n)
    PROVE  IInv'
<1> DEFINE route == RouteTo(cluster[n], vtep[n])
<1> USE DEF IInv, TypeOK
<1>1. /\ pc = "add" /\ n \in todo \ Cached /\ vtep[n] # NoVtep
      /\ flushed' = flushed \ {n}
      /\ UNCHANGED <<world, neighs, fdbs, cache, cluster, own, left>>
  BY DEF AddNodeRoute
<1>2. cluster[n] \in Info /\ vtep[n] \in Vtep /\ at = None /\ n # None
  BY <1>1, VxlanAssumption DEF RecordType, LoopType, Visiting
<1>3. PICK ran \in Ran :
        LET added == AddRoute(routes, cluster[n].cidr, vtep[n].addr, OHNOV, ran)
        IN  /\ Outcome(<<ran>>)
            /\ routes' = added.table
            /\ IF added.ok
               THEN pc' = "neigh" /\ at' = n /\ got' = vtep[n] /\ UNCHANGED todo
               ELSE NextNode(n)
  BY DEF AddNodeRoute
<1>4. \/ /\ routes' \in {routes, routes \cup {route}} /\ route \in routes'
         /\ pc' = "neigh" /\ at' = n /\ got' = vtep[n] /\ todo' = todo
      \/ /\ routes' = routes
         /\ pc' = "add" /\ at' = None /\ got' = NoVtep /\ todo' = todo \ {n}
  <2> DEFINE added == AddRoute(routes, cluster[n].cidr, vtep[n].addr, OHNOV, ran)
  <2>1. /\ routes' = added.table
        /\ IF added.ok
           THEN pc' = "neigh" /\ at' = n /\ got' = vtep[n] /\ UNCHANGED todo
           ELSE NextNode(n)
    BY <1>3
  <2>2. \/ added = Result(TRUE, routes) /\ route \in routes
        \/ added = Result(TRUE, routes \cup {route})
        \/ added = Result(FALSE, routes)
    <3>1. routes \subseteq Routes
      BY DEF KernelType, Routes
    <3> QED BY <1>2, <3>1, AddRouteResult
  <2> HIDE DEF added, route
  <2> QED BY <2>1, <2>2 DEF Result, NextNode
<1>5. Cached' = Cached /\ Settled' \subseteq Settled
  BY <1>1, <1>4 DEF Cached, Settled
<1>6. faults' \in 0 .. MaxFaults
  BY <1>3, CallsType
<1>7. route \in Routes
  BY <1>2 DEF Routes
<1> HIDE DEF route
<1>8. KernelType' /\ RecordType' /\ LoopType'
  <2>1. KernelType'
    BY <1>1, <1>4, <1>7 DEF KernelType, Routes
  <2>2. RecordType'
    BY <1>1 DEF RecordType, world
  <2>3. LoopType'
    BY <1>1, <1>2, <1>4 DEF LoopType
  <2> QED BY <2>1, <2>2, <2>3
<1>9. Visiting'
  BY <1>1, <1>2, <1>4, <1>5, VxlanAssumption DEF Visiting, Cached
<1>10. HalfAdded'
  BY <1>1, <1>4 DEF HalfAdded, route
<1>11. CachedIsInstalled'
  BY <1>1, <1>4, <1>5, GrowingTables
<1>12. NoForgottenRoute'
  <2>1. routes \subseteq left \cup {RouteOf(m) : m \in Cached}
    BY <1>2 DEF NoForgottenRoute
  <2>2. {RouteOf(m) : m \in Cached}' = {RouteOf(m) : m \in Cached}
    BY <1>1, <1>5 DEF RouteOf
  <2> QED BY <1>1, <1>2, <1>4, <2>1, <2>2 DEF NoForgottenRoute, route
<1> QED BY <1>6, <1>8, <1>9, <1>10, <1>11, <1>12

\* Its neighbour follows, or the route is undone.
LEMMA AddNeighStep ==
    ASSUME IInv, AddNodeNeigh
    PROVE  IInv'
<1> DEFINE route == RouteTo(cluster[at], got)
<1> USE DEF IInv, TypeOK
<1>1. /\ pc = "neigh" /\ at \in Other /\ at # None /\ at \notin Cached
      /\ cluster[at] \in Info /\ got \in Vtep
  BY DEF AddNodeNeigh, LoopType, RecordType, Visiting
<1>2. UNCHANGED <<world, fdbs, cache, cluster, own>>
  BY DEF AddNodeNeigh
<1>3. PICK ran \in Ran, undo \in Ran :
        LET added == AddNeigh(neighs, got.addr, got.mac, ran)
        IN  /\ neighs' = added.table
            /\ IF added.ok
               THEN /\ undo = AllRan /\ Outcome(<<ran>>)
                    /\ pc' = "fdb"
                    /\ UNCHANGED <<routes, todo, at, got, flushed, left>>
               ELSE /\ Outcome(<<ran, undo>>)
                    /\ UndoRoute(undo)
                    /\ NextNode(at)
  BY DEF AddNodeNeigh
<1>4. \/ /\ neighs' \in {neighs, neighs \cup {Neigh(got.addr, got.mac)}}
         /\ NeighsOf(neighs', got.addr) # {}
         /\ pc' = "fdb" /\ UNCHANGED <<routes, todo, at, got, flushed, left>>
      \/ /\ neighs' = neighs
         /\ UndoRoute(undo)
         /\ pc' = "add" /\ at' = None /\ got' = NoVtep /\ todo' = todo \ {at}
  <2> DEFINE added == AddNeigh(neighs, got.addr, got.mac, ran)
  <2>1. /\ neighs' = added.table
        /\ IF added.ok
           THEN pc' = "fdb" /\ UNCHANGED <<routes, todo, at, got, flushed, left>>
           ELSE UndoRoute(undo) /\ NextNode(at)
    BY <1>3
  <2>2. \/ added = Result(TRUE, neighs) /\ NeighsOf(neighs, got.addr) # {}
        \/ added = Result(TRUE, neighs \cup {Neigh(got.addr, got.mac)})
        \/ added = Result(FALSE, neighs)
    BY <1>1, AddNeighResult
  <2>3. Neigh(got.addr, got.mac) \in NeighsOf(neighs \cup {Neigh(got.addr, got.mac)}, got.addr)
    BY DEF NeighsOf, Neigh
  <2> HIDE DEF added
  <2> QED BY <2>1, <2>2, <2>3 DEF Result, NextNode
<1>5. faults' \in 0 .. MaxFaults
  BY <1>3, CallsType
<1>6. Cached' = Cached /\ None \notin Cached
  BY <1>2, VxlanAssumption DEF Cached
<1>7. route \in Routes
  BY <1>1 DEF Routes
<1>8. RecordType'
  BY <1>2 DEF RecordType, world
<1>9. CASE UNCHANGED <<routes, todo, at, got, flushed, left>> /\ pc' = "fdb"
  <2>1. neighs' \in {neighs, neighs \cup {Neigh(got.addr, got.mac)}} /\ NeighsOf(neighs', got.addr) # {}
    BY <1>1, <1>4, <1>9
  <2>2. KernelType'
    BY <1>1, <1>2, <1>9, <2>1 DEF KernelType
  <2>3. LoopType' /\ Visiting'
    BY <1>1, <1>2, <1>6, <1>9 DEF LoopType, Visiting
  <2>4. HalfAdded'
    BY <1>2, <1>9, <2>1 DEF HalfAdded
  <2>5. Settled' \subseteq Settled
    BY <1>1, <1>6, <1>9 DEF Settled
  <2>6. CachedIsInstalled'
    BY <1>2, <1>9, <2>1, <2>5, GrowingTables
  <2>7. NoForgottenRoute'
    BY <1>2, <1>6, <1>9 DEF NoForgottenRoute, RouteOf
  <2> QED BY <1>5, <1>8, <2>2, <2>3, <2>4, <2>6, <2>7
<1>10. CASE /\ neighs' = neighs /\ UndoRoute(undo)
            /\ pc' = "add" /\ at' = None /\ got' = NoVtep /\ todo' = todo \ {at}
  <2>1. /\ routes' \in {routes, routes \ {route}} /\ (route \in left' \/ route \notin routes')
        /\ left' \in {left, left \cup {route}}
        /\ flushed' \subseteq flushed \cup Cached
    BY <1>1, <1>10, UndoRouteResult DEF UndoRoute
  <2> HIDE DEF route
  <2>2. KernelType'
    BY <1>2, <1>7, <1>10, <2>1 DEF KernelType, Routes
  <2>3. LoopType' /\ Visiting'
    BY <1>1, <1>2, <1>6, <1>10, <2>1 DEF LoopType, Visiting, Cached
  <2>4. HalfAdded'
    BY <1>10 DEF HalfAdded
  <2>5. CachedIsInstalled'
    BY <1>1, <1>2, <1>10, OthersKeep
  <2>6. NoForgottenRoute'
    <3>1. routes \subseteq left \cup {RouteOf(n) : n \in Cached} \cup {route}
      BY <1>1 DEF NoForgottenRoute, route
    <3>2. {RouteOf(n) : n \in Cached}' = {RouteOf(n) : n \in Cached}
      BY <1>2, <1>6 DEF RouteOf
    <3> QED BY <1>10, <2>1, <3>1, <3>2 DEF NoForgottenRoute
  <2> QED BY <1>5, <1>8, <2>2, <2>3, <2>4, <2>5, <2>6
<1> QED BY <1>4, <1>9, <1>10

\* The forwarding entry comes last, and then the node is cached; or all is undone.
LEMMA AddFdbStep ==
    ASSUME IInv, AddNodeFdb
    PROVE  IInv'
<1> DEFINE route == RouteTo(cluster[at], got)
           fdb   == FdbTo(cluster[at], got)
           entry == [info |-> cluster[at], vtep |-> got]
<1> USE DEF IInv, TypeOK
<1>1. /\ pc = "fdb" /\ at \in Other /\ at # None /\ at \notin Cached
      /\ cluster[at] \in Info /\ got \in Vtep
  BY DEF AddNodeFdb, LoopType, RecordType, Visiting
<1>2. /\ pc' = "add" /\ at' = None /\ got' = NoVtep /\ todo' = todo \ {at}
      /\ UNCHANGED <<world, cluster, own>>
  BY DEF AddNodeFdb, NextNode
<1>3. PICK ran \in Ran, undo1 \in Ran, undo2 \in Ran :
        LET added == AddFdb(fdbs, got.mac, cluster[at].ip, ran)
        IN  /\ fdbs' = added.table
            /\ IF added.ok
               THEN /\ {undo1, undo2} = {AllRan} /\ Outcome(<<ran>>)
                    /\ cache' = [cache EXCEPT ![at] = entry]
                    /\ left' = left \ {route}
                    /\ UNCHANGED <<routes, neighs, flushed>>
               ELSE /\ Outcome(<<ran, undo1, undo2>>)
                    /\ UndoRoute(undo1)
                    /\ neighs' = DelNeigh(neighs, got.addr, undo2).table
                    /\ UNCHANGED cache
  BY DEF AddNodeFdb
<1>4. faults' \in 0 .. MaxFaults
  BY <1>3, CallsType
<1>5. route \in Routes /\ fdb \in Fdbs /\ entry \in Entry /\ entry # None
  BY <1>1, VxlanAssumption DEF Routes, Fdbs, Entry
<1> HIDE DEF route, fdb, entry
<1>6. \/ /\ fdbs' \in {fdbs, fdbs \cup {fdb}} /\ fdb \in fdbs'
         /\ cache' = [cache EXCEPT ![at] = entry] /\ left' = left \ {route}
         /\ UNCHANGED <<routes, neighs, flushed>>
      \/ /\ fdbs' = fdbs
         /\ UndoRoute(undo1)
         /\ neighs' \in {neighs, neighs \ NeighsOf(neighs, got.addr)}
         /\ UNCHANGED cache
  <2> DEFINE added == AddFdb(fdbs, got.mac, cluster[at].ip, ran)
  <2>1. /\ fdbs' = added.table
        /\ IF added.ok
           THEN /\ cache' = [cache EXCEPT ![at] = entry] /\ left' = left \ {route}
                /\ UNCHANGED <<routes, neighs, flushed>>
           ELSE /\ UndoRoute(undo1)
                /\ neighs' = DelNeigh(neighs, got.addr, undo2).table
                /\ UNCHANGED cache
    BY <1>3
  <2>2. \/ added = Result(TRUE, fdbs) /\ fdb \in fdbs
        \/ added = Result(TRUE, fdbs \cup {fdb})
        \/ added = Result(FALSE, fdbs)
    BY <1>1, AddFdbResult DEF fdb
  <2>3. DelNeigh(neighs, got.addr, undo2).table \in {neighs, neighs \ NeighsOf(neighs, got.addr)}
    BY <1>1, DelNeighResult
  <2> HIDE DEF added
  <2> QED BY <2>1, <2>2, <2>3 DEF Result
<1>7. None \notin Other
  BY VxlanAssumption
<1>8. HalfAdded'
  BY <1>2 DEF HalfAdded
<1>9. CASE /\ fdbs' \in {fdbs, fdbs \cup {fdb}} /\ fdb \in fdbs'
           /\ cache' = [cache EXCEPT ![at] = entry] /\ left' = left \ {route}
           /\ UNCHANGED <<routes, neighs, flushed>>
  <2>1. /\ cache' \in [Other -> Entry \cup {None}]
        /\ \A m \in Other : cache'[m] = IF m = at THEN entry ELSE cache[m]
        /\ Cached' = Cached \cup {at}
    BY <1>1, <1>5, <1>9, CacheChange
  <2>2. KernelType'
    BY <1>5, <1>9 DEF KernelType, Fdbs
  <2>3. RecordType'
    BY <1>2, <2>1 DEF RecordType, world
  <2>4. LoopType' /\ Visiting'
    BY <1>1, <1>2, <1>7, <1>9, <2>1 DEF LoopType, Visiting, Cached
  <2>5. CachedIsInstalled'
    <3> SUFFICES ASSUME NEW n \in Settled' PROVE Installed(cache[n].info, cache[n].vtep)'
      BY DEF CachedIsInstalled
    <3>1. n \in Cached' \ flushed
      BY <1>9 DEF Settled
    <3>2. CASE n = at
      <4>1. cache'[n].info = cluster[at] /\ cache'[n].vtep = got
        BY <1>1, <2>1, <3>2 DEF entry
      <4>2. route \in routes /\ NeighsOf(neighs, got.addr) # {}
        BY <1>1, <3>1, <3>2 DEF HalfAdded, route
      <4>3. RouteTo(cluster[at], got) \in routes' /\ NeighsOf(neighs', got.addr) # {}
            /\ FdbTo(cluster[at], got) \in fdbs'
        BY <1>9, <4>2 DEF route, fdb
      <4> QED BY <4>1, <4>3 DEF Installed
    <3>3. CASE n # at
      <4>1. n \in Settled /\ cache'[n] = cache[n]
        BY <1>1, <2>1, <3>1, <3>3 DEF Settled, Cached
      <4> QED BY <1>9, <4>1, StaysInstalled
    <3> QED BY <3>2, <3>3
  <2>6. NoForgottenRoute'
    <3> SUFFICES ASSUME NEW r \in routes
                 PROVE  r \in left' \/ \E n \in Cached' : r = RouteOf(n)'
      BY <1>9, <1>2 DEF NoForgottenRoute
    <3>1. CASE r = route
      <4>1. PICK n \in Cached' : n = at
        BY <2>1
      <4>2. cache'[n] = entry
        BY <1>1, <2>1, <4>1
      <4>3. RouteOf(n)' = route
        BY <4>2 DEF RouteOf, entry, route
      <4> QED BY <3>1, <4>1, <4>3
    <3>2. CASE r # route
      <4>1. r \in left \/ \E n \in Cached : r = RouteOf(n)
        BY <1>1, <3>2 DEF NoForgottenRoute, route
      <4>2. \A n \in Cached : n \in Cached' /\ RouteOf(n)' = RouteOf(n)
        BY <1>1, <2>1 DEF RouteOf, Cached
      <4> QED BY <1>9, <3>2, <4>1, <4>2
    <3> QED BY <3>1, <3>2
  <2> QED BY <1>4, <1>8, <2>2, <2>3, <2>4, <2>5, <2>6
<1>10. CASE /\ fdbs' = fdbs
            /\ UndoRoute(undo1)
            /\ neighs' \in {neighs, neighs \ NeighsOf(neighs, got.addr)}
            /\ UNCHANGED cache
  <2>1. Cached' = Cached
    BY <1>10 DEF Cached
  <2>2. /\ routes' \in {routes, routes \ {route}} /\ (route \in left' \/ route \notin routes')
        /\ left' \in {left, left \cup {route}}
        /\ flushed' \subseteq flushed \cup Cached
    BY <1>1, <1>10, UndoRouteResult DEF UndoRoute, route
  <2>3. KernelType'
    BY <1>5, <1>10, <2>2 DEF KernelType, Routes
  <2>4. RecordType'
    BY <1>2, <1>10 DEF RecordType, world
  <2>5. LoopType' /\ Visiting'
    BY <1>1, <1>2, <1>7, <2>1, <2>2 DEF LoopType, Visiting, Cached
  <2>6. CachedIsInstalled'
    BY <1>1, <1>2, <1>10, OthersKeep
  <2>7. NoForgottenRoute'
    <3>1. routes \subseteq left \cup {RouteOf(n) : n \in Cached} \cup {route}
      BY <1>1 DEF NoForgottenRoute, route
    <3>2. {RouteOf(n) : n \in Cached}' = {RouteOf(n) : n \in Cached}
      BY <1>10, <2>1 DEF RouteOf
    <3> QED BY <1>2, <2>2, <3>1, <3>2 DEF NoForgottenRoute
  <2> QED BY <1>4, <1>8, <2>3, <2>4, <2>5, <2>6, <2>7
<1> QED BY <1>6, <1>9, <1>10

\* What a deletion does: it touches nothing but one node's entries, none without the
\* record, and forgets the node; where the record is the one the node was added with
\* and no command fails, the entries are gone.
LEMMA DelNodeResult ==
    ASSUME IInv, NEW n \in Other, DelNode(n)
    PROVE  /\ pc = "del" /\ n \in Cached
           /\ routes' \subseteq routes /\ neighs' \subseteq neighs /\ fdbs' \subseteq fdbs
           /\ own => UNCHANGED <<routes, neighs, fdbs>>
           /\ left' \in {left, left \cup {RouteOf(n)}}
           /\ RouteOf(n) \in left' \/ RouteOf(n) \notin routes'
           /\ Forget(n)
           /\ UNCHANGED <<world, pc, cluster, own, at, got>>
           /\ faults' \in 0 .. MaxFaults
           /\ vtep[n] = cache[n].vtep /\ faults' = faults =>
                 /\ RouteOf(n) \notin routes'
                 /\ NeighsOf(neighs', cache[n].vtep.addr) = {}
                 /\ FdbTo(cache[n].info, cache[n].vtep) \notin fdbs'
<1> USE DEF IInv, TypeOK
<1> DEFINE i == cache[n].info
           u == cache[n].vtep
<1>1. /\ pc = "del" /\ n \in Cached /\ Forget(n)
      /\ UNCHANGED <<world, pc, cluster, own, at, got>>
  BY DEF DelNode, Visiting
<1>2. i \in Info /\ u \in Vtep /\ u # NoVtep /\ u.addr # None /\ RouteOf(n) = RouteTo(i, u)
  BY <1>1, CachedEntry, VtepIsThere DEF RouteOf
<1> HIDE DEF i, u
<1>3. PICK v \in {vtep[n], NoVtep}, run1 \in Ran, run2 \in Ran, run3 \in Ran :
        /\ ~ own \/ v = NoVtep
        /\ \/ v = vtep[n] /\ Outcome(<<run1, run2, run3>>)
           \/ v # vtep[n] /\ AllWent(<<run1, run2, run3>>) /\ Fault("readFail")
        /\ routes' = DelRoute(routes, i.cidr, v.addr, OHNOV, run1).table
        /\ neighs' = DelNeigh(neighs, v.addr, run2).table
        /\ fdbs' = DelFdb(fdbs, v.mac, i.ip, run3).table
        /\ left' = IF v.addr = u.addr /\ run1 = AllRan THEN left ELSE left \cup {RouteOf(n)}
  BY Zenon DEF DelNode, i, u
<1>4. left' \in {left, left \cup {RouteOf(n)}}
  BY <1>3
<1>5. faults' \in 0 .. MaxFaults
  BY <1>3, CallsType, FaultType
<1>6. CASE v = NoVtep
  <2>1. neighs \subseteq Neighs
    BY DEF KernelType, Neighs
  <2>2. UNCHANGED <<routes, neighs, fdbs>>
    BY <1>2, <1>3, <1>6, <2>1, DelNothing
  <2>3. RouteOf(n) \in left'
    BY <1>2, <1>3, <1>6 DEF NoVtep
  <2>4. ~ (vtep[n] = u /\ faults' = faults)
    BY <1>2, <1>3, <1>6, FaultType
  <2> QED BY <1>1, <1>4, <1>5, <2>2, <2>3, <2>4 DEF u
<1>7. CASE v # NoVtep
  <2>1. v = vtep[n] /\ v \in Vtep /\ Outcome(<<run1, run2, run3>>) /\ ~ own
    BY <1>3, <1>7 DEF RecordType
  <2>2. routes \subseteq Routes
    BY DEF KernelType, Routes
  <2>3. AllWent(<<run1, run2, run3>>) => run1 = AllRan /\ run2 = AllRan /\ run3 = AllRan
    BY AllWentRan
  <2>4. /\ routes' \in {routes, routes \ {RouteTo(i, v)}}
        /\ run1 = AllRan => RouteTo(i, v) \notin routes'
    BY <1>2, <1>3, <2>1, <2>2, DelRouteResult
  <2>5. /\ neighs' \in {neighs, neighs \ NeighsOf(neighs, v.addr)}
        /\ run2 = AllRan => NeighsOf(neighs', v.addr) = {}
    BY <1>3, <2>1, DelNeighResult
  <2>6. /\ fdbs' \in {fdbs, fdbs \ {FdbTo(i, v)}}
        /\ run3 = AllRan => FdbTo(i, v) \notin fdbs'
    BY <1>2, <1>3, <2>1, DelFdbResult
  <2>7. RouteOf(n) \in left' \/ RouteOf(n) \notin routes'
    <3>1. CASE v.addr = u.addr /\ run1 = AllRan
      <4>1. RouteTo(i, v) = RouteTo(i, u)
        BY <1>2, <2>1, <3>1, OneRoute
      <4> QED BY <1>2, <2>4, <3>1, <4>1
    <3>2. CASE ~ (v.addr = u.addr /\ run1 = AllRan)
      BY <1>3, <3>2
    <3> QED BY <3>1, <3>2
  <2>8. faults' = faults => AllWent(<<run1, run2, run3>>)
    <3>1. DOMAIN <<run1, run2, run3>> = 1 .. 3
      OBVIOUS
    <3> QED BY <2>1, <3>1, OutcomeType
  <2>9. vtep[n] = u /\ faults' = faults =>
            /\ RouteOf(n) \notin routes'
            /\ NeighsOf(neighs', u.addr) = {}
            /\ FdbTo(i, u) \notin fdbs'
    BY <1>2, <2>1, <2>3, <2>4, <2>5, <2>6, <2>8
  <2>10. routes' \subseteq routes /\ neighs' \subseteq neighs /\ fdbs' \subseteq fdbs
    BY <2>4, <2>5, <2>6
  <2> QED BY <1>1, <1>4, <1>5, <2>1, <2>7, <2>9, <2>10 DEF i, u
<1> QED BY <1>6, <1>7

LEMMA DelStep ==
    ASSUME IInv, NEW n \in Other, DelNode(n)
    PROVE  IInv'
<1> USE DEF IInv, TypeOK
<1>1. /\ pc = "del" /\ n \in Cached
      /\ routes' \subseteq routes /\ neighs' \subseteq neighs /\ fdbs' \subseteq fdbs
      /\ own => UNCHANGED <<routes, neighs, fdbs>>
      /\ left' \in {left, left \cup {RouteOf(n)}}
      /\ RouteOf(n) \in left' \/ RouteOf(n) \notin routes'
      /\ cache' = [cache EXCEPT ![n] = None] /\ flushed' = flushed \ {n} /\ todo' = todo \ {n}
      /\ UNCHANGED <<world, pc, cluster, own, at, got>>
      /\ faults' \in 0 .. MaxFaults
  BY DelNodeResult DEF Forget
<1>2. at = None
  BY <1>1 DEF LoopType
<1>3. /\ cache' \in [Other -> Entry \cup {None}]
      /\ \A m \in Other : cache'[m] = IF m = n THEN None ELSE cache[m]
      /\ Cached' = Cached \ {n}
  BY <1>1, CacheChange
<1>4. RouteOf(n) \in Routes
  BY <1>1, CachedEntry DEF RouteOf, Routes
<1>5. KernelType'
  BY <1>1, <1>4 DEF KernelType, Routes
<1>6. RecordType'
  BY <1>1, <1>3 DEF RecordType, world
<1>7. LoopType' /\ Visiting' /\ HalfAdded'
  BY <1>1, <1>2, <1>3 DEF LoopType, Visiting, HalfAdded
<1>8. CachedIsInstalled'
  <2> SUFFICES ASSUME NEW m \in Settled' PROVE Installed(cache[m].info, cache[m].vtep)'
    BY DEF CachedIsInstalled
  <2>1. own
    BY <1>1, <1>3 DEF Settled, Visiting
  <2>2. m \in Settled /\ cache'[m] = cache[m]
    BY <1>1, <1>3, <2>1 DEF Settled, Cached
  <2> QED BY <1>1, <2>1, <2>2, StaysInstalled
<1>9. NoForgottenRoute'
  <2> SUFFICES ASSUME NEW r \in routes'
               PROVE  r \in left' \/ \E m \in Cached' : r = RouteOf(m)'
    BY DEF NoForgottenRoute
  <2>1. r \in left \/ \E m \in Cached : r = RouteOf(m)
    BY <1>1, <1>2 DEF NoForgottenRoute
  <2>2. \A m \in Cached \ {n} : m \in Cached' /\ RouteOf(m)' = RouteOf(m)
    BY <1>3 DEF RouteOf, Cached
  <2> QED BY <1>1, <2>1, <2>2
<1> QED BY <1>1, <1>5, <1>6, <1>7, <1>8, <1>9

\* The cluster, the plugins, the kernel and kubelet.
LEMMA EnvironmentStep ==
    ASSUME IInv, Environment
    PROVE  IInv'
<1> USE DEF IInv, TypeOK
<1>1. CASE RecordOwn \/ \E n \in Other : Join(n) \/ Leave(n) \/ Record(n)
  <2>1. UNCHANGED <<kernel, cache, local, flushed, left, faults>>
    BY <1>1 DEF Join, Leave, Record, RecordOwn
  <2>2. Settled' \subseteq Settled
    BY <2>1 DEF Settled, Cached, local
  <2>3. HalfAdded' /\ CachedIsInstalled' /\ NoForgottenRoute'
    BY <2>1, <2>2, QuietStep DEF local
  <2>4. \A n \in Other : InfoOf[n] \subseteq Info /\ VtepOf[n] \subseteq Vtep
    BY DEF Info, Vtep
  <2>5. RecordType'
    <3>1. api' \in [Other -> Info \cup {None}]
      BY <1>1, <2>4 DEF RecordType, Join, Leave, Record, RecordOwn
    <3>2. vtep' \in [Other -> Vtep \cup {NoVtep}]
      BY <1>1, <2>4 DEF RecordType, Join, Leave, Record, RecordOwn
    <3>3. ownVtep' \in BOOLEAN
      BY <1>1 DEF RecordType, Join, Leave, Record, RecordOwn
    <3> QED BY <2>1, <3>1, <3>2, <3>3 DEF RecordType, local
  <2>6. KernelType' /\ LoopType' /\ Visiting'
    BY <2>1 DEF KernelType, LoopType, Visiting, Cached, kernel, local
  <2> QED BY <2>1, <2>3, <2>5, <2>6
<1>2. CASE Traffic
  <2>1. PICK r \in routes : neighs' = neighs \cup {Neigh(r.via, None)}
    BY <1>2 DEF Traffic
  <2>2. UNCHANGED <<world, routes, fdbs, cache, local, flushed, left>>
    BY <1>2 DEF Traffic
  <2>3. KernelType'
    <3>1. PICK i \in Info, v \in Vtep : r = RouteTo(i, v)
      BY DEF KernelType
    <3>2. Neigh(r.via, None) \in Neighs
      BY <3>1, Fields DEF Neighs
    <3>3. neighs \subseteq Neighs
      BY DEF KernelType, Neighs
    <3>4. neighs' \subseteq Neighs
      BY <2>1, <3>2, <3>3
    <3> QED BY <2>2, <3>4 DEF KernelType, Neighs
  <2>4. CachedIsInstalled'
    <3>1. Settled' \subseteq Settled
      BY <2>2 DEF Settled, Cached, local
    <3> QED BY <2>1, <2>2, <3>1, GrowingTables
  <2>5. HalfAdded'
    <3>1. \A addr : NeighsOf(neighs, addr) \subseteq NeighsOf(neighs', addr)
      BY <2>1 DEF NeighsOf
    <3> QED BY <2>2, <3>1 DEF HalfAdded, local
  <2>6. NoForgottenRoute'
    BY <2>2 DEF NoForgottenRoute, Cached, RouteOf, local
  <2>7. RecordType' /\ LoopType' /\ Visiting'
    BY <2>2 DEF RecordType, LoopType, Visiting, Cached, world, local
  <2>8. faults' \in 0 .. MaxFaults
    BY <1>2, FaultType DEF Traffic
  <2> QED BY <2>3, <2>4, <2>5, <2>6, <2>7, <2>8
<1>3. CASE Recreate
  <2>1. /\ routes' = {} /\ neighs' = {} /\ fdbs' = {} /\ left' = {}
        /\ flushed' = Cached \cup ({at} \ {None})
        /\ UNCHANGED <<world, cache, local>>
    BY <1>3 DEF Recreate
  <2>2. KernelType' /\ NoForgottenRoute'
    BY <2>1 DEF KernelType, NoForgottenRoute
  <2>3. CachedIsInstalled' /\ HalfAdded'
    BY <2>1 DEF CachedIsInstalled, Settled, HalfAdded, Cached, local
  <2>4. RecordType' /\ LoopType' /\ Visiting'
    BY <2>1 DEF RecordType, LoopType, Visiting, Cached, world, local
  <2>5. faults' \in 0 .. MaxFaults
    BY <1>3, FaultType DEF Recreate
  <2> QED BY <2>2, <2>3, <2>4, <2>5
<1>4. CASE Restart
  <2>1. /\ left' = routes
        /\ cache' = NoNodes /\ flushed' = {}
        /\ pc' = "sleep" /\ cluster' = NoNodes /\ own' = FALSE
        /\ todo' = {} /\ at' = None /\ got' = NoVtep
        /\ UNCHANGED <<world, kernel>>
    BY <1>4 DEF Restart
  <2>2. Cached' = {} /\ RecordType'
    BY <2>1 DEF Cached, RecordType, NoNodes, world
  <2>3. KernelType'
    <3>1. routes' \cup left' = routes /\ neighs' = neighs /\ fdbs' = fdbs
      BY <2>1 DEF kernel
    <3> QED BY <3>1 DEF KernelType
  <2>4. HalfAdded' /\ CachedIsInstalled'
    BY <2>1, <2>2 DEF HalfAdded, CachedIsInstalled, Settled
  <2>5. NoForgottenRoute'
    BY <2>1 DEF NoForgottenRoute, kernel
  <2>6. LoopType' /\ Visiting'
    BY <2>1, <2>2 DEF LoopType, Visiting
  <2>7. faults' \in 0 .. MaxFaults
    BY <1>4, FaultType DEF Restart
  <2> QED BY <2>2, <2>3, <2>4, <2>5, <2>6, <2>7
<1> QED BY <1>1, <1>2, <1>3, <1>4 DEF Environment

-----------------------------------------------------------------------------
(* The theorems.                                                            *)

LEMMA InitInv == Init => IInv
<1> SUFFICES ASSUME Init PROVE IInv
  OBVIOUS
<1> USE DEF Init
<1>1. Cached = {} /\ RecordType
  BY DEF Cached, RecordType, NoNodes
<1>2. 0 \in 0 .. MaxFaults
  BY VxlanAssumption
<1>3. KernelType
  BY DEF KernelType
<1>4. LoopType
  BY DEF LoopType
<1>5. Visiting /\ HalfAdded
  BY <1>1 DEF Visiting, HalfAdded
<1>6. CachedIsInstalled /\ NoForgottenRoute
  BY <1>1 DEF CachedIsInstalled, Settled, NoForgottenRoute
<1> QED BY <1>1, <1>2, <1>3, <1>4, <1>5, <1>6 DEF IInv, TypeOK

LEMMA NextInv == IInv /\ [Next]_vars => IInv'
<1> SUFFICES ASSUME IInv, [Next]_vars PROVE IInv'
  OBVIOUS
<1>1. CASE Poll \/ ReadOwn \/ AllVisited \/ \E n \in Other : Skip(n) \/ Keep(n)
  BY <1>1, LoopStep
<1>2. CASE \E n \in Other : AddNodeRoute(n) \/ DelNode(n)
  BY <1>2, AddRouteStep, DelStep
<1>3. CASE AddNodeNeigh \/ AddNodeFdb
  BY <1>3, AddNeighStep, AddFdbStep
<1>4. CASE Environment
  BY <1>4, EnvironmentStep
<1>5. CASE UNCHANGED vars
  <2>1. UNCHANGED <<kernel, cache, flushed, left, at, pc, got, cluster>> /\ Settled' \subseteq Settled
    BY <1>5 DEF vars, local, Settled, Cached
  <2>2. HalfAdded' /\ CachedIsInstalled' /\ NoForgottenRoute'
    BY <2>1, QuietStep DEF IInv
  <2>3. KernelType' /\ RecordType' /\ LoopType'
    <3>1. KernelType'
      <4>1. routes' = routes /\ left' = left /\ neighs' = neighs /\ fdbs' = fdbs
        BY <1>5 DEF vars, kernel
      <4> QED BY <4>1 DEF IInv, TypeOK, KernelType
    <3>2. RecordType'
      BY <1>5 DEF IInv, TypeOK, vars, world, local, RecordType
    <3>3. LoopType'
      BY <1>5 DEF IInv, TypeOK, vars, local, LoopType
    <3> QED BY <3>1, <3>2, <3>3
  <2>4. Visiting' /\ faults' \in 0 .. MaxFaults
    BY <1>5 DEF IInv, TypeOK, vars, local, Visiting, Cached
  <2> QED BY <2>2, <2>3, <2>4 DEF IInv, TypeOK
<1> QED BY <1>1, <1>2, <1>3, <1>4, <1>5 DEF Next, Step

\* The invariant holds in every state.
THEOREM Invariance == Spec => []IInv
BY InitInv, NextInv, PTL DEF Spec

\* The types, and that only a node with a VTEP of its own adds others
\* (vxlan.cc:52-58).
THEOREM TypeCorrect == Spec => []TypeOK
<1>1. IInv => TypeOK
  BY DEF IInv
<1> QED BY <1>1, Invariance, PTL

\* What the handler has cached has route, neighbour and forwarding entry, whichever
\* nodes had its podCIDR or VTEP address before, until the device is made again or a
\* node with the same VTEP address is rolled back (vxlan.cc:62-90).
THEOREM BelievedIsInstalled == Spec => []CachedIsInstalled
<1>1. IInv => CachedIsInstalled
  BY DEF IInv
<1> QED BY <1>1, Invariance, PTL

\* Whatever fails half-way, no route is left that the handler has forgotten, but
\* those that a failing command, a restart or a changed record explains
\* (vxlan.cc:70-87, 110-125).
THEOREM RoutesAreRemembered == Spec => []NoForgottenRoute
<1>1. IInv => NoForgottenRoute
  BY DEF IInv
<1> QED BY <1>1, Invariance, PTL

\* A deletion in which nothing fails takes all the entries with it, and only a
\* deletion or a restart forgets a node (vxlan.cc:110-125).
THEOREM DeletionIsComplete == Spec => ErasedIsDeleted
<1> DEFINE Erased(n) == /\ RouteOf(n) \notin routes'
                        /\ NeighsOf(neighs', cache[n].vtep.addr) = {}
                        /\ FdbTo(cache[n].info, cache[n].vtep) \notin fdbs'
           Deleted == \A n \in Cached \ Cached' :
                         (pc = "del" /\ pc' = "del" /\ vtep[n] = cache[n].vtep /\ faults' = faults)
                             => Erased(n)
<1>1. IInv /\ [Next]_vars => Deleted
  <2> SUFFICES ASSUME IInv, [Next]_vars, NEW n \in Cached \ Cached',
                      pc = "del", pc' = "del", vtep[n] = cache[n].vtep, faults' = faults
               PROVE  Erased(n)
    OBVIOUS
  <2>1. n \in Other /\ cache' # cache
    BY DEF Cached
  <2>2. \E m \in Other : DelNode(m)
    BY <2>1 DEF Next, Step, Environment, Poll, ReadOwn, AddNodeNeigh, AddNodeFdb, AllVisited, Skip,
                AddNodeRoute, Keep, Join, Leave, Record, RecordOwn, Traffic, Recreate, Restart,
                vars, local
  <2>3. PICK m \in Other : DelNode(m)
    BY <2>2
  <2>4. m = n
    <3>1. cache' = [cache EXCEPT ![m] = None]
      BY <2>3 DEF DelNode, Forget
    <3>2. Cached' = Cached \ {m}
      BY <3>1, CacheChange DEF IInv, TypeOK
    <3> QED BY <3>2
  <2> QED BY <2>1, <2>3, <2>4, DelNodeResult
<1>2. IInv /\ [Next]_vars => [Deleted]_vars
  BY <1>1
<1> QED BY <1>2, Invariance, PTL DEF Spec, ErasedIsDeleted
=============================================================================
