---------------------------- MODULE VxlanBackend ----------------------------
(***************************************************************************)
(* The worker thread of ohnod in vxlan mode (src/backend/vxlan.cc): for     *)
(* every other node with a VTEP it keeps a route, a neighbour and a         *)
(* forwarding entry on the device `ohnov`, and it keeps them while this     *)
(* node has a VTEP itself.  An addition is three calls of the Nic object,   *)
(* each a step; the roll-back of an addition and the deletion of a node,    *)
(* which nothing else of this daemon can disturb, are one.                  *)
(***************************************************************************)
EXTENDS Netlink, FiniteSets, Naturals

CONSTANTS
    Other,       \* the names of the other nodes
    OHNOV,       \* the device's name
    InfoOf,      \* InfoOf[n]: what the API may say of node n
    VtepOf,      \* VtepOf[n]: the VTEPs node n may have, one after the other
    Faults,      \* what may go wrong, a subset of FaultKinds
    MaxFaults    \* how often: bound of the runs

Info == UNION {InfoOf[n] : n \in Other}
Vtep == UNION {VtepOf[n] : n \in Other}

\* What a node is added with.
Entry == [info : Info, vtep : Vtep]

\* What getVtep() yields when there is no record.
NoVtep == [addr |-> None, mac |-> None]

(***************************************************************************)
(* apiFail: the API does not answer; readFail: a read of etcd fails;        *)
(* showFail, setFail: the first or second command of a Nic call fails;      *)
(* traffic: a packet comes to an address without neighbour; recreate: the   *)
(* device is deleted and made again; restart: the daemon restarts.          *)
(***************************************************************************)
FaultKinds == {"apiFail", "readFail", "showFail", "setFail", "traffic", "recreate", "restart"}

\* A VTEP's MAC is new with every device, and its address comes from the podCIDR its
\* node has (cni.cc:500), which may have been another node's before.
ASSUME VxlanAssumption ==
    /\ InfoOf \in [Other -> SUBSET Info]
    /\ VtepOf \in [Other -> SUBSET Vtep]
    /\ None \notin Other \cup Info \cup Entry
    /\ \A v \in Vtep : None \notin {v.addr, v.mac}
    /\ Faults \subseteq FaultKinds
    /\ MaxFaults \in Nat

VARIABLES
    api,        \* api[n]: what the API says of node n, None if it is gone
    vtep,       \* vtep[n]: the VTEP record of node n, or NoVtep
    ownVtep,    \* whether this node has one
    routes, neighs, fdbs,  \* the kernel's entries on OHNOV
    cache,      \* cache[n]: node_cache_, and the VTEP n was added with, or None
    pc,         \* where eventHandler() is
    cluster,    \* its snapshot of the API
    own,        \* whether it found a VTEP of this node
    todo,       \* the nodes its present loop has still to visit
    at,         \* the node it is adding
    got,        \* the VTEP it read for that node
    flushed,    \* the nodes that lost entries: to a new device, or a roll-back
    left,       \* the routes that may be left of nodes that are not cached
    faults      \* faults so far

kernel == <<routes, neighs, fdbs>>
world  == <<api, vtep, ownVtep>>
local  == <<pc, cluster, own, todo, at, got>>
vars   == <<world, kernel, cache, local, flushed, left, faults>>

NoNodes == [n \in Other |-> None]

Cached == {n \in Other : cache[n] # None}

Init ==
    /\ api = NoNodes /\ vtep = [n \in Other |-> NoVtep] /\ ownVtep = FALSE
    /\ routes = {} /\ neighs = {} /\ fdbs = {}
    /\ cache = NoNodes
    /\ pc = "sleep" /\ cluster = NoNodes /\ own = FALSE
    /\ todo = {} /\ at = None /\ got = NoVtep
    /\ flushed = {} /\ left = {}
    /\ faults = 0

Fault(kind) ==
    /\ kind \in Faults
    /\ faults < MaxFaults
    /\ faults' = faults + 1

Failed(command, rans) == {i \in DOMAIN rans : ~ rans[i][command]}

AllWent(rans) == Failed("show", rans) \cup Failed("set", rans) = {}

\* How the commands of some Nic calls end.
Outcome(rans) ==
    /\ Failed("show", rans) = {} \/ "showFail" \in Faults
    /\ Failed("set", rans) = {} \/ "setFail" \in Faults
    /\ faults' = faults + Cardinality(Failed("show", rans)) + Cardinality(Failed("set", rans))
    /\ faults' <= MaxFaults

\* getVtep(n), which yields v.
GetVtep(n, v) ==
    \/ v = vtep[n] /\ UNCHANGED faults
    \/ v = NoVtep /\ vtep[n] # NoVtep /\ Fault("readFail")

\* The entries node n stands for, with data i and VTEP v.
RouteTo(i, v) == Route(i.cidr, v.addr, OHNOV)
FdbTo(i, v)   == Fdb(v.mac, i.ip)

RouteOf(n) == RouteTo(cache[n].info, cache[n].vtep)

-----------------------------------------------------------------------------
(* eventHandler(): additions.                                               *)

\* The API server answers, or does not.
GetHttpResponse(ok) == IF ok THEN UNCHANGED faults ELSE Fault("apiFail")

\* No answer looks like an empty cluster.
Poll ==
    /\ pc = "sleep"
    /\ \E ok \in BOOLEAN :
          /\ GetHttpResponse(ok)
          /\ cluster' = IF ok THEN api ELSE NoNodes
    /\ pc' = "own"
    /\ UNCHANGED <<world, kernel, cache, own, todo, at, got, flushed, left>>

\* Slip: a node without VTEP of its own adds the others all the same.
ReadOwnAnyway ==
    /\ pc = "own"
    /\ own' = ownVtep
    /\ todo' = {n \in Other : cluster[n] # None}
    /\ pc' = "add"
    /\ UNCHANGED <<world, kernel, cache, cluster, at, got, flushed, left, faults>>

ReadOwn ==
    /\ pc = "own"
    /\ \/ own' = ownVtep /\ UNCHANGED faults
       \/ own' = FALSE /\ Fault("readFail")
    /\ todo' = IF own' THEN {n \in Other : cluster[n] # None} ELSE {}
    /\ pc' = "add"
    /\ UNCHANGED <<world, kernel, cache, cluster, at, got, flushed, left>>

\* The addition of a node ends here, with the next to come.
NextNode(n) ==
    /\ pc' = "add"
    /\ todo' = todo \ {n}
    /\ at' = None
    /\ got' = NoVtep

Skip(n) ==
    /\ pc = "add"
    /\ n \in todo
    /\ \E v \in {vtep[n], NoVtep} :
          /\ GetVtep(n, v)
          /\ v = NoVtep \/ n \in Cached
    /\ NextNode(n)
    /\ UNCHANGED <<world, kernel, cache, cluster, own, flushed, left>>

\* A node with a record that is not cached: its route comes first.
AddNodeRoute(n) ==
    /\ pc = "add"
    /\ n \in todo \ Cached
    /\ vtep[n] # NoVtep
    /\ \E ran \in Ran :
          LET added == AddRoute(routes, cluster[n].cidr, vtep[n].addr, OHNOV, ran)
          IN  /\ Outcome(<<ran>>)
              /\ routes' = added.table
              /\ IF added.ok
                 THEN pc' = "neigh" /\ at' = n /\ got' = vtep[n] /\ UNCHANGED todo
                 ELSE NextNode(n)
    /\ flushed' = flushed \ {n}
    /\ UNCHANGED <<world, neighs, fdbs, cache, cluster, own, left>>

\* The node's route is deleted again, by whatever device it goes.  A cached node
\* with the same VTEP address loses what the two have in common.
UndoRoute(ran) ==
    /\ routes' = DelRoute(routes, cluster[at].cidr, got.addr, None, ran).table
    /\ left' = IF ran = AllRan THEN left ELSE left \cup {RouteTo(cluster[at], got)}
    /\ flushed' = flushed \cup {n \in Cached : cache[n].vtep.addr = got.addr}

\* Slip: the failure of addNeigh() does not undo the route.
AddNodeNeighOnly ==
    /\ pc = "neigh"
    /\ \E ran \in Ran :
          LET added == AddNeigh(neighs, got.addr, got.mac, ran)
          IN  /\ Outcome(<<ran>>)
              /\ neighs' = added.table
              /\ IF added.ok THEN pc' = "fdb" /\ UNCHANGED <<todo, at, got>>
                             ELSE NextNode(at)
    /\ UNCHANGED <<world, routes, fdbs, cache, cluster, own, flushed, left>>

AddNodeNeigh ==
    /\ pc = "neigh"
    /\ \E ran, undo \in Ran :
          LET added == AddNeigh(neighs, got.addr, got.mac, ran)
          IN  /\ neighs' = added.table
              /\ IF added.ok
                 THEN /\ undo = AllRan /\ Outcome(<<ran>>)
                      /\ pc' = "fdb"
                      /\ UNCHANGED <<routes, todo, at, got, flushed, left>>
                 ELSE /\ Outcome(<<ran, undo>>)
                      /\ UndoRoute(undo)
                      /\ NextNode(at)
    /\ UNCHANGED <<world, fdbs, cache, cluster, own>>

\* Slip: the node is cached whatever addFdb() returned.
AddNodeFdbAnyway ==
    /\ pc = "fdb"
    /\ \E ran \in Ran :
          /\ Outcome(<<ran>>)
          /\ fdbs' = AddFdb(fdbs, got.mac, cluster[at].ip, ran).table
    /\ cache' = [cache EXCEPT ![at] = [info |-> cluster[at], vtep |-> got]]
    /\ NextNode(at)
    /\ UNCHANGED <<world, routes, neighs, cluster, own, flushed, left>>

AddNodeFdb ==
    /\ pc = "fdb"
    /\ \E ran, undo1, undo2 \in Ran :
          LET added == AddFdb(fdbs, got.mac, cluster[at].ip, ran)
          IN  /\ fdbs' = added.table
              /\ IF added.ok
                 THEN /\ {undo1, undo2} = {AllRan} /\ Outcome(<<ran>>)
                      /\ cache' = [cache EXCEPT ![at] = [info |-> cluster[at], vtep |-> got]]
                      /\ left' = left \ {RouteTo(cluster[at], got)}
                      /\ UNCHANGED <<routes, neighs, flushed>>
                 ELSE /\ Outcome(<<ran, undo1, undo2>>)
                      /\ UndoRoute(undo1)
                      /\ neighs' = DelNeigh(neighs, got.addr, undo2).table
                      /\ UNCHANGED cache
    /\ NextNode(at)
    /\ UNCHANGED <<world, cluster, own>>

AllVisited ==
    /\ todo = {}
    /\ \/ pc = "add" /\ pc' = "del" /\ todo' = Cached
       \/ pc = "del" /\ pc' = "sleep" /\ UNCHANGED todo
    /\ UNCHANGED <<world, kernel, cache, cluster, own, at, got, flushed, left, faults>>

-----------------------------------------------------------------------------
(* eventHandler(): deletions.  The keys of the entries come from the record *)
(* as it is now; what the three calls return is only logged.                *)

Keep(n) ==
    /\ pc = "del"
    /\ n \in todo
    /\ own
    /\ vtep[n] # NoVtep
    /\ todo' = todo \ {n}
    /\ UNCHANGED <<world, kernel, cache, pc, cluster, own, at, got, flushed, left, faults>>

Forget(n) ==
    /\ cache' = [cache EXCEPT ![n] = None]
    /\ flushed' = flushed \ {n}
    /\ todo' = todo \ {n}

\* Slip: the forwarding entry is deleted by the neighbour's address.
DelNodeByAddr(n) ==
    /\ pc = "del"
    /\ n \in todo
    /\ ~ own \/ vtep[n] = NoVtep
    /\ routes' = DelRoute(routes, cache[n].info.cidr, vtep[n].addr, OHNOV, AllRan).table
    /\ neighs' = DelNeigh(neighs, vtep[n].addr, AllRan).table
    /\ fdbs' = DelFdb(fdbs, vtep[n].mac, vtep[n].addr, AllRan).table
    /\ left' = left \cup {RouteOf(n)}
    /\ Forget(n)
    /\ UNCHANGED <<world, pc, cluster, own, at, got, faults>>

\* Slip: only the other node's record is looked at.
DelNodeOther(n) ==
    /\ pc = "del"
    /\ n \in todo
    /\ IF vtep[n] = NoVtep
       THEN Forget(n) /\ left' = left \cup {RouteOf(n)}
       ELSE todo' = todo \ {n} /\ UNCHANGED <<cache, flushed, left>>
    /\ UNCHANGED <<world, kernel, pc, cluster, own, at, got, faults>>

DelNode(n) ==
    /\ pc = "del"
    /\ n \in todo
    /\ \E v \in {vtep[n], NoVtep}, run1, run2, run3 \in Ran :
          /\ ~ own \/ v = NoVtep
          /\ \/ v = vtep[n] /\ Outcome(<<run1, run2, run3>>)
             \/ v # vtep[n] /\ AllWent(<<run1, run2, run3>>) /\ Fault("readFail")
          /\ routes' = DelRoute(routes, cache[n].info.cidr, v.addr, OHNOV, run1).table
          /\ neighs' = DelNeigh(neighs, v.addr, run2).table
          /\ fdbs' = DelFdb(fdbs, v.mac, cache[n].info.ip, run3).table
          /\ left' = IF v.addr = cache[n].vtep.addr /\ run1 = AllRan
                     THEN left ELSE left \cup {RouteOf(n)}
    /\ Forget(n)
    /\ UNCHANGED <<world, pc, cluster, own, at, got>>

-----------------------------------------------------------------------------
(* The rest of the cluster.                                                 *)

\* A node joins with a podCIDR that no present node has, or leaves.
Join(n) ==
    /\ api[n] = None
    /\ \E i \in InfoOf[n] :
          /\ \A m \in Other : api[m] # None => api[m].cidr # i.cidr
          /\ api' = [api EXCEPT ![n] = i]
    /\ UNCHANGED <<vtep, ownVtep, kernel, cache, local, flushed, left, faults>>

Leave(n) ==
    /\ api[n] # None
    /\ api' = [api EXCEPT ![n] = None]
    /\ UNCHANGED <<vtep, ownVtep, kernel, cache, local, flushed, left, faults>>

\* A plugin stores its node's VTEP, over the one that is there, or deletes it.
Record(n) ==
    /\ \E v \in (VtepOf[n] \cup {NoVtep}) \ {vtep[n]} : vtep' = [vtep EXCEPT ![n] = v]
    /\ UNCHANGED <<api, ownVtep, kernel, cache, local, flushed, left, faults>>

RecordOwn ==
    /\ ownVtep' = ~ ownVtep
    /\ UNCHANGED <<api, vtep, kernel, cache, local, flushed, left, faults>>

\* The kernel is asked to send to an address it has no MAC for.
Traffic ==
    /\ Fault("traffic")
    /\ \E r \in routes :
          /\ NeighsOf(neighs, r.via) = {}
          /\ neighs' = neighs \cup {Neigh(r.via, None)}
    /\ UNCHANGED <<world, routes, fdbs, cache, local, flushed, left>>

\* The plugin deletes the device with the node's last pod and makes it again
\* with the next.  A node in the middle of its addition suffers too.
Recreate ==
    /\ Fault("recreate")
    /\ routes' = {} /\ neighs' = {} /\ fdbs' = {}
    /\ flushed' = Cached \cup ({at} \ {None})
    /\ left' = {}
    /\ UNCHANGED <<world, cache, local>>

Restart ==
    /\ Fault("restart")
    /\ left' = routes
    /\ cache' = NoNodes /\ flushed' = {}
    /\ pc' = "sleep" /\ cluster' = NoNodes /\ own' = FALSE
    /\ todo' = {} /\ at' = None /\ got' = NoVtep
    /\ UNCHANGED <<world, kernel>>

-----------------------------------------------------------------------------

Step ==
    \/ Poll \/ ReadOwn \/ AddNodeNeigh \/ AddNodeFdb \/ AllVisited
    \/ \E n \in Other : Skip(n) \/ AddNodeRoute(n) \/ Keep(n) \/ DelNode(n)

Environment ==
    \/ \E n \in Other : Join(n) \/ Leave(n) \/ Record(n)
    \/ RecordOwn \/ Traffic \/ Recreate \/ Restart

Next == Step \/ Environment

Spec == Init /\ [][Next]_vars

\* The thread runs: it sleeps five seconds at a time.
FairSpec == Spec /\ WF_vars(Step)

-----------------------------------------------------------------------------
(* Properties.                                                              *)

\* Entries are made of the data and VTEPs of nodes.
KernelType ==
    /\ routes \cup left \subseteq {RouteTo(i, v) : i \in Info, v \in Vtep}
    /\ neighs \subseteq {Neigh(v.addr, mac) : v \in Vtep, mac \in {u.mac : u \in Vtep} \cup {None}}
    /\ fdbs \subseteq {FdbTo(i, v) : i \in Info, v \in Vtep}

RecordType ==
    /\ api \in [Other -> Info \cup {None}] /\ cluster \in [Other -> Info \cup {None}]
    /\ vtep \in [Other -> Vtep \cup {NoVtep}]
    /\ cache \in [Other -> Entry \cup {None}]
    /\ ownVtep \in BOOLEAN

\* Where the handler is, and for which node.
LoopType ==
    /\ pc \in {"sleep", "own", "add", "neigh", "fdb", "del"}
    /\ own \in BOOLEAN
    /\ todo \cup flushed \subseteq Other
    /\ at \in Other \cup {None}
    /\ got \in IF at = None THEN {NoVtep} ELSE Vtep
    /\ pc \in {"neigh", "fdb"} <=> at # None
    /\ (pc = "add" \/ at # None) /\ todo # {} => own

\* The types, and that only a node with a VTEP of its own adds others
\* (vxlan.cc:52-58).
TypeOK ==
    /\ KernelType
    /\ RecordType
    /\ LoopType
    /\ faults \in 0 .. MaxFaults

Installed(i, v) ==
    /\ RouteTo(i, v) \in routes
    /\ NeighsOf(neighs, v.addr) # {}
    /\ FdbTo(i, v) \in fdbs

\* Cached nodes that lost nothing and are not about to be erased for want of an own VTEP.
Settled == Cached \ (flushed \cup IF pc = "del" /\ ~ own THEN todo ELSE {})

\* The handler caches a node only with route, neighbour and forwarding entry
\* in place, and takes none of them away while the node stays cached, even if
\* another node has the same VTEP address: only a new device or the roll-back of
\* such a node's addition loses them, and then for good (vxlan.cc:62-90).
CachedIsInstalled == \A n \in Settled : Installed(cache[n].info, cache[n].vtep)

\* An addition that fails half-way leaves no route behind, and a deletion takes
\* the route with it, unless a command of the roll-back or deletion failed, the
\* daemon restarted or the record was not what the node was added with
\* (vxlan.cc:70-87, 110-125).
NoForgottenRoute ==
    routes \subseteq left \cup {RouteOf(n) : n \in Cached}
                     \cup IF at = None THEN {} ELSE {RouteTo(cluster[at], got)}

\* What was added with a record is deleted with that record: without a failing
\* command nothing of the node stays (vxlan.cc:110-125).
ErasedIsDeleted ==
    [][\A n \in Cached \ Cached' :
          (pc = "del" /\ pc' = "del" /\ vtep[n] = cache[n].vtep /\ faults' = faults)
              => /\ RouteOf(n) \notin routes'
                 /\ NeighsOf(neighs', cache[n].vtep.addr) = {}
                 /\ FdbTo(cache[n].info, cache[n].vtep) \notin fdbs']_vars

\* Node n is there with data i and VTEP v, and so is this node's VTEP.
Announced(n, i, v) == api[n] = i /\ vtep[n] = v /\ ownVtep

\* No other entry has the key of one of those.
KeysAreFree(i, v) ==
    /\ \A r \in routes : r.dest = i.cidr => r.via = v.addr
    /\ \A e \in fdbs : e.mac = v.mac => e.dst = i.ip

\* However many reads and commands fail before, a node that stays with data i and
\* VTEP v is installed in the end, with all its entries, unless the daemon still has
\* it in the cache with others or without its entries (vxlan.cc:49-98).
AnnouncedIsInstalled ==
    \A n \in Other : \A i \in InfoOf[n], v \in VtepOf[n] :
        <>[](/\ Announced(n, i, v) /\ KeysAreFree(i, v)
             /\ cache[n] \in {None, [info |-> i, vtep |-> v]} /\ n \notin flushed)
            => <>[](n \in Cached /\ Installed(i, v))

\* When this node's VTEP is gone for good, nothing stays cached
\* (vxlan.cc:100-133).
WithdrawnIsErased == <>[](~ ownVtep) => <>[](Cached = {})

\* addNeigh() "writes the entry into the system configuration" (nic.cc:326):
\* the neighbour of a cached node has the MAC the node was added with.
NeighIsRight ==
    \A n \in Settled : Neigh(cache[n].vtep.addr, cache[n].vtep.mac) \in neighs
=============================================================================
