------------------------------- MODULE HostGw -------------------------------
(***************************************************************************)
(* The worker thread of ohnod in host-gw mode (src/backend/host_gw.cc, on   *)
(* src/backend/backend.cc): it polls the Kubernetes API and etcd and keeps  *)
(* a static route to the podCIDR of every other node.  Every read of etcd   *)
(* and every call of the Nic object is a step; nodes, records, and the      *)
(* daemon itself come and go between any two of them.                       *)
(***************************************************************************)
EXTENDS Netlink, FiniteSets, Naturals

CONSTANTS
    Other,       \* the names of the other nodes
    Self,        \* the node of this daemon
    InfoOf,      \* InfoOf[n]: what the API may say of node n
    Faults,      \* what may go wrong, a subset of FaultKinds
    MaxFaults    \* how often: bound of the runs

Info == UNION {InfoOf[n] : n \in Other}

(***************************************************************************)
(* apiFail: the API does not answer; readFail: a read of etcd fails;        *)
(* showFail, setFail: the first or second command of a Nic call fails;      *)
(* restart: the daemon restarts; reboot: the node does.                     *)
(***************************************************************************)
FaultKinds == {"apiFail", "readFail", "showFail", "setFail", "restart", "reboot"}

\* No two nodes have an address in common; a podCIDR is given to another node
\* when its node is gone.
ASSUME HostGwAssumption ==
    /\ Self \notin Other
    /\ InfoOf \in [Other -> SUBSET Info]
    /\ None \notin Info
    /\ \A i \in Info : None \notin {i.cidr, i.ip}
    /\ \A m, n \in Other : m # n =>
          \A i \in InfoOf[m], j \in InfoOf[n] : i.ip # j.ip
    /\ Faults \subseteq FaultKinds
    /\ MaxFaults \in Nat

VARIABLES
    api,        \* api[n]: what the API says of node n, None if it is gone
    recorded,   \* the nodes with a subnet in etcd
    routes,     \* the kernel's routes
    cache,      \* node_cache_
    pc,         \* where eventHandler() is
    cluster,    \* its snapshot of the API
    own,        \* whether it found a subnet of this node
    todo,       \* the nodes its present loop has still to visit
    left,       \* the routes that a restart or a failed show forgot
    faults      \* faults so far

world  == <<api, recorded>>
worker == <<routes, cache, pc, cluster, own, todo, left>>
vars   == <<world, worker, faults>>

NoNodes == [n \in Other |-> None]

Cached == {n \in Other : cache[n] # None}

Init ==
    /\ api = NoNodes
    /\ recorded = {}
    /\ routes = {}
    /\ cache = NoNodes
    /\ pc = "sleep"
    /\ cluster = NoNodes
    /\ own = FALSE
    /\ todo = {}
    /\ left = {}
    /\ faults = 0

Fault(kind) ==
    /\ kind \in Faults
    /\ faults < MaxFaults
    /\ faults' = faults + 1

\* How the two commands of a Nic call end.
Outcome(ran) ==
    \/ ran = AllRan /\ UNCHANGED faults
    \/ ran = [AllRan EXCEPT !.show = FALSE] /\ Fault("showFail")
    \/ ran = [AllRan EXCEPT !.set = FALSE] /\ Fault("setFail")

\* getSubnet(n) as it answers: whether there is one.
GetSubnet(n, found) ==
    \/ found = (n \in recorded) /\ UNCHANGED faults
    \/ found = FALSE /\ Fault("readFail")

\* The route a cached node stands for.
RouteTo(i) == Route(i.cidr, i.ip, None)

-----------------------------------------------------------------------------
(* eventHandler().                                                          *)

\* getKubernetesData(); no answer looks like an empty cluster.
Poll ==
    /\ pc = "sleep"
    /\ \/ cluster' = api /\ UNCHANGED faults
       \/ cluster' = NoNodes /\ Fault("apiFail")
    /\ pc' = "own"
    /\ UNCHANGED <<world, routes, cache, own, todo, left>>

\* Slip: the node does not skip itself.
ReadOwnToo ==
    /\ pc = "own"
    /\ GetSubnet(Self, own')
    /\ todo' = IF own' THEN {n \in Other : cluster[n] # None} \cup {Self} ELSE {}
    /\ pc' = "add"
    /\ UNCHANGED <<world, routes, cache, cluster, left>>

\* Without a subnet of its own the node adds nothing.
ReadOwn ==
    /\ pc = "own"
    /\ GetSubnet(Self, own')
    /\ todo' = IF own' THEN {n \in Other : cluster[n] # None} ELSE {}
    /\ pc' = "add"
    /\ UNCHANGED <<world, routes, cache, cluster, left>>

\* Slip: the node is cached although its route could not be added.
AddNodeAnyway(n) ==
    /\ pc = "add"
    /\ n \in todo
    /\ todo' = todo \ {n}
    /\ IF n \in recorded /\ cache[n] = None
       THEN \E ran \in Ran :
              /\ Outcome(ran)
              /\ routes' = AddRoute(routes, cluster[n].cidr, cluster[n].ip, None, ran).table
              /\ cache' = [cache EXCEPT ![n] = cluster[n]]
       ELSE UNCHANGED <<routes, cache, faults>>
    /\ UNCHANGED <<world, pc, cluster, own, left>>

AddNode(n) ==
    /\ pc = "add"
    /\ n \in todo
    /\ todo' = todo \ {n}
    /\ \/ /\ GetSubnet(n, FALSE) \/ (GetSubnet(n, TRUE) /\ cache[n] # None)
          /\ UNCHANGED <<routes, cache>>
       \/ /\ n \in recorded
          /\ cache[n] = None
          /\ \E ran \in Ran :
                LET added == AddRoute(routes, cluster[n].cidr, cluster[n].ip, None, ran)
                IN  /\ Outcome(ran)
                    /\ routes' = added.table
                    /\ cache' = IF added.ok THEN [cache EXCEPT ![n] = cluster[n]] ELSE cache
    /\ UNCHANGED <<world, pc, cluster, own, left>>

AllVisited ==
    /\ todo = {}
    /\ \/ pc = "add" /\ pc' = "del" /\ todo' = Cached
       \/ pc = "del" /\ pc' = "sleep" /\ UNCHANGED todo
    /\ UNCHANGED <<world, routes, cache, cluster, own, left, faults>>

\* Slip: the node is forgotten although its route could not be deleted.
DelNodeAnyway(n) ==
    /\ pc = "del"
    /\ n \in todo
    /\ todo' = todo \ {n}
    /\ IF own /\ n \in recorded
       THEN UNCHANGED <<routes, cache, left, faults>>
       ELSE \E ran \in Ran :
              /\ Outcome(ran)
              /\ routes' = DelRoute(routes, cache[n].cidr, cache[n].ip, None, ran).table
              /\ cache' = [cache EXCEPT ![n] = None]
              /\ left' = IF ran.show THEN left ELSE left \cup {RouteTo(cache[n])}
    /\ UNCHANGED <<world, pc, cluster, own>>

\* Slip: only a node that is gone is looked at, not the own one.
DelNodeOther(n) ==
    /\ pc = "del"
    /\ n \in todo
    /\ todo' = todo \ {n}
    /\ \/ GetSubnet(n, TRUE) /\ UNCHANGED <<routes, cache, left>>
       \/ /\ n \notin recorded
          /\ routes' = DelRoute(routes, cache[n].cidr, cache[n].ip, None, AllRan).table
          /\ cache' = [cache EXCEPT ![n] = None]
          /\ UNCHANGED <<left, faults>>
    /\ UNCHANGED <<world, pc, cluster, own>>

\* One fault per step: a read that fails is followed by commands that work.
DelNode(n) ==
    /\ pc = "del"
    /\ n \in todo
    /\ todo' = todo \ {n}
    /\ \/ own /\ GetSubnet(n, TRUE) /\ UNCHANGED <<routes, cache, left>>
       \/ \E ran \in Ran :
             LET deleted == DelRoute(routes, cache[n].cidr, cache[n].ip, None, ran)
             IN  /\ \/ (n \notin recorded \/ ~ own) /\ Outcome(ran)
                    \/ ran = AllRan /\ GetSubnet(n, FALSE)
                 /\ routes' = deleted.table
                 /\ cache' = IF deleted.ok THEN [cache EXCEPT ![n] = None] ELSE cache
                 /\ left' = IF ran.show THEN left ELSE left \cup {RouteTo(cache[n])}
    /\ UNCHANGED <<world, pc, cluster, own>>

-----------------------------------------------------------------------------
(* The rest of the cluster.                                                 *)

\* A node joins with a podCIDR that no present node has, or leaves.
Join(n) ==
    /\ api[n] = None
    /\ \E i \in InfoOf[n] :
          /\ \A m \in Other : api[m] # None => api[m].cidr # i.cidr
          /\ api' = [api EXCEPT ![n] = i]
    /\ UNCHANGED <<recorded, worker, faults>>

Leave(n) ==
    /\ api[n] # None
    /\ api' = [api EXCEPT ![n] = None]
    /\ UNCHANGED <<recorded, worker, faults>>

\* The plugin of node n allocates or releases its subnet.
Record(n) ==
    /\ recorded' = IF n \in recorded THEN recorded \ {n} ELSE recorded \cup {n}
    /\ UNCHANGED <<api, worker, faults>>

\* The daemon loses its memory, or the kernel its routes as well.
Restart ==
    /\ \/ Fault("restart") /\ UNCHANGED routes /\ left' = left \cup routes
       \/ Fault("reboot") /\ routes' = {} /\ left' = {}
    /\ cache' = NoNodes
    /\ pc' = "sleep"
    /\ cluster' = NoNodes
    /\ own' = FALSE
    /\ todo' = {}
    /\ UNCHANGED world

-----------------------------------------------------------------------------

Step == Poll \/ ReadOwn \/ AllVisited \/ \E n \in Other : AddNode(n) \/ DelNode(n)

Environment ==
    \/ \E n \in Other : Join(n) \/ Leave(n)
    \/ \E n \in Other \cup {Self} : Record(n)
    \/ Restart

Next == Step \/ Environment

Spec == Init /\ [][Next]_vars

\* The thread runs: it sleeps five seconds at a time.
FairSpec == Spec /\ WF_vars(Step)

-----------------------------------------------------------------------------
(* Properties.                                                              *)

TypeOK ==
    /\ api \in [Other -> Info \cup {None}]
    /\ recorded \subseteq Other \cup {Self}
    /\ routes \subseteq {RouteTo(i) : i \in Info}
    /\ left \subseteq {RouteTo(i) : i \in Info}
    /\ cache \in [Other -> Info \cup {None}]
    /\ cluster \in [Other -> Info \cup {None}]
    /\ pc \in {"sleep", "own", "add", "del"}
    /\ own \in BOOLEAN
    /\ todo \subseteq Other
    /\ faults \in 0 .. MaxFaults

\* A node in the cache has its route in the kernel: the handler never looks
\* at a cached node again, so nothing else would put the route back
\* (host_gw.cc:58-69, 81-91).
CachedIsRouted == \A n \in Cached : RouteTo(cache[n]) \in routes

\* The handler can still delete every route it added, but for those it left
\* behind in a restart or when `ip route show` failed (host_gw.cc:82-86).
RoutesAreKnown ==
    routes \subseteq left \cup {RouteTo(cache[n]) : n \in Cached}

\* Traffic for a pod is never sent to two nodes, or to a node other than the
\* one cached, even when its podCIDR moves to another node.
CachedCidrsDiffer ==
    \A m, n \in Cached : m # n => cache[m].cidr # cache[n].cidr

Announced(n) == api[n] # None /\ n \in recorded /\ Self \in recorded

\* No route of another node is in the way of n's.
CidrIsFree(n) == \A r \in routes : r.dest = api[n].cidr => r.via = api[n].ip

\* However many polls, reads and commands fail before, a node that stays with data
\* i gets its route, and is remembered with it, unless the daemon still has it in
\* the cache with other data (host_gw.cc:51-69).
AnnouncedIsRouted ==
    \A n \in Other : \A i \in InfoOf[n] :
        <>[](/\ api[n] = i /\ Announced(n) /\ CidrIsFree(n)
             /\ cache[n] \in {None, i})
            => <>[](cache[n] = i /\ RouteTo(i) \in routes)

\* When this node has no subnet any more, or the other one, its route goes,
\* even if deleting it fails at first (host_gw.cc:77-92).
WithdrawnIsRemoved ==
    \A n \in Other :
        /\ <>[](Self \notin recorded) => <>[](n \notin Cached /\ routes \subseteq left)
        /\ <>[](n \notin recorded) => <>[](n \notin Cached)

\* The DaemonSet "is responsible for the communication between the nodes, by
\* host-gw static routes" (README): a node that stays has its route in the end,
\* also when its data have changed, unless another node's route is in the way;
\* and without a subnet here "all static routes are to be deleted" (host_gw.cc:78),
\* also those of a daemon before this one.
RoutesFollow ==
    /\ \A n \in Other : \A i \in InfoOf[n] :
          <>[](/\ api[n] = i /\ Announced(n)
               /\ \A r \in routes : r.dest = i.cidr => \E j \in InfoOf[n] : r.via = j.ip)
              => <>[](RouteTo(i) \in routes)
    /\ <>[](Self \notin recorded) => <>[](routes = {})
=============================================================================
