-------------------------------- MODULE Ipam --------------------------------
(***************************************************************************)
(* IP address management (src/ipam/ipam.cc) as the plugin processes of the  *)
(* nodes use it at the same time.  A process works for one container; the   *)
(* root namespace of a node, whose address is the gateway, counts as one.   *)
(* Every operation is a sequence of etcdctl commands and of the client      *)
(* calls of EtcdClient; other processes run, and this one may disappear,    *)
(* between any two of them.                                                 *)
(*                                                                          *)
(* Keys: /ohno/subnets is SubnetsKey and /ohno/addresses/<node> is the node *)
(* itself (lists); /ohno/subnets/<node> is subnetOf[node] (one value).      *)
(* An address is the index generateIp() makes it from.                      *)
(***************************************************************************)
EXTENDS EtcdClient, Integers

CONSTANTS
    Node,        \* the cluster's nodes
    NodeOf,      \* NodeOf[p]: the node the container of p runs on
    Cidr,        \* Cidr[n]: the podCIDR the Kubernetes API gives node n
    MaxHosts,    \* getMaxHosts() of a node's subnet
    SubnetsKey

Addr   == 1 .. (MaxHosts - 2)
Subnet == {Cidr[n] : n \in Node}

ASSUME IpamAssumption ==
    /\ NodeOf \in [Proc -> Node]
    /\ MaxHosts \in Nat
    /\ Key = Node \cup {SubnetsKey}
    /\ SubnetsKey \notin Node
    /\ Item = Addr \cup Subnet

VARIABLES
    subnetOf,    \* subnetOf[n]: the value of /ohno/subnets/n, None if absent
    pc,          \* pc[p]: the operation p is in, and how far
    arg,         \* arg[p]: its candidate_ip or subnet
    held         \* held[p]: the address p's container uses

vars == <<list, call, subnetOf, pc, arg, held>>

PC == {"idle", "available", "addrAppend", "addrDel",
       "subnetAppend", "subnetPut", "nodeDel", "subnetDel"}

Init ==
    /\ list = [k \in Key |-> {}]
    /\ call = [p \in Proc |-> Idle]
    /\ subnetOf = [n \in Node |-> None]
    /\ pc = [p \in Proc |-> "idle"]
    /\ arg = [p \in Proc |-> None]
    /\ held = [p \in Proc |-> None]

\* The runtime starts a call for p: alone on its node unless calls of a node
\* overlap, alone in the cluster unless calls of different nodes do.
MayStart(p) ==
    /\ pc[p] = "idle"
    /\ \A q \in Proc : pc[q] # "idle" =>
          IF NodeOf[q] = NodeOf[p] THEN "overlap" \in Faults
                                   ELSE "nodes" \in Faults

Goto(p, where, what) ==
    /\ pc'  = [pc EXCEPT ![p] = where]
    /\ arg' = [arg EXCEPT ![p] = what]

Return(p) == Goto(p, "idle", None)

-----------------------------------------------------------------------------
(* allocateIp(): the first index that isIpAvailable() reports free and that *)
(* append() records is the result.                                          *)

\* Slip: the last usable address is never tried.
InRangeShort(i) == i < MaxHosts - 2

\* Slip: the broadcast address is tried too.
InRangeLong(i) == i < MaxHosts

InRange(i) == i < MaxHosts - 1

AllocateIp(p) ==
    /\ MayStart(p)
    /\ held[p] = None
    /\ subnetOf[NodeOf[p]] # None
    /\ InRange(1)
    /\ Goto(p, "available", 1)
    /\ UNCHANGED <<list, call, subnetOf, held>>

\* Slip: the loop does not move on.
NextCandidateSame(p) == Goto(p, "available", arg[p])

NextCandidate(p) ==
    IF InRange(arg[p] + 1) THEN Goto(p, "available", arg[p] + 1) ELSE Return(p)

\* Slip: the candidate never compares equal to an item.
IsIpAvailableAlways(p, outcome) == TRUE

\* The list cannot be read: the address is taken to be free.
IsIpAvailable(p, outcome) ==
    outcome = "ok" => arg[p] \notin list[NodeOf[p]]

TryCandidate(p) ==
    /\ pc[p] = "available"
    /\ \E outcome \in ReadOutcome :
          IF IsIpAvailable(p, outcome)
          THEN /\ StartAppend(p, NodeOf[p], arg[p])
               /\ Goto(p, "addrAppend", arg[p])
          ELSE /\ NextCandidate(p)
               /\ UNCHANGED call
    /\ UNCHANGED <<list, subnetOf, held>>

AppendIp(p) ==
    /\ pc[p] = "addrAppend"
    /\ \/ /\ \E outcome \in ReadOutcome : AppendGet(p, outcome)
          /\ UNCHANGED <<pc, arg, held>>
       \/ \E outcome \in WriteOutcome :
             /\ AppendPut(p, outcome)
             /\ IF outcome = "ok"
                THEN held' = [held EXCEPT ![p] = arg[p]] /\ Return(p)
                ELSE NextCandidate(p) /\ UNCHANGED held
    /\ UNCHANGED subnetOf

-----------------------------------------------------------------------------
(* releaseIp(): the caller has already taken the address off the interface. *)

ReleaseIp(p) ==
    /\ MayStart(p)
    /\ held[p] # None
    /\ StartDel(p, NodeOf[p], held[p])
    /\ Goto(p, "addrDel", None)
    /\ held' = [held EXCEPT ![p] = None]
    /\ UNCHANGED <<list, subnetOf>>

\* del(key, value) to its end; whether it succeeds, the operation is over.
DelItem(p) ==
    /\ \/ \E outcome \in ReadOutcome : DelList(p, outcome)
       \/ \E outcome \in WriteOutcome : DelPut(p, outcome)
    /\ IF call'[p].at = "idle" THEN Return(p) ELSE UNCHANGED <<pc, arg>>

RemoveIp(p) ==
    /\ pc[p] = "addrDel"
    /\ DelItem(p)
    /\ UNCHANGED <<subnetOf, held>>

-----------------------------------------------------------------------------
(* allocateSubnet(): append the node's podCIDR to the list of subnets, then *)
(* store it under the node; a failure of the second undoes the first.       *)

\* getSubnet() found nothing (or failed); a failing API gives an empty CIDR.
AllocateSubnet(p) ==
    /\ MayStart(p)
    /\ subnetOf[NodeOf[p]] = None \/ "readFail" \in Faults
    /\ \E cidr \in {Cidr[NodeOf[p]]} \cup
                   (IF "apiFail" \in Faults THEN {None} ELSE {}) :
          /\ StartAppend(p, SubnetsKey, cidr)
          /\ Goto(p, "subnetAppend", cidr)
    /\ UNCHANGED <<list, subnetOf, held>>

AppendSubnet(p) ==
    /\ pc[p] = "subnetAppend"
    /\ \/ /\ \E outcome \in ReadOutcome : AppendGet(p, outcome)
          /\ UNCHANGED <<pc, arg>>
       \/ \E outcome \in WriteOutcome :
             /\ AppendPut(p, outcome)
             /\ IF outcome = "ok" THEN Goto(p, "subnetPut", arg[p])
                                  ELSE Return(p)
    /\ UNCHANGED <<subnetOf, held>>

PutNodeSubnet(p) ==
    /\ pc[p] = "subnetPut"
    /\ \E outcome \in WriteOutcome :
          /\ subnetOf' = Written(subnetOf, NodeOf[p], arg[p], outcome)
          /\ IF outcome = "ok"
             THEN Return(p) /\ UNCHANGED call
             ELSE /\ StartDel(p, SubnetsKey, arg[p])
                  /\ Goto(p, "subnetDel", None)
    /\ UNCHANGED <<list, held>>

-----------------------------------------------------------------------------
(* releaseSubnet(): delete the node's key, then take the subnet out of the   *)
(* list.  It has no condition of its own: the DEL that calls it passes the   *)
(* subnet it read when it started (when it does is a matter of Cni).         *)

ReleaseSubnet(p) ==
    /\ MayStart(p)
    /\ subnetOf[NodeOf[p]] # None
    /\ Goto(p, "nodeDel", subnetOf[NodeOf[p]])
    /\ UNCHANGED <<list, call, subnetOf, held>>

\* Slip: the list is cleaned although the node's key could not be deleted.
DelNodeSubnetAnyway(p) ==
    /\ pc[p] = "nodeDel"
    /\ \E outcome \in WriteOutcome :
          subnetOf' = Written(subnetOf, NodeOf[p], None, outcome)
    /\ StartDel(p, SubnetsKey, arg[p])
    /\ Goto(p, "subnetDel", None)
    /\ UNCHANGED <<list, held>>

DelNodeSubnet(p) ==
    /\ pc[p] = "nodeDel"
    /\ \E outcome \in WriteOutcome :
          /\ subnetOf' = Written(subnetOf, NodeOf[p], None, outcome)
          /\ IF outcome = "ok"
             THEN /\ StartDel(p, SubnetsKey, arg[p])
                  /\ Goto(p, "subnetDel", None)
             ELSE Return(p) /\ UNCHANGED call
    /\ UNCHANGED <<list, held>>

RemoveSubnet(p) ==
    /\ pc[p] = "subnetDel"
    /\ DelItem(p)
    /\ UNCHANGED <<subnetOf, held>>

-----------------------------------------------------------------------------
(* A process disappears in the middle of an operation, or a container goes  *)
(* away without a releaseIp() (its ADD failed after allocateIp(), or its DEL *)
(* gave up): cni.cc does not undo what was done.                            *)

Crash(p) ==
    /\ "crash" \in Faults
    /\ pc[p] # "idle"
    /\ Return(p)
    /\ call' = [call EXCEPT ![p] = Idle]
    /\ UNCHANGED <<list, subnetOf, held>>

Vanish(p) ==
    /\ "crash" \in Faults
    /\ pc[p] = "idle"
    /\ held[p] # None
    /\ held' = [held EXCEPT ![p] = None]
    /\ UNCHANGED <<list, call, subnetOf, pc, arg>>

-----------------------------------------------------------------------------

Start(p) == AllocateIp(p) \/ ReleaseIp(p) \/ AllocateSubnet(p) \/ ReleaseSubnet(p)

Step(p) ==
    \/ TryCandidate(p) \/ AppendIp(p) \/ RemoveIp(p)
    \/ AppendSubnet(p) \/ PutNodeSubnet(p) \/ DelNodeSubnet(p) \/ RemoveSubnet(p)

Next == \E p \in Proc : Start(p) \/ Step(p) \/ Crash(p) \/ Vanish(p)

Spec == Init /\ [][Next]_vars

\* A process that runs is scheduled until its operation returns.
FairSpec == Spec /\ \A p \in Proc : WF_vars(Step(p))

-----------------------------------------------------------------------------
(* Properties.                                                              *)

TypeOK ==
    /\ EtcdTypeOK
    /\ subnetOf \in [Node -> Subnet \cup {None}]
    /\ pc \in [Proc -> PC]
    /\ arg \in [Proc -> Item \cup {None}]
    /\ held \in [Proc -> Addr \cup {None}]

SameNode(p, q) == NodeOf[p] = NodeOf[q]

\* allocateIp() never gives two containers of a node one address, whichever
\* writes fail or lose their answer and wherever processes crash
\* (ipam.cc:134, 173, 215).
UniqueHolder ==
    \A p, q \in Proc :
        (p # q /\ SameNode(p, q) /\ held[p] # None) => held[p] # held[q]

\* The address of a running container is recorded in etcd, so that a later
\* allocateIp() on any process sees it (append, ipam.cc:153).
HeldIsRecorded ==
    \A p \in Proc : held[p] # None => held[p] \in list[NodeOf[p]]

\* A node's subnet is in the list of all subnets: both allocateSubnet(), which
\* writes the list first, and releaseSubnet(), which writes it last, keep to
\* that order also when they fail half-way (ipam.cc:62-67, 87-95).
SubnetIsListed ==
    \A n \in Node : subnetOf[n] # None => subnetOf[n] \in list[SubnetsKey]

\* Without failures nothing leaks: when no call runs on a node, the addresses
\* recorded for it are those its containers use (ipam.cc:153, 179).
NoLeak ==
    \A n \in Node :
        LET here == {p \in Proc : NodeOf[p] = n}
        IN  (\A p \in here : pc[p] = "idle")
                => list[n] = {held[p] : p \in here} \ {None}

\* An allocateIp() that finds no address is right: when it gives up, every
\* address of the subnet is recorded, those included whose append() was reported
\* failed but made, and those that a killed process left (ipam.cc:147-162).
GivesUpOnlyWhenFull ==
    [][\A p \in Proc :
          (Step(p) /\ pc[p] \in {"available", "addrAppend"}
              /\ pc'[p] = "idle" /\ held'[p] = None)
              => Addr \subseteq list'[NodeOf[p]]]_vars

\* Every operation comes to its end: the candidate loop and the two-command
\* calls return however many commands fail (ipam.cc:148).
CallReturns == \A p \in Proc : pc[p] # "idle" ~> pc[p] = "idle"

\* The address pools of the cluster: Ipam implements them.
Pool == INSTANCE AddressPool WITH used <- [n \in Node |-> list[n]]

\* Every operation, with its several commands, looks like one step of a pool
\* that grants free addresses only and takes back unused ones only.
ImplementsPool == Pool!Spec
=============================================================================
