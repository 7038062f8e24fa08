--------------------------------- MODULE Cni ---------------------------------
(***************************************************************************)
(* The ADD and DEL of the CNI plugin (src/cni/cni.cc) on one node, command  *)
(* by command: every write of src/cni/storage.cc and src/ipam/ipam.cc, and  *)
(* every `ip` command that matters, is a step.  Calls of the node run one   *)
(* after the other; a write may fail, a process may be killed, a namespace  *)
(* may disappear and the node may reboot between any two steps, and the     *)
(* runtime calls again.  The build is a release build: an assertion that    *)
(* fails is only printed.                                                   *)
(*                                                                          *)
(* A pod is a container or HOST, the root namespace of the node.  Every     *)
(* container has one namespace; its interface is "eth0".  The node's own    *)
(* interfaces have other names than the container's.                        *)
(***************************************************************************)
EXTENDS Integers, FiniteSets

CONSTANTS
    Container,   \* container ids
    HOST,
    None,
    MaxAddr,     \* allocateIp() hands out 1 .. MaxAddr
    Vxlan,       \* TRUE when ipam.mode is vxlan
    Faults,      \* what may go wrong, a subset of FaultKinds
    MaxFaults    \* how often: bound of the runs

Addr == 1 .. MaxAddr
Pod  == Container \cup {HOST}
Nic  == {"eth0", "bridge", "vxlan", "underlay"}

(***************************************************************************)
(* writeFail: an etcdctl write fails; ackLost: it fails although etcd       *)
(* committed it; crash: the plugin process is killed; reboot: the node      *)
(* restarts, etcd does not; nsGone: the namespace of a container disappears *)
(* before its DEL has returned; noApi, noEtcd: a plugin process cannot      *)
(* reach the API server, or etcd, when it starts; badConf: it finds no      *)
(* configuration it can use; ipFail: an `ip` command that makes a device or *)
(* gives it its address, or the like, fails; delFail: one that deletes an   *)
(* interface does.                                                          *)
(***************************************************************************)
FaultKinds == {"writeFail", "ackLost", "crash", "reboot", "nsGone", "noApi", "noEtcd",
               "badConf", "ipFail", "delFail"}

ASSUME CniAssumption ==
    /\ HOST \notin Container
    /\ MaxAddr \in Nat
    /\ None \notin Addr \cup Pod
    /\ Vxlan \in BOOLEAN
    /\ Faults \subseteq FaultKinds
    /\ MaxFaults \in Nat

VARIABLES
    db,       \* what etcd holds for the node
    dev,      \* dev[p]: where the veth of container p, or the bridge, is
    on,       \* on[p]: the addresses that device has
    nsUp,     \* the containers whose namespace exists
    phase,    \* phase[c]: how the runtime's calls for container c went
    call,     \* the call in progress
    faults    \* faults so far

kernel == <<dev, on, nsUp>>
vars   == <<db, kernel, phase, call, faults>>

(***************************************************************************)
(* subnet: /ohno/subnets/<node> exists; used: /ohno/addresses/<node>; under *)
(* /ohno/node/<node>: pods, the list of pods; podKey, the pods stored under *)
(* their namespace; netns, the pods whose namespace is stored; nics, addr   *)
(* (of eth0, or of the bridge; one, as addAddr() finds none) and route of   *)
(* each; vtep.                                                              *)
(***************************************************************************)
\* "root": in the root namespace; "temp": in the container's namespace, still
\* under its temporary name; "ns": in that namespace under its own name.
Place == {"none", "root", "temp", "ns"}

DbType == [subnet : BOOLEAN, used : SUBSET Addr, pods : SUBSET Pod,
           podKey : SUBSET Pod, netns : SUBSET Pod,
           nics : [Pod -> SUBSET Nic], addr : [Pod -> Addr \cup {None}],
           route : SUBSET Pod, vtep : BOOLEAN]

EmptyDb == [subnet |-> FALSE, used |-> {}, pods |-> {}, podKey |-> {}, netns |-> {},
            nics |-> [p \in Pod |-> {}], addr |-> [p \in Pod |-> None],
            route |-> {}, vtep |-> FALSE]

InitPC == {"subnet", "gateway", "nicBridge", "setupBridge", "setAddrBridge", "addrBridge",
           "nicVxlan", "vtep", "nicUnderlay", "netnsHost", "podKeyHost", "podListHost"}
AddPC  == {"podKey", "podList", "netns", "nic", "veth", "setNetns", "rename", "plug",
           "allocate", "setAddr", "addr", "route"}
DelPC  == {"cleanup", "releaseIp", "delAddr", "delRoute", "delNic", "delVtep",
           "delNetns", "delPodKey", "delPodList", "releaseSubnet"}
PC     == {"idle", "return"} \cup InitPC \cup AddPC \cup DelPC

(***************************************************************************)
(* pc: the next step; c: the container; pod, nic: what DEL is deleting;     *)
(* addr: the address allocated or to be released; tried: the last candidate *)
(* whose append failed.  What the process concluded from storage when it    *)
(* started: root, the root namespace and the bridge are there; gw, so is    *)
(* the gateway's address; bridge, the address the restored bridge object    *)
(* has; last, this DEL leaves one namespace.  found: the pod's key was      *)
(* there when delPod() read it.                                             *)
(***************************************************************************)
NoCall == [pc |-> "idle", c |-> None, pod |-> None, nic |-> "eth0", addr |-> None,
           tried |-> 0, root |-> FALSE, gw |-> FALSE, bridge |-> None, last |-> FALSE,
           found |-> FALSE]

CallType == [pc : PC \ {"return"}, c : Container \cup {None}, pod : Pod \cup {None},
             nic : Nic, addr : Addr \cup {None}, tried : Addr \cup {0}, root : BOOLEAN,
             gw : BOOLEAN, bridge : Addr \cup {None}, last : BOOLEAN, found : BOOLEAN]

Init ==
    /\ db = EmptyDb
    /\ dev = [p \in Pod |-> "none"]
    /\ on = [p \in Pod |-> {}]
    /\ nsUp = Container
    /\ phase = [c \in Container |-> "new"]
    /\ call = NoCall
    /\ faults = 0

-----------------------------------------------------------------------------
(* How a step ends.                                                         *)

Fault(kind) ==
    /\ kind \in Faults
    /\ faults < MaxFaults
    /\ faults' = faults + 1

\* The call ends; what it was for c is `result` if it was an ADD.
End(result) ==
    /\ call' = NoCall
    /\ phase' = [c \in Container |->
                   IF c = call.c /\ phase[c] # "gone" THEN result ELSE phase[c]]

\* An ADD that does not return leaves its container failed; DEL says nothing.
Throw == End("failed")

\* A container whose namespace is gone is not up, whatever ADD returned.
Return == End(IF call.c \in nsUp THEN "added" ELSE "failed")

Continue(next) ==
    IF next.pc = "return" THEN Return ELSE call' = next /\ UNCHANGED phase

To(pc) == [call EXCEPT !.pc = pc]

\* One etcdctl write at step `here` that leaves etcd as d; a failure throws.
Write(here, d, next) ==
    /\ call.pc = here
    /\ \/ db' = d /\ Continue(next) /\ UNCHANGED faults
       \/ Fault("writeFail") /\ Throw /\ UNCHANGED db
       \/ Fault("ackLost") /\ db' = d /\ Throw
    /\ UNCHANGED kernel

\* The same when a failure is only logged.
WriteAnyway(here, d, next) ==
    /\ call.pc = here
    /\ \/ db' = d /\ UNCHANGED faults
       \/ Fault("writeFail") /\ UNCHANGED db
       \/ Fault("ackLost") /\ db' = d
    /\ Continue(next)
    /\ UNCHANGED kernel

IpFails == Fault("ipFail")

-----------------------------------------------------------------------------
(* The records of storage.cc.                                               *)

PutPodKey(pod, here, there) ==
    Write(here, [db EXCEPT !.podKey = @ \cup {pod}], To(there))

AppendPod(pod, here, there) ==
    Write(here, [db EXCEPT !.pods = @ \cup {pod}], To(there))

\* Slip: a failed addNetns() is only logged.
AddNetnsAnyway(pod, here, there) ==
    WriteAnyway(here, [db EXCEPT !.netns = @ \cup {pod}], To(there))

AddNetns(pod, here, there) ==
    Write(here, [db EXCEPT !.netns = @ \cup {pod}], To(there))

AddNic(pod, nic, here, there) ==
    Write(here, [db EXCEPT !.nics[pod] = @ \cup {nic}], To(there))

\* Slip: a failed addAddr() is only logged.
AddAddrAnyway(pod, here, there) ==
    WriteAnyway(here, [db EXCEPT !.addr[pod] = call.addr], To(there))

AddAddr(pod, here, there) ==
    Write(here, [db EXCEPT !.addr[pod] = call.addr], To(there))

AddVtep(here, there) ==
    Write(here, [db EXCEPT !.vtep = TRUE], To(there))

-----------------------------------------------------------------------------
(* The IPAM, which Ipam models command by command.                          *)

AllocateSubnet ==
    Write("subnet", [db EXCEPT !.subnet = TRUE], To("gateway"))

\* Slip: the list of addresses is not looked at.
CandidateAny == {a \in Addr : a > call.tried}

\* Slip: the loop goes one address too far.
CandidateLong == {a \in (1 .. MaxAddr + 1) \ db.used : a > call.tried}

Candidate == {a \in Addr \ db.used : a > call.tried}

AllocateIp(here, there) ==
    /\ call.pc = here
    /\ \/ Candidate = {} /\ Throw /\ UNCHANGED <<db, faults>>
       \/ \E a \in Candidate :
             /\ \A b \in Candidate : a <= b
             /\ \/ /\ db' = [db EXCEPT !.used = @ \cup {a}]
                   /\ call' = [call EXCEPT !.pc = there, !.addr = a, !.tried = 0]
                   /\ UNCHANGED faults
                \/ /\ Fault("writeFail")
                   /\ call' = [call EXCEPT !.tried = a]
                   /\ UNCHANGED db
                \/ /\ Fault("ackLost")
                   /\ db' = [db EXCEPT !.used = @ \cup {a}]
                   /\ call' = [call EXCEPT !.tried = a]
             /\ UNCHANGED phase
    /\ UNCHANGED kernel

\* Slip: nothing is released.
ReleaseIpNever == WriteAnyway("releaseIp", db, To("delAddr"))

ReleaseIp ==
    WriteAnyway("releaseIp", [db EXCEPT !.used = @ \ {call.addr}], To("delAddr"))

ReleaseSubnet ==
    WriteAnyway("releaseSubnet", [db EXCEPT !.subnet = FALSE], To("return"))

-----------------------------------------------------------------------------
(* getKubernetesCluster(): a process first restores every device it finds   *)
(* in storage.  The bridge is created again if it is gone; a veth that is   *)
(* not in its namespace cannot be given its address.                        *)

Main(p) == IF p = HOST THEN "bridge" ELSE "eth0"

Stored(p) == db.subnet /\ p \in db.pods /\ Main(p) \in db.nics[p]

Placed(p) == p = HOST \/ dev[p] = "ns"

GetAllAddrs(p) == {db.addr[p]} \ {None}

\* The addresses device p has when those in `as` are given to it.
SetEntry(p, as) == on[p] \cup as

\* The address of one device cannot be set (or none): `lost` is its pod.
Lose(lost) ==
    \/ lost = None /\ UNCHANGED faults
    \/ lost \in {p \in Pod : Stored(p) /\ Placed(p) /\ GetAllAddrs(p) # {}} /\ IpFails

Restore(lost) ==
    /\ dev' = [p \in Pod |-> IF p = HOST /\ Stored(p) THEN "root" ELSE dev[p]]
    /\ on' = [p \in Pod |-> IF Stored(p) /\ Placed(p) /\ p # lost
                            THEN SetEntry(p, GetAllAddrs(p))
                            ELSE on[p]]
    /\ UNCHANGED nsUp

\* Slip: a repeated ADD sets the interface up again.
GetKubernetesNicNever(c) == FALSE

\* The interface that the process finds for c in the cluster it restored.
GetKubernetesNic(c) == Stored(c)

\* The process notes the gateway before it gives the bridge that address.
KnowsGateway == Stored(HOST) /\ GetAllAddrs(HOST) # {}

\* The address a restored interface object has, None if it could not be given it.
GetAddr(p, lost) == IF Stored(p) /\ Placed(p) /\ p # lost THEN db.addr[p] ELSE None

\* The interface of container c is in its namespace, under its name.
IsExist(c) == dev[c] = "ns"

-----------------------------------------------------------------------------
(* ADD.                                                                     *)

\* The first ADD of a node also allocates its subnet and sets up its root
\* namespace, with the bridge that has the gateway's address.
StartAdd(c) ==
    /\ call = NoCall
    /\ c \in nsUp
    /\ phase[c] \in {"new", "failed", "added"}
    /\ ~ GetKubernetesNic(c)
    /\ \E lost \in Pod \cup {None} : Lose(lost) /\ Restore(lost)
    /\ call' = [NoCall EXCEPT !.pc = IF db.subnet THEN "podKey" ELSE "subnet", !.c = c,
                              !.root = ~ db.subnet \/ Stored(HOST),
                              !.gw = ~ db.subnet \/ KnowsGateway]
    /\ UNCHANGED <<db, phase>>

\* The interface is already stored: it must have its address.
AddAgain(c) ==
    /\ call = NoCall
    /\ c \in nsUp
    /\ phase[c] \in {"new", "failed", "added"}
    /\ GetKubernetesNic(c)
    /\ \E lost \in Pod \cup {None} :
          /\ Lose(lost)
          /\ Restore(lost)
          /\ phase' = [phase EXCEPT ![c] =
                         IF GetAddr(c, lost) # None /\ IsExist(c) /\ KnowsGateway
                         THEN "added" ELSE "failed"]
    /\ UNCHANGED <<db, call>>

\* The bridge device ...
SetupBridge ==
    /\ call.pc = "setupBridge"
    /\ \/ /\ dev' = [dev EXCEPT ![HOST] = "root"]
          /\ call' = To("setAddrBridge")
          /\ UNCHANGED <<phase, faults>>
       \/ IpFails /\ Throw /\ UNCHANGED dev
    /\ UNCHANGED <<db, on, nsUp>>

AfterBridge == IF Vxlan THEN "nicVxlan" ELSE "nicUnderlay"

\* ... and its address: when it cannot be set it is not stored, and ADD goes on.
SetBridgeAddr ==
    /\ call.pc = "setAddrBridge"
    /\ \/ /\ on' = [on EXCEPT ![HOST] = SetEntry(HOST, {call.addr})]
          /\ call' = To("addrBridge")
          /\ UNCHANGED faults
       \/ IpFails /\ call' = To(AfterBridge) /\ UNCHANGED on
    /\ UNCHANGED <<db, dev, nsUp, phase>>

\* Both ends are new in the root namespace: a veth of an earlier attempt would
\* be in the way, but then the interface is stored and ADD does not come here.
SetupVeth ==
    /\ call.pc = "veth"
    /\ \/ /\ dev' = [dev EXCEPT ![call.c] = "root"]
          /\ call' = To("setNetns")
          /\ UNCHANGED <<phase, faults>>
       \/ IpFails /\ Throw /\ UNCHANGED dev
    /\ UNCHANGED <<db, on, nsUp>>

SetNetns ==
    /\ call.pc = "setNetns"
    /\ \/ /\ call.c \in nsUp
          /\ dev' = [dev EXCEPT ![call.c] = "temp"]
          /\ Continue(To("rename"))
          /\ UNCHANGED faults
       \/ call.c \notin nsUp /\ Throw /\ UNCHANGED <<dev, faults>>
       \/ IpFails /\ Throw /\ UNCHANGED dev
    /\ UNCHANGED <<db, on, nsUp>>

\* Nobody looks at the result: the interface may keep its temporary name.
Rename ==
    /\ call.pc = "rename"
    /\ \/ /\ dev' = [dev EXCEPT ![call.c] = IF @ = "temp" THEN "ns" ELSE @]
          /\ UNCHANGED faults
       \/ IpFails /\ UNCHANGED dev
    /\ call' = To("plug")
    /\ UNCHANGED <<db, on, nsUp, phase>>

\* The peer of the veth, which is gone when the veth is, can be plugged in.
SetMaster(c) == dev[c] # "none"

\* nicPluginBridge()
Plug ==
    /\ call.pc = "plug"
    /\ \/ /\ call.root /\ SetMaster(call.c)
          /\ Continue(To("allocate"))
          /\ UNCHANGED faults
       \/ ~ (call.root /\ SetMaster(call.c)) /\ Throw /\ UNCHANGED faults
       \/ IpFails /\ Throw
    /\ UNCHANGED <<db, kernel>>

\* The interface is addressed by the name it has.
SetAddr ==
    /\ call.pc = "setAddr"
    /\ \/ /\ dev[call.c] # "none"
          /\ on' = [on EXCEPT ![call.c] = SetEntry(call.c, {call.addr})]
          /\ Continue(To("addr"))
          /\ UNCHANGED faults
       \/ dev[call.c] = "none" /\ Throw /\ UNCHANGED <<on, faults>>
       \/ IpFails /\ Throw /\ UNCHANGED on
    /\ UNCHANGED <<db, dev, nsUp>>

\* The default route goes by the gateway, a process that does not know it dies
\* of it here, and by the interface under the container's name for it.
AddRoute ==
    \/ /\ call.gw /\ IsExist(call.c)
       /\ Write("route", [db EXCEPT !.route = @ \cup {call.c}], To("return"))
    \/ /\ call.pc = "route"
       /\ \/ ~ (call.gw /\ IsExist(call.c)) /\ UNCHANGED faults
          \/ IpFails
       /\ Throw
       /\ UNCHANGED <<db, kernel>>

GetBridge ==
    \/ AddNic(HOST, "bridge", "nicBridge", "setupBridge")
    \/ SetupBridge
    \/ SetBridgeAddr
    \/ AddAddr(HOST, "addrBridge", AfterBridge)

\* The device of the VTEP, which may fail to come up; its address and MAC are the
\* node's.
GetVxlan ==
    \/ AddNic(HOST, "vxlan", "nicVxlan", "vtep")
    \/ AddVtep("vtep", "nicUnderlay")
    \/ call.pc = "vtep" /\ IpFails /\ Throw /\ UNCHANGED <<db, kernel>>

GetRootPod ==
    \/ AddNetns(HOST, "netnsHost", "podKeyHost")
    \/ PutPodKey(HOST, "podKeyHost", "podListHost")
    \/ AppendPod(HOST, "podListHost", "podKey")

\* getKubernetesNode()
InitNode ==
    \/ AllocateSubnet
    \/ AllocateIp("gateway", "nicBridge")
    \/ GetBridge
    \/ GetVxlan
    \/ AddNic(HOST, "underlay", "nicUnderlay", "netnsHost")
    \/ GetRootPod

ConfigPodNetwork ==
    \/ AllocateIp("allocate", "setAddr")
    \/ SetAddr
    \/ AddAddr(call.c, "addr", "route")
    \/ AddRoute

\* getKubernetesNic()
AddPod ==
    \/ PutPodKey(call.c, "podKey", "podList")
    \/ AppendPod(call.c, "podList", "netns")
    \/ AddNetns(call.c, "netns", "nic")
    \/ AddNic(call.c, "eth0", "nic", "veth")
    \/ SetupVeth
    \/ SetNetns
    \/ Rename
    \/ Plug
    \/ ConfigPodNetwork

-----------------------------------------------------------------------------
(* DEL.                                                                     *)

\* Slip: the root namespace is not counted.
IsLastUncounted(c) == Cardinality(db.pods \ {c}) = 2

\* The namespaces the process counts when it has deleted that of c.
IsLast(c) == Cardinality(db.pods \ {c}) = 1

\* What the process finds in the cluster it restored: its node, and the pod.
GetNode == db.subnet
GetKubernetesPod(p) == p \in db.pods

StartDel(c) ==
    /\ call = NoCall
    /\ phase[c] # "new"
    /\ phase' = [phase EXCEPT ![c] = "gone"]
    /\ \E lost \in Pod \cup {None} :
          /\ Lose(lost)
          /\ Restore(lost)
          /\ IF GetNode /\ GetKubernetesPod(c)
             THEN call' = [NoCall EXCEPT
                             !.pc = IF Stored(c) THEN "cleanup" ELSE "delNetns",
                             !.c = c, !.pod = c,
                             !.addr = GetAddr(c, lost), !.bridge = GetAddr(HOST, lost),
                             !.root = GetKubernetesPod(HOST), !.last = IsLast(c)]
             ELSE UNCHANGED call
    /\ UNCHANGED db

\* Nic::cleanup(): the device goes, and with it its addresses.  When it cannot be
\* deleted nobody is told.
Cleanup ==
    /\ call.pc = "cleanup"
    /\ LET gone(p) == p = call.pod /\ call.nic = Main(p) /\ Placed(p)
       IN  \/ /\ dev' = [p \in Pod |-> IF gone(p) THEN "none" ELSE dev[p]]
              /\ on' = [p \in Pod |-> IF gone(p) THEN {} ELSE on[p]]
              /\ UNCHANGED faults
           \/ Fault("delFail") /\ UNCHANGED <<dev, on>>
    /\ call' = To(IF call.nic = Main(call.pod) THEN "releaseIp" ELSE "delNic")
    /\ UNCHANGED <<db, nsUp, phase>>

DelAddr ==
    Write("delAddr", [db EXCEPT !.addr[call.pod] = None], To("delRoute"))

\* Slip: the route stays stored.
DelRouteNot == Write("delRoute", db, To("delNic"))

DelRoute ==
    Write("delRoute", [db EXCEPT !.route = @ \ {call.pod}], To("delNic"))

\* The interfaces of the root namespace are deleted in this order.
Rank == [eth0 |-> 1, bridge |-> 1, vxlan |-> 2, underlay |-> 3]

\* Where DEL continues when an interface is deleted and `rest` are left.
NextNic(rest) ==
    IF rest = {}
    THEN To("delNetns")
    ELSE [call EXCEPT !.pc = "cleanup",
                      !.nic = CHOOSE n \in rest : \A m \in rest : Rank[n] <= Rank[m]]

AfterNic(rest) == IF Vxlan THEN To("delVtep") ELSE NextNic(rest)

DelNic ==
    LET rest == db.nics[call.pod] \ {call.nic}
    IN  Write("delNic", [db EXCEPT !.nics[call.pod] = rest], AfterNic(rest))

DelVtep ==
    Write("delVtep", [db EXCEPT !.vtep = FALSE], NextNic(db.nics[call.pod]))

\* With the last container the root namespace goes, and then the subnet.
AfterPod ==
    IF call.pod = HOST THEN To("releaseSubnet")
    ELSE IF call.last /\ call.root
         THEN [NextNic(db.nics[HOST]) EXCEPT !.pod = HOST, !.addr = call.bridge]
         ELSE To("return")

\* The namespace of the pod is stored.
GetNetns(pod) == pod \in db.netns

\* delKubernetesPod(): without a stored namespace delPod() is left out.
DelNetns ==
    Write("delNetns", [db EXCEPT !.netns = @ \ {call.pod}],
          IF GetNetns(call.pod) THEN To("delPodKey") ELSE AfterPod)

DelPodKey ==
    Write("delPodKey", [db EXCEPT !.podKey = @ \ {call.pod}],
          [call EXCEPT !.pc = "delPodList", !.found = call.pod \in db.podKey])

DelPodList ==
    Write("delPodList",
          [db EXCEPT !.pods = IF call.found THEN @ \ {call.pod} ELSE @],
          AfterPod)

DelKubernetesNic == Cleanup \/ ReleaseIp \/ DelAddr \/ DelRoute \/ DelNic \/ DelVtep
DelKubernetesPod == DelNetns \/ DelPodKey \/ DelPodList

DelPod == DelKubernetesNic \/ DelKubernetesPod \/ ReleaseSubnet

-----------------------------------------------------------------------------
(* main(): a process that has no plugin.                                    *)

ApiServerFails == Fault("noApi")
EtcdFails      == Fault("noEtcd")

\* No bridge name, one with a separator in it, or an IPAM mode it does not know.
ParseConfigFails == Fault("badConf")

GetCniPluginFails == ApiServerFails \/ EtcdFails \/ ParseConfigFails

\* The ADD fails; a DEL has done nothing, and the runtime is told that it succeeded.
NoPlugin(c) ==
    /\ call = NoCall
    /\ GetCniPluginFails
    /\ \/ /\ c \in nsUp
          /\ phase[c] \in {"new", "failed", "added"}
          /\ phase' = [phase EXCEPT ![c] = "failed"]
       \/ /\ phase[c] # "new"
          /\ phase' = [phase EXCEPT ![c] = "gone"]
    /\ UNCHANGED <<db, kernel, call>>

-----------------------------------------------------------------------------
(* The environment.                                                         *)

Crash ==
    /\ call # NoCall
    /\ Fault("crash")
    /\ Throw
    /\ UNCHANGED <<db, kernel>>

\* The runtime removes a container's namespace, after its DEL or (a fault)
\* before that has returned.
RemoveNs(c) ==
    /\ c \in nsUp
    /\ call.c = c \/ phase[c] # "new"
    /\ IF phase[c] = "gone" /\ call.c # c THEN UNCHANGED faults ELSE Fault("nsGone")
    /\ nsUp' = nsUp \ {c}
    /\ dev' = IF dev[c] \in {"temp", "ns"} THEN [dev EXCEPT ![c] = "none"] ELSE dev
    /\ on' = [on EXCEPT ![c] = {}]
    /\ phase' = IF phase[c] = "added" THEN [phase EXCEPT ![c] = "failed"] ELSE phase
    /\ UNCHANGED <<db, call>>

Reboot ==
    /\ Fault("reboot")
    /\ dev' = [p \in Pod |-> "none"]
    /\ on' = [p \in Pod |-> {}]
    /\ nsUp' = {c \in Container : phase[c] = "new"}
    /\ phase' = [c \in Container |->
                   IF phase[c] = "added" \/ (c = call.c /\ phase[c] = "new")
                   THEN "failed" ELSE phase[c]]
    /\ call' = NoCall
    /\ UNCHANGED db

Next ==
    \/ \E c \in Container : StartAdd(c) \/ AddAgain(c) \/ StartDel(c) \/ NoPlugin(c)
    \/ \E c \in Container : RemoveNs(c)
    \/ InitNode \/ AddPod \/ DelPod
    \/ Crash \/ Reboot

Spec == Init /\ [][Next]_vars

-----------------------------------------------------------------------------
(* Properties.                                                              *)

TypeOK ==
    /\ db \in DbType
    /\ dev \in [Pod -> Place]
    /\ on \in [Pod -> SUBSET Addr]
    /\ nsUp \subseteq Container
    /\ phase \in [Container -> {"new", "added", "failed", "gone"}]
    /\ call \in CallType
    /\ faults \in 0 .. MaxFaults

\* "CNI ADD makes sure that every pod has its namespace stored", asserted when
\* a process restores an interface (cni.cc:410): at no point, however calls
\* ended, is an interface stored without the namespace.
NicHasNetns ==
    \A c \in Container : "eth0" \in db.nics[c] => c \in db.netns

\* A container whose ADD succeeded is completely stored, and its interface has
\* the stored address and no other, until its DEL (cni.cc:758-818).
AddedIsRecorded ==
    \A c \in Container : phase[c] = "added" =>
        /\ c \in db.pods \cap db.podKey \cap db.netns
        /\ db.nics[c] = {"eth0"}
        /\ dev[c] = "ns"
        /\ on[c] = {db.addr[c]}
        /\ on[c] \subseteq db.used

\* Renaming failed and DEL did not find the interface (cni.cc:804): it stays as it
\* is until the runtime removes the namespace.
LeftByDel(c) == phase[c] = "gone" /\ dev[c] = "temp"

\* No two containers of the node are up with one address, whatever was
\* interrupted, repeated or restored from storage (cni.cc:379-439, 842), those
\* aside whose interface a DEL could not find.
ContainersDiffer ==
    \A c, d \in Container :
        c # d /\ ~ LeftByDel(c) /\ ~ LeftByDel(d) => on[c] \cap on[d] = {}

\* The node has its subnet, its root namespace and its bridge.
HasBridge ==
    /\ db.subnet
    /\ HOST \in db.pods
    /\ dev[HOST] = "root"

AnyAdded == \E c \in Container : phase[c] = "added"

\* While a container runs its node keeps subnet, root namespace and bridge: no DEL
\* takes itself for the last one by mistake (cni.cc:293-309).
BridgeOutlivesPods == AnyAdded => HasBridge

\* While a container stays up no call takes an address off the bridge, whatever it
\* restores from storage or cleans up (cni.cc:412-420, 293-303).
GatewayIsNotTaken ==
    [][(\E c \in Container : phase[c] = "added" /\ phase'[c] = "added")
          => on[HOST] \subseteq on'[HOST]]_vars

\* Without faults, when the containers that came are gone, storage, IPAM and
\* kernel are as if nothing had happened (cni.cc:252-316).
NodeLeftClean ==
    (/\ faults = 0
     /\ call = NoCall
     /\ \A c \in Container : phase[c] \in {"new", "gone"})
        => /\ db = EmptyDb
           /\ \A p \in Pod : dev[p] = "none"

\* What the runtime is promised: the containers whose ADD succeeded are connected,
\* with the address that is stored for them.
Network == INSTANCE PodNetwork WITH
    net     <- [c \in Container |-> IF phase[c] = "added" THEN db.addr[c] ELSE None],
    deleted <- {c \in Container : phase[c] = "gone"},
    bridge  <- HasBridge,
    gateway <- on[HOST]

\* The dozens of commands of each call, cut short and repeated in any way, look to
\* the runtime like single steps of that network; in particular no call, restart or
\* repeated ADD changes the address of a container that is up (cni.cc:196-244).
ImplementsNetwork == Network!Spec

\* What the comments say a node has: a root namespace whenever the node is there
\* ("always created with it", cni.cc:683), and, while a container is up, a bridge
\* whose "address is the gateway of all pods of the node" (cni.cc:451), which no
\* container has, and with vxlan the record of its VTEP (cni.cc:860).
NodeIsComplete ==
    /\ call.pc = "plug" => call.root
    /\ AnyAdded =>
         /\ db.addr[HOST] \in on[HOST]
         /\ \A c \in Container : on[c] \cap on[HOST] = {}
         /\ Vxlan => db.vtep
=============================================================================
