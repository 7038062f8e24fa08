# ohno in TLA+

`ohno` is a Kubernetes CNI plugin with a daemon (`ohnod`).  This directory holds
TLA+ models of it, the TLC configurations that check them and proofs that TLAPS
checks.  Paths below are relative to the repository; `src/` alone means its
`src/` directory.

    tlc -config <run>.cfg <Module>.tla      # a run (module and cfg: see "Runs")
    tlapm EtcdProofs.tla ; tlapm IpamProofs.tla ; tlapm IpamLifeProofs.tla
    tlapm SubnetProofs.tla ; tlapm CniProofs.tla ; tlapm HostGwProofs.tla
    tlapm VxlanProofs.tla ; tlapm OhnodProofs.tla

## 1. Inventory

### Programs and shared state

Two programs run on every node.

* **`ohno`** (`ohno.cc`, `src/cni`, `src/ipam`): one short-lived process for each
  ADD or DEL the container runtime asks for.  Several may run at a time on a
  node; nothing in the program locks anything.
* **`ohnod`** (`src/ohnod`, `src/backend`): one daemon per node.  A worker thread
  polls etcd and the Kubernetes API and brings routes, ARP and FDB entries of
  the node in line.

They have no channel to each other.  Everything goes through

* **etcd**, by way of `etcdctl` commands.  One command is atomic; the client's
  calls that need two (append, remove from a list) are not;
* **the kernel's tables** (links, addresses, routes, neighbours), by way of `ip`
  and `bridge` commands;
* a **token file** that the daemon writes for the plugin.

### Components

| component | state | operations | what makes it correct |
|---|---|---|---|
| etcd client (`src/etcd`) | lists and values in etcd; `ETCDCTL_API` in the environment | put, append, get, list, del, del of a value | a call changes the item it is for and nothing else |
| IPAM (`src/ipam/ipam.cc`) | `/ohno/subnets`, `/ohno/subnets/<node>`, `/ohno/addresses/<node>` | allocateSubnet, releaseSubnet, allocateIp, releaseIp | no address twice, none lost, none refused while one is free; subnet records consistent |
| subnet arithmetic (`src/net/subnet.cc`) | none | getMaxHosts, generateIp, isSubnetOf | addresses inside the subnet; shifts in range |
| storage (`src/cni/storage.cc`) | `/ohno/node/<node>/...`: pods, namespaces, NICs, addresses, routes, VTEP | add/del/get of each | what was stored is what is read back |
| CNI workflow (`src/cni/cni.cc`) | the cluster rebuilt from storage by each process; `gateway_` | add, del, version | a successful ADD is completely recorded; ADDs and DELs bring a node back to where it started |
| in-memory cluster (`src/ipam/{cluster,node,netns}.cc`) | maps of nodes, namespaces, NICs | add/get/del | the root namespace is there as long as the node |
| NIC objects, netlink (`src/net`) | kernel tables; lists of what an object added | setup, cleanup, addAddr, addRoute, addNeigh, addFdb, ... | object and kernel agree |
| host-gw (`src/backend/host_gw.cc`) | `node_cache_`; routes | eventHandler per poll | a route to every other node that has a subnet, to no other |
| vxlan (`src/backend/vxlan.cc`) | `node_cache_`; routes, ARP, FDB | eventHandler per poll | the three entries of a node come and go together |
| evpn (`src/backend/evpn.cc`) | devices | envSetup, envCleanup | devices set up in order |
| daemon (`src/ohnod`, `strategy_client`, `backend.cc`) | worker thread, `running_`, `g_client` | start, stop, signal handler | it stops when told to; the worker lives as long as the daemon |
| center (`src/backend/center.cc`) | token file | getNodes, getToken, ... | a failing API is told from an empty cluster |
| shell, environment (`src/util`) | a pipe; environment variables | execute; get, set, unset | a command always returns |

Configuration, JSON results, HTTP, logging, hashing: conversions and I/O without
state of interest.  `scheduler.cc` only forwards the daemon's start and stop to
its backend; a stop without a backend does nothing.

### How they interact, and what is hard

An ADD: rebuild the cluster from storage; on a node without subnet, allocate the
subnet and the gateway address and record the root namespace; record pod and
namespace, create the veth pair, allocate an address, configure and record it.
A DEL undoes that, and when only the root namespace is left it also cleans the
node up and releases the subnet.  Each of these is dozens of commands with no
transaction around them, so the hard parts are

* overlapping plugin processes (lost updates on lists, check-then-act on
  addresses, double initialisation of a node),
* a process killed, or one command failing, between any two commands, and the
  runtime's retries afterwards,
* writes that etcd committed although the command reported a failure,
* the daemon reading records in the middle of all that, with a cache of what it
  did before and never compares with the kernel again,
* signals that interrupt the daemon's main thread at any point of its start, and
  a worker thread that has to end before the daemon does.

The hazards, each at its line, are in `PROJECT.json`.

## 2. Modules

| module | what it is |
|---|---|
| `ItemLists` | abstract: keys that hold sets of items, one item added or removed at a time |
| `EtcdClient` | the etcd client by commands; processes, failures, crashes, overlap |
| `AddressPool` | abstract: addresses granted to containers and taken back |
| `Ipam` | the IPAM on top of `EtcdClient`: the cluster's plugin processes, command by command |
| `SubnetMath` | the arithmetic of subnets, as operators |
| `IpamNet` | `Ipam` with `SubnetMath`: the indexes it hands out as IP addresses |
| `PodNetwork` | abstract: containers connected with addresses, disconnected, deleted |
| `Cni` | ADD and DEL on one node: storage, IPAM and devices, command by command |
| `Netlink` | what the calls of a `Nic` do to the kernel's tables, as operators |
| `HostGw` | the daemon's worker in host-gw mode, on `Netlink` |
| `VxlanBackend` | the daemon's worker in vxlan mode, on `Netlink` |
| `Ohnod` | the daemon's life: start, threads, signals, the evpn backend, restarts |
| `MCIpam`, `MCCni`, `MCHostGw`, `MCVxlanBackend` | small instances for TLC |
| `EtcdProofs`, `IpamProofs`, `IpamLifeProofs`, `SubnetProofs`, `CniProofs`, `HostGwProofs`, `VxlanProofs`, `OhnodProofs` | theorems and proofs |

`Ipam` composes `EtcdClient` (EXTENDS, its steps are steps of the IPAM's
operations) and is shown to implement `AddressPool`; `EtcdClient` is shown to
implement `ItemLists`.  `IpamNet` composes `Ipam` and `SubnetMath`.  `Cni` is shown
to implement `PodNetwork`.  The two
backends share `Netlink`.  What a module takes from another without composing
it is said in the other's section: `Cni` takes an IPAM operation for one write,
`Ohnod` takes a poll of the backends for one step, and the backends take what
the plugins of all nodes write for records that come and go at any time.

An operator with the comment `Slip` is a plausible mistake next to the
definition it belongs to.  No specification uses one; a property is known to
say something about the code because it fails with one in that definition's place.

### EtcdClient

`list[k]` is what etcd holds under key k.  The code keeps a comma-separated
string; it only tests membership, appends, and removes *every* occurrence of an
item, so a set says as much as the string does.  An absent key, an empty value
and an empty list are the same to every reader.  `call[p]` is where process p is
inside a two-command call: `appendGet` → `appendPut`, `delList` → `delPut`, with
the list it read in `buf`.

Faults are switched on by the constant `Faults`:

| fault | meaning |
|---|---|
| `readFail` | a reading command fails |
| `writeFail` | a writing command fails and wrote nothing |
| `ackLost` | a writing command is reported failed though etcd committed it |
| `crash` | a process disappears between two commands (also an assertion in a debug build, an exception) |
| `overlap` | calls of one node run at the same time |
| `nodes` | calls of different nodes run at the same time |
| `apiFail` | the Kubernetes API gives no podCIDR |

A killed plugin whose last `etcdctl` child is still about to write is covered
only as far as that write happens before the next call begins.

### Ipam

Keys of lists are `SubnetsKey` (`/ohno/subnets`) and the nodes
(`/ohno/addresses/<node>`); `subnetOf[n]` is `/ohno/subnets/<n>`.  An address is
the index that `generateIp()` adds to the subnet's base; lists of different nodes
are different keys, so equal indexes of two nodes never meet.  `pc[p]` is the
operation of process p, `arg[p]` its candidate address or subnet, `held[p]` the
address its container has.

| code | actions |
|---|---|
| `allocateIp()` | `AllocateIp` (subnet read), `TryCandidate` (isIpAvailable), `AppendIp` (append, both commands; on failure the loop moves on) |
| `releaseIp()` | `ReleaseIp`, `RemoveIp` |
| `allocateSubnet()` | `AllocateSubnet`, `AppendSubnet`, `PutNodeSubnet`, and `RemoveSubnet` when the put failed |
| `releaseSubnet()` | `ReleaseSubnet`, `DelNodeSubnet`, `RemoveSubnet` |
| killed process, container lost without DEL | `Crash`, `Vanish` |

The environment starts operations in any order the program can: an address only
for a container without one.  `releaseSubnet()` has no condition of its own, so
`ReleaseSubnet` may start whenever the node has a subnet, whoever has an address;
that a DEL calls it only for the last namespace (`cni.cc:293`) is in `Cni`.

### SubnetMath and IpamNet

An address is a number below `2 ^ MaxPrefix` (32 in the code, 4 in the runs), a
subnet an address with a prefix length, host bits included.  `GetMaxHosts`,
`GetMaxSubnetsFromCidr`, `GenerateIp` and `IsSubnetOf` are
`src/net/subnet.cc`, with the sum that wraps around, the two prefixes at the
boundaries, and `Throws` where the code throws.  IPv6 and parsing are left out.

`IpamNet` gives every node a podCIDR and reads `held[p]` as the IP address that
`allocateIp()` returns.  What Kubernetes promises is `IpamNetAssumption`: podCIDRs
have no host bits, do not overlap, and lie strictly inside the subnet of the CNI
configuration.  Strictly, because `isSubnetOf()` wants a longer prefix: where a
node's podCIDR *is* the configured subnet, a repeated ADD throws at `cni.cc:209`.

### Cni

One node, one call at a time.  `db` is what etcd holds for the node, one field
for each kind of key of `storage.cc` and the IPAM's records; `dev` and `on` are
the devices and their addresses; `phase[c]` is what the runtime knows of a
container.  `call` is the process at work: `pc` names the next write or `ip`
command, and `root`, `gw`, `last` keep what the process concluded from storage
when it started, because the code decides with the cluster it rebuilt then and
not with what etcd holds later.  A process that ends, in whatever way, forgets
everything: `NoCall`.

| code | actions |
|---|---|
| `getKubernetesCluster()` | `Restore`, part of the first step of every call: the bridge is created again, stored addresses are put back |
| `getKubernetesNode(true)`, `getBridge()`, `getVxlan()`, `getRootPod()` | `InitNode`: subnet, gateway, bridge, VTEP, underlay, root namespace |
| `getKubernetesNic(.., true, ..)`, `nicPluginBridge()`, `configPodNetwork()` | `AddPod` |
| `add()` when the interface is stored | `AddAgain` |
| `main()`, `getCniPlugin()` when the API or etcd cannot be reached, or the configuration is no good | `NoPlugin` |
| `delKubernetesNic()`, `delKubernetesPod()` | `Cleanup` ... `DelPodList`, first for the container, then for the root namespace when it is the last (`AfterPod`) |
| `releaseSubnet()` | `ReleaseSubnet` |
| killed plugin, lost namespace, reboot | `Crash`, `RemoveNs`, `Reboot` |

`Write` is one etcdctl write whose failure the code answers with an exception;
`WriteAnyway` one whose failure it only logs.  An exception ends the call with
what was written so far (`Throw`); nothing in the code rolls back.

`ImplementsNetwork` is the promise to the runtime.  `PodNetwork` sees a container as
connected, with the stored address, from the end of a successful ADD until its
namespace, the node or a repeated ADD that finds it broken says otherwise; a DEL
disconnects at its start, as the runtime does not use the container after that.
Everything between is a stutter.  Whenever somebody is connected the node has its
bridge, and while somebody stays connected the bridge loses no address.  That it
has the gateway's address in the first place is not promised, because the code
does not keep it (`cni_node`).

Abstracted: `allocateSubnet()`, `releaseSubnet()` and the two commands of an
`append()` are one write here, since `EtcdClient` and `Ipam` have their detail;
reads succeed; whether an interface is set up (`setStatus()`, whose result
`cni.cc:805` ignores) is left out, nothing reads it later; addresses and routes of the
vxlan and underlay interfaces are left out.  Names do not clash: every container
has a namespace of its own (so the "CRI error" branch is not taken) and the
node has no interface called like the container's.  The build is a release
build, whose assertions only print; a debug build also stops at failed ones, which
looks like a crash.

An `ip` command that sets something up may fail (`ipFail`): creating the veth,
moving, renaming (the code does not look at the result, and goes on with the
temporary name), plugging, address and default route of the interface; creating
the bridge, which throws (`cni.cc:458`), and giving it its address, after which
the ADD goes on and stores none (`cni.cc:463`, `SetBridgeAddr`); creating the vxlan
device.  When a process restores the cluster, one address cannot be set again
(`Lose`); that it makes the bridge's device anew is taken to succeed.

With `delFail` an `ip link del` fails.  `cleanup()` returns nothing (`nic.cc:37`), so
the DEL releases the address all the same (`Cleanup`, `ReleaseIp`) and until the
runtime has removed the namespace another container can get it while the first
still has it.  `cni` leaves this fault out: with it `ContainersDiffer` fails at the
next ADD that is given the address, and says nothing else.

### Netlink

`Nic::addRoute()` and its five sisters are two commands each: one shows the
entry, the other adds or deletes it.  An operator takes the kernel's table, the
entry and which of the commands succeed, and gives what the call returns and
the table it leaves.  The rules are those of the code and of the kernel it
calls: an entry that is shown is not added again and that is a success; one
that is not shown counts as deleted; a failing `show` is taken for "not there";
the kernel has one route per destination, one neighbour per address and one
forwarding entry per MAC, and refuses a second.  A command with an empty
address or MAC does what the shell makes of it.

### HostGw

`api` is what Kubernetes says of the other nodes, `recorded` the nodes with a
subnet in etcd: the world, which changes between any two steps.  `routes` is the
kernel, `cache` is `node_cache_`; `cluster`, `own` and `todo` are locals of
`eventHandler()`, `pc` where it is.

| code | actions |
|---|---|
| `getKubernetesData()` | `Poll`; a failing API looks like an empty cluster |
| `getSubnet()` of the own node | `ReadOwn` |
| one turn of the first loop | `AddNode(n)`: etcd read, then `addRoute()` |
| one turn of the second loop | `DelNode(n)`: etcd read, then `delRoute()` |
| end of a loop | `AllVisited` |
| nodes, their plugins, the daemon, the host | `Join`, `Leave`, `Record`, `Restart` |

`left` is a ghost: the routes the daemon cannot know of any more, because it
restarted or because `ip route show` failed while it was deleting.
Assumed: no two nodes have an address in common, and podCIDRs of nodes that exist
at the same time differ.  A podCIDR may move to another node, a node may return
with another podCIDR or address.

### VxlanBackend

As `HostGw`, with the VTEP records (`vtep`, `ownVtep`) in place of subnets and
three tables on the device.  `cache[n]` also says with which record n was added;
the code's cache has no such field, and only properties and ghosts read it.

| code | actions |
|---|---|
| `getKubernetesData()`, own `getVtep()` | `Poll`, `ReadOwn` |
| no record, or cached | `Skip(n)` |
| `addRoute()`, `addNeigh()`, `addFdb()` of a new node | `AddNodeRoute(n)`, `AddNodeNeigh`, `AddNodeFdb`; the last two undo the earlier ones when they fail |
| one turn of the second loop | `Keep(n)`, `DelNode(n)` |
| plugins of the cluster | `Record`, `RecordOwn`, `Recreate` (the device is deleted with a node's last pod and made again) |
| nodes | `Join`, `Leave` |
| kernel, daemon | `Traffic` (a neighbour without MAC appears), `Restart` |

`DelNode` looks its keys up in the record as it is *now*, as the code does.  A
roll-back and a deletion are one step each.  A VTEP's address is taken from the
podCIDR its node has when a plugin makes the device (`cni.cc:500`), and its record
stays when the podCIDR moves on, so two nodes may have one VTEP address: nothing is
assumed about the data of different nodes but that those the API has at the same
time differ in podCIDR.  Ghosts: `flushed`, the nodes that lost entries because the
device was made anew or a node with the same VTEP address was rolled back;
`left`, the routes that may stay though no cached node has them.

### Ohnod

`main` is where the main thread is: reading options, API server, host name,
configuration, etcd's address; making the client (host-gw, vxlan) or the devices
and node information (evpn); CA, token file, test of the API server, strategy;
then starting the thread or making the evpn settings, and `pause()`.  `worker`
is the backend's thread, `handler` the signal handler, which interrupts the main
thread: no step of `main` happens while it runs.  `links`, `done` and `token`
are what outlives the process.

| code | actions |
|---|---|
| `main()`, `executeStrategy()`, `getStrategy()`, `getHostgw()`, `getVxlan()`, `getEvpn()` | `ParseArguments` ... `SetStrategy`, one for each thing that can fail |
| `getToken()` | `OpenToken` (the file is empty from here), `WriteToken`; a failing open or write is not noticed |
| `startImpl()` | `StartThread`, `AssignMonitor`: the thread runs before `monitor_` has it |
| `envSetup()`, `envCleanup()` | `EnvSetting`, `Cleanup(d)`: a failing command is only logged |
| the thread's loop | `CheckRunning`, `PollAndSleep` |
| `stop()` | `StopThread`, `Join`, `StopEvpn`; a second signal meanwhile is `SecondSignal` |
| kill, kubelet, the node's plugin | `Kill`, `Restart`, `DeleteBridge`, `CreateBridge` |

Ghosts: `early`, a signal came before `pause()`; `met`, the kinds of faults of
this process.  A failing assertion is not a step: the build is a release build.

## 3. Runs

| run | question | bounds |
|---|---|---|
| `etcd_serial` | do append and del keep their promise when commands fail, lose answers or stop half-way? | 3 processes, 2 keys, 3 items, all contents at first |
| `etcd_overlap` | does append keep it when two calls overlap? **No** (finding) | 2 processes, 1 key, 2 items |
| `ipam_faults` | are addresses unique and recorded, as indexes and as IP addresses; is none refused while one is free; does every operation look like one step of `AddressPool`? | 2 nodes, 2 containers on one and 1 on the other, 2 usable addresses per node, an address space of 16; lost answers, crashes, no API |
| `ipam_halfway` | are subnet records consistent at every command, addresses unique and recorded; does every operation end? | as above with failing writes, one call at a time |
| `cni` | whatever is interrupted and repeated: is a container that is up recorded, alone on its address, and connected; does it keep its address and the bridge, as `PodNetwork` says? Without faults: is the node left clean? | 3 containers, 3 addresses (gateway and two), any three faults of nine kinds, vxlan mode |
| `cni_node` | has a node what the comments say it has? **No** (finding) | 2 containers, one crash, failing write or failing `ip` command |
| `hostgw` | do cache and routing table agree at every step; do routes follow a cluster that is quiet? | 2 other nodes, 2 podCIDRs that move between them, any two faults of six kinds |
| `hostgw_stale` | also when a node's address changed, and after a restart? **No** (finding) | 2 other nodes, one with two addresses, one restart |
| `vxlan` | is what is cached installed; is what is half installed undone; does it follow a quiet cluster? | 2 other nodes with one VTEP address, any one fault of seven kinds |
| `vxlan_mac` | has the neighbour of a cached node its MAC? **No** (finding) | 1 other node with two MACs, no fault |
| `ohnod` | does a sleeping daemon work, and an ended one leave nothing; does it stop when told to, and come up again? | three modes, any three faults of six kinds, three signals |
| `ohnod_idle` | does it work also after an exception, or an early signal? **No** (finding) | three modes, one exception, one signal |

The bounds are the smallest at which the interesting cases happen: two holders
and two addresses on a node so that an address can be contested, reused and
skipped, and leaks fill the subnet; a second
node because the list of subnets is shared; two keys and a third item in the etcd
run so that a call could damage what it is not for.  In `cni`, three containers
and two addresses besides the gateway's let the node fill up and empty in every
order, and three faults let a retry fail as well and a DEL after it; ids of containers are not used
again, as a runtime never does.  In `hostgw`, two nodes are needed for a podCIDR
that moves from one to the other, and two faults for a deletion that fails and a
restart before it is repeated.  In `vxlan`, two nodes so that one can be in the
middle of its addition while the other stays, and in the way of its neighbour; the
one fault can be at any command, and every deletion and roll-back can meet it.
In `ohnod`, a signal early, one in the handler, and one more; three faults, so that
two starts can fail and something still happen after them.
An interface whose renaming failed is the reason for `LeftByDel` in
`ContainersDiffer`: DEL looks for `eth0`, does not find it, and the interface
keeps its address until its namespace goes.  That address stays allocated, so
that the two differ in spite of it with two faults; with a third one, after which the
released gateway's address is handed out (see `cni_node`), they do not.

`MaxFaults` and `MaxSignals` are the only counters that are bounded.  Deadlock is
checked in every run but `ohnod`, where an idle daemon sleeps for ever.

### Findings

* `etcd_overlap`: two appends both read the list before either writes, and the
  second put drops the first one's item.  The comment of `append()` promises
  that the value is appended unless the key is absent or `get` fails.
* `cni_node`: `getKubernetesNode()` takes a node that has a subnet as complete,
  but the subnet is the first thing it writes.  A plugin killed between the two
  leaves a node on which every later ADD dies in `nicPluginBridge()`, whose
  comment says that the root namespace was created with the node.  TLC stops at
  this, the shortest of the ways in which a node is incomplete.  With fewer faults,
  or for one part of `NodeIsComplete` alone, it shows the others:
  - the VTEP (no fault, vxlan mode): every DEL deletes the VTEP record of the node
    (`cni.cc:860`) although other containers are up;
  - the bridge's address (`ipFail`): when it cannot be set, `getBridge()` goes on
    without an else (`cni.cc:463`) and the ADD succeeds, with a default route to an
    address no device has;
  - the gateway (`writeFail`): the last DEL releases the gateway's address in the
    IPAM (`cni.cc:842`) before it deletes the bridge's records (846 on).  If the
    write in between fails, the exception ends the DEL.  The next plugin process
    finds the bridge stored, creates it again with its address, and `allocateIp()`
    gives the same address to the container: it is its own gateway.
* `hostgw_stale`: the worker looks only at nodes that are not cached
  (`host_gw.cc:58`) and deletes only what is cached (74).  A node that returns with
  another address while the daemon restarts finds its old route in the way: nobody
  deletes it, and the kernel refuses the new one at every poll.  Without the
  restart (`Faults = {}`) the node is still cached, and never looked at.  And when
  this node loses its subnet, the routes of a daemon before stay.
* `vxlan_mac`: every DEL of a pod removes the VTEP record of its node
  (`cni.cc:860`).  The daemons of the other nodes then look the keys of the
  node's entries up in a record that is gone (`vxlan.cc:110`), delete nothing and
  forget the node.  When it returns with another MAC, `addNeigh()` finds the old
  neighbour of that address, takes it for its own and reports success; the node
  is cached with a MAC that is never installed.

* `ohnod_idle`: an exception in a poll leaves the loop of the thread
  (`backend.cc:76`) and is printed; main thread and process go on sleeping, and
  kubelet has no reason to restart them.  With `Faults = {}` TLC shows the signal
  that comes before `pause()`: its handler stops what there is, main goes on and
  sleeps over a stopped backend (`ohnod.cc:163`).  With `Modes = {"evpn"}` as well, the
  signal in the middle of `envSetup()`, whose devices the handler deletes
  (`evpn.cc:61`).

### Liveness and fairness

* `CallReturns` (`Ipam`): weak fairness of `Step(p)` for every process: a plugin
  process that has started an operation is scheduled again and its commands
  return.  Nothing is assumed about starts, crashes or the success of a command,
  so the property says that the loop and the roll-backs end however many
  commands fail.
* `AnnouncedIsRouted`, `WithdrawnIsRemoved` (`HostGw`), `AnnouncedIsInstalled`,
  `WithdrawnIsErased` (`VxlanBackend`): weak fairness of `Step`, the worker: the
  thread is in a loop that sleeps five seconds, and commands return.  The
  cluster has no fairness and need not become quiet; the properties say what
  follows *if* one node's data stay as they are for ever, while the others may go
  on changing.  In `AnnouncedIsRouted` no other node's route may hold the
  destination: the kernel refuses a second one, and if the holder keeps its
  record the new node waits for ever.  Both conclude the entries in the kernel, and
  not only a cached node.  Exempted is a node that the daemon still has in the
  cache with other data (`hostgw_stale` is about it), and in vxlan mode one whose
  entries went with the device, as the cache is never compared with the kernel.  Faults are bounded in number, so that
  "reads and commands fail only finitely often" is part of what is assumed.
* `SignalStops`, `ComesUp` (`Ohnod`): weak fairness of main thread, worker and
  handler, each of which the operating system schedules, and of `Restart`: the
  daemon is the container of a DaemonSet, which kubelet starts again whenever it
  has ended.  `ComesUp` would not hold if a start could not cope with the
  devices a killed daemon left.

## 4. Theorems

The theorems hold for every set of processes, nodes, items and containers and
every size of subnet.

`EtcdProofs` and `IpamProofs`:

* `EtcdImplementsLists`: without overlap the etcd client implements `ItemLists`,
  under the identity mapping, for every other combination of faults.  The
  invariant is that at most one call is under way and that what it read is what
  is stored; the put at the end of a call is then an abstract step, everything
  before it a stutter.
* `TypeCorrect`: `TypeOK`, under every combination of faults.  The arithmetic
  part is that no candidate leaves `1 .. MaxHosts - 2`; the rest needs that a
  process inside an append or del is at a `pc` that goes with it.
* `AddressesAreSafe`, `HeldAddressesAreRecorded`: `UniqueHolder` and
  `HeldIsRecorded`, assuming `ReliableReads` (no `readFail`) and `NodeInTurn` (no
  `overlap`); writes may fail or lose answers, processes crash, nodes run
  concurrently.  Neither is inductive.  `IInv` adds that a node has one call at a
  time, that the candidate between check and append is not recorded and the
  buffer of the append is the list plus the candidate (`CandidateIsFree`), and
  that an address being released has no holder and the buffer of the del is the
  list without it (`ReleasedIsUnused`).
* `IpamImplementsPool`: under the same assumptions `Ipam` implements
  `AddressPool` with `held` as it is and `used` the lists of the nodes.
  `StepImplementsPool` shows, action by action, which pool step a put is:
  a Grant when it was acknowledged, a Lose when it was not, a Reclaim for a del.

The assumptions are needed: with `readFail`, `isIpAvailable()` takes an
unreadable list for an empty one (`ipam.cc:223`); with `overlap`, check and
append of two processes interleave (`etcd_overlap` shows the append alone).

`IpamLifeProofs`, which builds on `IpamProofs`:

* `SubnetsAreListed`: `SubnetIsListed`, when besides the calls of the whole cluster
  run one after the other, a failed write was not made (`AcksArrive`) and nodes have
  podCIDRs of their own (`CidrsDiffer`).  `/ohno/subnets` is one list for all
  nodes, so an append of one node can lose another's entry as soon as they overlap;
  and a put of the node's key that was made though it was reported failed is undone
  in the list only (`ipam.cc:67`).  `ListInv` follows the podCIDR through both
  operations: it is listed before the node's key is written, and the list is changed
  back only while that key is absent (`KnowsList`).
* `AddressesDoNotLeak`: `NoLeak`, where no command fails and no process crashes
  (`NothingFails`) and a node has one call at a time.  `NoLeak` only speaks of nodes
  at rest; `LeakInv` says of every state that what is recorded is some container's
  or is being released.  No run checks it; `NodeLeftClean` of `Cni` has it for the
  calls of the plugin.
* `GivingUpMeansFull`: `GivesUpOnlyWhenFull`, where reads succeed, a write that is
  reported failed was made all the same (`WritesAreMade`) and a node has one call at
  a time; processes crash and answers get lost.  `FullInv` says of a search under way
  that all candidates below the current one are recorded.  With a write that fails and
  is not made the loop passes over a free address, which the code accepts.

`SubnetProofs`, about `IpamNet`, from `IpamNetAssumption`:

* `AddressesAreHosts`: every IP address handed out lies strictly between network
  and broadcast address of its node's podCIDR and has not wrapped around.  It
  follows from `TypeCorrect`, which bounds the index, and so holds under every
  combination of faults.
* `AddressesDiffer`: no two containers of the cluster have one IP address.  On
  one node by `UniqueHolder`, as `generateIp()` is injective on the indexes in
  use; on two nodes because their podCIDRs do not overlap.
* `AddressesBelong`: `IpsBelong`, under every combination of faults.  The podCIDR
  lies in the configured subnet and has the longer prefix, so what has to be shown is
  that an address inside it has, after `canonical()` with the shorter prefix, the
  base of the configured subnet.  That needs no powers of two: all addresses of a
  block of s addresses that starts at a multiple of s have one quotient by s
  (`SameBlock`, from the uniqueness of quotient and remainder).

`CniProofs`, under every combination of faults of that module, but where it is said:

* `TypeCorrect`: `TypeOK` of `Cni`.
* `NetnsIsStored`: `NicHasNetns`, the assertion of `cni.cc:410`.  It is not
  inductive: the namespace is stored several commands before `eth0` is, and
  deleted several commands after it.  `IInv` adds `Shape`: a call about to store
  the interface has stored the namespace, a call about to delete the namespace
  has deleted the interface, and a call has the container, pod and address its
  remaining commands use.  Every write can succeed, fail or lose its answer; the
  lemma `WriteInv` treats the three for all of them, and the proof of a step only
  shows what the write and the call after it look like.
* `AddedStayRecorded`, `AddressesDiffer`, `BridgeStays`, `GatewayIsKept`:
  `AddedIsRecorded`, `ContainersDiffer`, `BridgeOutlivesPods`, `GatewayIsNotTaken`, from
  one invariant, `LifeInv`, where no `ip link del` fails (`DeletionsWork`).  `Fits`
  relates for one container what storage, kernel and runtime say: which records
  exist whenever its interface is stored, that a device in place belongs to a stored
  interface, that a stored address is the one on the device and is allocated, and
  that a container that is up has a bridge.  `Differ` is `ContainersDiffer`.
  `Does` says of the call in progress what it has done and not done: an ADD holds an
  address no other container has (`Spare`), and a DEL that counted itself the last
  finds no other container in storage, and once it is at the root namespace no
  stored interface at all.  That last fact is why no bridge is taken
  away: the count is a set's cardinality, and a set of one element that contains the
  root namespace contains nothing else (`LastIsLast`).
* `CniImplementsNetwork`: `ImplementsNetwork`, under `DeletionsWork`, from `LifeInv` before
  and after each step.  A container a call works for is not up (`AtWorkIsDown`), the stored address
  of any other stays (`AddressStays`), and a step leaves the phases alone or ends
  the call (`CallPhases`); so each step connects one container, disconnects some,
  deletes one, or is a stutter.
* `NodeIsLeftClean`: `NodeLeftClean`, assuming `MaxAddr # 0`.  `TidyInv` is `LifeInv`
  and, as long as no fault has happened, `Neat`: every record, address and
  device belongs to a container that is up, to one whose ADD failed because the
  addresses had run out, or to the call in progress, and the
  root namespace is complete or still being made or unmade in the order of the
  code.  The assumption is needed.  With `MaxAddr` = 0, a podCIDR without
  usable address, the first ADD allocates the subnet, fails to get an address for the
  gateway, and no DEL releases the subnet, since the node has no namespace then.
  TLC checks `TidyInv` as an invariant for `MaxAddr` from 1 to 3 and both modes.

`HostGwProofs`, under every combination of faults, and for a cluster that does
whatever it likes between two steps:

* `TypeCorrect`, `CachedNodesAreRouted`, `NoRouteIsForgotten`,
  `CidrsGoToOneNode`.  The three invariants hold together or not at all: that
  deleting n's route takes no other cached node's needs `CachedCidrsDiffer`; that
  follows from the cached nodes' routes being in a table with one route per
  destination (`OneRoute`), since their next hops differ; and for that a cached
  node's data must be the node's own (`Belongs`).  `IInv` is these, the same of
  the worker's snapshot, and that the loops visit only nodes that are in the
  snapshot, or in the cache (`Visiting`).  `Kept` is the part about kernel and
  cache; it is shown once for each of `addRoute()` and `delRoute()`.

`VxlanProofs`, under every combination of faults, for any nodes, VTEPs and a
cluster that does what it likes between two commands:

* `TypeCorrect`, `BelievedIsInstalled` (`CachedIsInstalled`), `RoutesAreRemembered`
  (`NoForgottenRoute`).  `IInv` adds that deletions visit cached nodes and
  an addition one that is not cached, with data the API gave (`Visiting`), and how
  far an addition has come (`HalfAdded`).  Each call to the kernel has a lemma that
  says what it touches (`AddRouteResult` and its sisters, on `Netlink`).  Nothing is
  assumed about the data of different nodes: an addition that meets another node's
  entry either shares it or is refused, and a roll-back that takes a shared one
  makes that node `flushed`.
* `DeletionIsComplete` (`ErasedIsDeleted`), an action property, from the same
  invariant.

`OhnodProofs`, under every combination of faults, any number of signals, kills and
restarts:

* `TypeCorrect`, `NoThreadOutlives` (`NoThreadLeft`), `SleepingDaemonWorks`
  (`PausedWorks`), `DevicesAreReleased` (`ReleasedOnExit`).  `IInv` says for each place of the main thread who has a
  thread and whether it has anything to do (`Threads`), when the handler runs
  and what it interrupted (`Signals`), how far devices and settings have come in
  evpn mode (`Progress`), and how far the handler is with deleting them (`Cleaning`).

Left to TLC are the seven liveness properties: `CallReturns`, `AnnouncedIsRouted`,
`WithdrawnIsRemoved`, `AnnouncedIsInstalled`, `WithdrawnIsErased`, `SignalStops`,
`ComesUp`.  Their proofs need ENABLED of the fair actions, which TLAPS does not
support.  Every other property of a passing run is a theorem.

## 5. Not modelled, and the plan

Done: `EtcdClient`, `Ipam`, `IpamNet`, `Cni`, `HostGw`, `VxlanBackend`, `Ohnod`, each
with its proofs: every invariant and action property that a run checks, and the
three refinements.

Left, in this order:

1. weaker assumptions for the theorems of `IpamLifeProofs`, as far as the code allows
   them: `SubnetsAreListed` for overlapping nodes needs the list per node;
2. overlapping calls of one node in `Cni`.  `EtcdClient` and `Ipam` show what
   overlap does to the lists; a promise about a node that nothing serializes
   could only be stated for the parts that are single writes.

Not modelled, and why:

* the encoding of routes and VTEPs as text (`storage.cc`), JSON, HTTP, kubeconfig and command-line parsing,
  the text of `ip` commands, IPv6: conversions, whose results the models take as
  values;
* the pipe of `ShellSync` (the hazard at `shell_sync.cc:57` depends on how many
  bytes a child writes); in all models a command ends;
* the variable `ETCDCTL_API` that constructor and destructor of the etcd client
  share: every `etcdctl` since 3.4 takes version 3 without it;
* a bridge device that cannot be made again when a process restores the cluster;
* logging and hashing; tests, benchmarks and scripts.
