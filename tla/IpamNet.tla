------------------------------- MODULE IpamNet -------------------------------
(***************************************************************************)
(* The addresses that Ipam hands out as indexes, made into IP addresses     *)
(* with the arithmetic of the subnets: allocateIp() returns generateIp(i)   *)
(* of the node's podCIDR (src/ipam/ipam.cc:143-151).                        *)
(***************************************************************************)
EXTENDS Ipam, SubnetMath

CONSTANTS
    NetOf,       \* NetOf[n]: the podCIDR of node n as a subnet
    Configured   \* the cluster's subnet in the CNI configuration

\* Kubernetes gives nodes podCIDRs that do not overlap and have no host bits;
\* they are proper parts of the subnet the CNI configuration names.
ASSUME IpamNetAssumption ==
    /\ NetOf \in [Node -> Net] /\ Configured \in Net
    /\ \A n \in Node :
          /\ Canonical(NetOf[n]) = NetOf[n].addr
          /\ Spans(NetOf[n]) \subseteq 0 .. Space - 1
          /\ MaxHosts = GetMaxHosts(NetOf[n])
          /\ Configured.prefix < NetOf[n].prefix
          /\ Spans(NetOf[n]) \subseteq Spans(Configured)
    /\ \A m, n \in Node : m # n => Spans(NetOf[m]) \cap Spans(NetOf[n]) = {}

\* The IP address of p's container.
IpOf(p) == GenerateIp(NetOf[NodeOf[p]], held[p])

Holds(p) == held[p] # None

\* An address that allocateIp() hands out is a host of the node's own podCIDR,
\* neither the network's nor the broadcast address, and no two containers of
\* the whole cluster have the same (ipam.cc:148-151, subnet.cc:144-159).
IpsAreHosts ==
    \A p \in Proc : Holds(p) =>
        LET net == NetOf[NodeOf[p]]
        IN  net.addr < IpOf(p) /\ IpOf(p) < net.addr + Size(net) - 1

IpsDiffer ==
    \A p, q \in Proc : Holds(p) /\ Holds(q) /\ p # q => IpOf(p) # IpOf(q)

\* The ADD of a container that has its address already accepts that address: it
\* is in the configured subnet, with the podCIDR's prefix (cni.cc:204-212).
IpsBelong ==
    \A p \in Proc : Holds(p) =>
        IsSubnetOf([addr |-> IpOf(p), prefix |-> NetOf[NodeOf[p]].prefix], Configured)
=============================================================================
