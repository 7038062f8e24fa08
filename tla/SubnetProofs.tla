---------------------------- MODULE SubnetProofs ----------------------------
(***************************************************************************)
(* Theorems about the IP addresses of a cluster: in every cluster whose     *)
(* podCIDRs do not overlap, of any size, the addresses of all containers    *)
(* are hosts of their nodes' subnets, belong to the configured subnet and   *)
(* differ.                                                                  *)
(***************************************************************************)
EXTENDS IpamNet, IpamProofs

-----------------------------------------------------------------------------
(* Subnet arithmetic.                                                       *)

\* getMaxHosts() of a node's subnet is the number of its addresses.
LEMMA NodeSubnet ==
    ASSUME NEW n \in Node
    PROVE  /\ NetOf[n] \in Net
           /\ NetOf[n].prefix < MaxPrefix
           /\ Size(NetOf[n]) = MaxHosts
           /\ MaxHosts \in Nat
           /\ Canonical(NetOf[n]) = NetOf[n].addr
           /\ NetOf[n].addr \in Nat
<1>1. /\ NetOf[n] \in Net
      /\ Canonical(NetOf[n]) = NetOf[n].addr
      /\ MaxHosts = GetMaxHosts(NetOf[n])
      /\ MaxHosts \in Nat
    BY IpamNetAssumption, IpamAssumption
<1>2. NetOf[n].prefix \in 0 .. MaxPrefix /\ NetOf[n].addr \in 0 .. Space - 1
    BY <1>1 DEF Net
<1>3. NetOf[n].prefix < MaxPrefix
    BY <1>1, <1>2, SubnetAssumption DEF GetMaxHosts, GetMaxSubnetsFromCidr
<1>4. Size(NetOf[n]) = MaxHosts
    BY <1>1, <1>2, <1>3, SubnetAssumption
       DEF GetMaxHosts, GetMaxSubnetsFromCidr, Size
<1> QED BY <1>1, <1>2, <1>3, <1>4

\* generateIp() of an allocatable index is a host of the subnet: no wrap.
LEMMA GeneratedIp ==
    ASSUME NEW n \in Node, NEW a \in Addr
    PROVE  /\ GenerateIp(NetOf[n], a) = NetOf[n].addr + a
           /\ GenerateIp(NetOf[n], a) \in Spans(NetOf[n])
<1> DEFINE net == NetOf[n]
<1>1. a \in Nat /\ 1 <= a /\ a <= MaxHosts - 2
    BY NodeSubnet DEF Addr
<1>2. net.addr + a \in Spans(net)
    BY <1>1, NodeSubnet DEF Spans
<1>3. net.addr + a \in 0 .. Space - 1
    BY <1>2, IpamNetAssumption
<1>4. Space \in Nat
    BY SubnetAssumption DEF Space
<1>5. (net.addr + a) % Space = net.addr + a
    BY <1>3, <1>4
<1>6. net.prefix # MaxPrefix
    BY NodeSubnet, SubnetAssumption DEF Net
<1>7. GenerateIp(net, a) = net.addr + a
    BY <1>1, <1>5, <1>6 DEF GenerateIp
<1> QED BY <1>2, <1>7

\* Quotient and remainder.
LEMMA Division ==
    ASSUME NEW x \in Nat, NEW s \in Nat \ {0}
    PROVE  /\ x \div s \in Nat /\ (x % s) \in 0 .. s - 1
           /\ x = s * (x \div s) + (x % s)
OBVIOUS

\* There is only one remainder.
LEMMA RemainderUnique ==
    ASSUME NEW s \in Nat \ {0}, NEW q \in Nat, NEW r \in 0 .. s - 1,
           NEW t \in Nat, NEW u \in 0 .. s - 1, s * q + r = s * t + u
    PROVE  r = u
<1>1. ASSUME NEW a \in Nat, NEW b \in Nat, a < b
      PROVE  s * a + s <= s * b
    <2>1. PICK d \in Nat : b = a + 1 + d
        <3>1. b = a + 1 + (b - a - 1) /\ b - a - 1 \in Nat
            BY <1>1
        <3> QED BY <3>1
    <2>2. s * b = s * a + s + s * d /\ s * d \in Nat
        BY <2>1
    <2>3. s * a \in Nat /\ s * b \in Nat
        OBVIOUS
    <2> QED BY <2>2, <2>3
<1>2. s * q \in Nat /\ s * t \in Nat
    OBVIOUS
<1>3. ~ q < t
    BY <1>1, <1>2
<1>4. ~ t < q
    BY <1>1, <1>2
<1> QED BY <1>2, <1>3, <1>4

\* All addresses of a block of s addresses have the same first address: what the
\* mask of canonical() leaves of them.
LEMMA SameBlock ==
    ASSUME NEW x \in Nat, NEW y \in Nat, NEW s \in Nat \ {0},
           y \in (x - (x % s)) .. (x - (x % s) + s - 1)
    PROVE  y - (y % s) = x - (x % s)
<1> DEFINE q == x \div s
           r == y - (x - (x % s))
<1>1. q \in Nat /\ x = s * q + (x % s) /\ (x % s) \in 0 .. s - 1
    BY Division
<1>2. r \in 0 .. s - 1 /\ y = s * q + r
    <2>1. s * q \in Nat
        BY <1>1
    <2> QED BY <1>1, <2>1
<1>3. y \div s \in Nat /\ y = s * (y \div s) + (y % s) /\ (y % s) \in 0 .. s - 1
    BY Division
<1> HIDE DEF q, r
<1>4. r = (y % s)
    BY <1>1, <1>2, <1>3, RemainderUnique
<1>5. y - r = x - (x % s)
    BY <1>1 DEF r
<1> QED BY <1>4, <1>5

\* isSubnetOf() recognises every longer prefix of an address the other subnet
\* spans, whatever host bits either has.
LEMMA SpannedIsSubnet ==
    ASSUME NEW net \in Net, NEW other \in Net, net.prefix > other.prefix,
           net.addr \in Spans(other)
    PROVE  IsSubnetOf(net, other)
<1> DEFINE s == Size(other)
           cut == [net EXCEPT !.prefix = other.prefix]
<1>1. other.prefix \in 0 .. MaxPrefix /\ other.addr \in Nat /\ net.addr \in Nat
    BY SubnetAssumption DEF Net
<1>2. s \in Nat \ {0}
    BY <1>1, SubnetAssumption DEF Size
<1>3. cut.addr = net.addr /\ cut.prefix = other.prefix
    BY DEF Net
<1>4. Size(cut) = s
    BY <1>3 DEF Size
<1>5. net.addr \in (other.addr - (other.addr % s)) ..
                   (other.addr - (other.addr % s) + s - 1)
    BY DEF Spans, Canonical
<1> HIDE DEF s, cut
<1>6. Canonical(cut) = net.addr - (net.addr % s)
    BY <1>3, <1>4 DEF Canonical
<1>7. Canonical(other) = other.addr - (other.addr % s)
    BY DEF Canonical, s
<1>8. Canonical(cut) = Canonical(other)
    BY <1>1, <1>2, <1>5, <1>6, <1>7, SameBlock
<1> QED BY <1>8 DEF IsSubnetOf, cut

-----------------------------------------------------------------------------
\* A held address is one generateIp() takes.
LEMMA HeldIsAddr ==
    ASSUME TypeOK, NEW p \in Proc, Holds(p)
    PROVE  held[p] \in Addr /\ NodeOf[p] \in Node
BY IpamAssumption DEF TypeOK, Holds

LEMMA HostsFollow == TypeOK => IpsAreHosts
<1> SUFFICES ASSUME TypeOK, NEW p \in Proc, Holds(p)
             PROVE  LET net == NetOf[NodeOf[p]]
                    IN  net.addr < IpOf(p) /\ IpOf(p) < net.addr + Size(net) - 1
    BY DEF IpsAreHosts
<1> DEFINE net == NetOf[NodeOf[p]]
<1>1. held[p] \in Addr /\ NodeOf[p] \in Node
    BY HeldIsAddr
<1>2. IpOf(p) = net.addr + held[p]
    BY <1>1, GeneratedIp DEF IpOf
<1>3. net.addr \in Nat /\ Size(net) = MaxHosts /\ MaxHosts \in Nat
    BY <1>1, NodeSubnet
<1> QED BY <1>1, <1>2, <1>3 DEF Addr

LEMMA DifferFollows == TypeOK /\ UniqueHolder => IpsDiffer
<1> SUFFICES ASSUME TypeOK, UniqueHolder,
                    NEW p \in Proc, NEW q \in Proc, Holds(p), Holds(q), p # q
             PROVE  IpOf(p) # IpOf(q)
    BY DEF IpsDiffer
<1>1. /\ held[p] \in Addr /\ NodeOf[p] \in Node
      /\ held[q] \in Addr /\ NodeOf[q] \in Node
    BY HeldIsAddr
<1>2. CASE NodeOf[p] = NodeOf[q]
    <2>1. held[p] # held[q]
        BY <1>2 DEF UniqueHolder, SameNode, Holds
    <2>2. /\ IpOf(p) = NetOf[NodeOf[p]].addr + held[p]
          /\ IpOf(q) = NetOf[NodeOf[p]].addr + held[q]
        BY <1>1, <1>2, GeneratedIp DEF IpOf
    <2>3. NetOf[NodeOf[p]].addr \in Nat /\ MaxHosts \in Nat
        BY <1>1, NodeSubnet
    <2> QED BY <1>1, <2>1, <2>2, <2>3 DEF Addr
<1>3. CASE NodeOf[p] # NodeOf[q]
    <2>1. /\ IpOf(p) \in Spans(NetOf[NodeOf[p]])
          /\ IpOf(q) \in Spans(NetOf[NodeOf[q]])
        BY <1>1, GeneratedIp DEF IpOf
    <2>2. Spans(NetOf[NodeOf[p]]) \cap Spans(NetOf[NodeOf[q]]) = {}
        BY <1>1, <1>3, IpamNetAssumption
    <2> QED BY <2>1, <2>2
<1> QED BY <1>2, <1>3

LEMMA BelongFollows == TypeOK => IpsBelong
<1> SUFFICES ASSUME TypeOK, NEW p \in Proc, Holds(p)
             PROVE  IsSubnetOf([addr |-> IpOf(p), prefix |-> NetOf[NodeOf[p]].prefix],
                               Configured)
    BY DEF IpsBelong
<1> DEFINE n == NodeOf[p]
           ip == [addr |-> IpOf(p), prefix |-> NetOf[n].prefix]
<1>1. held[p] \in Addr /\ n \in Node
    BY HeldIsAddr
<1>2. IpOf(p) \in Spans(NetOf[n])
    BY <1>1, GeneratedIp DEF IpOf
<1>3. /\ IpOf(p) \in 0 .. Space - 1 /\ IpOf(p) \in Spans(Configured)
      /\ Configured \in Net /\ Configured.prefix < NetOf[n].prefix
    BY <1>1, <1>2, IpamNetAssumption
<1>4. NetOf[n].prefix \in 0 .. MaxPrefix
    BY <1>1, NodeSubnet DEF Net
<1>5. ip \in Net /\ ip.addr = IpOf(p) /\ ip.prefix = NetOf[n].prefix
    BY <1>3, <1>4 DEF Net
<1>6. ip.prefix > Configured.prefix
    BY <1>3, <1>4, <1>5, SubnetAssumption DEF Net
<1> HIDE DEF ip
<1>7. IsSubnetOf(ip, Configured)
    BY <1>3, <1>5, <1>6, SpannedIsSubnet
<1> QED BY <1>7 DEF ip

\* Whatever fails and whatever overlaps, an address that is handed out is
\* neither the network's nor the broadcast address of its node's podCIDR, nor
\* one that wrapped around (subnet.cc:144-159).
THEOREM AddressesAreHosts == Spec => []IpsAreHosts
BY TypeCorrect, HostsFollow, PTL

\* When reads succeed and a node's calls run one after the other, no two
\* containers of the cluster have one IP address (ipam.cc:143-151).
THEOREM AddressesDiffer ==
    ASSUME ReliableReads, NodeInTurn
    PROVE  Spec => []IpsDiffer
BY TypeCorrect, AddressesAreSafe, DifferFollows, PTL

\* The ADD of a container that has its address already finds that address in the
\* subnet of the CNI configuration, whatever failed before (cni.cc:204-212).
THEOREM AddressesBelong == Spec => []IpsBelong
BY TypeCorrect, BelongFollows, PTL
=============================================================================
