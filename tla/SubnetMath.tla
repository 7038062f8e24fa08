----------------------------- MODULE SubnetMath -----------------------------
(***************************************************************************)
(* IPv4 subnets as src/net/subnet.cc computes with them.  An address is a   *)
(* number of MaxPrefix bits (32 in the code); a subnet is the address and   *)
(* the prefix length of its CIDR, host bits included, as network_v4 keeps   *)
(* them.  An IPv6 subnet or a string that is neither is no subnet: every    *)
(* operator on it throws.                                                   *)
(***************************************************************************)
EXTENDS Integers

CONSTANTS
    MaxPrefix,   \* MAX_PREFIX_IPV4
    Throws       \* the result of a call that throws

\* The powers of two are positive.
ASSUME SubnetAssumption ==
    /\ MaxPrefix \in Nat
    /\ Throws \notin Nat
    /\ \A n \in 0 .. MaxPrefix : 2 ^ n \in Nat \ {0}

Space == 2 ^ MaxPrefix

Net == [addr : 0 .. Space - 1, prefix : 0 .. MaxPrefix]

\* How many addresses a subnet spans, and the first of them.
Size(net) == 2 ^ (MaxPrefix - net.prefix)

Canonical(net) == net.addr - (net.addr % Size(net))

\* The shift `1 << n` of an int is defined for less than 32 bits: prefix 0 is
\* left out.
GetMaxSubnetsFromCidr(net, newPrefix) ==
    IF newPrefix <= net.prefix THEN Throws ELSE 2 ^ (newPrefix - net.prefix)

GetMaxHosts(net) == GetMaxSubnetsFromCidr(net, MaxPrefix)

\* Slip: indexes count from the address of the subnet itself.
GenerateIpZero(net, index) ==
    IF index < 1 THEN Throws
    ELSE IF net.prefix = MaxPrefix THEN net.addr ELSE (net.addr + index - 1) % Space

\* Slip: the base is left out.
GenerateIpFlat(net, index) ==
    IF index < 1 THEN Throws ELSE index % Space

\* to_uint() + index wraps around.
GenerateIp(net, index) ==
    IF index < 1 THEN Throws
    ELSE IF net.prefix = MaxPrefix THEN net.addr ELSE (net.addr + index) % Space

\* Slip: the host bits of the address are compared as well.
IsSubnetOfExact(net, other) == net.prefix > other.prefix /\ net.addr = other.addr

\* Only a longer prefix makes a subnet: one is not a subnet of itself.
IsSubnetOf(net, other) ==
    /\ net.prefix > other.prefix
    /\ Canonical([net EXCEPT !.prefix = other.prefix]) = Canonical(other)

Spans(net) == Canonical(net) .. Canonical(net) + Size(net) - 1
=============================================================================
