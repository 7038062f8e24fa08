------------------------------- MODULE MCIpam -------------------------------
(* Small clusters for Ipam, in a space of 16 addresses.                     *)
EXTENDS IpamNet, TLC

CONSTANTS p1, p2, p3, n1, n2, s1, s2, subnets

\* Two containers on n1 (one may be its root namespace), one on n2.
MCNodeOf == p1 :> n1 @@ p2 :> n1 @@ p3 :> n2
MCCidr   == n1 :> s1 @@ n2 :> s2
MCNetOf  == n1 :> [addr |-> 12, prefix |-> 2] @@ n2 :> [addr |-> 8, prefix |-> 2]
MCConfigured == [addr |-> 8, prefix |-> 1]
MCKey    == {n1, n2, subnets}
MCItem   == Addr \cup Subnet
=============================================================================
