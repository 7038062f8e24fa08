------------------------------ MODULE MCHostGw ------------------------------
(* Two other nodes, of which n3 may get the podCIDR that n2 had; n2 may     *)
(* come back with the other podCIDR.                                        *)
EXTENDS HostGw, TLC

CONSTANTS n2, n3

Entry(cidr, ip) == [cidr |-> cidr, ip |-> ip]

MCInfoOf == n2 :> {Entry("cidr1", "ip2"), Entry("cidr2", "ip2")}
         @@ n3 :> {Entry("cidr1", "ip3")}

\* n2 may come back with another address and the podCIDR it had.
AddressChanges == n2 :> {Entry("cidr1", "ip2"), Entry("cidr1", "ip4")}
               @@ n3 :> {Entry("cidr2", "ip3")}
=============================================================================
