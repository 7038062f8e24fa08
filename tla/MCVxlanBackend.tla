--------------------------- MODULE MCVxlanBackend ---------------------------
(* Two other nodes, of which n2 got the podCIDR that n3 had before: the VTEP  *)
(* of n3 keeps that podCIDR's address, so both have the same.  Or one node,   *)
(* whose device is made again with another MAC.                               *)
EXTENDS VxlanBackend, TLC

CONSTANTS n2, n3

MCInfo(cidr, ip) == [cidr |-> cidr, ip |-> ip]
MCVtep(addr, mac) == [addr |-> addr, mac |-> mac]

Moved == n2 :> {MCInfo("cidr1", "ip2")} @@ n3 :> {MCInfo("cidr2", "ip3")}

SameAddr == n2 :> {MCVtep("addr1", "mac2")} @@ n3 :> {MCVtep("addr1", "mac3")}

OneInfo == n2 :> {MCInfo("cidr2", "ip2")}

TwoMacs == n2 :> {MCVtep("addr2", m) : m \in {"mac2", "mac2b"}}
=============================================================================
