------------------------------- MODULE Netlink -------------------------------
(***************************************************************************)
(* The entries a network interface object (src/net/nic.cc) puts into the    *)
(* kernel's tables with `ip` and `bridge` commands                          *)
(* (src/net/netlink/netlink_ip_cmd.cc).  A call is two commands: one shows  *)
(* the entry, and then one adds or deletes it.  Of a call, `ran` says which *)
(* of the two succeed, as far as the command itself goes; the result is     *)
(* what the call returns and the table it leaves.                           *)
(***************************************************************************)
CONSTANTS
    None,       \* the empty string
    Underlay    \* the device the kernel sends a route without device through

Ran == [show : BOOLEAN, set : BOOLEAN]

AllRan == [show |-> TRUE, set |-> TRUE]

\* A table and the return value of the call that left it.
Result(ok, table) == [ok |-> ok, table |-> table]

\* An entry that is shown is not added again; `clash`: the kernel has one of
\* that key (EEXIST).
Add(table, shown, clash, entry, ran) ==
    IF shown THEN Result(TRUE, table)
    ELSE IF ran.set /\ ~ clash THEN Result(TRUE, table \cup {entry})
    ELSE Result(FALSE, table)

\* An entry that is not shown counts as deleted.
Del(table, shown, entries, ran) ==
    IF ~ shown THEN Result(TRUE, table)
    ELSE IF ran.set /\ entries # {} THEN Result(TRUE, table \ entries)
    ELSE Result(FALSE, table)

-----------------------------------------------------------------------------
(* Routes.  The kernel has one per destination.                             *)

Route(dest, via, dev) == [dest |-> dest, via |-> via,
                          dev |-> IF dev = None THEN Underlay ELSE dev]

\* Without a device any will do.
RoutesOf(table, dest, via, dev) ==
    {r \in table : r.dest = dest /\ r.via = via /\ dev \in {None, r.dev}}

\* `ip route show dest via` without an address is an error, and an error
\* counts as no route.
RouteIsExist(table, dest, via, dev, ran) ==
    ran.show /\ via # None /\ RoutesOf(table, dest, via, dev) # {}

\* Slip: as if by `ip route append`.
RouteClashNever(table, dest) == FALSE

RouteClash(table, dest) == \E r \in table : r.dest = dest

\* Slip: a route that is there already is an error.
AddRouteStrict(table, dest, via, dev, ran) ==
    IF RouteIsExist(table, dest, via, dev, ran) THEN Result(FALSE, table)
    ELSE Add(table, FALSE, RouteClash(table, dest), Route(dest, via, dev), ran)

AddRoute(table, dest, via, dev, ran) ==
    Add(table, RouteIsExist(table, dest, via, dev, ran), RouteClash(table, dest),
        Route(dest, via, dev), ran)

DelRoute(table, dest, via, dev, ran) ==
    Del(table, RouteIsExist(table, dest, via, dev, ran),
        RoutesOf(table, dest, via, dev), ran)

-----------------------------------------------------------------------------
(* Neighbours of one device, one per address.  The kernel makes one without *)
(* MAC for an address it has to resolve.                                    *)

Neigh(addr, mac) == [addr |-> addr, mac |-> mac]

NeighsOf(table, addr) == {e \in table : e.addr = addr}

\* Without an address `ip neigh show` shows every neighbour of the device.
NeighIsExist(table, addr, ran) ==
    ran.show /\ (IF addr = None THEN table ELSE NeighsOf(table, addr)) # {}

AddNeigh(table, addr, mac, ran) ==
    Add(table, NeighIsExist(table, addr, ran), NeighsOf(table, addr) # {},
        Neigh(addr, mac), ran)

\* Without an address nothing is deleted; the MAC does not matter.
DelNeigh(table, addr, ran) ==
    Del(table, NeighIsExist(table, addr, ran), NeighsOf(table, addr), ran)

-----------------------------------------------------------------------------
(* Forwarding entries of one device, one per MAC.                           *)

Fdb(mac, dst) == [mac |-> mac, dst |-> dst]

\* Without a MAC, grep has no pattern and fails.
FdbIsExist(table, mac, dst, ran) ==
    ran.show /\ mac # None /\ Fdb(mac, dst) \in table

AddFdb(table, mac, dst, ran) ==
    Add(table, FdbIsExist(table, mac, dst, ran), \E e \in table : e.mac = mac,
        Fdb(mac, dst), ran)

DelFdb(table, mac, dst, ran) ==
    Del(table, FdbIsExist(table, mac, dst, ran), {Fdb(mac, dst)}, ran)
=============================================================================
