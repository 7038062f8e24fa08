----------------------------- MODULE AddressPool -----------------------------
(***************************************************************************)
(* What the IP address management of a cluster promises: every node has a   *)
(* pool of addresses; an address is granted to a container only while it is *)
(* free in the pool of the container's node, and returns to the pool only   *)
(* when no container of the node has it.  An address may also be lost: it   *)
(* is taken although nobody got it.                                         *)
(***************************************************************************)
CONSTANTS Proc, Node, NodeOf, Addr, None

VARIABLES
    held,      \* held[p]: the address container p uses, or None
    used       \* used[n]: the addresses of node n that are taken

vars == <<held, used>>

Init ==
    /\ held = [p \in Proc |-> None]
    /\ used = [n \in Node |-> {}]

Grant(p, a) ==
    /\ held[p] = None
    /\ a \notin used[NodeOf[p]]
    /\ held' = [held EXCEPT ![p] = a]
    /\ used' = [used EXCEPT ![NodeOf[p]] = @ \cup {a}]

\* The container goes away; its address stays taken for the time being.
Leave(p) ==
    /\ held' = [held EXCEPT ![p] = None]
    /\ UNCHANGED used

Reclaim(n, a) ==
    /\ \A p \in Proc : NodeOf[p] = n => held[p] # a
    /\ used' = [used EXCEPT ![n] = @ \ {a}]
    /\ UNCHANGED held

Lose(n, a) ==
    /\ used' = [used EXCEPT ![n] = @ \cup {a}]
    /\ UNCHANGED held

Next ==
    \/ \E p \in Proc : Leave(p) \/ \E a \in Addr : Grant(p, a)
    \/ \E n \in Node, a \in Addr : Reclaim(n, a) \/ Lose(n, a)

Spec == Init /\ [][Next]_vars
==============================================================================
