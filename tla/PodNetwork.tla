------------------------------ MODULE PodNetwork -----------------------------
(***************************************************************************)
(* What the plugin promises the container runtime of a node: a container is *)
(* connected with one address, which no other connected container has and   *)
(* which stays the same until it is disconnected; a container that was      *)
(* deleted is not connected again; as long as one is connected the node has *)
(* its bridge, and while one stays connected the bridge loses no address.   *)
(***************************************************************************)
CONSTANTS Container, Addr, None

VARIABLES
    net,       \* net[c]: the address container c is connected with, or None
    deleted,   \* the containers whose deletion the runtime has asked for
    bridge,    \* the node has its bridge
    gateway    \* the addresses the bridge has

vars == <<net, deleted, bridge, gateway>>

Connected == {c \in Container : net[c] # None}

Init ==
    /\ net = [c \in Container |-> None]
    /\ deleted = {}
    /\ bridge = FALSE
    /\ gateway = {}

Connect(c, a) ==
    /\ c \notin Connected \cup deleted
    /\ \A d \in Connected : net[d] # a
    /\ net' = [net EXCEPT ![c] = a]
    /\ UNCHANGED deleted

\* Nobody need be disconnected.
Disconnect(C) ==
    /\ net' = [c \in Container |-> IF c \in C THEN None ELSE net[c]]
    /\ UNCHANGED deleted

Delete(c) ==
    /\ net' = [net EXCEPT ![c] = None]
    /\ deleted' = deleted \cup {c}

Next ==
    /\ \/ \E c \in Container, a \in Addr : Connect(c, a)
       \/ \E C \in SUBSET Container : Disconnect(C)
       \/ \E c \in Container : Delete(c)
    /\ bridge' \in BOOLEAN /\ gateway' \in SUBSET Addr
    /\ Connected' # {} => bridge'
    /\ Connected \cap Connected' # {} => gateway \subseteq gateway'

Spec == Init /\ [][Next]_vars
==============================================================================
