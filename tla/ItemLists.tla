------------------------------ MODULE ItemLists ------------------------------
(***************************************************************************)
(* What the list operations of the etcd client promise: keys that hold sets *)
(* of items, to which one item at a time is added and from which one item   *)
(* at a time is removed, atomically.  While a list cannot be read, adding   *)
(* an item replaces the list.                                               *)
(***************************************************************************)
CONSTANTS
    Key, Item,
    Unreadable     \* TRUE when reading a list may fail

VARIABLE list

Add(k, v) == list' = [list EXCEPT ![k] = @ \cup {v}]

Remove(k, v) == list' = [list EXCEPT ![k] = @ \ {v}]

Replace(k, v) == Unreadable /\ list' = [list EXCEPT ![k] = {v}]

Init == list \in [Key -> SUBSET Item]

Next == \E k \in Key, v \in Item : Add(k, v) \/ Remove(k, v) \/ Replace(k, v)

Spec == Init /\ [][Next]_list
==============================================================================
