----------------------------- MODULE EtcdClient -----------------------------
(***************************************************************************)
(* The etcd client of src/etcd/etcd_client_shell.cc as several processes    *)
(* use it.  Every client call is a sequence of `etcdctl` commands; one       *)
(* command is atomic, a call of two commands (append(), del() of a value)   *)
(* is not.  The value of a key is a comma-separated list, which the program *)
(* only ever tests for membership and from which it removes every           *)
(* occurrence of an item: a SET of items is an exact abstraction of it, and *)
(* a key that is absent or empty is the empty set.                          *)
(***************************************************************************)
EXTENDS FiniteSets

CONSTANTS
    Proc,      \* processes that use the store: one plugin call at a time each
    Key,       \* keys that hold a list
    Item,      \* items of the lists
    None,      \* "no value": the empty string
    Faults     \* what the environment may do, a subset of FaultKinds

(***************************************************************************)
(* readFail: an etcdctl read exits with an error.  writeFail: a write does, *)
(* and nothing was written.  ackLost: a write does, though etcd committed   *)
(* it.  crash: a process disappears between two commands.  overlap: calls   *)
(* of one node run at the same time.  nodes: calls of different nodes do.   *)
(* apiFail: the Kubernetes API does not tell the podCIDR of the node.       *)
(***************************************************************************)
FaultKinds ==
    {"readFail", "writeFail", "ackLost", "crash", "overlap", "nodes", "apiFail"}

ASSUME EtcdAssumption ==
    /\ Faults \subseteq FaultKinds
    /\ None \notin Item
    /\ None \notin Key

VARIABLES
    list,      \* list[k]: the items stored under key k
    call       \* call[p]: how far p is inside append() or del(key, value)

etcdVars == <<list, call>>

Idle == [at |-> "idle", key |-> None, item |-> None, buf |-> {}]

CallType == [at   : {"idle", "appendGet", "appendPut", "delList", "delPut"},
             key  : Key \cup {None},
             item : Item \cup {None},
             buf  : SUBSET Item]

-----------------------------------------------------------------------------
(* One etcdctl command.                                                     *)

ReadOutcome  == {"ok"} \cup ({"readFail"} \cap Faults)
WriteOutcome == {"ok"} \cup ({"writeFail", "ackLost"} \cap Faults)

\* What a put or del of function f at k leaves behind: the program sees "ok"
\* or a failure, and after a failure the write may have happened all the same.
Written(f, k, v, outcome) ==
    IF outcome = "writeFail" THEN f ELSE [f EXCEPT ![k] = v]

-----------------------------------------------------------------------------
(* append(key, item): get, then put of the old list with the item added.    *)
(* A failed get counts as an empty list.                                    *)

StartAppend(p, k, v) ==
    call' = [call EXCEPT ![p] =
                [at |-> "appendGet", key |-> k, item |-> v, buf |-> {}]]

\* Slip: put instead of append.
AppendedAsPut(old, v) == {v} \ {None}

Appended(old, v) == old \cup ({v} \ {None})

AppendGet(p, outcome) ==
    /\ call[p].at = "appendGet"
    /\ call' = [call EXCEPT
                  ![p].at = "appendPut",
                  ![p].buf = IF outcome = "ok"
                             THEN Appended(list[call[p].key], call[p].item)
                             ELSE Appended({}, call[p].item)]
    /\ UNCHANGED list

AppendPut(p, outcome) ==
    /\ call[p].at = "appendPut"
    /\ list' = Written(list, call[p].key, call[p].buf, outcome)
    /\ call' = [call EXCEPT ![p] = Idle]

-----------------------------------------------------------------------------
(* del(key, item): list, then put of the list without the item, or del of   *)
(* the key when nothing is left.  A failed list ends the call.              *)

StartDel(p, k, v) ==
    call' = [call EXCEPT ![p] =
                [at |-> "delList", key |-> k, item |-> v, buf |-> {}]]

\* Slip: the overload del(key), which drops the whole list.
RemovedAsKey(old, v) == {}

Removed(old, v) == old \ {v}

\* Slip: a failed list counts as an empty one, as in append().
DelListUnread(p, outcome) ==
    /\ call[p].at = "delList"
    /\ call' = [call EXCEPT
                  ![p].at = "delPut",
                  ![p].buf = IF outcome = "ok"
                             THEN Removed(list[call[p].key], call[p].item)
                             ELSE {}]
    /\ UNCHANGED list

DelList(p, outcome) ==
    /\ call[p].at = "delList"
    /\ call' = [call EXCEPT ![p] =
                  IF outcome = "ok"
                  THEN [@ EXCEPT !.at = "delPut",
                                 !.buf = Removed(list[call[p].key], call[p].item)]
                  ELSE Idle]
    /\ UNCHANGED list

DelPut(p, outcome) ==
    /\ call[p].at = "delPut"
    /\ list' = Written(list, call[p].key, call[p].buf, outcome)
    /\ call' = [call EXCEPT ![p] = Idle]

-----------------------------------------------------------------------------
(* The client on its own: any process appends and deletes any item.         *)

EtcdInit ==
    /\ list \in [Key -> SUBSET Item]
    /\ call = [p \in Proc |-> Idle]

\* Unless calls overlap, a call starts when every other one has returned.
EtcdMayStart(p) ==
    /\ call[p].at = "idle"
    /\ \/ "overlap" \in Faults
       \/ \A q \in Proc : call[q].at = "idle"

EtcdStart(p) ==
    /\ EtcdMayStart(p)
    /\ \E k \in Key, v \in Item : StartAppend(p, k, v) \/ StartDel(p, k, v)
    /\ UNCHANGED list

EtcdStep(p) ==
    \/ \E outcome \in ReadOutcome : AppendGet(p, outcome) \/ DelList(p, outcome)
    \/ \E outcome \in WriteOutcome : AppendPut(p, outcome) \/ DelPut(p, outcome)

EtcdCrash(p) ==
    /\ "crash" \in Faults
    /\ call[p].at # "idle"
    /\ call' = [call EXCEPT ![p] = Idle]
    /\ UNCHANGED list

EtcdNext == \E p \in Proc : EtcdStart(p) \/ EtcdStep(p) \/ EtcdCrash(p)

EtcdSpec == EtcdInit /\ [][EtcdNext]_etcdVars

-----------------------------------------------------------------------------
(* Properties.                                                              *)

EtcdTypeOK ==
    /\ list \in [Key -> SUBSET Item]
    /\ call \in [Proc -> CallType]

\* What the commands of append() and del() amount to when calls do not overlap.
Lists == INSTANCE ItemLists WITH Unreadable <- "readFail" \in Faults

\* Whatever commands fail in between, append() and del() of a value change no
\* item but the one they were called for; only an append() that could not read
\* the list replaces it, and then by its own item (etcd_client_shell.cc:84, 174).
ImplementsLists == Lists!Spec

\* "Append a value to what the key already holds, unless the key is absent or
\* get fails" (comment of EtcdClientShell::append): with reads that succeed, a
\* put that ends an append loses no item.
AppendExtends ==
    [][\A p \in Proc :
          (call[p].at = "appendPut" /\ call'[p].at = "idle")
              => \A k \in Key : list[k] \subseteq list'[k]]_etcdVars
=============================================================================
