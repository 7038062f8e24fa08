--------------------------- MODULE IpamLifeProofs ---------------------------
(***************************************************************************)
(* Theorems about what an IPAM operation leaves behind, for any cluster: the *)
(* list of subnets knows the subnet of every node, without failures every    *)
(* recorded address is some container's, and where failed writes were made   *)
(* all the same an allocateIp() gives up only when no address is free.       *)
(***************************************************************************)
EXTENDS IpamProofs

-----------------------------------------------------------------------------
(* The invariants.                                                          *)

\* Calls of different nodes do not overlap either, a failed write was none, and
\* every node has a podCIDR of its own.
ClusterInTurn == NodeInTurn /\ "nodes" \notin Faults
AcksArrive    == "ackLost" \notin Faults
CidrsDiffer   == \A m, n \in Node : m # n => Cidr[m] # Cidr[n]

\* In the cluster, at most one operation is in progress.
OneCall == \A p, q \in Proc : p # q => pc[p] = "idle" \/ pc[q] = "idle"

\* A node has no subnet but its podCIDR.
OwnSubnet(n) == subnetOf[n] \in {Cidr[n], None}

\* What an operation on a subnet knows: it works for its node's podCIDR, which the
\* node's key does not hold while the list is changed, and which is listed before
\* that key is written.
KnowsList(p) ==
    LET cidr == {Cidr[NodeOf[p]], None}
    IN  /\ pc[p] \in {"subnetAppend", "subnetPut", "nodeDel"} => arg[p] \in cidr
        /\ pc[p] \in {"subnetAppend", "subnetDel"} => call[p].item \in cidr
        /\ pc[p] \in {"subnetAppend", "subnetPut", "subnetDel"} => subnetOf[NodeOf[p]] = None
        /\ pc[p] = "subnetAppend" => call[p].item = arg[p]
        /\ pc[p] = "subnetAppend" /\ call[p].at = "appendPut" =>
              call[p].buf = Appended(list[SubnetsKey], arg[p])
        /\ pc[p] = "subnetPut" /\ arg[p] # None => arg[p] \in list[SubnetsKey]
        /\ pc[p] = "subnetDel" /\ call[p].at = "delPut" =>
              call[p].buf = Removed(list[SubnetsKey], call[p].item)

\* Inductive when, besides, calls do not overlap at all.
ListInv ==
    /\ TypeInv
    /\ OneCall
    /\ SubnetIsListed
    /\ \A n \in Node : OwnSubnet(n)
    /\ \A p \in Proc : KnowsList(p)

\* Nothing fails; the nodes may run at the same time.
NothingFails == Faults \cap {"readFail", "writeFail", "ackLost", "crash"} = {}

\* The addresses containers of node n have, and those a releaseIp() of it takes back.
HeldOn(n)     == {held[p] : p \in {q \in Proc : NodeOf[q] = n}} \ {None}
ReleasedOn(n) == {call[p].item : p \in {q \in Proc : NodeOf[q] = n /\ pc[q] = "addrDel"}}

NoneLost(n) == list[n] = HeldOn(n) \cup ReleasedOn(n)

\* Inductive when nothing fails.
LeakInv ==
    /\ IInv
    /\ \A n \in Node : NoneLost(n)

-----------------------------------------------------------------------------
(* The list of subnets knows the subnet of every node.                      *)

\* A step that is part of an operation, or its start.
LEMMA StepIsInCall ==
  ASSUME NEW p \in Proc, Start(p) \/ Step(p) \/ Crash(p)
  PROVE  pc[p] # "idle" \/ MayStart(p)
  BY DEF Start, Step, Crash, AllocateIp, ReleaseIp, AllocateSubnet,
         ReleaseSubnet, TryCandidate, AppendIp, RemoveIp, AppendSubnet,
         PutNodeSubnet, DelNodeSubnet, RemoveSubnet

\* The operations on addresses touch neither the list of subnets nor a node's key.
LEMMA AddressesLeaveSubnets ==
  ASSUME NEW p \in Proc, TypeInv,
         \/ AllocateIp(p) \/ ReleaseIp(p) \/ TryCandidate(p)
         \/ AppendIp(p) \/ RemoveIp(p)
  PROVE  /\ list'[SubnetsKey] = list[SubnetsKey] /\ subnetOf' = subnetOf
         /\ pc'[p] \in {"idle", "available", "addrAppend", "addrDel"}
<1> USE KeysAreKeys DEF TypeInv, TypeOK
<1>1. CASE AllocateIp(p) \/ ReleaseIp(p)
  BY <1>1 DEF AllocateIp, ReleaseIp, Goto
<1>2. CASE TryCandidate(p)
  BY <1>2 DEF TryCandidate, NextCandidate, Return, Goto
<1>3. CASE AppendIp(p)
  <2>1. pc[p] = "addrAppend" /\ subnetOf' = subnetOf
    BY <1>3 DEF AppendIp
  <2>2. call[p].key = NodeOf[p] /\ SubnetsKey # NodeOf[p]
    BY <2>1, IpamAssumption DEF CallMatchesPC, CallMatches
  <2>3. list'[SubnetsKey] = list[SubnetsKey]
    BY <1>3, <2>2, AppendGetType, PutType DEF AppendIp
  <2>4. pc'[p] \in {"idle", "available", "addrAppend"}
    BY <1>3 DEF AppendIp, NextCandidate, Return, Goto
  <2> QED BY <2>1, <2>3, <2>4
<1>4. CASE RemoveIp(p)
  <2>1. pc[p] = "addrDel" /\ subnetOf' = subnetOf
    BY <1>4 DEF RemoveIp
  <2>2. call[p].key = NodeOf[p] /\ SubnetsKey # NodeOf[p]
    BY <2>1, IpamAssumption DEF CallMatchesPC, CallMatches
  <2>3. list'[SubnetsKey] = list[SubnetsKey]
    BY <1>4, <2>2, DelListType, PutType DEF RemoveIp, DelItem
  <2>4. pc'[p] \in {"idle", "addrDel"}
    BY <1>4 DEF RemoveIp, DelItem, Return, Goto
  <2> QED BY <2>1, <2>3, <2>4
<1> QED BY <1>1, <1>2, <1>3, <1>4

\* What ListInv says of the operation of p and of its effect.
ListOwn(p) ==
    /\ SubnetIsListed
    /\ \A n \in Node : OwnSubnet(n)
    /\ KnowsList(p)

\* allocateSubnet() writes the list first and releaseSubnet() the node's key.
LEMMA SubnetStartKnows ==
  ASSUME NEW p \in Proc, ReliableReads, ListInv,
         AllocateSubnet(p) \/ ReleaseSubnet(p)
  PROVE  ListOwn(p)'
<1> USE KeysAreKeys DEF ListInv, TypeInv, TypeOK
<1> DEFINE n == NodeOf[p]
<1>1. UNCHANGED <<list, subnetOf>>
  BY DEF AllocateSubnet, ReleaseSubnet
<1>2. SubnetIsListed' /\ \A m \in Node : OwnSubnet(m)'
  BY <1>1 DEF SubnetIsListed, OwnSubnet
<1>3. CASE AllocateSubnet(p)
  <2>1. PICK cidr \in {Cidr[n], None} :
            StartAppend(p, SubnetsKey, cidr) /\ Goto(p, "subnetAppend", cidr)
    BY <1>3 DEF AllocateSubnet
  <2>2. call'[p].item = cidr /\ call'[p].at = "appendGet"
    BY <2>1, StartType
  <2>3. pc'[p] = "subnetAppend" /\ arg'[p] = cidr /\ subnetOf[n] = None
    BY <1>3, <2>1 DEF AllocateSubnet, Goto, ReliableReads
  <2> QED BY <1>1, <1>2, <2>2, <2>3 DEF ListOwn, KnowsList
<1>4. CASE ReleaseSubnet(p)
  <2>1. pc'[p] = "nodeDel" /\ arg'[p] = subnetOf[n]
    BY <1>4 DEF ReleaseSubnet, Goto
  <2> QED BY <1>1, <1>2, <2>1 DEF ListOwn, KnowsList, OwnSubnet
<1> QED BY <1>3, <1>4

\* An append of a subnet keeps the subnets of the other nodes, because it could
\* read the list.
LEMMA AppendSubnetKnows ==
  ASSUME NEW p \in Proc, ReliableReads, ListInv, AppendSubnet(p)
  PROVE  ListOwn(p)'
<1> USE KeysAreKeys DEF ListInv, TypeInv, TypeOK
<1>1. /\ pc[p] = "subnetAppend" /\ call[p].key = SubnetsKey
      /\ call[p].at \in Appending /\ subnetOf' = subnetOf
      /\ subnetOf[NodeOf[p]] = None
      /\ call[p].item = arg[p] /\ arg[p] \in {Cidr[NodeOf[p]], None}
  BY DEF AppendSubnet, CallMatchesPC, CallMatches, KnowsList
<1>2. \A m \in Node : OwnSubnet(m)'
  BY <1>1 DEF OwnSubnet
<1>3. ASSUME NEW o \in ReadOutcome, AppendGet(p, o), UNCHANGED <<pc, arg>>
      PROVE  ListOwn(p)'
  <2>1. o = "ok"
    BY DEF ReadOutcome, ReliableReads
  <2>2. /\ list' = list /\ call'[p].item = call[p].item
        /\ call'[p].buf = Appended(list[SubnetsKey], arg[p])
    BY <1>1, <1>3, <2>1, AppendGetType
  <2>3. SubnetIsListed'
    BY <1>1, <2>2 DEF SubnetIsListed
  <2> QED BY <1>1, <1>2, <1>3, <2>2, <2>3 DEF ListOwn, KnowsList
<1>4. ASSUME NEW o \in WriteOutcome, AppendPut(p, o),
             IF o = "ok" THEN Goto(p, "subnetPut", arg[p]) ELSE Return(p)
      PROVE  ListOwn(p)'
  <2>1. call[p].buf = list[SubnetsKey] \cup ({arg[p]} \ {None})
    BY <1>1, <1>4 DEF KnowsList, AppendPut, Appended
  <2>2. /\ list[SubnetsKey] \subseteq list'[SubnetsKey]
        /\ o = "ok" => call[p].buf = list'[SubnetsKey]
    BY <1>1, <1>4, <2>1, PutType
  <2>3. SubnetIsListed'
    BY <1>1, <2>2 DEF SubnetIsListed
  <2>4. \/ pc'[p] = "idle"
        \/ o = "ok" /\ pc'[p] = "subnetPut" /\ arg'[p] = arg[p]
    BY <1>4 DEF Return, Goto
  <2> QED BY <1>1, <1>2, <2>1, <2>2, <2>3, <2>4 DEF ListOwn, KnowsList
<1> QED BY <1>3, <1>4 DEF AppendSubnet

\* The node's key is written when the subnet is in the list, and is gone before
\* the subnet is taken off it.
LEMMA NodeSubnetKnows ==
  ASSUME NEW p \in Proc, AcksArrive, ListInv, PutNodeSubnet(p) \/ DelNodeSubnet(p)
  PROVE  ListOwn(p)'
<1> USE KeysAreKeys DEF ListInv, TypeInv, TypeOK
<1> DEFINE n == NodeOf[p]
<1>1. PICK cidr \in {Cidr[n], None} : cidr = arg[p]
  BY DEF PutNodeSubnet, DelNodeSubnet, KnowsList
<1>2. list' = list
  BY DEF PutNodeSubnet, DelNodeSubnet
<1>3. WriteOutcome \subseteq {"ok", "writeFail"}
  BY DEF WriteOutcome, AcksArrive
<1>4. ASSUME NEW m \in Node, m # n
      PROVE  subnetOf'[m] = subnetOf[m]
  BY <1>4 DEF PutNodeSubnet, DelNodeSubnet, Written
<1>5. CASE PutNodeSubnet(p)
  <2>1. subnetOf[n] = None /\ (cidr # None => cidr \in list[SubnetsKey])
    BY <1>1, <1>5 DEF PutNodeSubnet, KnowsList
  <2>2. \/ /\ subnetOf'[n] = cidr /\ pc'[p] = "idle"
        \/ /\ subnetOf'[n] = None
           /\ StartDel(p, SubnetsKey, cidr) /\ Goto(p, "subnetDel", None)
    BY <1>1, <1>3, <1>5, <2>1 DEF PutNodeSubnet, Written, Return, Goto
  <2>3. SubnetIsListed' /\ \A m \in Node : OwnSubnet(m)'
    BY <1>2, <1>4, <2>1, <2>2 DEF SubnetIsListed, OwnSubnet
  <2>4. CASE pc'[p] = "idle"
    BY <2>3, <2>4 DEF ListOwn, KnowsList
  <2>5. CASE /\ subnetOf'[n] = None
             /\ StartDel(p, SubnetsKey, cidr) /\ Goto(p, "subnetDel", None)
    <3>1. call'[p].item = cidr /\ call'[p].at = "delList"
      BY <2>5, StartType
    <3>2. pc'[p] = "subnetDel"
      BY <2>5 DEF Goto
    <3> QED BY <2>3, <2>5, <3>1, <3>2 DEF ListOwn, KnowsList
  <2> QED BY <2>2, <2>4, <2>5
<1>6. CASE DelNodeSubnet(p)
  <2>1. \/ /\ subnetOf'[n] = subnetOf[n] /\ pc'[p] = "idle"
        \/ /\ subnetOf'[n] = None
           /\ StartDel(p, SubnetsKey, cidr) /\ Goto(p, "subnetDel", None)
    BY <1>1, <1>3, <1>6 DEF DelNodeSubnet, Written, Return, Goto
  <2>2. SubnetIsListed' /\ \A m \in Node : OwnSubnet(m)'
    BY <1>2, <1>4, <2>1 DEF SubnetIsListed, OwnSubnet
  <2>3. CASE pc'[p] = "idle"
    BY <2>2, <2>3 DEF ListOwn, KnowsList
  <2>4. CASE /\ subnetOf'[n] = None
             /\ StartDel(p, SubnetsKey, cidr) /\ Goto(p, "subnetDel", None)
    <3>1. call'[p].item = cidr /\ call'[p].at = "delList"
      BY <2>4, StartType
    <3>2. pc'[p] = "subnetDel"
      BY <2>4 DEF Goto
    <3> QED BY <2>2, <2>4, <3>1, <3>2 DEF ListOwn, KnowsList
  <2> QED BY <2>1, <2>3, <2>4
<1> QED BY <1>5, <1>6

\* A del of a subnet takes no other node's subnet with it, because every node has
\* a podCIDR of its own.
LEMMA RemoveSubnetKnows ==
  ASSUME NEW p \in Proc, CidrsDiffer, ListInv, RemoveSubnet(p)
  PROVE  ListOwn(p)'
<1> USE KeysAreKeys DEF ListInv, TypeInv, TypeOK
<1> DEFINE n == NodeOf[p]
<1>1. /\ pc[p] = "subnetDel" /\ call[p].key = SubnetsKey
      /\ call[p].at \in Deleting /\ UNCHANGED <<subnetOf, held>>
      /\ subnetOf[n] = None /\ call[p].item \in {Cidr[n], None} /\ DelItem(p)
  BY DEF RemoveSubnet, CallMatchesPC, CallMatches, KnowsList
<1>2. \A m \in Node : OwnSubnet(m)'
  BY <1>1 DEF OwnSubnet
<1>3. \A m \in Node : subnetOf[m] # None => subnetOf[m] # call[p].item
  <2> SUFFICES ASSUME NEW m \in Node, subnetOf[m] # None
               PROVE  subnetOf[m] # call[p].item
    OBVIOUS
  <2>1. m # n /\ subnetOf[m] = Cidr[m]
    BY <1>1 DEF OwnSubnet
  <2> QED BY <1>1, <2>1 DEF CidrsDiffer
<1>4. ASSUME NEW o \in ReadOutcome, DelList(p, o)
      PROVE  ListOwn(p)'
  <2>1. list' = list
    BY <1>4 DEF DelList
  <2>2. SubnetIsListed'
    BY <1>1, <2>1 DEF SubnetIsListed
  <2>3. CASE call'[p].at = "idle"
    <3>1. pc'[p] = "idle"
      BY <1>1, <2>3 DEF DelItem, Return, Goto
    <3> QED BY <1>2, <2>2, <3>1 DEF ListOwn, KnowsList
  <2>4. CASE call'[p].at # "idle"
    <3>1. /\ call'[p].item = call[p].item
          /\ call'[p].buf = Removed(list[SubnetsKey], call[p].item)
      BY <1>1, <1>4, <2>4, DelListType
    <3>2. UNCHANGED <<pc, arg>>
      BY <1>1, <2>4 DEF DelItem
    <3> QED BY <1>1, <1>2, <2>1, <2>2, <3>1, <3>2 DEF ListOwn, KnowsList
  <2> QED BY <2>3, <2>4
<1>5. ASSUME NEW o \in WriteOutcome, DelPut(p, o)
      PROVE  ListOwn(p)'
  <2>1. pc'[p] = "idle"
    BY <1>1, <1>5, PutType DEF DelItem, Return, Goto
  <2>2. call[p].buf = list[SubnetsKey] \ {call[p].item}
    BY <1>1, <1>5 DEF KnowsList, DelPut, Removed
  <2>3. list[SubnetsKey] \ {call[p].item} \subseteq list'[SubnetsKey]
    BY <1>1, <1>5, <2>2, PutType
  <2>4. SubnetIsListed'
    BY <1>1, <1>3, <2>3 DEF SubnetIsListed
  <2> QED BY <1>2, <2>1, <2>4 DEF ListOwn, KnowsList
<1> QED BY <1>1, <1>4, <1>5 DEF DelItem

LEMMA NextListInv ==
  ASSUME ReliableReads, ClusterInTurn, AcksArrive, CidrsDiffer, ListInv, [Next]_vars
  PROVE  ListInv'
<1> USE DEF ListInv
<1>1. TypeInv'
  BY NextTypeInv
<1>2. ASSUME NEW p \in Proc, OnlyMoves(p), ListOwn(p)', pc[p] # "idle" \/ MayStart(p)
      PROVE  ListInv'
  <2>1. \A q \in Proc : q # p => pc'[q] = "idle"
    BY <1>2 DEF OnlyMoves, OneCall, MayStart, ClusterInTurn, NodeInTurn
  <2>2. OneCall' /\ \A q \in Proc : q # p => KnowsList(q)'
    BY <2>1 DEF OneCall, KnowsList
  <2> QED BY <1>1, <1>2, <2>2 DEF ListOwn
<1>3. ASSUME NEW p \in Proc, Start(p) \/ Step(p) \/ Crash(p)
      PROVE  ListOwn(p)'
  <2>1. CASE \/ AllocateIp(p) \/ ReleaseIp(p) \/ TryCandidate(p)
             \/ AppendIp(p) \/ RemoveIp(p)
    BY <2>1, AddressesLeaveSubnets
       DEF ListOwn, SubnetIsListed, OwnSubnet, KnowsList
  <2>2. CASE Crash(p)
    BY <2>2 DEF Crash, Return, Goto, TypeInv, TypeOK,
                ListOwn, SubnetIsListed, OwnSubnet, KnowsList
  <2> QED
    BY <1>3, <2>1, <2>2, SubnetStartKnows, AppendSubnetKnows, NodeSubnetKnows,
       RemoveSubnetKnows DEF Start, Step
<1>4. ASSUME NEW p \in Proc, Start(p) \/ Step(p) \/ Crash(p)
      PROVE  OnlyMoves(p)
  BY <1>4, StepOthers DEF OthersUntouched
<1>5. ASSUME NEW p \in Proc, Vanish(p)
      PROVE  ListInv'
  BY <1>1, <1>5 DEF Vanish, OneCall, SubnetIsListed, OwnSubnet, KnowsList
<1>6. ASSUME UNCHANGED vars
      PROVE  ListInv'
  BY <1>1, <1>6 DEF vars, OneCall, SubnetIsListed, OwnSubnet, KnowsList
<1> QED BY <1>2, <1>3, <1>4, <1>5, <1>6, StepIsInCall DEF Next

\* When reads succeed, a write that failed was not made and operations run one
\* after the other, the subnet of every node is in the list of subnets, in every
\* cluster whose nodes have podCIDRs of their own, whatever writes fail and
\* wherever processes crash (ipam.cc:62-67, 87-95).
THEOREM SubnetsAreListed ==
  ASSUME ReliableReads, ClusterInTurn, AcksArrive, CidrsDiffer
  PROVE  Spec => []SubnetIsListed
<1>1. Init => ListInv
  <2>1. Init => OneCall /\ SubnetIsListed /\ (\A n \in Node : OwnSubnet(n))
                /\ \A p \in Proc : KnowsList(p)
    BY DEF Init, OneCall, SubnetIsListed, OwnSubnet, KnowsList
  <2> QED BY <2>1, InitTypeInv DEF ListInv
<1>2. ListInv => SubnetIsListed
  BY DEF ListInv
<1> QED BY <1>1, <1>2, NextListInv, PTL DEF Spec

-----------------------------------------------------------------------------
(* Without failures no address is lost.                                     *)

LEMMA NothingFailsOutcomes ==
  ASSUME NothingFails
  PROVE  /\ ReliableReads /\ "crash" \notin Faults
         /\ ReadOutcome = {"ok"} /\ WriteOutcome = {"ok"}
  BY DEF NothingFails, ReliableReads, ReadOutcome, WriteOutcome

\* A node on which no container's address and no releaseIp() changes.
LEMMA StillNode ==
  ASSUME NEW n \in Node, NoneLost(n), list'[n] = list[n],
         \A q \in Proc : NodeOf[q] = n =>
            /\ held'[q] = held[q]
            /\ pc'[q] = "addrDel" <=> pc[q] = "addrDel"
            /\ pc[q] = "addrDel" => call'[q].item = call[q].item
  PROVE  NoneLost(n)'
<1>1. HeldOn(n)' = HeldOn(n)
  BY DEF HeldOn
<1>2. ReleasedOn(n)' = ReleasedOn(n)
  BY DEF ReleasedOn
<1> QED BY <1>1, <1>2 DEF NoneLost

\* allocateIp() records the address and gives it to its container in one step.
LEMMA AppendIpLosesNone ==
  ASSUME NEW p \in Proc, NothingFails, LeakInv, AppendIp(p)
  PROVE  NoneLost(NodeOf[p])'
<1> USE KeysAreKeys, NothingFailsOutcomes DEF LeakInv, IInv, TypeInv, TypeOK
<1>0. PICK n \in Node : n = NodeOf[p]
  OBVIOUS
<1>1. /\ pc[p] = "addrAppend" /\ call[p].key = n /\ call[p].key \in Key
      /\ call[p].at \in Appending /\ arg[p] \in Addr /\ held[p] = None
  BY <1>0 DEF AppendIp, CallMatchesPC, CallMatches, ArgMatchesPC, ArgMatches,
              CandidateIsFree
<1>2. OnlyMoves(p)
  BY StepOthers DEF OthersUntouched, Step
<1>3. CASE AppendGet(p, "ok") /\ UNCHANGED <<pc, arg, held>>
  <2>1. list' = list
    BY <1>3 DEF AppendGet
  <2> QED BY <1>0, <1>1, <1>2, <1>3, <2>1, StillNode DEF OnlyMoves
<1>4. CASE /\ AppendPut(p, "ok") /\ Return(p)
           /\ held' = [held EXCEPT ![p] = arg[p]]
  <2>1. call[p].buf = list[n] \cup {arg[p]}
    BY <1>0, <1>1, <1>4 DEF AppendPut, CandidateIsFree
  <2>2. list'[n] = list[n] \cup {arg[p]}
    BY <1>1, <1>4, <2>1, PutType
  <2>3. HeldOn(n)' = HeldOn(n) \cup {arg[p]}
    <3>1. \A q \in Proc : held'[q] = IF q = p THEN arg[p] ELSE held[q]
      BY <1>4
    <3>2. arg[p] # None
      BY <1>1, EtcdAssumption
    <3> QED BY <1>0, <1>1, <3>1, <3>2 DEF HeldOn
  <2>4. ReleasedOn(n)' = ReleasedOn(n)
    <3>1. pc'[p] = "idle"
      BY <1>4 DEF Return, Goto
    <3> QED BY <1>1, <1>2, <3>1 DEF ReleasedOn, OnlyMoves
  <2>5. NoneLost(n)'
    BY <2>2, <2>3, <2>4 DEF NoneLost
  <2> QED BY <1>0, <2>5
<1> QED BY <1>3, <1>4 DEF AppendIp

\* releaseIp() takes the address from its container and then from the list.
LEMMA ReleaseIpLosesNone ==
  ASSUME NEW p \in Proc, LeakInv, ReleaseIp(p)
  PROVE  NoneLost(NodeOf[p])'
<1> USE KeysAreKeys DEF LeakInv, IInv, TypeInv, TypeOK
<1>0. PICK n \in Node : n = NodeOf[p]
  OBVIOUS
<1>1. /\ list' = list /\ held[p] \in Addr /\ pc[p] = "idle"
      /\ \A q \in Proc : held'[q] = IF q = p THEN None ELSE held[q]
  BY DEF ReleaseIp, MayStart
<1>2. OnlyMoves(p)
  BY StepOthers DEF OthersUntouched, Start
<1>3. pc'[p] = "addrDel" /\ call'[p].item = held[p]
  BY <1>0, <1>1, StartType DEF ReleaseIp, Goto
<1>4. ReleasedOn(n)' = ReleasedOn(n) \cup {held[p]}
  BY <1>0, <1>1, <1>2, <1>3 DEF ReleasedOn, OnlyMoves
<1>5. HeldOn(n)' \subseteq HeldOn(n) /\ HeldOn(n) \subseteq HeldOn(n)' \cup {held[p]}
  BY <1>0, <1>1 DEF HeldOn
<1>6. held[p] \in HeldOn(n)
  BY <1>0, <1>1, EtcdAssumption DEF HeldOn
<1>7. NoneLost(n)'
  BY <1>1, <1>4, <1>5, <1>6 DEF NoneLost
<1> QED BY <1>0, <1>7

LEMMA RemoveIpLosesNone ==
  ASSUME NEW p \in Proc, NothingFails, LeakInv, RemoveIp(p)
  PROVE  NoneLost(NodeOf[p])'
<1> USE KeysAreKeys, NothingFailsOutcomes DEF LeakInv, IInv, TypeInv, TypeOK
<1>0. PICK n \in Node : n = NodeOf[p]
  OBVIOUS
<1>1. /\ pc[p] = "addrDel" /\ held' = held /\ DelItem(p)
      /\ call[p].key = n /\ call[p].key \in Key /\ call[p].at \in Deleting
      /\ \A q \in Proc : NodeOf[q] = n => held[q] # call[p].item
  BY <1>0 DEF RemoveIp, CallMatchesPC, CallMatches, ReleasedIsUnused, SameNode
<1>2. OnlyMoves(p)
  BY StepOthers DEF OthersUntouched, Step
<1>3. CASE DelList(p, "ok")
  <2>1. list' = list /\ call'[p].item = call[p].item /\ call'[p].at = "delPut"
    BY <1>1, <1>3 DEF DelList, EtcdTypeOK, CallType
  <2>2. pc'[p] = "addrDel"
    BY <1>1, <2>1 DEF DelItem
  <2>3. NoneLost(n)'
    BY <1>0, <1>1, <1>2, <2>1, <2>2, StillNode DEF OnlyMoves
  <2> QED BY <1>0, <2>3
<1>4. CASE DelPut(p, "ok")
  <2>1. list'[n] = list[n] \ {call[p].item}
    BY <1>0, <1>1, <1>4, PutType DEF ReleasedIsUnused, DelPut
  <2>2. pc'[p] = "idle"
    BY <1>1, <1>4, PutType DEF DelItem, Return, Goto
  <2>3. \A q \in Proc : q # p /\ NodeOf[q] = n => pc[q] = "idle" /\ pc'[q] = "idle"
    BY <1>0, <1>1, <1>2 DEF OneCallPerNode, SameNode, OnlyMoves
  <2>4. ReleasedOn(n) = {call[p].item} /\ ReleasedOn(n)' = {}
    BY <1>0, <1>1, <2>2, <2>3 DEF ReleasedOn
  <2>5. HeldOn(n)' = HeldOn(n) /\ call[p].item \notin HeldOn(n)
    BY <1>1 DEF HeldOn
  <2>6. NoneLost(n)'
    BY <2>1, <2>4, <2>5 DEF NoneLost
  <2> QED BY <1>0, <2>6
<1> QED BY <1>1, <1>3, <1>4 DEF DelItem

\* The other operations leave the node's list and its containers alone.
LEMMA OtherCallsLoseNone ==
  ASSUME NEW p \in Proc, LeakInv,
         \/ AllocateIp(p) \/ AllocateSubnet(p) \/ ReleaseSubnet(p)
         \/ TryCandidate(p) \/ AppendSubnet(p) \/ PutNodeSubnet(p)
         \/ DelNodeSubnet(p) \/ RemoveSubnet(p)
  PROVE  NoneLost(NodeOf[p])'
<1> USE KeysAreKeys DEF LeakInv, IInv, TypeInv, TypeOK
<1>0. PICK n \in Node : n = NodeOf[p]
  OBVIOUS
<1>1. OnlyMoves(p) /\ held' = held
  <2>1. OnlyMoves(p)
    BY StepOthers DEF OthersUntouched, Start, Step
  <2> QED
    BY <2>1 DEF AllocateIp, AllocateSubnet, ReleaseSubnet, TryCandidate,
                AppendSubnet, PutNodeSubnet, DelNodeSubnet, RemoveSubnet
<1>2. pc[p] # "addrDel" /\ pc'[p] # "addrDel"
  BY DEF AllocateIp, AllocateSubnet, ReleaseSubnet, TryCandidate, AppendSubnet,
         PutNodeSubnet, DelNodeSubnet, RemoveSubnet, MayStart, NextCandidate,
         DelItem, Return, Goto
<1>3. list'[n] = list[n]
  <2>1. CASE AppendSubnet(p) \/ RemoveSubnet(p)
    <3>1. call[p].key = SubnetsKey /\ n # SubnetsKey /\ n \in Key
      BY <1>0, <2>1, IpamAssumption
         DEF AppendSubnet, RemoveSubnet, CallMatchesPC, CallMatches
    <3> QED
      BY <2>1, <3>1, AppendGetType, DelListType, PutType
         DEF AppendSubnet, RemoveSubnet, DelItem
  <2>2. CASE ~(AppendSubnet(p) \/ RemoveSubnet(p))
    BY <2>2 DEF AllocateIp, AllocateSubnet, ReleaseSubnet, TryCandidate,
                PutNodeSubnet, DelNodeSubnet
  <2> QED BY <2>1, <2>2
<1>4. NoneLost(n)'
  BY <1>1, <1>2, <1>3, StillNode DEF OnlyMoves
<1> QED BY <1>0, <1>4

LEMMA NextLeakInv ==
  ASSUME NothingFails, NodeInTurn, LeakInv, [Next]_vars
  PROVE  LeakInv'
<1> USE DEF LeakInv
<1>1. IInv'
  BY NextIInv, NothingFailsOutcomes
<1>2. ASSUME NEW p \in Proc, Start(p) \/ Step(p)
      PROVE  \A n \in Node : NoneLost(n)'
  <2>1. NoneLost(NodeOf[p])'
    BY <1>2, AppendIpLosesNone, ReleaseIpLosesNone, RemoveIpLosesNone,
       OtherCallsLoseNone DEF Start, Step
  <2>2. OthersUntouched(p)
    BY <1>2, StepOthers DEF IInv
  <2>3. ASSUME NEW n \in Node, n # NodeOf[p]
        PROVE  NoneLost(n)'
    BY <2>2, <2>3, StillNode DEF OthersUntouched, OnlyMoves
  <2> QED BY <2>1, <2>3
<1>3. ASSUME NEW p \in Proc
      PROVE  ~Crash(p) /\ ~Vanish(p)
  BY NothingFailsOutcomes DEF Crash, Vanish
<1>4. ASSUME UNCHANGED vars
      PROVE  \A n \in Node : NoneLost(n)'
  BY <1>4 DEF vars, NoneLost, HeldOn, ReleasedOn
<1> QED BY <1>1, <1>2, <1>3, <1>4 DEF Next

\* When no command fails and no process crashes, a node on which no call runs has
\* recorded exactly the addresses of its containers, in every cluster and however
\* the nodes interleave (ipam.cc:153, 179).
THEOREM AddressesDoNotLeak ==
  ASSUME NothingFails, NodeInTurn
  PROVE  Spec => []NoLeak
<1>1. Init => LeakInv
  <2>1. Init => \A n \in Node : NoneLost(n)
    BY KeysAreKeys, IpamAssumption DEF Init, NoneLost, HeldOn, ReleasedOn
  <2> QED BY <2>1, InitIInv DEF LeakInv
<1>2. LeakInv => NoLeak
  <2> SUFFICES ASSUME LeakInv, NEW n \in Node,
                      \A p \in {q \in Proc : NodeOf[q] = n} : pc[p] = "idle"
               PROVE  list[n] = {held[p] : p \in {q \in Proc : NodeOf[q] = n}} \ {None}
    BY DEF NoLeak
  <2>1. ReleasedOn(n) = {}
    BY DEF ReleasedOn
  <2> QED BY <2>1 DEF LeakInv, NoneLost, HeldOn
<1> QED BY <1>1, <1>2, NextLeakInv, PTL DEF Spec

-----------------------------------------------------------------------------
(* An allocateIp() gives up only when the subnet is full.                   *)

\* The candidates an allocateIp() has passed are recorded.
Tried(p) ==
    pc[p] \in {"available", "addrAppend"} =>
        \A a \in Addr : a < arg[p] => a \in list[NodeOf[p]]

FullInv ==
    /\ IInv
    /\ \A p \in Proc : Tried(p)

\* A write that was reported failed was made all the same.
WritesAreMade == "writeFail" \notin Faults

\* Whatever etcdctl says of it, an append() records its candidate.
LEMMA AppendIpRecords ==
  ASSUME NEW p \in Proc, WritesAreMade, IInv, pc[p] = "addrAppend",
         NEW o \in WriteOutcome, AppendPut(p, o)
  PROVE  list'[NodeOf[p]] = list[NodeOf[p]] \cup {arg[p]}
<1> USE KeysAreKeys DEF IInv, TypeInv, TypeOK
<1>1. o # "writeFail"
  BY DEF WriteOutcome, WritesAreMade
<1>2. call[p].key = NodeOf[p] /\ call[p].key \in Key
  BY DEF CallMatchesPC, CallMatches
<1>3. call[p].buf = list[NodeOf[p]] \cup {arg[p]}
  BY DEF AppendPut, CandidateIsFree
<1> QED BY <1>1, <1>2, <1>3, PutType

\* An allocateIp() passes a candidate only when it finds it in the list or has put it
\* there, and nobody else of the node changes the list meanwhile.
LEMMA TriedOwn ==
  ASSUME NEW p \in Proc, ReliableReads, WritesAreMade, FullInv, Start(p) \/ Step(p)
  PROVE  Tried(p)'
<1> USE KeysAreKeys, IpamAssumption DEF FullInv, IInv, TypeInv, TypeOK
<1>0. ReadOutcome = {"ok"}
  BY DEF ReadOutcome, ReliableReads
<1>1. CASE AllocateIp(p)
  <2>1. arg'[p] = 1
    BY <1>1 DEF AllocateIp, Goto
  <2> QED BY <2>1 DEF Tried, Addr
<1>2. CASE TryCandidate(p)
  <2>1. pc[p] = "available" /\ arg[p] \in Addr /\ list' = list
    BY <1>2 DEF TryCandidate, ArgMatchesPC, ArgMatches
  <2>2. \/ arg'[p] = arg[p]
        \/ pc'[p] = "idle"
        \/ arg'[p] = arg[p] + 1 /\ arg[p] \in list[NodeOf[p]]
    BY <1>0, <1>2 DEF TryCandidate, IsIpAvailable, NextCandidate, Return, Goto
  <2> QED BY <2>1, <2>2 DEF Tried, Addr
<1>3. CASE AppendIp(p)
  <2>1. pc[p] = "addrAppend" /\ arg[p] \in Addr
    BY <1>3 DEF AppendIp, ArgMatchesPC, ArgMatches
  <2>2. CASE \E o \in ReadOutcome : AppendGet(p, o) /\ UNCHANGED <<pc, arg, held>>
    BY <2>1, <2>2 DEF Tried, AppendGet
  <2>3. ASSUME NEW o \in WriteOutcome, AppendPut(p, o)
        PROVE  Tried(p)'
    <3>1. list'[NodeOf[p]] = list[NodeOf[p]] \cup {arg[p]}
      BY <2>1, <2>3, AppendIpRecords
    <3>2. \/ pc'[p] = "idle"
          \/ arg'[p] = arg[p] + 1
      <4>1. Return(p) \/ NextCandidate(p)
        BY <1>3, <2>1, <2>3 DEF AppendIp, AppendPut, AppendGet
      <4> QED BY <4>1 DEF NextCandidate, Return, Goto
    <3> QED BY <2>1, <3>1, <3>2 DEF Tried, Addr
  <2> QED BY <1>3, <2>2, <2>3 DEF AppendIp
<1>4. CASE ~ (AllocateIp(p) \/ TryCandidate(p) \/ AppendIp(p))
  <2>1. pc'[p] \notin {"available", "addrAppend"}
    BY <1>4 DEF Start, Step, ReleaseIp, AllocateSubnet, ReleaseSubnet, RemoveIp,
                AppendSubnet, PutNodeSubnet, DelNodeSubnet, RemoveSubnet,
                DelItem, Return, Goto
  <2> QED BY <2>1 DEF Tried
<1> QED BY <1>1, <1>2, <1>3, <1>4

LEMMA NextFullInv ==
  ASSUME ReliableReads, WritesAreMade, NodeInTurn, FullInv, [Next]_vars
  PROVE  FullInv'
<1> USE DEF FullInv
<1>1. IInv'
  BY NextIInv
<1>2. ASSUME NEW p \in Proc, Start(p) \/ Step(p), NEW q \in Proc, q # p
      PROVE  Tried(q)'
  <2>1. OthersUntouched(p)
    BY <1>2, StepOthers DEF IInv
  <2>2. pc'[q] = pc[q] /\ arg'[q] = arg[q]
    BY <1>2, <2>1 DEF OthersUntouched, OnlyMoves
  <2>3. CASE SameNode(p, q)
    <3>1. pc[q] = "idle"
      BY <1>2, <2>3, StepIsInCall
         DEF IInv, OneCallPerNode, MayStart, NodeInTurn, SameNode
    <3> QED BY <2>2, <3>1 DEF Tried
  <2>4. CASE ~ SameNode(p, q)
    <3>1. list'[NodeOf[q]] = list[NodeOf[q]]
      BY <2>1, <2>4, KeysAreKeys DEF OthersUntouched, SameNode
    <3> QED BY <2>2, <3>1 DEF Tried
  <2> QED BY <2>3, <2>4
<1>3. ASSUME NEW p \in Proc, Crash(p) \/ Vanish(p), NEW q \in Proc
      PROVE  Tried(q)'
  <2>1. list' = list
    BY <1>3 DEF Crash, Vanish
  <2>2. pc'[q] = "idle" \/ (pc'[q] = pc[q] /\ arg'[q] = arg[q])
    BY <1>3 DEF Crash, Vanish, Return, Goto, IInv, TypeInv, TypeOK
  <2> QED BY <2>1, <2>2 DEF Tried
<1>4. ASSUME UNCHANGED vars
      PROVE  \A p \in Proc : Tried(p)'
  BY <1>4 DEF vars, Tried
<1> QED BY <1>1, <1>2, <1>3, <1>4, TriedOwn DEF Next

\* When reads succeed, a write that is reported failed was made, and the calls of a
\* node do not overlap, the search of allocateIp() misses no address, wherever
\* processes crash and whatever their crashes left behind: it returns without one
\* only when all addresses of the subnet are recorded (ipam.cc:147-162).
THEOREM GivingUpMeansFull ==
  ASSUME ReliableReads, WritesAreMade, NodeInTurn
  PROVE  Spec => GivesUpOnlyWhenFull
<1> DEFINE Full ==
             \A p \in Proc :
                (Step(p) /\ pc[p] \in {"available", "addrAppend"}
                    /\ pc'[p] = "idle" /\ held'[p] = None)
                    => Addr \subseteq list'[NodeOf[p]]
<1>1. Init => FullInv
  BY InitIInv DEF Init, FullInv, Tried
<1>2. FullInv /\ [Next]_vars => FullInv'
  BY NextFullInv
<1>3. FullInv => Full
  <2> SUFFICES ASSUME FullInv, NEW p \in Proc, Step(p),
                      pc[p] \in {"available", "addrAppend"}, pc'[p] = "idle",
                      held'[p] = None, NEW a \in Addr
               PROVE  a \in list'[NodeOf[p]]
    OBVIOUS
  <2> USE KeysAreKeys, IpamAssumption DEF FullInv, IInv, TypeInv, TypeOK
  <2>1. TryCandidate(p) \/ AppendIp(p)
    BY DEF Step, RemoveIp, AppendSubnet, PutNodeSubnet, DelNodeSubnet, RemoveSubnet
  <2>2. arg[p] \in Addr /\ arg[p] # None
    BY EtcdAssumption DEF ArgMatchesPC, ArgMatches
  <2>3. /\ list'[NodeOf[p]] = list[NodeOf[p]] \/ list'[NodeOf[p]] = list[NodeOf[p]] \cup {arg[p]}
        /\ arg[p] \in list'[NodeOf[p]] /\ ~ InRange(arg[p] + 1)
    <3>1. CASE TryCandidate(p)
      <4>1. ReadOutcome = {"ok"}
        BY DEF ReadOutcome, ReliableReads
      <4> QED BY <3>1, <4>1 DEF TryCandidate, IsIpAvailable, NextCandidate, Return, Goto
    <3>2. CASE AppendIp(p)
      <4>1. pc[p] = "addrAppend"
        BY <3>2 DEF AppendIp
      <4>2. PICK o \in WriteOutcome :
               /\ AppendPut(p, o)
               /\ IF o = "ok" THEN held' = [held EXCEPT ![p] = arg[p]] /\ Return(p)
                              ELSE NextCandidate(p) /\ UNCHANGED held
        BY <3>2, <4>1 DEF AppendIp
      <4>3. NextCandidate(p)
        BY <2>2, <4>2
      <4>4. ~ InRange(arg[p] + 1)
        BY <4>1, <4>3 DEF NextCandidate, Goto
      <4> QED BY <4>1, <4>2, <4>4, AppendIpRecords
    <3> QED BY <2>1, <3>1, <3>2
  <2>4. a < arg[p] \/ a = arg[p]
    BY <2>2, <2>3 DEF InRange, Addr
  <2> QED BY <2>3, <2>4 DEF Tried
<1> QED BY <1>1, <1>2, <1>3, PTL DEF Spec, GivesUpOnlyWhenFull
=============================================================================
