----------------------------- MODULE IpamProofs -----------------------------
(***************************************************************************)
(* For any cluster: when the calls of one node do not overlap and reads     *)
(* succeed, no address is given out twice and the IP address management     *)
(* implements the address pools of AddressPool, whatever writes fail or     *)
(* lose their answer, wherever processes crash, and however the nodes       *)
(* interleave.                                                              *)
(***************************************************************************)
EXTENDS Ipam, TLAPS

Appending == {"appendGet", "appendPut"}
Deleting  == {"delList", "delPut"}

\* The client call that goes with each step of an operation.
CallMatches(p) ==
    LET c == call[p]
    IN  /\ pc[p] \in {"idle", "available", "subnetPut", "nodeDel"}
              => c.at = "idle"
        /\ pc[p] = "addrAppend" =>
              c.at \in Appending /\ c.key = NodeOf[p] /\ c.item = arg[p]
        /\ pc[p] = "addrDel" =>
              c.at \in Deleting /\ c.key = NodeOf[p] /\ c.item \in Addr
        /\ pc[p] = "subnetAppend" =>
              c.at \in Appending /\ c.key = SubnetsKey
        /\ pc[p] = "subnetDel" =>
              c.at \in Deleting /\ c.key = SubnetsKey

CallMatchesPC == \A p \in Proc : CallMatches(p)

\* The candidate of an allocateIp(), the subnet of the subnet operations.
ArgMatches(p) ==
    /\ pc[p] \in {"available", "addrAppend"} => arg[p] \in Addr
    /\ pc[p] \in {"subnetAppend", "subnetPut", "nodeDel"} =>
          arg[p] \in Subnet \cup {None}

ArgMatchesPC == \A p \in Proc : ArgMatches(p)

\* Inductive whatever the environment does.
TypeInv == TypeOK /\ CallMatchesPC /\ ArgMatchesPC

-----------------------------------------------------------------------------
(* Typing of the client's steps and of the program counter.                 *)

LEMMA KeysAreKeys ==
  /\ SubnetsKey \in Key
  /\ \A p \in Proc : NodeOf[p] \in Key /\ NodeOf[p] \in Node
  /\ \A n \in Node : Cidr[n] \in Item
  /\ Addr \subseteq Item /\ Subnet \subseteq Item
  BY IpamAssumption DEF Subnet

\* append() and del() write sets of items (etcd_client_shell.cc:84, 174).
LEMMA AppendGetType ==
  ASSUME NEW p \in Proc, NEW o, EtcdTypeOK, AppendGet(p, o), call[p].key \in Key
  PROVE  /\ EtcdTypeOK'
         /\ list' = list
         /\ \A q \in Proc : q # p => call'[q] = call[q]
         /\ call'[p].at = "appendPut"
         /\ call'[p].key = call[p].key
         /\ call'[p].item = call[p].item
         /\ o = "ok" => call'[p].buf = Appended(list[call[p].key], call[p].item)
<1> USE DEF EtcdTypeOK, CallType
<1> DEFINE b == IF o = "ok" THEN Appended(list[call[p].key], call[p].item)
                            ELSE Appended({}, call[p].item)
<1>1. b \in SUBSET Item
  BY DEF Appended
<1>2. call' = [call EXCEPT ![p].at = "appendPut", ![p].buf = b] /\ list' = list
  BY DEF AppendGet
<1>3. o = "ok" => b = Appended(list[call[p].key], call[p].item)
  OBVIOUS
<1> HIDE DEF b
<1>4. call' \in [Proc -> CallType]
  <2> DEFINE r == [call[p] EXCEPT !.at = "appendPut", !.buf = b]
  <2>1. call[p] \in CallType
    OBVIOUS
  <2>2. r \in CallType
    BY <1>1, <2>1
  <2>3. call' = [call EXCEPT ![p] = r]
    BY <1>2
  <2> HIDE DEF r, CallType
  <2> QED BY <2>2, <2>3
<1> QED BY <1>2, <1>3, <1>4

LEMMA StartType ==
  ASSUME NEW p \in Proc, NEW k \in Key, NEW v \in Item \cup {None}, EtcdTypeOK,
         StartAppend(p, k, v) \/ StartDel(p, k, v)
  PROVE  /\ call' \in [Proc -> CallType]
         /\ \A q \in Proc : q # p => call'[q] = call[q]
         /\ call'[p].key = k
         /\ call'[p].item = v
         /\ StartAppend(p, k, v) => call'[p].at = "appendGet"
         /\ StartDel(p, k, v) => call'[p].at = "delList"
  BY DEF StartAppend, StartDel, EtcdTypeOK, CallType

LEMMA PutType ==
  ASSUME NEW p \in Proc, NEW o, EtcdTypeOK, AppendPut(p, o) \/ DelPut(p, o),
         call[p].key \in Key
  PROVE  /\ EtcdTypeOK'
         /\ \A q \in Proc : q # p => call'[q] = call[q]
         /\ call'[p].at = "idle"
         /\ \A k \in Key : k # call[p].key => list'[k] = list[k]
         /\ list'[call[p].key] = list[call[p].key]
               \/ list'[call[p].key] = call[p].buf
         /\ o # "writeFail" => list'[call[p].key] = call[p].buf
<1> USE DEF EtcdTypeOK, CallType
<1>1. list' = Written(list, call[p].key, call[p].buf, o)
      /\ call' = [call EXCEPT ![p] = Idle]
  BY DEF AppendPut, DelPut
<1>2. list' = list \/ list' = [list EXCEPT ![call[p].key] = call[p].buf]
  BY <1>1 DEF Written
<1>3. o # "writeFail" => list' = [list EXCEPT ![call[p].key] = call[p].buf]
  BY <1>1 DEF Written
<1> QED BY <1>1, <1>2, <1>3 DEF Idle

LEMMA DelListType ==
  ASSUME NEW p \in Proc, NEW o, EtcdTypeOK, DelList(p, o), call[p].key \in Key
  PROVE  /\ EtcdTypeOK'
         /\ list' = list
         /\ \A q \in Proc : q # p => call'[q] = call[q]
         /\ \/ call'[p].at = "idle"
            \/ /\ call'[p].at = "delPut"
               /\ call'[p].key = call[p].key
               /\ call'[p].item = call[p].item
               /\ call'[p].buf = Removed(list[call[p].key], call[p].item)
<1> USE DEF EtcdTypeOK, CallType
<1> DEFINE b == Removed(list[call[p].key], call[p].item)
<1>1. b \in SUBSET Item
  BY DEF Removed
<1>2. list' = list
  BY DEF DelList
<1>3. \/ call' = [call EXCEPT ![p] = Idle]
      \/ call' = [call EXCEPT ![p] = [call[p] EXCEPT !.at = "delPut", !.buf = b]]
  BY DEF DelList
<1>4. CASE call' = [call EXCEPT ![p] = Idle]
  BY <1>2, <1>4 DEF Idle
<1>5. CASE call' = [call EXCEPT ![p] = [call[p] EXCEPT !.at = "delPut", !.buf = b]]
  <2> HIDE DEF b
  <2>1. call' \in [Proc -> CallType]
    BY <1>1, <1>5
  <2>2. call'[p] = [call[p] EXCEPT !.at = "delPut", !.buf = b]
    BY <1>5
  <2>3. /\ call'[p].at = "delPut" /\ call'[p].buf = b
        /\ call'[p].key = call[p].key /\ call'[p].item = call[p].item
    BY <2>2
  <2> QED BY <1>2, <1>5, <2>1, <2>3 DEF b
<1> QED BY <1>3, <1>4, <1>5

LEMMA GotoType ==
  ASSUME NEW p \in Proc, NEW w \in PC, NEW x \in Item \cup {None}, TypeOK,
         Goto(p, w, x)
  PROVE  /\ pc' \in [Proc -> PC] /\ arg' \in [Proc -> Item \cup {None}]
         /\ pc'[p] = w /\ arg'[p] = x
         /\ \A q \in Proc : q # p => pc'[q] = pc[q] /\ arg'[q] = arg[q]
  BY DEF Goto, TypeOK

\* A step of p leaves the other processes where they are.
OnlyMoves(p) ==
    \A q \in Proc : q # p =>
        call'[q] = call[q] /\ pc'[q] = pc[q] /\ arg'[q] = arg[q]

LEMMA TypeInvByProcess ==
  ASSUME NEW p \in Proc, TypeInv, OnlyMoves(p),
         TypeOK', CallMatches(p)', ArgMatches(p)'
  PROVE  TypeInv'
  BY DEF TypeInv, OnlyMoves, CallMatchesPC, ArgMatchesPC, CallMatches, ArgMatches

-----------------------------------------------------------------------------
(* Type correctness, one step per action.                                   *)

LEMMA InitTypeInv == Init => TypeInv
  BY DEF Init, TypeInv, TypeOK, EtcdTypeOK, CallType, Idle, PC,
         CallMatchesPC, CallMatches, ArgMatchesPC, ArgMatches

\* The loop of allocateIp() stays among the usable addresses (ipam.cc:148).
LEMMA NextCandidateType ==
  ASSUME NEW p \in Proc, TypeOK, arg[p] \in Addr, NextCandidate(p)
  PROVE  /\ pc' \in [Proc -> PC] /\ arg' \in [Proc -> Item \cup {None}]
         /\ \A q \in Proc : q # p => pc'[q] = pc[q] /\ arg'[q] = arg[q]
         /\ \/ pc'[p] = "available" /\ arg'[p] \in Addr
            \/ pc'[p] = "idle" /\ arg'[p] = None
<1>1. CASE InRange(arg[p] + 1)
  <2>1. arg[p] + 1 \in Addr
    BY <1>1, IpamAssumption DEF InRange, Addr
  <2>2. Goto(p, "available", arg[p] + 1)
    BY <1>1 DEF NextCandidate
  <2> QED BY <2>1, <2>2, GotoType, KeysAreKeys DEF PC
<1>2. CASE ~InRange(arg[p] + 1)
  BY <1>2, GotoType DEF NextCandidate, Return, PC
<1> QED BY <1>1, <1>2

LEMMA TryCandidateType ==
  ASSUME NEW p \in Proc, TypeInv, TryCandidate(p)
  PROVE  TypeInv'
<1> USE DEF TypeInv, TypeOK
<1>1. pc[p] = "available" /\ call[p].at = "idle" /\ arg[p] \in Addr
  BY DEF TryCandidate, CallMatchesPC, CallMatches, ArgMatchesPC, ArgMatches
<1>2. CASE StartAppend(p, NodeOf[p], arg[p]) /\ Goto(p, "addrAppend", arg[p])
  <2>1. /\ call' \in [Proc -> CallType]
        /\ call'[p].at = "appendGet" /\ call'[p].key = NodeOf[p]
        /\ call'[p].item = arg[p]
        /\ \A q \in Proc : q # p => call'[q] = call[q]
    BY <1>1, <1>2, KeysAreKeys, StartType
  <2>2. /\ pc' \in [Proc -> PC] /\ arg' \in [Proc -> Item \cup {None}]
        /\ pc'[p] = "addrAppend" /\ arg'[p] = arg[p]
        /\ \A q \in Proc : q # p => pc'[q] = pc[q] /\ arg'[q] = arg[q]
    BY <1>1, <1>2, KeysAreKeys, GotoType DEF PC
  <2>3. TypeOK'
    BY <2>1, <2>2 DEF TryCandidate, EtcdTypeOK
  <2> QED
    BY <1>1, <2>1, <2>2, <2>3, TypeInvByProcess
       DEF OnlyMoves, CallMatches, ArgMatches, Appending
<1>3. CASE NextCandidate(p) /\ UNCHANGED call
  <2>1. TypeOK'
    BY <1>1, <1>3, NextCandidateType DEF TryCandidate, EtcdTypeOK
  <2> QED
    BY <1>1, <1>3, <2>1, NextCandidateType, TypeInvByProcess
       DEF OnlyMoves, CallMatches, ArgMatches
<1> QED BY <1>2, <1>3 DEF TryCandidate

LEMMA AppendIpType ==
  ASSUME NEW p \in Proc, TypeInv, AppendIp(p)
  PROVE  TypeInv'
<1> USE DEF TypeInv, TypeOK
<1>1. /\ pc[p] = "addrAppend" /\ arg[p] \in Addr
      /\ call[p].key = NodeOf[p] /\ call[p].item = arg[p] /\ call[p].key \in Key
  BY KeysAreKeys
     DEF AppendIp, CallMatchesPC, CallMatches, ArgMatchesPC, ArgMatches
<1>2. ASSUME NEW o \in ReadOutcome, AppendGet(p, o), UNCHANGED <<pc, arg, held>>
      PROVE  TypeInv'
  <2>1. TypeOK' /\ OnlyMoves(p)
    BY <1>1, <1>2, AppendGetType DEF AppendIp, OnlyMoves
  <2>2. CallMatches(p)' /\ ArgMatches(p)'
    BY <1>1, <1>2, AppendGetType DEF CallMatches, ArgMatches, Appending
  <2> QED BY <2>1, <2>2, TypeInvByProcess
<1>3. ASSUME NEW o \in WriteOutcome, AppendPut(p, o),
             IF o = "ok" THEN held' = [held EXCEPT ![p] = arg[p]] /\ Return(p)
                         ELSE NextCandidate(p) /\ UNCHANGED held
      PROVE  TypeInv'
  <2>1. EtcdTypeOK' /\ call'[p].at = "idle"
        /\ \A q \in Proc : q # p => call'[q] = call[q]
    BY <1>1, <1>3, PutType
  <2>2. /\ pc' \in [Proc -> PC] /\ arg' \in [Proc -> Item \cup {None}]
        /\ \A q \in Proc : q # p => pc'[q] = pc[q] /\ arg'[q] = arg[q]
        /\ \/ pc'[p] = "available" /\ arg'[p] \in Addr
           \/ pc'[p] = "idle" /\ arg'[p] = None
    BY <1>1, <1>3, NextCandidateType, GotoType DEF Return, PC
  <2>3. held' \in [Proc -> Addr \cup {None}]
    BY <1>1, <1>3
  <2>4. TypeOK'
    BY <2>1, <2>2, <2>3 DEF AppendIp
  <2> QED
    BY <2>1, <2>2, <2>4, TypeInvByProcess DEF OnlyMoves, CallMatches, ArgMatches
<1> QED BY <1>2, <1>3 DEF AppendIp

\* del(key, value), on whichever list: stays in its operation or returns.
LEMMA DelItemType ==
  ASSUME NEW p \in Proc, TypeInv, pc[p] \in {"addrDel", "subnetDel"}, DelItem(p)
  PROVE  /\ EtcdTypeOK'
         /\ pc' \in [Proc -> PC] /\ arg' \in [Proc -> Item \cup {None}]
         /\ OnlyMoves(p) /\ CallMatches(p)' /\ ArgMatches(p)'
<1> USE DEF TypeInv, TypeOK
<1>1. call[p].at \in Deleting /\ call[p].key \in Key
  BY KeysAreKeys DEF CallMatchesPC, CallMatches
<1>2. EtcdTypeOK' /\ \A q \in Proc : q # p => call'[q] = call[q]
  BY <1>1, DelListType, PutType DEF DelItem
<1>3. \/ call'[p].at = "idle"
      \/ /\ call'[p].at \in Deleting /\ call'[p].at # "idle"
         /\ call'[p].key = call[p].key /\ call'[p].item = call[p].item
  BY <1>1, DelListType, PutType DEF DelItem, Deleting
<1>4. CASE call'[p].at = "idle"
  <2>1. /\ pc' \in [Proc -> PC] /\ arg' \in [Proc -> Item \cup {None}]
        /\ pc'[p] = "idle"
        /\ \A q \in Proc : q # p => pc'[q] = pc[q] /\ arg'[q] = arg[q]
    BY <1>4, GotoType DEF DelItem, Return, PC
  <2> QED BY <1>2, <1>4, <2>1 DEF OnlyMoves, CallMatches, ArgMatches
<1>5. CASE call'[p].at # "idle"
  <2>1. UNCHANGED <<pc, arg>>
    BY <1>5 DEF DelItem
  <2> QED
    BY <1>2, <1>3, <1>5, <2>1
       DEF OnlyMoves, CallMatchesPC, CallMatches, ArgMatches
<1> QED BY <1>4, <1>5

LEMMA RemoveType ==
  ASSUME NEW p \in Proc, TypeInv, RemoveIp(p) \/ RemoveSubnet(p)
  PROVE  TypeInv'
<1>1. /\ EtcdTypeOK'
      /\ pc' \in [Proc -> PC] /\ arg' \in [Proc -> Item \cup {None}]
      /\ OnlyMoves(p) /\ CallMatches(p)' /\ ArgMatches(p)'
  BY DelItemType DEF RemoveIp, RemoveSubnet
<1>2. TypeOK'
  BY <1>1 DEF RemoveIp, RemoveSubnet, TypeInv, TypeOK
<1> QED BY <1>1, <1>2, TypeInvByProcess

\* The start of an operation, and its steps that start a client call.
LEMMA StartCallType ==
  ASSUME NEW p \in Proc, TypeInv,
         NEW k \in Key, NEW v \in Item \cup {None},
         NEW w \in PC, NEW x \in Item \cup {None},
         StartAppend(p, k, v) \/ StartDel(p, k, v), Goto(p, w, x),
         list' = list,
         held' \in [Proc -> Addr \cup {None}],
         subnetOf' \in [Node -> Subnet \cup {None}]
  PROVE  /\ TypeOK' /\ OnlyMoves(p)
         /\ call'[p].key = k /\ call'[p].item = v
         /\ pc'[p] = w /\ arg'[p] = x
         /\ StartAppend(p, k, v) => call'[p].at \in Appending
         /\ StartDel(p, k, v) => call'[p].at \in Deleting
<1> USE DEF TypeInv, TypeOK, Appending, Deleting
<1>1. /\ call' \in [Proc -> CallType]
      /\ \A q \in Proc : q # p => call'[q] = call[q]
      /\ call'[p].key = k /\ call'[p].item = v
      /\ StartAppend(p, k, v) => call'[p].at \in Appending
      /\ StartDel(p, k, v) => call'[p].at \in Deleting
  BY StartType
<1>2. /\ pc' \in [Proc -> PC] /\ arg' \in [Proc -> Item \cup {None}]
      /\ pc'[p] = w /\ arg'[p] = x
      /\ \A q \in Proc : q # p => pc'[q] = pc[q] /\ arg'[q] = arg[q]
  BY GotoType
<1> QED BY <1>1, <1>2 DEF OnlyMoves, EtcdTypeOK

\* A step that only moves the program counter.
LEMMA MoveType ==
  ASSUME NEW p \in Proc, TypeInv, call[p].at = "idle", UNCHANGED <<list, call>>,
         NEW w \in {"idle", "available", "nodeDel"},
         NEW x \in Item \cup {None}, Goto(p, w, x),
         w = "available" => x \in Addr,
         w = "nodeDel" => x \in Subnet,
         held' \in [Proc -> Addr \cup {None}],
         subnetOf' \in [Node -> Subnet \cup {None}]
  PROVE  TypeInv'
<1>1. /\ pc' \in [Proc -> PC] /\ arg' \in [Proc -> Item \cup {None}]
      /\ pc'[p] = w /\ arg'[p] = x
      /\ \A q \in Proc : q # p => pc'[q] = pc[q] /\ arg'[q] = arg[q]
  BY GotoType DEF TypeInv, PC
<1>2. TypeOK' /\ OnlyMoves(p)
  BY <1>1 DEF TypeInv, TypeOK, EtcdTypeOK, OnlyMoves
<1>3. CallMatches(p)' /\ ArgMatches(p)'
  BY <1>1 DEF CallMatches, ArgMatches
<1> QED BY <1>2, <1>3, TypeInvByProcess

LEMMA AddressStartType ==
  ASSUME NEW p \in Proc, TypeInv, AllocateIp(p) \/ ReleaseIp(p)
  PROVE  TypeInv'
<1>1. pc[p] = "idle" /\ call[p].at = "idle"
  BY DEF AllocateIp, ReleaseIp, MayStart, TypeInv, CallMatchesPC, CallMatches
<1>2. CASE AllocateIp(p)
  <2>1. 1 \in Addr
    BY <1>2, IpamAssumption DEF AllocateIp, InRange, Addr
  <2> QED
    BY <1>1, <1>2, <2>1, KeysAreKeys, MoveType DEF AllocateIp, TypeInv, TypeOK
<1>3. CASE ReleaseIp(p)
  <2>1. held[p] \in Addr /\ held' \in [Proc -> Addr \cup {None}]
    BY <1>3 DEF ReleaseIp, TypeInv, TypeOK
  <2>2. /\ TypeOK' /\ OnlyMoves(p)
        /\ call'[p].at \in Deleting /\ call'[p].key = NodeOf[p]
        /\ call'[p].item = held[p] /\ pc'[p] = "addrDel"
    BY <1>3, <2>1, KeysAreKeys, StartCallType
       DEF ReleaseIp, TypeInv, TypeOK, PC
  <2> QED
    BY <2>1, <2>2, TypeInvByProcess DEF CallMatches, ArgMatches
<1> QED BY <1>2, <1>3

LEMMA SubnetStartType ==
  ASSUME NEW p \in Proc, TypeInv, AllocateSubnet(p) \/ ReleaseSubnet(p)
  PROVE  TypeInv'
<1> USE DEF TypeInv, TypeOK
<1>1. CASE AllocateSubnet(p)
  <2>1. PICK cidr \in Subnet \cup {None} :
            StartAppend(p, SubnetsKey, cidr) /\ Goto(p, "subnetAppend", cidr)
    BY <1>1, KeysAreKeys DEF AllocateSubnet, Subnet
  <2>2. UNCHANGED <<list, subnetOf, held>>
    BY <1>1 DEF AllocateSubnet
  <2>3. /\ TypeOK' /\ OnlyMoves(p)
        /\ call'[p].at \in Appending /\ call'[p].key = SubnetsKey
        /\ pc'[p] = "subnetAppend" /\ arg'[p] = cidr
    BY <2>1, <2>2, KeysAreKeys, StartCallType DEF PC
  <2> QED BY <2>3, TypeInvByProcess DEF CallMatches, ArgMatches
<1>2. CASE ReleaseSubnet(p)
  <2>1. call[p].at = "idle" /\ UNCHANGED <<list, call, subnetOf, held>>
    BY <1>2 DEF ReleaseSubnet, MayStart, CallMatchesPC, CallMatches
  <2>2. subnetOf[NodeOf[p]] \in Subnet /\ Goto(p, "nodeDel", subnetOf[NodeOf[p]])
    BY <1>2, KeysAreKeys DEF ReleaseSubnet
  <2> QED BY <2>1, <2>2, KeysAreKeys, MoveType
<1> QED BY <1>1, <1>2

LEMMA AppendSubnetType ==
  ASSUME NEW p \in Proc, TypeInv, AppendSubnet(p)
  PROVE  TypeInv'
<1> USE DEF TypeInv, TypeOK
<1>1. /\ pc[p] = "subnetAppend" /\ arg[p] \in Subnet \cup {None}
      /\ call[p].key = SubnetsKey /\ call[p].key \in Key
  BY KeysAreKeys
     DEF AppendSubnet, CallMatchesPC, CallMatches, ArgMatchesPC, ArgMatches
<1>2. ASSUME NEW o \in ReadOutcome, AppendGet(p, o), UNCHANGED <<pc, arg>>
      PROVE  TypeInv'
  <2>1. TypeOK' /\ OnlyMoves(p)
    BY <1>1, <1>2, AppendGetType DEF AppendSubnet, OnlyMoves
  <2>2. CallMatches(p)' /\ ArgMatches(p)'
    BY <1>1, <1>2, AppendGetType DEF CallMatches, ArgMatches, Appending
  <2> QED BY <2>1, <2>2, TypeInvByProcess
<1>3. ASSUME NEW o \in WriteOutcome, AppendPut(p, o),
             IF o = "ok" THEN Goto(p, "subnetPut", arg[p]) ELSE Return(p)
      PROVE  TypeInv'
  <2>1. EtcdTypeOK' /\ call'[p].at = "idle"
        /\ \A q \in Proc : q # p => call'[q] = call[q]
    BY <1>1, <1>3, PutType
  <2>2. /\ pc' \in [Proc -> PC] /\ arg' \in [Proc -> Item \cup {None}]
        /\ \A q \in Proc : q # p => pc'[q] = pc[q] /\ arg'[q] = arg[q]
        /\ \/ pc'[p] = "subnetPut" /\ arg'[p] = arg[p]
           \/ pc'[p] = "idle"
    BY <1>1, <1>3, GotoType DEF Return, PC
  <2>3. TypeOK'
    BY <2>1, <2>2 DEF AppendSubnet
  <2> QED
    BY <1>1, <2>1, <2>2, <2>3, TypeInvByProcess
       DEF OnlyMoves, CallMatches, ArgMatches
<1> QED BY <1>2, <1>3 DEF AppendSubnet

\* /ohno/subnets/<node> is written and deleted (ipam.cc:63, 88).
LEMMA NodeSubnetType ==
  ASSUME NEW p \in Proc, TypeInv, PutNodeSubnet(p) \/ DelNodeSubnet(p)
  PROVE  TypeInv'
<1> USE DEF TypeInv, TypeOK
<1>1. /\ call[p].at = "idle" /\ arg[p] \in Subnet \cup {None}
      /\ arg[p] \in Item \cup {None}
  BY KeysAreKeys
     DEF PutNodeSubnet, DelNodeSubnet, CallMatchesPC, CallMatches,
         ArgMatchesPC, ArgMatches
<1>2. UNCHANGED <<list, held>> /\ subnetOf' \in [Node -> Subnet \cup {None}]
  BY <1>1 DEF PutNodeSubnet, DelNodeSubnet, Written
<1>3. CASE Return(p) /\ UNCHANGED call
  BY <1>1, <1>2, <1>3, MoveType DEF Return
<1>4. CASE StartDel(p, SubnetsKey, arg[p]) /\ Goto(p, "subnetDel", None)
  <2>1. /\ TypeOK' /\ OnlyMoves(p)
        /\ call'[p].at \in Deleting /\ call'[p].key = SubnetsKey
        /\ pc'[p] = "subnetDel"
    BY <1>1, <1>2, <1>4, KeysAreKeys, StartCallType DEF PC
  <2> QED BY <2>1, TypeInvByProcess DEF CallMatches, ArgMatches
<1> QED BY <1>3, <1>4 DEF PutNodeSubnet, DelNodeSubnet

LEMMA FailureType ==
  ASSUME NEW p \in Proc, TypeInv, Crash(p) \/ Vanish(p)
  PROVE  TypeInv'
<1> USE DEF TypeInv, TypeOK
<1>1. CASE Crash(p)
  <2>1. call' \in [Proc -> CallType] /\ call'[p].at = "idle"
        /\ \A q \in Proc : q # p => call'[q] = call[q]
    BY <1>1 DEF Crash, Idle, CallType, EtcdTypeOK
  <2>2. /\ pc' \in [Proc -> PC] /\ arg' \in [Proc -> Item \cup {None}]
        /\ pc'[p] = "idle"
        /\ \A q \in Proc : q # p => pc'[q] = pc[q] /\ arg'[q] = arg[q]
    BY <1>1, GotoType DEF Crash, Return, PC
  <2>3. TypeOK' /\ OnlyMoves(p) /\ CallMatches(p)' /\ ArgMatches(p)'
    BY <1>1, <2>1, <2>2
       DEF Crash, EtcdTypeOK, OnlyMoves, CallMatches, ArgMatches
  <2> QED BY <2>3, TypeInvByProcess
<1>2. CASE Vanish(p)
  BY <1>2
     DEF Vanish, EtcdTypeOK, CallMatchesPC, CallMatches, ArgMatchesPC, ArgMatches
<1> QED BY <1>1, <1>2

\* Every step of the program keeps the variables in their types.
LEMMA NextTypeInv ==
  ASSUME TypeInv, [Next]_vars
  PROVE  TypeInv'
<1>1. ASSUME NEW p \in Proc, Start(p)
      PROVE  TypeInv'
  BY <1>1, AddressStartType, SubnetStartType DEF Start
<1>2. ASSUME NEW p \in Proc, Step(p)
      PROVE  TypeInv'
  BY <1>2, TryCandidateType, AppendIpType, RemoveType, AppendSubnetType,
     NodeSubnetType DEF Step
<1>3. ASSUME NEW p \in Proc, Crash(p) \/ Vanish(p)
      PROVE  TypeInv'
  BY <1>3, FailureType
<1>4. CASE UNCHANGED vars
  BY <1>4
     DEF vars, TypeInv, TypeOK, EtcdTypeOK, CallMatchesPC, CallMatches,
         ArgMatchesPC, ArgMatches
<1> QED BY <1>1, <1>2, <1>3, <1>4 DEF Next

\* Ipam is type-correct in every cluster and every environment: the candidate
\* loop never leaves the usable addresses of the subnet (ipam.cc:148), and
\* every client call works on the key its operation is about.
THEOREM TypeCorrect == Spec => []TypeOK
<1>1. Spec => []TypeInv
  BY InitTypeInv, NextTypeInv, PTL DEF Spec
<1>2. TypeInv => TypeOK
  BY DEF TypeInv
<1> QED BY <1>1, <1>2, PTL

-----------------------------------------------------------------------------
(* Safety.                                                                  *)

\* On a node, at most one operation is in progress.
OneCallPerNode ==
    \A p, q \in Proc :
        p # q /\ SameNode(p, q) => pc[p] = "idle" \/ pc[q] = "idle"

\* What an allocateIp() in progress knows: it has no address yet, and from
\* isIpAvailable() on its candidate is not recorded.
CandidateIsFree(p) ==
    /\ pc[p] \in {"available", "addrAppend"} => held[p] = None
    /\ pc[p] = "addrAppend" => arg[p] \notin list[NodeOf[p]]
    /\ pc[p] = "addrAppend" /\ call[p].at = "appendPut" =>
          call[p].buf = list[NodeOf[p]] \cup {arg[p]}

\* What a releaseIp() in progress knows: nobody has the address it removes.
ReleasedIsUnused(p) ==
    pc[p] = "addrDel" =>
        /\ \A q \in Proc : SameNode(p, q) => held[q] # call[p].item
        /\ call[p].at = "delPut" =>
              call[p].buf = list[NodeOf[p]] \ {call[p].item}

\* Inductive when calls of a node do not overlap and reads succeed.  Unique
\* holders alone are not: that a candidate is free to be granted rests on every
\* held address being recorded, and that on releaseIp() removing only what
\* nobody holds.
IInv ==
    /\ TypeInv
    /\ OneCallPerNode
    /\ \A p \in Proc : CandidateIsFree(p) /\ ReleasedIsUnused(p)
    /\ HeldIsRecorded
    /\ UniqueHolder

ReliableReads == "readFail" \notin Faults
NodeInTurn    == "overlap" \notin Faults

\* The pools keep their promise by themselves: whoever moves only as
\* AddressPool allows keeps the holders unique and their addresses recorded.
LEMMA PoolKeepsHolders ==
  ASSUME TypeOK, TypeOK', HeldIsRecorded, UniqueHolder, [Pool!Next]_(Pool!vars)
  PROVE  HeldIsRecorded' /\ UniqueHolder'
<1> USE KeysAreKeys
<1>n. \A p \in Proc : NodeOf[p] \in Node
  OBVIOUS
<1>t. /\ held \in [Proc -> Addr \cup {None}]
      /\ \A r \in Proc : held[r] # None => held[r] \in list[NodeOf[r]]
      /\ \A r, s \in Proc : (r # s /\ NodeOf[r] = NodeOf[s] /\ held[r] # None)
                              => held[r] # held[s]
  BY DEF TypeOK, HeldIsRecorded, UniqueHolder, SameNode
\* Nobody new holds anything, and no held address leaves its list.
<1>k. ASSUME \A r \in Proc : held'[r] \in {held[r], None},
             \A r \in Proc : held'[r] # None => held'[r] \in list'[NodeOf[r]]
      PROVE  HeldIsRecorded' /\ UniqueHolder'
  <2>1. HeldIsRecorded'
    BY <1>k DEF HeldIsRecorded
  <2>2. UniqueHolder'
    BY <1>k, <1>t DEF UniqueHolder, SameNode
  <2> QED BY <2>1, <2>2
<1>1. ASSUME NEW p \in Proc, Pool!Leave(p)
      PROVE  HeldIsRecorded' /\ UniqueHolder'
  <2>1. \A n \in Node : list'[n] = list[n]
    BY <1>1 DEF Pool!Leave
  <2>2. \A r \in Proc : held'[r] = IF r = p THEN None ELSE held[r]
    BY <1>1, <1>t DEF Pool!Leave
  <2> QED BY <2>1, <2>2, <1>t, <1>k, <1>n
<1>2. ASSUME NEW p \in Proc, NEW a \in Addr, Pool!Grant(p, a)
      PROVE  HeldIsRecorded' /\ UniqueHolder'
  <2>1. a \notin list[NodeOf[p]]
    BY <1>2, <1>n DEF Pool!Grant
  <2>2. \A r \in Proc : held'[r] = IF r = p THEN a ELSE held[r]
    BY <1>2, <1>t DEF Pool!Grant
  <2>3. \A n \in Node : list'[n] = IF n = NodeOf[p] THEN list[n] \cup {a}
                                                     ELSE list[n]
    BY <1>2 DEF Pool!Grant
  <2>4. \A r \in Proc : NodeOf[r] = NodeOf[p] => held[r] # a
    <3> SUFFICES ASSUME NEW r \in Proc, NodeOf[r] = NodeOf[p], held[r] = a
                 PROVE  FALSE
      OBVIOUS
    <3>1. a # None
      BY EtcdAssumption
    <3> QED BY <3>1, <2>1, <1>t
  <2>5. HeldIsRecorded'
    <3> SUFFICES ASSUME NEW r \in Proc, held'[r] # None
                 PROVE  held'[r] \in list'[NodeOf[r]]
      BY DEF HeldIsRecorded
    <3>1. CASE r = p
      BY <3>1, <2>2, <2>3, <1>n
    <3>2. CASE r # p
      BY <3>2, <2>2, <2>3, <1>t, <1>n
    <3> QED BY <3>1, <3>2
  <2>6. UniqueHolder'
    <3> SUFFICES ASSUME NEW r \in Proc, NEW s \in Proc, r # s,
                        NodeOf[r] = NodeOf[s], held'[r] # None
                 PROVE  held'[r] # held'[s]
      BY DEF UniqueHolder, SameNode
    <3>1. CASE r = p
      BY <3>1, <2>2, <2>4
    <3>2. CASE s = p
      BY <3>2, <2>2, <2>4
    <3>3. CASE r # p /\ s # p
      BY <3>3, <2>2, <1>t
    <3> QED BY <3>1, <3>2, <3>3
  <2> QED BY <2>5, <2>6
<1>3. ASSUME NEW n \in Node, NEW a \in Addr, Pool!Reclaim(n, a)
      PROVE  HeldIsRecorded' /\ UniqueHolder'
  <2>1. held' = held /\ \A p \in Proc : NodeOf[p] = n => held[p] # a
    BY <1>3 DEF Pool!Reclaim
  <2>2. \A m \in Node : list'[m] = IF m = n THEN list[m] \ {a} ELSE list[m]
    BY <1>3 DEF Pool!Reclaim
  <2>3. \A r \in Proc : held[r] # None => held[r] \in list'[NodeOf[r]]
    BY <2>1, <2>2, <1>t, <1>n
  <2> QED BY <2>1, <2>3, <1>k
<1>4. ASSUME NEW n \in Node, NEW a \in Addr, Pool!Lose(n, a)
      PROVE  HeldIsRecorded' /\ UniqueHolder'
  <2>1. \A m \in Node : list'[m] = IF m = n THEN list[m] \cup {a} ELSE list[m]
    BY <1>4 DEF Pool!Lose
  <2>2. held' = held
    BY <1>4 DEF Pool!Lose
  <2>3. \A r \in Proc : held[r] # None => held[r] \in list'[NodeOf[r]]
    BY <2>1, <1>t, <1>n
  <2> QED BY <2>2, <2>3, <1>k
<1>5. CASE UNCHANGED Pool!vars
  <2>1. held' = held /\ \A n \in Node : list'[n] = list[n]
    BY <1>5 DEF Pool!vars
  <2> QED BY <2>1, <1>t, <1>k, <1>n
<1> QED BY <1>1, <1>2, <1>3, <1>4, <1>5 DEF Pool!Next

\* What a put of a call does to the lists of the nodes.
LEMMA ListEffect ==
  ASSUME NEW p \in Proc, NEW o \in WriteOutcome, TypeInv,
         AppendPut(p, o) \/ DelPut(p, o), call[p].key \in Key
  PROVE  \/ \A k \in Key : list'[k] = list[k]
         \/ /\ list'[call[p].key] = call[p].buf
            /\ \A k \in Key : k # call[p].key => list'[k] = list[k]
  BY PutType DEF TypeInv, TypeOK

LEMMA QuietPool ==
  ASSUME held' = held, \A n \in Node : list'[n] = list[n]
  PROVE  UNCHANGED Pool!vars
  BY DEF Pool!vars

LEMMA PoolSteps ==
  /\ \A n \in Node, a \in Addr : Pool!Reclaim(n, a) \/ Pool!Lose(n, a) => Pool!Next
  /\ \A p \in Proc, a \in Addr : Pool!Grant(p, a) \/ Pool!Leave(p) => Pool!Next
  BY DEF Pool!Next

\* releaseIp() takes back only what nobody uses; the other del() calls are about
\* the list of subnets.
LEMMA RemoveImplements ==
  ASSUME NEW p \in Proc, IInv, RemoveIp(p) \/ RemoveSubnet(p)
  PROVE  [Pool!Next]_(Pool!vars)
<1> USE DEF IInv, TypeInv
<1>1. held' = held /\ DelItem(p) /\ call[p].key \in Key
  BY KeysAreKeys DEF RemoveIp, RemoveSubnet, CallMatchesPC, CallMatches
<1>2. ASSUME NEW o \in ReadOutcome, DelList(p, o)
      PROVE  UNCHANGED Pool!vars
  BY <1>1, <1>2, QuietPool DEF DelList
<1>3. ASSUME NEW o \in WriteOutcome, DelPut(p, o), RemoveSubnet(p)
      PROVE  UNCHANGED Pool!vars
  <2>1. call[p].key = SubnetsKey
    BY <1>3 DEF RemoveSubnet, CallMatchesPC, CallMatches
  <2>2. \A n \in Node : list'[n] = list[n]
    BY <1>1, <1>3, <2>1, ListEffect, IpamAssumption
  <2> QED BY <1>1, <2>2, QuietPool
<1>4. ASSUME NEW o \in WriteOutcome, DelPut(p, o), RemoveIp(p)
      PROVE  [Pool!Next]_(Pool!vars)
  <2> DEFINE n == NodeOf[p]
  <2>0. PICK a \in Addr : a = call[p].item
    BY <1>4 DEF RemoveIp, CallMatchesPC, CallMatches
  <2>1. /\ call[p].key = n /\ n \in Node
        /\ call[p].buf = list[n] \ {a}
        /\ \A q \in Proc : NodeOf[q] = n => held[q] # a
    BY <1>4, <2>0, KeysAreKeys
       DEF RemoveIp, DelPut, CallMatchesPC, CallMatches, ReleasedIsUnused, SameNode
  <2>2. CASE \A k \in Key : list'[k] = list[k]
    BY <1>1, <2>2, QuietPool, IpamAssumption
  <2>3. CASE /\ list'[call[p].key] = call[p].buf
             /\ \A k \in Key : k # call[p].key => list'[k] = list[k]
    <3>1. [m \in Node |-> list'[m]] =
             [[m \in Node |-> list[m]] EXCEPT ![n] = @ \ {a}]
      BY <2>1, <2>3, IpamAssumption
    <3>2. Pool!Reclaim(n, a)
      BY <1>1, <2>1, <3>1 DEF Pool!Reclaim
    <3> QED BY <2>1, <3>2, PoolSteps
  <2> QED BY <1>1, <1>4, <2>2, <2>3, ListEffect
<1> QED BY <1>1, <1>2, <1>3, <1>4 DEF DelItem

\* allocateIp() grants a free address, or loses one when its append failed
\* although etcd committed it.
LEMMA AppendIpImplements ==
  ASSUME NEW p \in Proc, IInv, AppendIp(p)
  PROVE  [Pool!Next]_(Pool!vars)
<1> USE DEF IInv, TypeInv
<1> DEFINE n == NodeOf[p]
<1>0. PICK a \in Addr : a = arg[p]
  BY DEF AppendIp, ArgMatchesPC, ArgMatches
<1>1. /\ pc[p] = "addrAppend" /\ n \in Node /\ n \in Key
      /\ call[p].key = n /\ held[p] = None /\ a \notin list[n]
  BY <1>0, KeysAreKeys DEF AppendIp, CallMatchesPC, CallMatches, CandidateIsFree
<1>2. ASSUME NEW o \in ReadOutcome, AppendGet(p, o), UNCHANGED held
      PROVE  UNCHANGED Pool!vars
  BY <1>2, QuietPool DEF AppendGet
<1>3. ASSUME NEW o \in WriteOutcome, AppendPut(p, o),
             o = "ok" => held' = [held EXCEPT ![p] = a],
             o # "ok" => held' = held
      PROVE  [Pool!Next]_(Pool!vars)
  <2>1. call[p].buf = list[n] \cup {a}
    BY <1>0, <1>1, <1>3 DEF AppendPut, CandidateIsFree
  <2>2. CASE /\ list'[n] = call[p].buf
             /\ \A k \in Key : k # n => list'[k] = list[k]
    <3>1. [m \in Node |-> list'[m]] =
             [[m \in Node |-> list[m]] EXCEPT ![n] = @ \cup {a}]
      BY <1>1, <2>1, <2>2, IpamAssumption
    <3>2. CASE o = "ok"
      <4>1. Pool!Grant(p, a)
        BY <1>1, <1>3, <3>1, <3>2 DEF Pool!Grant
      <4> QED BY <1>1, <4>1, PoolSteps
    <3>3. CASE o # "ok"
      <4>1. Pool!Lose(n, a)
        BY <1>1, <1>3, <3>1, <3>3 DEF Pool!Lose
      <4> QED BY <1>1, <4>1, PoolSteps
    <3> QED BY <3>2, <3>3
  <2>3. CASE o # "ok" /\ \A k \in Key : list'[k] = list[k]
    BY <1>3, <2>3, QuietPool, IpamAssumption
  <2>4. o = "ok" => list'[n] = call[p].buf
    BY <1>1, <1>3, PutType DEF TypeOK
  <2>5. \/ \A k \in Key : list'[k] = list[k]
        \/ /\ list'[n] = call[p].buf
           /\ \A k \in Key : k # n => list'[k] = list[k]
    BY <1>1, <1>3, ListEffect
  <2> QED BY <1>1, <2>2, <2>3, <2>4, <2>5
<1> QED BY <1>0, <1>2, <1>3 DEF AppendIp

LEMMA AppendSubnetImplements ==
  ASSUME NEW p \in Proc, IInv, AppendSubnet(p)
  PROVE  [Pool!Next]_(Pool!vars)
<1> USE DEF IInv, TypeInv
<1>1. held' = held /\ call[p].key = SubnetsKey /\ call[p].key \in Key
  BY KeysAreKeys DEF AppendSubnet, CallMatchesPC, CallMatches
<1>2. ASSUME NEW o \in ReadOutcome, AppendGet(p, o)
      PROVE  UNCHANGED Pool!vars
  BY <1>1, <1>2, QuietPool DEF AppendGet
<1>3. ASSUME NEW o \in WriteOutcome, AppendPut(p, o)
      PROVE  UNCHANGED Pool!vars
  <2>1. \A n \in Node : list'[n] = list[n]
    BY <1>1, <1>3, ListEffect, IpamAssumption
  <2> QED BY <1>1, <2>1, QuietPool
<1> QED BY <1>2, <1>3 DEF AppendSubnet

\* Every step of the program is a step of the pools, or none of their business.
LEMMA StepImplementsPool ==
  ASSUME IInv, [Next]_vars
  PROVE  [Pool!Next]_(Pool!vars)
<1>1. ASSUME NEW p \in Proc, ReleaseIp(p) \/ Vanish(p)
      PROVE  [Pool!Next]_(Pool!vars)
  <2>1. Pool!Leave(p)
    BY <1>1 DEF ReleaseIp, Vanish, Pool!Leave
  <2> QED BY <2>1 DEF Pool!Next
<1>2. ASSUME NEW p \in Proc,
             \/ AllocateIp(p) \/ AllocateSubnet(p) \/ ReleaseSubnet(p)
             \/ TryCandidate(p) \/ PutNodeSubnet(p) \/ DelNodeSubnet(p)
             \/ Crash(p)
      PROVE  UNCHANGED Pool!vars
  BY <1>2, QuietPool
     DEF AllocateIp, AllocateSubnet, ReleaseSubnet, TryCandidate, PutNodeSubnet,
         DelNodeSubnet, Crash
<1>3. ASSUME NEW p \in Proc,
             RemoveIp(p) \/ RemoveSubnet(p) \/ AppendIp(p) \/ AppendSubnet(p)
      PROVE  [Pool!Next]_(Pool!vars)
  BY <1>3, RemoveImplements, AppendIpImplements, AppendSubnetImplements
<1>4. CASE UNCHANGED vars
  BY <1>4, QuietPool DEF vars
<1> QED BY <1>1, <1>2, <1>3, <1>4 DEF Next, Start, Step

\* What a step of p does to the others: nothing on other nodes, and on its own
\* node there is no other call (MayStart) when calls of a node do not overlap.
OthersUntouched(p) ==
    /\ OnlyMoves(p)
    /\ \A q \in Proc : q # p => held'[q] = held[q]
    /\ \A n \in Node : n # NodeOf[p] => list'[n] = list[n]

LEMMA InTurn ==
  ASSUME NEW p \in Proc, NodeInTurn, IInv, OthersUntouched(p),
         pc[p] # "idle" \/ MayStart(p),
         CandidateIsFree(p)', ReleasedIsUnused(p)'
  PROVE  /\ OneCallPerNode'
         /\ \A q \in Proc : CandidateIsFree(q)' /\ ReleasedIsUnused(q)'
<1> USE DEF IInv, OthersUntouched, OnlyMoves, SameNode
<1>1. \A q \in Proc : q # p /\ SameNode(p, q) => pc[q] = "idle"
  BY DEF OneCallPerNode, MayStart, NodeInTurn
<1>2. OneCallPerNode'
  BY <1>1 DEF OneCallPerNode
<1>3. ASSUME NEW q \in Proc, q # p
      PROVE  CandidateIsFree(q)' /\ ReleasedIsUnused(q)'
  <2>1. CASE SameNode(p, q)
    <3>1. pc'[q] = "idle"
      BY <1>1, <1>3, <2>1
    <3> QED BY <3>1 DEF CandidateIsFree, ReleasedIsUnused
  <2>2. CASE ~SameNode(p, q)
    <3>1. list'[NodeOf[q]] = list[NodeOf[q]]
      BY <2>2, KeysAreKeys
    <3>2. CandidateIsFree(q)'
      BY <1>3, <3>1 DEF CandidateIsFree
    <3>3. \A r \in Proc : SameNode(q, r) => held'[r] = held[r]
      BY <2>2
    <3>4. ReleasedIsUnused(q)'
      BY <1>3, <3>1, <3>3 DEF ReleasedIsUnused
    <3> QED BY <3>2, <3>4
  <2> QED BY <2>1, <2>2
<1> QED BY <1>2, <1>3

\* The lists that a step of p may write: that of its own node and the subnets.
LEMMA StepOthers ==
  ASSUME NEW p \in Proc, TypeInv, Start(p) \/ Step(p) \/ Crash(p)
  PROVE  OthersUntouched(p)
<1> USE DEF TypeInv
<1>1. CASE Start(p)
  BY <1>1
     DEF Start, AllocateIp, ReleaseIp, AllocateSubnet, ReleaseSubnet,
         StartAppend, StartDel, Goto, OthersUntouched, OnlyMoves, TypeOK, EtcdTypeOK
<1>2. CASE TryCandidate(p) \/ PutNodeSubnet(p) \/ DelNodeSubnet(p) \/ Crash(p)
  BY <1>2
     DEF TryCandidate, NextCandidate, PutNodeSubnet, DelNodeSubnet, Crash, Return,
         StartAppend, StartDel, Goto, OthersUntouched, OnlyMoves, TypeOK, EtcdTypeOK
<1>3. CASE AppendIp(p) \/ AppendSubnet(p)
  <2>1. /\ call[p].key \in Key
        /\ call[p].key = NodeOf[p] \/ call[p].key = SubnetsKey
    BY <1>3, KeysAreKeys DEF AppendIp, AppendSubnet, CallMatchesPC, CallMatches
  <2>2. /\ \A q \in Proc : q # p => call'[q] = call[q]
        /\ \A k \in Key : k # call[p].key => list'[k] = list[k]
    BY <1>3, <2>1, AppendGetType, PutType DEF AppendIp, AppendSubnet, TypeOK
  <2>3. /\ OnlyMoves(p)
        /\ \A q \in Proc : q # p => held'[q] = held[q]
    BY <1>3, <2>2
       DEF AppendIp, AppendSubnet, NextCandidate, Return, Goto, OnlyMoves, TypeOK
  <2> QED BY <2>1, <2>2, <2>3, IpamAssumption DEF OthersUntouched
<1>4. CASE RemoveIp(p) \/ RemoveSubnet(p)
  <2>1. /\ call[p].key \in Key
        /\ call[p].key = NodeOf[p] \/ call[p].key = SubnetsKey
    BY <1>4, KeysAreKeys DEF RemoveIp, RemoveSubnet, CallMatchesPC, CallMatches
  <2>2. OnlyMoves(p) /\ held' = held
    BY <1>4, DelItemType DEF RemoveIp, RemoveSubnet
  <2>3. \A k \in Key : k # call[p].key => list'[k] = list[k]
    BY <1>4, <2>1, DelListType, PutType
       DEF RemoveIp, RemoveSubnet, DelItem, TypeOK
  <2> QED BY <2>1, <2>2, <2>3, IpamAssumption DEF OthersUntouched
<1> QED BY <1>1, <1>2, <1>3, <1>4 DEF Step

\* The operation of p itself keeps to what it knows: isIpAvailable() reads the
\* list before the candidate is appended, append() and del() write what they
\* read, and releaseIp() starts when its caller alone had the address.
LEMMA StepOwn ==
  ASSUME NEW p \in Proc, ReliableReads, IInv, TypeInv',
         Start(p) \/ Step(p) \/ Crash(p)
  PROVE  CandidateIsFree(p)' /\ ReleasedIsUnused(p)'
<1> USE KeysAreKeys DEF IInv, TypeInv
<1> DEFINE Quiet == {"idle", "subnetAppend", "subnetPut", "nodeDel", "subnetDel"}
<1>1. ASSUME pc'[p] \in Quiet
      PROVE  CandidateIsFree(p)' /\ ReleasedIsUnused(p)'
  BY <1>1 DEF CandidateIsFree, ReleasedIsUnused
<1>2. CASE AllocateIp(p)
  BY <1>2 DEF AllocateIp, Goto, TypeOK, CandidateIsFree, ReleasedIsUnused
<1>3. CASE ReleaseIp(p)
  <2>1. /\ pc'[p] = "addrDel" /\ held' = [held EXCEPT ![p] = None]
        /\ held[p] # None
    BY <1>3 DEF ReleaseIp, Goto, TypeOK
  <2>2. call'[p].at = "delList" /\ call'[p].item = held[p]
    BY <1>3 DEF ReleaseIp, StartDel, TypeOK, EtcdTypeOK
  <2>3. \A q \in Proc : SameNode(p, q) => held'[q] # held[p]
    BY <2>1 DEF UniqueHolder, TypeOK
  <2> QED BY <2>1, <2>2, <2>3 DEF CandidateIsFree, ReleasedIsUnused
<1>4. CASE TryCandidate(p)
  <2>1. pc[p] = "available" /\ held[p] = None /\ list' = list /\ held' = held
    BY <1>4 DEF TryCandidate, CandidateIsFree
  <2>2. CASE /\ arg[p] \notin list[NodeOf[p]]
             /\ StartAppend(p, NodeOf[p], arg[p])
             /\ Goto(p, "addrAppend", arg[p])
    <3>1. /\ pc'[p] = "addrAppend" /\ arg'[p] = arg[p]
          /\ call'[p].at = "appendGet"
      BY <2>2 DEF Goto, StartAppend, TypeOK, EtcdTypeOK
    <3> QED BY <2>1, <2>2, <3>1 DEF CandidateIsFree, ReleasedIsUnused
  <2>3. CASE NextCandidate(p)
    <3>1. pc'[p] \in {"available", "idle"}
      BY <2>3 DEF NextCandidate, Return, Goto, TypeOK
    <3> QED BY <2>1, <3>1 DEF CandidateIsFree, ReleasedIsUnused
  <2> QED
    BY <1>4, <2>2, <2>3
       DEF TryCandidate, IsIpAvailable, ReadOutcome, ReliableReads
<1>5. CASE AppendIp(p)
  <2>1. /\ pc[p] = "addrAppend" /\ held[p] = None
        /\ arg[p] \notin list[NodeOf[p]] /\ arg[p] \in Addr
        /\ call[p].key = NodeOf[p] /\ call[p].item = arg[p]
    BY <1>5 DEF AppendIp, CandidateIsFree, CallMatchesPC, CallMatches,
                ArgMatchesPC, ArgMatches
  <2>2. ASSUME NEW o \in ReadOutcome, AppendGet(p, o), UNCHANGED <<pc, arg, held>>
        PROVE  CandidateIsFree(p)' /\ ReleasedIsUnused(p)'
    <3>1. o = "ok"
      BY DEF ReadOutcome, ReliableReads
    <3>2. list' = list /\ call'[p].buf = Appended(list[call[p].key], call[p].item)
      BY <2>1, <2>2, <3>1, AppendGetType DEF TypeOK
    <3>3. call'[p].buf = list[NodeOf[p]] \cup {arg[p]}
      BY <2>1, <3>2, EtcdAssumption DEF Appended
    <3> QED BY <2>1, <2>2, <3>2, <3>3 DEF CandidateIsFree, ReleasedIsUnused
  <2>3. ASSUME NEW o \in WriteOutcome, o = "ok" => Return(p),
               o # "ok" => NextCandidate(p) /\ UNCHANGED held
        PROVE  CandidateIsFree(p)' /\ ReleasedIsUnused(p)'
    <3>1. pc'[p] \in {"available", "idle"}
      BY <2>3 DEF NextCandidate, Return, Goto, TypeOK
    <3>2. pc'[p] = "available" => held' = held
      BY <2>3 DEF Return, Goto, TypeOK
    <3> QED BY <2>1, <3>1, <3>2 DEF CandidateIsFree, ReleasedIsUnused
  <2> QED BY <1>5, <2>2, <2>3 DEF AppendIp
<1>6. CASE RemoveIp(p)
  <2>1. /\ pc[p] = "addrDel" /\ held' = held /\ DelItem(p)
        /\ call[p].key = NodeOf[p]
        /\ \A q \in Proc : SameNode(p, q) => held[q] # call[p].item
    BY <1>6 DEF RemoveIp, CallMatchesPC, CallMatches, ReleasedIsUnused
  <2>2. CASE call'[p].at = "idle"
    BY <1>1, <2>1, <2>2 DEF DelItem, Return, Goto, TypeOK
  <2>3. CASE call'[p].at # "idle"
    <3>1. PICK o \in ReadOutcome : DelList(p, o)
      BY <2>1, <2>3, PutType DEF DelItem, TypeOK
    <3>2. /\ list' = list /\ call'[p].item = call[p].item
          /\ call'[p].buf = Removed(list[NodeOf[p]], call[p].item)
      BY <2>1, <2>3, <3>1, DelListType DEF TypeOK
    <3>3. UNCHANGED <<pc, arg>>
      BY <2>1, <2>3 DEF DelItem
    <3> QED BY <2>1, <3>2, <3>3 DEF CandidateIsFree, ReleasedIsUnused, Removed
  <2> QED BY <2>2, <2>3
<1>7. CASE \/ AllocateSubnet(p) \/ ReleaseSubnet(p) \/ AppendSubnet(p)
           \/ PutNodeSubnet(p) \/ DelNodeSubnet(p) \/ RemoveSubnet(p) \/ Crash(p)
  <2>1. pc'[p] \in Quiet
    BY <1>7
       DEF AllocateSubnet, ReleaseSubnet, AppendSubnet, PutNodeSubnet,
           DelNodeSubnet, RemoveSubnet, DelItem, Crash, Return, Goto, TypeOK
  <2> QED BY <1>1, <2>1
<1> QED BY <1>2, <1>3, <1>4, <1>5, <1>6, <1>7 DEF Start, Step

\* The invariant holds at first: no call, no address.
LEMMA InitIInv == Init => IInv
<1> SUFFICES ASSUME Init PROVE IInv
  OBVIOUS
<1>1. TypeInv
  BY InitTypeInv
<1> QED
  BY <1>1 DEF Init, IInv, OneCallPerNode, CandidateIsFree, ReleasedIsUnused,
              HeldIsRecorded, UniqueHolder

LEMMA NextIInv ==
  ASSUME ReliableReads, NodeInTurn, IInv, [Next]_vars
  PROVE  IInv'
<1> USE DEF IInv
<1>1. TypeInv'
  BY NextTypeInv
<1>2. HeldIsRecorded' /\ UniqueHolder'
  BY <1>1, StepImplementsPool, PoolKeepsHolders DEF TypeInv
<1>3. ASSUME NEW p \in Proc, Start(p) \/ Step(p) \/ Crash(p)
      PROVE  /\ OneCallPerNode'
             /\ \A q \in Proc : CandidateIsFree(q)' /\ ReleasedIsUnused(q)'
  <2>1. pc[p] # "idle" \/ MayStart(p)
    BY <1>3
       DEF Start, Step, Crash, AllocateIp, ReleaseIp, AllocateSubnet,
           ReleaseSubnet, TryCandidate, AppendIp, RemoveIp, AppendSubnet,
           PutNodeSubnet, DelNodeSubnet, RemoveSubnet
  <2> QED BY <1>1, <1>3, <2>1, StepOthers, StepOwn, InTurn
<1>4. ASSUME NEW p \in Proc, Vanish(p)
      PROVE  /\ OneCallPerNode'
             /\ \A q \in Proc : CandidateIsFree(q)' /\ ReleasedIsUnused(q)'
  <2>1. /\ UNCHANGED <<list, call, pc, arg>>
        /\ held' = [held EXCEPT ![p] = None] /\ held \in [Proc -> Addr \cup {None}]
    BY <1>4 DEF Vanish, TypeInv, TypeOK
  <2>2. OneCallPerNode'
    BY <2>1 DEF OneCallPerNode
  <2>3. ASSUME NEW q \in Proc
        PROVE  CandidateIsFree(q)' /\ ReleasedIsUnused(q)'
    <3>1. CandidateIsFree(q)'
      BY <2>1 DEF CandidateIsFree
    <3>2. pc[q] = "addrDel" => call[q].item # None
      BY KeysAreKeys, EtcdAssumption DEF TypeInv, CallMatchesPC, CallMatches
    <3>3. ReleasedIsUnused(q)'
      BY <2>1, <3>2 DEF ReleasedIsUnused
    <3> QED BY <3>1, <3>3
  <2> QED BY <2>2, <2>3
<1>5. ASSUME UNCHANGED vars
      PROVE  /\ OneCallPerNode'
             /\ \A q \in Proc : CandidateIsFree(q)' /\ ReleasedIsUnused(q)'
  BY <1>5 DEF vars, OneCallPerNode, CandidateIsFree, ReleasedIsUnused
<1>6. /\ OneCallPerNode'
      /\ \A q \in Proc : CandidateIsFree(q)' /\ ReleasedIsUnused(q)'
  BY <1>3, <1>4, <1>5 DEF Next
<1> QED BY <1>1, <1>2, <1>6

\* When reads succeed and a node's calls run one after the other, no two
\* containers of a node ever hold one address and every address in use is
\* recorded, in any cluster and whatever writes fail (ipam.cc:134, 173).
THEOREM AddressesAreSafe ==
  ASSUME ReliableReads, NodeInTurn
  PROVE  Spec => [](UniqueHolder /\ HeldIsRecorded)
<1>1. Spec => []IInv
  BY InitIInv, NextIInv, PTL DEF Spec
<1>2. IInv => UniqueHolder /\ HeldIsRecorded
  BY DEF IInv
<1> QED BY <1>1, <1>2, PTL

\* In particular the address of a running container stays in the list its node
\* allocates from (ipam.cc:153).
THEOREM HeldAddressesAreRecorded ==
  ASSUME ReliableReads, NodeInTurn
  PROVE  Spec => []HeldIsRecorded
BY AddressesAreSafe, PTL

\* Under the same assumptions the operations of the IPAM, each of them several
\* etcdctl commands, implement the address pools.
THEOREM IpamImplementsPool ==
  ASSUME ReliableReads, NodeInTurn
  PROVE  Spec => ImplementsPool
<1>1. Init => Pool!Init
  BY IpamAssumption DEF Init, Pool!Init
<1>2. Spec => []IInv
  BY InitIInv, NextIInv, PTL DEF Spec
<1> QED
  BY <1>1, <1>2, StepImplementsPool, PTL DEF Spec, ImplementsPool, Pool!Spec
=============================================================================
