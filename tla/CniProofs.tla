------------------------------ MODULE CniProofs ------------------------------
(***************************************************************************)
(* Theorems about the CNI workflow, for every set of containers, number of  *)
(* addresses and combination of faults.  IInv gives type correctness and    *)
(* the assertion of cni.cc:410; Life, on top of it, that storage, kernel    *)
(* and runtime agree about every container, and with that the refinement of *)
(* PodNetwork; Tidy, on top of both, that without faults nothing is left    *)
(* behind.                                                                  *)
(***************************************************************************)
EXTENDS Cni, FiniteSetTheorems, TLAPS

-----------------------------------------------------------------------------
(* The inductive invariant.  It speaks of a call k and a database e so that *)
(* one lemma can treat every write.                                         *)

\* What a call in progress carries, and what it has already written.
Shape(k, e) ==
    /\ k.pc \in InitPC \cup AddPC => k.c \in Container
    /\ k.pc \in {"nicBridge", "setupBridge", "setAddrBridge", "addrBridge", "setAddr", "addr"}
          => k.addr \in Addr
    /\ k.pc \in DelPC => k.pod \in Pod
    /\ k.pc = "nic" => k.c \in e.netns
    /\ k.pc = "delNetns" => k.pod = HOST \/ "eth0" \notin e.nics[k.pod]

\* NicHasNetns of a database.
NetnsStored(e) == \A c \in Container : "eth0" \in e.nics[c] => c \in e.netns

IInv ==
    /\ TypeOK
    /\ Shape(call, db)
    /\ NetnsStored(db)

PhaseType == [Container -> {"new", "added", "failed", "gone"}]

-----------------------------------------------------------------------------
(* Calls.                                                                   *)

\* The record that stands for "no call" is a call.
LEMMA NoCallType == NoCall \in CallType /\ \A e : Shape(NoCall, e)
BY DEF NoCall, CallType, PC, InitPC, AddPC, DelPC, Nic, Shape

\* A process that starts, with what it concluded from storage.
Begun(f, c, p, a, r, g, b, l) ==
    [pc |-> f, c |-> c, pod |-> p, nic |-> "eth0", addr |-> a, tried |-> 0,
     root |-> r, gw |-> g, bridge |-> b, last |-> l, found |-> FALSE]

\* A call moves to another step with everything it carries.
LEMMA ToStep ==
    ASSUME call \in CallType, NEW pc \in PC \ {"return"}
    PROVE  /\ To(pc) \in CallType
           /\ To(pc).pc = pc
           /\ To(pc).c = call.c
           /\ To(pc).pod = call.pod
           /\ To(pc).addr = call.addr
BY DEF CallType, To

LEMMA ToReturn == call \in CallType => To("return").pc = "return"
BY DEF CallType, To

\* Some interface is the first to be deleted of those that are left.
LEMMA FirstNic ==
    ASSUME NEW rest \in SUBSET Nic, rest # {}
    PROVE  (CHOOSE n \in rest : \A m \in rest : Rank[n] <= Rank[m]) \in Nic
<1>1. \A n \in Nic : Rank[n] \in {1, 2, 3}
  BY DEF Rank, Nic
<1>2. \E n \in rest : \A m \in rest : Rank[n] <= Rank[m]
  <2>1. CASE \E n \in rest : Rank[n] = 1
    BY <1>1, <2>1
  <2>2. CASE (\A n \in rest : Rank[n] # 1) /\ \E n \in rest : Rank[n] = 2
    BY <1>1, <2>2
  <2>3. CASE \A n \in rest : Rank[n] \notin {1, 2}
    BY <1>1, <2>3
  <2> QED  BY <1>1, <2>1, <2>2, <2>3
<1> QED  BY <1>2

-----------------------------------------------------------------------------
(* How a step ends.                                                         *)

LEMMA FaultType ==
    ASSUME faults \in 0 .. MaxFaults, NEW kind, Fault(kind)
    PROVE  faults' \in 0 .. MaxFaults
BY CniAssumption DEF Fault

\* A call that ends leaves every container in one of the four phases.
LEMMA EndType ==
    ASSUME phase \in PhaseType, NEW result \in {"added", "failed"}, End(result)
    PROVE  phase' \in PhaseType /\ call' = NoCall
BY DEF End, PhaseType

LEMMA ThrowType ==
    ASSUME phase \in PhaseType, Throw
    PROVE  phase' \in PhaseType /\ call' = NoCall
BY EndType DEF Throw

LEMMA ContinueType ==
    ASSUME phase \in PhaseType, NEW next, Continue(next)
    PROVE  /\ phase' \in PhaseType
           /\ \/ call' = NoCall
              \/ next.pc # "return" /\ call' = next
<1>1. CASE next.pc = "return"
  <2>1. End(IF call.c \in nsUp THEN "added" ELSE "failed")
    BY <1>1 DEF Continue, Return
  <2> QED  BY <2>1, EndType
<1>2. CASE next.pc # "return"
  BY <1>2 DEF Continue
<1> QED  BY <1>1, <1>2

\* A write keeps the invariant if what it leaves in etcd, and the call it goes
\* on with, keep their parts of it.
LEMMA WriteInv ==
    ASSUME IInv, NEW here, NEW d, NEW next, Write(here, d, next),
           d \in DbType, NetnsStored(d),
           next.pc = "return" \/ (next \in CallType /\ Shape(next, d))
    PROVE  IInv'
<1> USE DEF IInv
<1>1. phase \in PhaseType /\ faults \in 0 .. MaxFaults
  BY DEF TypeOK, PhaseType
<1>2. UNCHANGED <<dev, on, nsUp>>
  BY DEF Write, kernel
<1>3. db' \in {db, d} /\ faults' \in 0 .. MaxFaults
  BY <1>1, FaultType DEF Write
<1>4. /\ phase' \in PhaseType
      /\ \/ call' = NoCall
         \/ next.pc # "return" /\ call' = next /\ db' = d
  <2>1. CASE db' = d /\ Continue(next)
    BY <1>1, <2>1, ContinueType
  <2>2. CASE Throw
    BY <1>1, <2>2, ThrowType
  <2> QED  BY <2>1, <2>2 DEF Write
<1>5. call' \in CallType /\ Shape(call', db')
  BY <1>4, NoCallType
<1>6. TypeOK'
  BY <1>2, <1>3, <1>4, <1>5 DEF TypeOK, PhaseType
<1>7. Shape(call, db)' /\ NetnsStored(db)'
  BY <1>3, <1>5 DEF Shape, NetnsStored
<1> QED  BY <1>6, <1>7

LEMMA WriteAnywayInv ==
    ASSUME IInv, NEW here, NEW d, NEW next, WriteAnyway(here, d, next),
           d \in DbType, NetnsStored(d),
           \/ next.pc = "return"
           \/ next \in CallType /\ Shape(next, d) /\ Shape(next, db)
    PROVE  IInv'
<1> USE DEF IInv
<1>1. phase \in PhaseType /\ faults \in 0 .. MaxFaults
  BY DEF TypeOK, PhaseType
<1>2. UNCHANGED <<dev, on, nsUp>>
  BY DEF WriteAnyway, kernel
<1>3. db' \in {db, d} /\ faults' \in 0 .. MaxFaults
  BY <1>1, FaultType DEF WriteAnyway
<1>4. /\ phase' \in PhaseType
      /\ \/ call' = NoCall
         \/ next.pc # "return" /\ call' = next
  <2>1. Continue(next)
    BY DEF WriteAnyway
  <2> QED  BY <1>1, <2>1, ContinueType
<1>5. call' \in CallType /\ Shape(call', db')
  BY <1>3, <1>4, NoCallType
<1>6. TypeOK'
  BY <1>2, <1>3, <1>4, <1>5 DEF TypeOK, PhaseType
<1>7. Shape(call, db)' /\ NetnsStored(db)'
  BY <1>3, <1>5 DEF Shape, NetnsStored
<1> QED  BY <1>6, <1>7

\* A step that does not write keeps it if the devices keep their type.
LEMMA DeviceInv ==
    ASSUME IInv, UNCHANGED db, UNCHANGED faults \/ IpFails \/ Fault("delFail"),
           phase' \in PhaseType,
           dev' \in [Pod -> Place], on' \in [Pod -> SUBSET Addr],
           nsUp' \subseteq Container, call' \in CallType, Shape(call', db)
    PROVE  IInv'
<1>1. faults' \in 0 .. MaxFaults
  BY FaultType DEF IInv, TypeOK, IpFails
<1> QED  BY <1>1 DEF IInv, TypeOK, PhaseType, Shape, NetnsStored

-----------------------------------------------------------------------------
(* ADD.                                                                     *)

\* The parts of the invariant that most steps need.
LEMMA Parts ==
    ASSUME IInv
    PROVE  /\ db \in DbType /\ call \in CallType /\ phase \in PhaseType
           /\ dev \in [Pod -> Place]
           /\ on \in [Pod -> SUBSET Addr]
           /\ nsUp \subseteq Container
           /\ Shape(call, db) /\ NetnsStored(db)
BY DEF IInv, TypeOK, PhaseType

\* A record of the root namespace or of a container: nothing it says is about
\* an interface or a namespace.
LEMMA PlainWriteInv ==
    ASSUME IInv, NEW here, NEW d, NEW there \in PC \ {"return"},
           Write(here, d, To(there)), d \in DbType,
           d.nics = db.nics, d.netns = db.netns,
           Shape(To(there), db)
    PROVE  IInv'
<1>1. To(there) \in CallType
  BY Parts, ToStep
<1>2. NetnsStored(d) /\ Shape(To(there), d)
  BY Parts DEF NetnsStored, Shape
<1> QED  BY <1>1, <1>2, WriteInv

LEMMA AllocateIpInv ==
    ASSUME IInv, NEW here \in InitPC \cup AddPC,
           NEW there \in {"nicBridge", "setAddr"}, AllocateIp(here, there)
    PROVE  IInv'
<1> USE Parts
<1>1. call.pc = here /\ call.c \in Container /\ UNCHANGED <<dev, on, nsUp>>
  BY DEF AllocateIp, Shape, kernel
<1>2. CASE Throw /\ UNCHANGED <<db, faults>>
  <2>1. phase' \in PhaseType /\ call' = NoCall
    BY <1>2, ThrowType
  <2> QED  BY <1>1, <1>2, <2>1, NoCallType, DeviceInv
<1>3. ASSUME NEW a \in Candidate,
             db' \in {db, [db EXCEPT !.used = @ \cup {a}]},
             \/ call' = [call EXCEPT !.pc = there, !.addr = a, !.tried = 0]
             \/ call' = [call EXCEPT !.tried = a],
             faults' \in 0 .. MaxFaults, UNCHANGED phase
      PROVE  IInv'
  <2>1. a \in Addr
    BY DEF Candidate
  <2>2. db' \in DbType /\ db'.nics = db.nics /\ db'.netns = db.netns
    BY <1>3, <2>1 DEF DbType
  <2>3. call' \in CallType /\ Shape(call', db)
    <3>1. CASE call' = [call EXCEPT !.pc = there, !.addr = a, !.tried = 0]
      <4>1. there \in PC \ {"return"}
        BY DEF PC, InitPC, AddPC
      <4>2. /\ call' \in CallType
            /\ call'.pc = there /\ call'.c = call.c /\ call'.addr = a
        BY <2>1, <3>1, <4>1 DEF CallType
      <4>3. Shape(call', db)
        BY <1>1, <2>1, <4>2 DEF Shape, DelPC
      <4> QED  BY <4>2, <4>3
    <3>2. CASE call' = [call EXCEPT !.tried = a]
      <4>1. /\ call' \in CallType
            /\ call'.pc = call.pc /\ call'.c = call.c
            /\ call'.addr = call.addr /\ call'.pod = call.pod
        BY <2>1, <3>2 DEF CallType
      <4> QED  BY <1>1, <4>1 DEF Shape
    <3> QED  BY <1>3, <3>1, <3>2
  <2>4. TypeOK'
    BY <1>1, <1>3, <2>2, <2>3 DEF TypeOK, PhaseType
  <2>5. Shape(call, db)' /\ NetnsStored(db)'
    BY <2>2, <2>3 DEF Shape, NetnsStored
  <2> QED  BY <2>4, <2>5 DEF IInv
<1>4. faults \in 0 .. MaxFaults
  BY DEF IInv, TypeOK
<1> QED  BY <1>2, <1>3, <1>4, FaultType DEF AllocateIp

LEMMA InitNodeInv == IInv /\ InitNode => IInv'
<1> SUFFICES ASSUME IInv, InitNode PROVE IInv'
  OBVIOUS
<1> USE Parts, CniAssumption
<1>1. CASE AllocateSubnet
  <2>1. Shape(To("gateway"), db)
    BY <1>1, ToStep DEF AllocateSubnet, Write, Shape, PC, InitPC, AddPC, DelPC
  <2>2. [db EXCEPT !.subnet = TRUE] \in DbType
    BY DEF DbType
  <2> QED  BY <1>1, <2>1, <2>2, PlainWriteInv DEF AllocateSubnet, DbType, PC, InitPC
<1>2. CASE AllocateIp("gateway", "nicBridge")
  BY <1>2, AllocateIpInv DEF InitPC
<1>3. ASSUME NEW nic \in Nic, NEW here \in InitPC, NEW there \in InitPC,
             AddNic(HOST, nic, here, there), Shape(To(there), db)
      PROVE  IInv'
  <2> DEFINE d == [db EXCEPT !.nics[HOST] = @ \cup {nic}]
  <2>1. d \in DbType /\ NetnsStored(d)
    BY DEF DbType, NetnsStored, Pod
  <2>2. To(there) \in CallType /\ To(there).pc = there
    BY ToStep DEF PC, InitPC
  <2>3. Shape(To(there), d)
    BY <1>3, <2>2 DEF Shape, InitPC, DbType
  <2> QED  BY <1>3, <2>1, <2>2, <2>3, WriteInv DEF AddNic
<1>4. CASE AddNic(HOST, "bridge", "nicBridge", "setupBridge")
  <2>1. Shape(To("setupBridge"), db)
    BY <1>4, ToStep DEF AddNic, Write, Shape, PC, InitPC, AddPC, DelPC
  <2> QED  BY <1>3, <1>4, <2>1 DEF Nic, InitPC
<1>5. CASE SetupBridge
  <2>1. call.pc = "setupBridge" /\ call.addr \in Addr /\ call.c \in Container
    BY <1>5 DEF SetupBridge, Shape, InitPC
  <2>2. To("setAddrBridge") \in CallType /\ Shape(To("setAddrBridge"), db)
    BY <2>1, ToStep DEF Shape, PC, InitPC, AddPC, DelPC
  <2>3. phase' \in PhaseType /\ call' \in {To("setAddrBridge"), NoCall}
    BY <1>5, ThrowType DEF SetupBridge
  <2>4. dev' \in [Pod -> Place]
    BY <1>5 DEF SetupBridge, Place
  <2> QED  BY <1>5, <2>2, <2>3, <2>4, NoCallType, DeviceInv DEF SetupBridge
<1>14. CASE SetBridgeAddr
  <2>1. call.pc = "setAddrBridge" /\ call.addr \in Addr /\ call.c \in Container
    BY <1>14 DEF SetBridgeAddr, Shape, InitPC
  <2>2. PICK there \in {"addrBridge", "nicVxlan", "nicUnderlay"} : call' = To(there)
    BY <1>14 DEF SetBridgeAddr, AfterBridge
  <2>3. call' \in CallType /\ Shape(call', db)
    BY <2>1, <2>2, ToStep DEF Shape, PC, InitPC, AddPC, DelPC
  <2>4. on' \in [Pod -> SUBSET Addr]
    BY <1>14, <2>1 DEF SetBridgeAddr, SetEntry
  <2> QED  BY <1>14, <2>3, <2>4, DeviceInv DEF SetBridgeAddr
<1>6. ASSUME NEW there \in {"nicVxlan", "nicUnderlay"},
             AddAddr(HOST, "addrBridge", there)
      PROVE  IInv'
  <2>1. call.pc = "addrBridge" /\ call.addr \in Addr /\ call.c \in Container
    BY <1>6 DEF AddAddr, Write, Shape, InitPC
  <2>2. Shape(To(there), db)
    BY <2>1, ToStep DEF Shape, PC, InitPC, AddPC, DelPC
  <2>3. [db EXCEPT !.addr[HOST] = call.addr] \in DbType
    BY <2>1 DEF DbType
  <2> QED  BY <1>6, <2>2, <2>3, PlainWriteInv DEF AddAddr, DbType, PC, InitPC
<1>7. CASE AddAddr(HOST, "addrBridge", AfterBridge)
  BY <1>6, <1>7 DEF AfterBridge
<1>8. CASE AddNic(HOST, "vxlan", "nicVxlan", "vtep")
  <2>1. Shape(To("vtep"), db)
    BY <1>8, ToStep DEF AddNic, Write, Shape, PC, InitPC, AddPC, DelPC
  <2> QED  BY <1>3, <1>8, <2>1 DEF Nic, InitPC
<1>9. CASE AddVtep("vtep", "nicUnderlay")
  <2>1. Shape(To("nicUnderlay"), db)
    BY <1>9, ToStep DEF AddVtep, Write, Shape, PC, InitPC, AddPC, DelPC
  <2>2. [db EXCEPT !.vtep = TRUE] \in DbType
    BY DEF DbType
  <2> QED  BY <1>9, <2>1, <2>2, PlainWriteInv DEF AddVtep, DbType, PC, InitPC
<1>10. CASE AddNic(HOST, "underlay", "nicUnderlay", "netnsHost")
  <2>1. Shape(To("netnsHost"), db)
    BY <1>10, ToStep DEF AddNic, Write, Shape, PC, InitPC, AddPC, DelPC
  <2> QED  BY <1>3, <1>10, <2>1 DEF Nic, InitPC
<1>11. CASE AddNetns(HOST, "netnsHost", "podKeyHost")
  <2> DEFINE d == [db EXCEPT !.netns = @ \cup {HOST}]
  <2>1. d \in DbType /\ NetnsStored(d)
    BY DEF DbType, NetnsStored, Pod
  <2>2. To("podKeyHost") \in CallType /\ Shape(To("podKeyHost"), d)
    BY <1>11, ToStep DEF AddNetns, Write, Shape, PC, InitPC, AddPC, DelPC
  <2> QED  BY <1>11, <2>1, <2>2, WriteInv DEF AddNetns
<1>12. CASE PutPodKey(HOST, "podKeyHost", "podListHost")
  <2>1. Shape(To("podListHost"), db)
    BY <1>12, ToStep DEF PutPodKey, Write, Shape, PC, InitPC, AddPC, DelPC
  <2>2. [db EXCEPT !.podKey = @ \cup {HOST}] \in DbType
    BY DEF DbType, Pod
  <2> QED  BY <1>12, <2>1, <2>2, PlainWriteInv DEF PutPodKey, DbType, PC, InitPC
<1>13. CASE AppendPod(HOST, "podListHost", "podKey")
  <2>1. Shape(To("podKey"), db)
    BY <1>13, ToStep DEF AppendPod, Write, Shape, PC, InitPC, AddPC, DelPC
  <2>2. [db EXCEPT !.pods = @ \cup {HOST}] \in DbType
    BY DEF DbType, Pod
  <2> QED  BY <1>13, <2>1, <2>2, PlainWriteInv DEF AppendPod, DbType, PC, AddPC
<1>15. CASE IpFails /\ Throw /\ UNCHANGED <<db, kernel>>
  BY <1>15, ThrowType, NoCallType, DeviceInv DEF kernel
<1> QED
  BY <1>1, <1>2, <1>4, <1>5, <1>7, <1>8, <1>9, <1>10, <1>11, <1>12, <1>13, <1>14, <1>15
  DEF InitNode, GetBridge, GetVxlan, GetRootPod

LEMMA AddPodInv == IInv /\ AddPod => IInv'
<1> SUFFICES ASSUME IInv, AddPod PROVE IInv'
  OBVIOUS
<1> USE Parts, CniAssumption
<1>1. CASE PutPodKey(call.c, "podKey", "podList")
  <2>1. call.c \in Container /\ Shape(To("podList"), db)
    BY <1>1, ToStep DEF PutPodKey, Write, Shape, PC, InitPC, AddPC, DelPC
  <2>2. [db EXCEPT !.podKey = @ \cup {call.c}] \in DbType
    BY <2>1 DEF DbType, Pod
  <2> QED  BY <1>1, <2>1, <2>2, PlainWriteInv DEF PutPodKey, DbType, PC, AddPC
<1>2. CASE AppendPod(call.c, "podList", "netns")
  <2>1. call.c \in Container /\ Shape(To("netns"), db)
    BY <1>2, ToStep DEF AppendPod, Write, Shape, PC, InitPC, AddPC, DelPC
  <2>2. [db EXCEPT !.pods = @ \cup {call.c}] \in DbType
    BY <2>1 DEF DbType, Pod
  <2> QED  BY <1>2, <2>1, <2>2, PlainWriteInv DEF AppendPod, DbType, PC, AddPC
<1>3. CASE AddNetns(call.c, "netns", "nic")
  <2> DEFINE d == [db EXCEPT !.netns = @ \cup {call.c}]
  <2>1. call.c \in Container
    BY <1>3 DEF AddNetns, Write, Shape, AddPC
  <2>2. d \in DbType /\ NetnsStored(d) /\ call.c \in d.netns
    BY <2>1 DEF DbType, NetnsStored, Pod
  <2>3. To("nic") \in CallType /\ Shape(To("nic"), d)
    BY <2>1, <2>2, ToStep DEF Shape, PC, InitPC, AddPC, DelPC
  <2> QED  BY <1>3, <2>2, <2>3, WriteInv DEF AddNetns
<1>4. CASE AddNic(call.c, "eth0", "nic", "veth")
  <2> DEFINE d == [db EXCEPT !.nics[call.c] = @ \cup {"eth0"}]
  <2>1. call.c \in Container /\ call.c \in db.netns
    BY <1>4 DEF AddNic, Write, Shape, AddPC
  <2>2. d \in DbType /\ NetnsStored(d)
    BY <2>1 DEF DbType, NetnsStored, Pod, Nic
  <2>3. To("veth") \in CallType /\ Shape(To("veth"), d)
    BY <2>1, ToStep DEF Shape, PC, InitPC, AddPC, DelPC
  <2> QED  BY <1>4, <2>2, <2>3, WriteInv DEF AddNic
<1>5. ASSUME call.c \in Container,
             NEW there \in {"setNetns", "rename", "plug", "allocate", "addr"},
             there = "addr" => call.addr \in Addr,
             Continue(To(there)) \/ Throw \/ (call' = To(there) /\ UNCHANGED phase)
      PROVE  phase' \in PhaseType /\ call' \in CallType /\ Shape(call', db)
  <2>1. To(there) \in CallType
    BY ToStep DEF PC, AddPC
  <2>2. Shape(To(there), db)
    BY <1>5, ToStep DEF Shape, PC, InitPC, AddPC, DelPC
  <2> QED  BY <1>5, <2>1, <2>2, ContinueType, ThrowType, NoCallType
<1>6. CASE SetupVeth
  <2>1. call.c \in Container
    BY <1>6 DEF SetupVeth, Shape, AddPC
  <2>2. phase' \in PhaseType /\ call' \in CallType /\ Shape(call', db)
    BY <1>5, <1>6, <2>1 DEF SetupVeth
  <2>3. dev' \in [Pod -> Place]
    BY <1>6, <2>1 DEF SetupVeth, Pod, Place
  <2> QED  BY <1>6, <2>2, <2>3, DeviceInv DEF SetupVeth
<1>7. CASE SetNetns
  <2>1. call.c \in Container
    BY <1>7 DEF SetNetns, Shape, AddPC
  <2>2. phase' \in PhaseType /\ call' \in CallType /\ Shape(call', db)
    BY <1>5, <1>7, <2>1 DEF SetNetns
  <2>3. dev' \in [Pod -> Place]
    BY <1>7 DEF SetNetns, Place
  <2> QED  BY <1>7, <2>2, <2>3, DeviceInv DEF SetNetns
<1>8. CASE Rename
  <2>1. call.c \in Container
    BY <1>8 DEF Rename, Shape, AddPC
  <2>2. phase' \in PhaseType /\ call' \in CallType /\ Shape(call', db)
    BY <1>5, <1>8, <2>1 DEF Rename
  <2>3. dev' \in [Pod -> Place]
    BY <1>8 DEF Rename, Place
  <2> QED  BY <1>8, <2>2, <2>3, DeviceInv DEF Rename
<1>9. CASE Plug
  <2>1. call.c \in Container
    BY <1>9 DEF Plug, Shape, AddPC
  <2>2. phase' \in PhaseType /\ call' \in CallType /\ Shape(call', db)
    BY <1>5, <1>9, <2>1 DEF Plug
  <2> QED  BY <1>9, <2>2, DeviceInv DEF Plug, kernel
<1>10. CASE AllocateIp("allocate", "setAddr")
  BY <1>10, AllocateIpInv DEF AddPC
<1>11. CASE SetAddr
  <2>1. call.c \in Container /\ call.addr \in Addr
    BY <1>11 DEF SetAddr, Shape, AddPC
  <2>2. phase' \in PhaseType /\ call' \in CallType /\ Shape(call', db)
    BY <1>5, <1>11, <2>1 DEF SetAddr
  <2>3. on' \in [Pod -> SUBSET Addr]
    BY <1>11, <2>1 DEF SetAddr, SetEntry
  <2> QED  BY <1>11, <2>2, <2>3, DeviceInv DEF SetAddr
<1>12. CASE AddAddr(call.c, "addr", "route")
  <2>1. call.c \in Container /\ call.addr \in Addr
    BY <1>12 DEF AddAddr, Write, Shape, AddPC
  <2>2. Shape(To("route"), db)
    BY <2>1, ToStep DEF Shape, PC, InitPC, AddPC, DelPC
  <2>3. [db EXCEPT !.addr[call.c] = call.addr] \in DbType
    BY <2>1 DEF DbType, Pod
  <2> QED  BY <1>12, <2>2, <2>3, PlainWriteInv DEF AddAddr, DbType, PC, AddPC
<1>13. CASE AddRoute
  <2>1. CASE Write("route", [db EXCEPT !.route = @ \cup {call.c}], To("return"))
    <3>1. call.c \in Container
      BY <2>1 DEF Write, Shape, AddPC
    <3>2. /\ [db EXCEPT !.route = @ \cup {call.c}] \in DbType
          /\ NetnsStored([db EXCEPT !.route = @ \cup {call.c}])
      BY <3>1 DEF DbType, NetnsStored, Pod
    <3> QED  BY <2>1, <3>2, ToReturn, WriteInv
  <2>2. CASE Throw /\ UNCHANGED <<db, kernel>> /\ (UNCHANGED faults \/ IpFails)
    BY <2>2, ThrowType, NoCallType, DeviceInv DEF kernel
  <2> QED  BY <1>13, <2>1, <2>2 DEF AddRoute
<1> QED
  BY <1>1, <1>2, <1>3, <1>4, <1>6, <1>7, <1>8, <1>10, <1>11, <1>12, <1>13, <1>9
  DEF AddPod, ConfigPodNetwork

-----------------------------------------------------------------------------
(* DEL.                                                                     *)

\* DEL goes on with the next interface, or when none is left with the records
\* of the pod.
LEMMA NextNicType ==
    ASSUME call \in CallType, NEW rest \in SUBSET Nic
    PROVE  /\ NextNic(rest) \in CallType
           /\ NextNic(rest).pod = call.pod
           /\ \/ NextNic(rest).pc = "cleanup"
              \/ NextNic(rest).pc = "delNetns" /\ rest = {}
<1>1. CASE rest = {}
  BY <1>1, ToStep DEF NextNic, PC, DelPC
<1>2. CASE rest # {}
  <2> DEFINE first == CHOOSE n \in rest : \A m \in rest : Rank[n] <= Rank[m]
  <2>1. first \in Nic
    BY <1>2, FirstNic
  <2> HIDE DEF first
  <2>2. "cleanup" \in PC \ {"return"}
    BY DEF PC, DelPC
  <2>3. /\ [call EXCEPT !.pc = "cleanup", !.nic = first] \in CallType
        /\ [call EXCEPT !.pc = "cleanup", !.nic = first].pod = call.pod
        /\ [call EXCEPT !.pc = "cleanup", !.nic = first].pc = "cleanup"
    BY <2>1, <2>2 DEF CallType
  <2>4. NextNic(rest) = [call EXCEPT !.pc = "cleanup", !.nic = first]
    BY <1>2 DEF NextNic, first
  <2> QED  BY <2>3, <2>4
<1> QED  BY <1>1, <1>2

LEMMA NextNicStep ==
    ASSUME call \in CallType, NEW e, call.pod \in Pod,
           NEW rest \in SUBSET Nic, e.nics[call.pod] = rest
    PROVE  NextNic(rest) \in CallType /\ Shape(NextNic(rest), e)
BY NextNicType DEF Shape, InitPC, AddPC, DelPC

LEMMA AfterPodStep ==
    ASSUME IInv, NEW e
    PROVE  \/ AfterPod.pc = "return"
           \/ AfterPod \in CallType /\ Shape(AfterPod, e)
<1> USE Parts
<1>1. CASE call.pod = HOST
  <2>1. AfterPod = To("releaseSubnet")
    BY <1>1 DEF AfterPod
  <2> QED  BY <1>1, <2>1, ToStep DEF Shape, PC, InitPC, AddPC, DelPC, Pod
<1>2. CASE call.pod # HOST /\ call.last /\ call.root
  <2> DEFINE k == NextNic(db.nics[HOST])
             k2 == [k EXCEPT !.pod = HOST, !.addr = call.bridge]
  <2>1. db.nics[HOST] \in SUBSET Nic /\ call.bridge \in Addr \cup {None}
    BY DEF DbType, Pod, CallType
  <2>2. k \in CallType /\ k.pc \in {"cleanup", "delNetns"}
    BY <2>1, NextNicType
  <2>3. AfterPod = k2
    BY <1>2 DEF AfterPod
  <2> HIDE DEF k
  <2>4. k2 \in CallType /\ k2.pc = k.pc /\ k2.pod = HOST
    BY <2>1, <2>2 DEF CallType, Pod
  <2>5. Shape(k2, e)
    BY <2>2, <2>4 DEF Shape, InitPC, AddPC, DelPC, Pod
  <2> QED  BY <2>3, <2>4, <2>5
<1>3. CASE call.pod # HOST /\ ~ (call.last /\ call.root)
  <2>1. AfterPod = To("return")
    BY <1>3 DEF AfterPod
  <2> QED  BY <2>1, ToReturn
<1> QED  BY <1>1, <1>2, <1>3

LEMMA DelPodInv == IInv /\ DelPod => IInv'
<1> SUFFICES ASSUME IInv, DelPod PROVE IInv'
  OBVIOUS
<1> USE Parts, CniAssumption
<1>1. CASE Cleanup
  <2>1. call.pod \in Pod
    BY <1>1 DEF Cleanup, Shape, DelPC
  <2>2. call' \in CallType /\ Shape(call', db)
    BY <1>1, <2>1, ToStep DEF Cleanup, Shape, PC, InitPC, AddPC, DelPC
  <2>3. dev' \in [Pod -> Place] /\ on' \in [Pod -> SUBSET Addr]
    BY <1>1 DEF Cleanup, Place
  <2> QED  BY <1>1, <2>2, <2>3, DeviceInv DEF Cleanup
<1>2. CASE ReleaseIp
  <2> DEFINE d == [db EXCEPT !.used = @ \ {call.addr}]
  <2>1. call.pod \in Pod
    BY <1>2 DEF ReleaseIp, WriteAnyway, Shape, DelPC
  <2>2. d \in DbType /\ NetnsStored(d)
    BY DEF DbType, NetnsStored
  <2>3. To("delAddr") \in CallType /\ \A e : Shape(To("delAddr"), e)
    BY <2>1, ToStep DEF Shape, PC, InitPC, AddPC, DelPC
  <2> QED  BY <1>2, <2>2, <2>3, WriteAnywayInv DEF ReleaseIp
<1>3. CASE DelAddr
  <2>1. call.pod \in Pod
    BY <1>3 DEF DelAddr, Write, Shape, DelPC
  <2>2. [db EXCEPT !.addr[call.pod] = None] \in DbType
    BY <2>1 DEF DbType
  <2>3. Shape(To("delRoute"), db)
    BY <2>1, ToStep DEF Shape, PC, InitPC, AddPC, DelPC
  <2> QED  BY <1>3, <2>2, <2>3, PlainWriteInv DEF DelAddr, DbType, PC, DelPC
<1>4. CASE DelRoute
  <2>1. call.pod \in Pod
    BY <1>4 DEF DelRoute, Write, Shape, DelPC
  <2>2. [db EXCEPT !.route = @ \ {call.pod}] \in DbType
    BY DEF DbType
  <2>3. Shape(To("delNic"), db)
    BY <2>1, ToStep DEF Shape, PC, InitPC, AddPC, DelPC
  <2> QED  BY <1>4, <2>2, <2>3, PlainWriteInv DEF DelRoute, DbType, PC, DelPC
<1>5. CASE DelNic
  <2> DEFINE rest == db.nics[call.pod] \ {call.nic}
             d == [db EXCEPT !.nics[call.pod] = rest]
  <2>1. call.pod \in Pod
    BY <1>5 DEF DelNic, Write, Shape, DelPC
  <2>2. rest \in SUBSET Nic /\ d \in DbType /\ NetnsStored(d) /\ d.nics[call.pod] = rest
    BY <2>1 DEF DbType, NetnsStored
  <2>3. AfterNic(rest) \in CallType /\ Shape(AfterNic(rest), d)
    <3>1. CASE Vxlan
      <4>1. AfterNic(rest) = To("delVtep")
        BY <3>1 DEF AfterNic
      <4> QED  BY <2>1, <4>1, ToStep DEF Shape, PC, InitPC, AddPC, DelPC
    <3>2. CASE ~ Vxlan
      <4>1. AfterNic(rest) = NextNic(rest)
        BY <3>2 DEF AfterNic
      <4> HIDE DEF d, rest
      <4> QED  BY <2>1, <2>2, <4>1, NextNicStep
    <3> QED  BY <3>1, <3>2
  <2>4. Write("delNic", d, AfterNic(rest))
    BY <1>5 DEF DelNic
  <2> QED  BY <2>2, <2>3, <2>4, WriteInv
<1>6. CASE DelVtep
  <2> DEFINE d == [db EXCEPT !.vtep = FALSE]
  <2>1. call.pod \in Pod
    BY <1>6 DEF DelVtep, Write, Shape, DelPC
  <2>2. /\ d \in DbType /\ NetnsStored(d)
        /\ d.nics = db.nics /\ db.nics[call.pod] \in SUBSET Nic
    BY <2>1 DEF DbType, NetnsStored
  <2> HIDE DEF d
  <2>3. NextNic(db.nics[call.pod]) \in CallType /\ Shape(NextNic(db.nics[call.pod]), d)
    BY <2>1, <2>2, NextNicStep
  <2>4. Write("delVtep", d, NextNic(db.nics[call.pod]))
    BY <1>6 DEF DelVtep, d
  <2> QED  BY <2>2, <2>3, <2>4, WriteInv
<1>7. CASE DelNetns
  <2> DEFINE d == [db EXCEPT !.netns = @ \ {call.pod}]
             next == IF call.pod \in db.netns THEN To("delPodKey") ELSE AfterPod
  <2>1. call.pod \in Pod /\ (call.pod = HOST \/ "eth0" \notin db.nics[call.pod])
    BY <1>7 DEF DelNetns, Write, Shape, DelPC
  <2>2. d \in DbType /\ NetnsStored(d)
    BY <2>1 DEF DbType, NetnsStored
  <2>3. next.pc = "return" \/ (next \in CallType /\ Shape(next, d))
    <3>1. CASE call.pod \in db.netns
      BY <2>1, <3>1, ToStep DEF Shape, PC, InitPC, AddPC, DelPC
    <3>2. CASE call.pod \notin db.netns
      BY <3>2, AfterPodStep
    <3> QED  BY <3>1, <3>2
  <2>4. Write("delNetns", d, next)
    BY <1>7 DEF DelNetns, GetNetns
  <2> HIDE DEF d, next
  <2> QED  BY <2>2, <2>3, <2>4, WriteInv
<1>8. CASE DelPodKey
  <2> DEFINE d == [db EXCEPT !.podKey = @ \ {call.pod}]
             found == call.pod \in db.podKey
             next == [call EXCEPT !.pc = "delPodList", !.found = found]
  <2>1. call.pod \in Pod
    BY <1>8 DEF DelPodKey, Write, Shape, DelPC
  <2>2. d \in DbType /\ NetnsStored(d)
    BY DEF DbType, NetnsStored
  <2>3. next \in CallType /\ next.pc = "delPodList" /\ next.pod = call.pod
    <3>1. found \in BOOLEAN
      OBVIOUS
    <3>2. "delPodList" \in PC \ {"return"}
      BY DEF PC, DelPC
    <3> HIDE DEF found
    <3> QED  BY <3>1, <3>2 DEF CallType
  <2>4. Shape(next, d)
    BY <2>1, <2>3 DEF Shape, InitPC, AddPC, DelPC
  <2>5. Write("delPodKey", d, next)
    BY <1>8 DEF DelPodKey
  <2> HIDE DEF d, next
  <2> QED  BY <2>2, <2>3, <2>4, <2>5, WriteInv
<1>9. CASE DelPodList
  <2> DEFINE d == [db EXCEPT !.pods = IF call.found THEN @ \ {call.pod} ELSE @]
  <2>1. d \in DbType /\ NetnsStored(d)
    BY DEF DbType, NetnsStored
  <2>2. Write("delPodList", d, AfterPod)
    BY <1>9 DEF DelPodList
  <2> HIDE DEF d
  <2> QED  BY <2>1, <2>2, AfterPodStep, WriteInv
<1>10. CASE ReleaseSubnet
  <2> DEFINE d == [db EXCEPT !.subnet = FALSE]
  <2>1. d \in DbType /\ NetnsStored(d)
    BY DEF DbType, NetnsStored
  <2>2. WriteAnyway("releaseSubnet", d, To("return"))
    BY <1>10 DEF ReleaseSubnet
  <2> HIDE DEF d
  <2> QED  BY <2>1, <2>2, ToReturn, WriteAnywayInv
<1> QED
  BY <1>1, <1>2, <1>3, <1>4, <1>5, <1>6, <1>7, <1>8, <1>9, <1>10
  DEF DelPod, DelKubernetesNic, DelKubernetesPod

-----------------------------------------------------------------------------
(* The first step of a call, and the environment.                           *)

\* What a process restores are devices and addresses of the node.
LEMMA RestoreType ==
    ASSUME IInv, NEW lost, Restore(lost)
    PROVE  /\ dev' \in [Pod -> Place]
           /\ on' \in [Pod -> SUBSET Addr]
           /\ nsUp' \subseteq Container
<1> USE Parts
<1>1. dev' \in [Pod -> Place] /\ nsUp' \subseteq Container
  BY DEF Restore, Place
<1>2. \A p \in Pod : db.addr[p] \in Addr \cup {None}
  BY DEF DbType
<1>3. \A p \in Pod : SetEntry(p, GetAllAddrs(p)) \in SUBSET Addr
  BY <1>2 DEF SetEntry, GetAllAddrs
<1>4. on' \in [Pod -> SUBSET Addr]
  BY <1>3 DEF Restore
<1> QED  BY <1>1, <1>4

LEMMA StartInv ==
    ASSUME IInv, NEW c \in Container,
           StartAdd(c) \/ AddAgain(c) \/ StartDel(c) \/ NoPlugin(c)
    PROVE  IInv'
<1> USE Parts, CniAssumption
<1>1. CASE StartAdd(c)
  <2> DEFINE root == ~ db.subnet \/ Stored(HOST)
             gw == ~ db.subnet \/ KnowsGateway
             first == IF db.subnet THEN "podKey" ELSE "subnet"
             next == Begun(first, c, None, None, root, gw, None, FALSE)
  <2>1. root \in BOOLEAN /\ gw \in BOOLEAN
    OBVIOUS
  <2>2. first \in {"podKey", "subnet"}
    OBVIOUS
  <2>3. call' = next /\ UNCHANGED <<db, phase>>
    BY <1>1 DEF StartAdd, NoCall, Begun
  <2>6. PICK lost : Lose(lost) /\ Restore(lost)
    BY <1>1 DEF StartAdd
  <2> HIDE DEF root, gw, first
  <2>4. next \in CallType /\ next.pc = first /\ next.c = c
    <3>1. first \in PC \ {"return"}
      BY <2>2 DEF PC, InitPC, AddPC
    <3>2. ASSUME NEW f \in PC \ {"return"}, NEW r \in BOOLEAN, NEW g \in BOOLEAN
          PROVE  LET k == Begun(f, c, None, None, r, g, None, FALSE)
                 IN  k \in CallType /\ k.pc = f /\ k.c = c
      BY DEF Begun, CallType, Nic
    <3> QED  BY <2>1, <3>1, <3>2, Zenon
  <2>5. Shape(next, db)
    BY <2>2, <2>4 DEF Shape, InitPC, AddPC, DelPC
  <2> HIDE DEF next
  <2> QED  BY <2>3, <2>4, <2>5, <2>6, RestoreType, DeviceInv DEF Lose
<1>2. CASE AddAgain(c)
  <2>1. phase' \in PhaseType /\ UNCHANGED <<db, call>>
    BY <1>2 DEF AddAgain, PhaseType
  <2>2. PICK lost : Lose(lost) /\ Restore(lost)
    BY <1>2 DEF AddAgain
  <2> QED  BY <2>1, <2>2, RestoreType, DeviceInv DEF Lose
<1>3. CASE StartDel(c)
  <2>1. phase' \in PhaseType /\ UNCHANGED db
    BY <1>3 DEF StartDel, PhaseType
  <2> DEFINE begun(lost) ==
               [NoCall EXCEPT !.pc = IF Stored(c) THEN "cleanup" ELSE "delNetns",
                              !.c = c, !.pod = c,
                              !.addr = GetAddr(c, lost), !.bridge = GetAddr(HOST, lost),
                              !.root = GetKubernetesPod(HOST), !.last = IsLast(c)]
  <2>4. PICK lost : /\ Lose(lost) /\ Restore(lost)
                    /\ IF GetNode /\ GetKubernetesPod(c)
                       THEN call' = begun(lost) ELSE UNCHANGED call
    BY <1>3 DEF StartDel
  <2>2. CASE UNCHANGED call
    BY <2>1, <2>2, <2>4, RestoreType, DeviceInv DEF Lose
  <2>3. CASE db.subnet /\ c \in db.pods
    <3> DEFINE first == IF Stored(c) THEN "cleanup" ELSE "delNetns"
               addr == GetAddr(c, lost)
               bridge == GetAddr(HOST, lost)
               root == HOST \in db.pods
               last == IsLast(c)
               next == Begun(first, c, c, addr, root, FALSE, bridge, last)
    <3>1. root \in BOOLEAN /\ last \in BOOLEAN
      BY DEF IsLast
    <3>2. addr \in Addr \cup {None} /\ bridge \in Addr \cup {None}
      BY DEF DbType, Pod, GetAddr
    <3>3. first = "cleanup" \/ (first = "delNetns" /\ "eth0" \notin db.nics[c])
      BY <2>3 DEF Stored, Main
    <3>c. call' = [NoCall EXCEPT !.pc = first, !.c = c, !.pod = c, !.addr = addr,
                                 !.bridge = bridge, !.root = root, !.last = last]
      BY <2>3, <2>4 DEF GetNode, GetKubernetesPod
    <3> HIDE DEF first, addr, bridge, root, last
    <3>4. call' = next
      BY <3>c DEF NoCall, Begun
    <3>5. next \in CallType /\ next.pc = first /\ next.pod = c
      <4>1. first \in PC \ {"return"}
        BY <3>3 DEF PC, DelPC
      <4>2. ASSUME NEW f \in PC \ {"return"}, NEW a \in Addr \cup {None},
                   NEW b \in Addr \cup {None}, NEW r \in BOOLEAN, NEW l \in BOOLEAN
            PROVE  LET k == Begun(f, c, c, a, r, FALSE, b, l)
                   IN  k \in CallType /\ k.pc = f /\ k.pod = c
        BY DEF Begun, CallType, Nic, Pod
      <4>3. \A r, l \in BOOLEAN :
               LET k == Begun(first, c, c, addr, r, FALSE, bridge, l)
               IN  k \in CallType /\ k.pc = first /\ k.pod = c
        BY <3>2, <4>1, <4>2, Zenon
      <4> QED  BY <3>1, <4>3, Zenon
    <3>6. Shape(next, db)
      BY <3>3, <3>5 DEF Shape, InitPC, AddPC, DelPC, Pod
    <3> HIDE DEF next
    <3> QED  BY <2>1, <2>4, <3>4, <3>5, <3>6, RestoreType, DeviceInv DEF Lose
  <2> QED  BY <2>2, <2>3, <2>4 DEF GetNode, GetKubernetesPod
<1>4. CASE NoPlugin(c)
  <2>1. phase' \in PhaseType /\ UNCHANGED <<db, kernel, call>>
    BY <1>4 DEF NoPlugin, PhaseType
  <2>2. faults \in 0 .. MaxFaults
    BY DEF IInv, TypeOK
  <2>3. faults' \in 0 .. MaxFaults
    BY <1>4, <2>2, FaultType
    DEF NoPlugin, GetCniPluginFails, ApiServerFails, EtcdFails, ParseConfigFails
  <2> QED
    BY <2>1, <2>3 DEF kernel, IInv, TypeOK, PhaseType, Shape, NetnsStored
<1> QED  BY <1>1, <1>2, <1>3, <1>4

LEMMA EnvironmentInv ==
    ASSUME IInv, Crash \/ Reboot \/ \E c \in Container : RemoveNs(c)
    PROVE  IInv'
<1> USE Parts, CniAssumption
<1>1. faults \in 0 .. MaxFaults
  BY DEF IInv, TypeOK
<1>2. ASSUME UNCHANGED db, faults' \in 0 .. MaxFaults, phase' \in PhaseType,
             dev' \in [Pod -> Place], on' \in [Pod -> SUBSET Addr],
             nsUp' \subseteq Container, call' \in {call, NoCall}
      PROVE  IInv'
  <2>1. call' \in CallType /\ Shape(call', db)
    BY <1>2, NoCallType
  <2> QED  BY <1>2, <2>1 DEF IInv, TypeOK, PhaseType, Shape, NetnsStored
<1>3. CASE Crash
  BY <1>1, <1>2, <1>3, FaultType, ThrowType DEF Crash, kernel
<1>4. ASSUME NEW c \in Container, RemoveNs(c) PROVE IInv'
  <2>1. faults' \in 0 .. MaxFaults
    BY <1>1, <1>4, FaultType DEF RemoveNs
  <2>2. phase' \in PhaseType
    BY <1>4 DEF RemoveNs, PhaseType
  <2>3. dev' \in [Pod -> Place] /\ on' \in [Pod -> SUBSET Addr]
    BY <1>4 DEF RemoveNs, Place
  <2> QED  BY <1>2, <1>4, <2>1, <2>2, <2>3 DEF RemoveNs
<1>5. CASE Reboot
  <2>1. phase' \in PhaseType
    BY <1>5 DEF Reboot, PhaseType
  <2>2. dev' \in [Pod -> Place] /\ on' \in [Pod -> SUBSET Addr]
    BY <1>5 DEF Reboot, Place
  <2> QED  BY <1>1, <1>2, <1>5, <2>1, <2>2, FaultType DEF Reboot
<1> QED  BY <1>3, <1>4, <1>5

-----------------------------------------------------------------------------
(* The theorems.                                                            *)

LEMMA InitIInv == Init => IInv
<1> SUFFICES ASSUME Init PROVE IInv
  OBVIOUS
<1> USE CniAssumption DEF Init
<1>1. db \in DbType /\ NetnsStored(db)
  BY DEF EmptyDb, DbType, NetnsStored, Pod
<1>2. call \in CallType /\ Shape(call, db)
  BY NoCallType
<1>3. TypeOK
  BY <1>1, <1>2 DEF TypeOK, Place
<1> QED  BY <1>1, <1>2, <1>3 DEF IInv

LEMMA NextIInv == IInv /\ [Next]_vars => IInv'
<1> SUFFICES ASSUME IInv, [Next]_vars PROVE IInv'
  OBVIOUS
<1>1. ASSUME NEW c \in Container,
             StartAdd(c) \/ AddAgain(c) \/ StartDel(c) \/ NoPlugin(c)
      PROVE  IInv'
  BY <1>1, StartInv
<1>2. CASE Crash \/ Reboot \/ \E c \in Container : RemoveNs(c)
  BY <1>2, EnvironmentInv
<1>3. CASE UNCHANGED vars
  BY <1>3, Parts, DeviceInv DEF vars, kernel
<1> QED
  BY <1>1, <1>2, <1>3, InitNodeInv, AddPodInv, DelPodInv DEF Next

\* Every record, device, address and call keeps its type, whatever fails: no
\* write of storage.cc is made with an empty name, and no address comes from
\* outside the range of allocateIp() (ipam.cc:148).
THEOREM TypeCorrect == Spec => []TypeOK
<1>1. IInv => TypeOK
  BY DEF IInv
<1> QED  BY <1>1, InitIInv, NextIInv, PTL DEF Spec

\* The assertion of cni.cc:410 never fails: an interface that is stored has its
\* namespace stored, for any number of containers and any failing writes, lost
\* answers, killed plugins, reboots and lost namespaces.
THEOREM NetnsIsStored == Spec => []NicHasNetns
<1>1. IInv => NicHasNetns
  BY DEF IInv, NetnsStored, NicHasNetns
<1> QED  BY <1>1, InitIInv, NextIInv, PTL DEF Spec

-----------------------------------------------------------------------------
(* The life of the containers: what storage, the kernel and the runtime say *)
(* of them fits together.  Every part speaks of a database e, devices v with *)
(* addresses o and phases h, so that one lemma can treat every write.       *)

\* LeftByDel of those states.
LeftIn(c, v, h) == h[c] = "gone" /\ v[c] = "temp"

\* HasBridge of them.
BridgeUp(e, v) ==
    /\ e.subnet
    /\ HOST \in e.pods
    /\ v[HOST] = "root"

\* An interface is stored after the records of its pod and deleted before them; its
\* address is deleted before it, and its device made after it.
Fits(c, e, v, o, h) ==
    /\ e.nics[c] \subseteq {"eth0"}
    /\ "eth0" \in e.nics[c] => e.subnet /\ c \in e.pods \cap e.podKey \cap e.netns
    /\ "eth0" \notin e.nics[c] => e.addr[c] = None
    /\ v[c] = "ns" \/ (v[c] = "temp" /\ h[c] # "gone") => "eth0" \in e.nics[c]
    /\ v[c] \in {"none", "root"} => o[c] = {}
    /\ v[c] = "ns" /\ e.addr[c] # None => o[c] = {e.addr[c]}
    /\ ~ LeftIn(c, v, h) => o[c] \subseteq e.used
    /\ h[c] = "added" => v[c] = "ns" /\ e.addr[c] # None /\ BridgeUp(e, v)

Differ(v, o, h) ==
    \A c, d \in Container :
        c # d /\ ~ LeftIn(c, v, h) /\ ~ LeftIn(d, v, h) => o[c] \cap o[d] = {}

\* No container but c, those aside that a DEL has left, has the address a.
Spare(a, c, v, o, h) ==
    \A d \in Container : d # c /\ ~ LeftIn(d, v, h) => a \notin o[d]

\* The first ADD of a node, which sets up the root namespace.
Prepares(k, e, v) ==
    /\ k.pc # "subnet" => e.subnet
    /\ k.pc \in InitPC \ {"subnet", "gateway", "nicBridge", "setupBridge"}
          => v[HOST] = "root"

\* How far an ADD has come with its container.
Adds(k, e, v, o, h) ==
    /\ e.subnet
    /\ k.gw => BridgeUp(e, v)
    /\ k.pc \in AddPC \ {"podKey"} => k.c \in e.podKey
    /\ k.pc \in AddPC \ {"podKey", "podList"} => k.c \in e.pods
    /\ k.pc \in AddPC \ {"podKey", "podList", "netns"} => k.c \in e.netns
    /\ k.pc \in AddPC \ {"podKey", "podList", "netns", "nic"} => "eth0" \in e.nics[k.c]
    /\ k.pc \in {"rename", "plug", "allocate", "setAddr", "addr", "route"} => v[k.c] # "root"
    /\ k.pc \in {"setAddr", "addr"} => k.addr \in e.used /\ Spare(k.addr, k.c, v, o, h)
    /\ k.pc = "addr" /\ v[k.c] = "ns" => o[k.c] = {k.addr}
    /\ k.pc = "route" => e.addr[k.c] # None

\* What either of them has not done yet.
Begins(k, e, o, h) ==
    /\ h[k.c] \in {"new", "failed"}
    /\ k.pc \in InitPC \cup {"podKey", "podList", "netns", "nic"} => e.nics[k.c] = {}
    /\ k.pc \notin {"addr", "route"} => o[k.c] = {}
    /\ k.pc # "route" => e.addr[k.c] = None

\* How far a DEL has come: first with its container, then, if that was the last,
\* with the root namespace, when no container is stored any more.
Deletes(k, e, v, o, h) ==
    /\ h[k.c] = "gone"
    /\ k.pod \in {k.c, HOST}
    /\ k.pod = HOST => \A d \in Container : e.nics[d] = {}
    /\ k.pod # HOST =>
          /\ k.nic = "eth0" /\ k.pc # "releaseSubnet"
          /\ k.last /\ k.root => \A d \in Container : d # k.c => d \notin e.pods
          /\ k.pc \in {"cleanup", "releaseIp"} => Spare(k.addr, k.c, v, o, h)
          /\ k.pc # "cleanup" => v[k.c] # "ns"
          /\ k.pc \in {"delRoute", "delNic"} => e.addr[k.c] = None
          /\ k.pc \in {"delVtep", "delNetns", "delPodKey", "delPodList"} => e.nics[k.c] = {}

Does(k, e, v, o, h) ==
    /\ k.pc \in InitPC => Prepares(k, e, v)
    /\ k.pc \in AddPC => Adds(k, e, v, o, h)
    /\ k.pc \in InitPC \cup AddPC => Begins(k, e, o, h)
    /\ k.pc \in DelPC => k.c \in Container /\ Deletes(k, e, v, o, h)

AllFit(e, v, o, h) ==
    /\ IsFiniteSet(e.pods)
    /\ \A c \in Container : Fits(c, e, v, o, h)
    /\ Differ(v, o, h)

Life == AllFit(db, dev, on, phase) /\ Does(call, db, dev, on, phase)

LifeInv == IInv /\ Life

LEMMA NoCallDoes == \A e, v, o, h : Does(NoCall, e, v, o, h)
BY DEF NoCall, Does, InitPC, AddPC, DelPC

\* The runtime's view may change as long as nobody who was left by a DEL comes back,
\* and nobody is up whose interface or gateway is not.
LEMMA PhaseFits ==
    ASSUME NEW e, NEW v, NEW o, NEW h \in PhaseType, NEW h2 \in PhaseType,
           AllFit(e, v, o, h),
           \A c \in Container :
              /\ h2[c] = "gone" <=> h[c] = "gone"
              /\ h2[c] = "added" =>
                    \/ h[c] = "added"
                    \/ v[c] = "ns" /\ e.addr[c] # None /\ BridgeUp(e, v)
    PROVE  AllFit(e, v, o, h2)
<1>1. \A c \in Container : LeftIn(c, v, h2) <=> LeftIn(c, v, h)
  BY DEF LeftIn
<1>2. ASSUME NEW c \in Container PROVE Fits(c, e, v, o, h2)
  BY <1>1 DEF AllFit, Fits
<1>3. Differ(v, o, h2)
  BY <1>1 DEF AllFit, Differ
<1> QED  BY <1>2, <1>3 DEF AllFit

\* A call that fails leaves no container up that was not.
LEMMA ThrowFits ==
    ASSUME NEW e, NEW v, NEW o, phase \in PhaseType, AllFit(e, v, o, phase), Throw
    PROVE  AllFit(e, v, o, phase') /\ call' = NoCall
<1>1. phase' \in PhaseType /\ call' = NoCall
  BY ThrowType
<1>2. \A c \in Container : /\ phase'[c] = "gone" <=> phase[c] = "gone"
                           /\ phase'[c] = "added" => phase[c] = "added"
  BY DEF Throw, End
<1> QED  BY <1>1, <1>2, PhaseFits

\* A call that returns leaves its container up: a DEL does not, its container is
\* gone.
LEMMA ReturnFits ==
    ASSUME NEW e, phase \in PhaseType, AllFit(e, dev, on, phase), Return,
           \/ phase[call.c] = "gone"
           \/ dev[call.c] = "ns" /\ e.addr[call.c] # None /\ BridgeUp(e, dev)
    PROVE  AllFit(e, dev, on, phase') /\ call' = NoCall
<1>1. phase' \in PhaseType /\ call' = NoCall
  BY EndType DEF Return
<1>2. \A c \in Container :
         /\ phase'[c] = "gone" <=> phase[c] = "gone"
         /\ phase'[c] = "added" =>
               phase[c] = "added" \/ (c = call.c /\ phase[c] # "gone")
  BY DEF Return, End
<1>3. \A c \in Container :
         phase'[c] = "added" =>
            \/ phase[c] = "added"
            \/ dev[c] = "ns" /\ e.addr[c] # None /\ BridgeUp(e, dev)
  BY <1>2
<1> QED  BY <1>1, <1>2, <1>3, PhaseFits

\* A write keeps Life if what it leaves in etcd, and the call it goes on with, do.
LEMMA WriteLife ==
    ASSUME IInv, Life, NEW here, NEW d, NEW next,
           Write(here, d, next) \/ WriteAnyway(here, d, next),
           AllFit(d, dev, on, phase),
           next.pc # "return" => Does(next, d, dev, on, phase),
           Write(here, d, next) \/ next.pc = "return" \/ Does(next, db, dev, on, phase),
           next.pc = "return" =>
              \/ phase[call.c] = "gone"
              \/ /\ Write(here, d, next)
                 /\ dev[call.c] = "ns" /\ d.addr[call.c] # None
                 /\ BridgeUp(d, dev)
    PROVE  Life'
<1>1. UNCHANGED <<dev, on, nsUp>>
  BY DEF Write, WriteAnyway, kernel
<1>2. phase \in PhaseType /\ AllFit(db, dev, on, phase)
  BY Parts DEF Life
<1>3. ASSUME NEW e \in {d, db}, db' = e, Continue(next),
             next.pc # "return" => Does(next, e, dev, on, phase),
             next.pc = "return" =>
              \/ phase[call.c] = "gone"
              \/ /\ dev[call.c] = "ns" /\ e.addr[call.c] # None
                 /\ BridgeUp(e, dev)
      PROVE  Life'
  <2>1. AllFit(e, dev, on, phase)
    BY <1>2
  <2>2. CASE next.pc = "return"
    <3>1. Return
      BY <1>3, <2>2 DEF Continue
    <3>2. AllFit(e, dev, on, phase') /\ call' = NoCall
      BY <1>2, <1>3, <2>1, <2>2, <3>1, ReturnFits
    <3> QED  BY <1>1, <1>3, <3>2, NoCallDoes DEF Life
  <2>3. CASE next.pc # "return"
    BY <1>1, <1>3, <2>1, <2>3 DEF Continue, Life
  <2> QED  BY <2>2, <2>3
<1>4. ASSUME NEW e \in {d, db}, db' = e, Throw
      PROVE  Life'
  <2>1. AllFit(e, dev, on, phase') /\ call' = NoCall
    BY <1>2, <1>4, ThrowFits
  <2> QED  BY <1>1, <1>4, <2>1, NoCallDoes DEF Life
<1>5. CASE Write(here, d, next)
  BY <1>3, <1>4, <1>5 DEF Write
<1>6. CASE WriteAnyway(here, d, next) /\ ~ Write(here, d, next)
  BY <1>3, <1>6 DEF WriteAnyway
<1> QED  BY <1>5, <1>6

\* A write that takes no record of a container and no address back, and leaves up
\* what is up.
LEMMA KeptFits ==
    ASSUME NEW e \in DbType, NEW d \in DbType, NEW v, NEW o, NEW h,
           AllFit(e, v, o, h),
           \A c \in Container :
              /\ d.nics[c] = e.nics[c] /\ d.addr[c] = e.addr[c]
              /\ c \in e.pods => c \in d.pods
              /\ c \in e.podKey => c \in d.podKey
              /\ c \in e.netns => c \in d.netns,
           IsFiniteSet(d.pods), e.used \subseteq d.used,
           e.subnet => d.subnet,
           BridgeUp(e, v) => BridgeUp(d, v)
    PROVE  AllFit(d, v, o, h)
<1>1. ASSUME NEW c \in Container PROVE Fits(c, d, v, o, h)
  BY DEF AllFit, Fits
<1> QED  BY <1>1 DEF AllFit

\* The device of the root namespace may change if what is up stays up.
LEMMA HostDeviceFits ==
    ASSUME NEW e, NEW v, NEW o, NEW w, NEW u, NEW h, AllFit(e, v, o, h),
           \A c \in Container : w[c] = v[c] /\ u[c] = o[c],
           BridgeUp(e, v) => BridgeUp(e, w)
    PROVE  AllFit(e, w, u, h)
<1>1. \A c \in Container : LeftIn(c, w, h) <=> LeftIn(c, v, h)
  BY DEF LeftIn
<1>2. ASSUME NEW c \in Container PROVE Fits(c, e, w, u, h)
  BY <1>1 DEF AllFit, Fits
<1>3. Differ(w, u, h)
  BY <1>1 DEF AllFit, Differ
<1> QED  BY <1>2, <1>3 DEF AllFit

-----------------------------------------------------------------------------
(* The first ADD of a node.                                                 *)

\* What the process has not done yet for its container, it has not done one step of
\* initNode() later either.
LEMMA StillBegins ==
    ASSUME IInv, Life, call.pc \in InitPC, NEW d, NEW k,
           d.nics[call.c] = db.nics[call.c], d.addr[call.c] = db.addr[call.c],
           k.c = call.c, k.pc \in InitPC \cup {"podKey"}
    PROVE  Begins(k, d, on, phase)
BY DEF Life, Does, Begins, InitPC

LEMMA PodsFinite ==
    ASSUME IsFiniteSet(db.pods), NEW p
    PROVE  IsFiniteSet(db.pods \cup {p}) /\ IsFiniteSet(db.pods \ {p})
BY FS_AddElement, FS_RemoveElement

LEMMA InitNodeLife == IInv /\ Life /\ InitNode => Life'
<1> SUFFICES ASSUME IInv, Life, InitNode PROVE Life'
  OBVIOUS
<1> USE Parts, CniAssumption
<1>1. /\ AllFit(db, dev, on, phase) /\ IsFiniteSet(db.pods)
      /\ call.pc \in InitPC => Prepares(call, db, dev)
  BY DEF Life, Does, AllFit
\* A write of the root namespace and a step to `there`.
<1>2. ASSUME NEW here \in InitPC, NEW d \in DbType,
             NEW there \in InitPC \cup {"podKey"}, Write(here, d, To(there)),
             \A c \in Container :
                /\ d.nics[c] = db.nics[c] /\ d.addr[c] = db.addr[c]
                /\ c \in d.pods <=> c \in db.pods
                /\ c \in d.podKey <=> c \in db.podKey
                /\ c \in d.netns <=> c \in db.netns,
             IsFiniteSet(d.pods), db.used \subseteq d.used,
             db.subnet => d.subnet,
             BridgeUp(db, dev) => BridgeUp(d, dev),
             there \in InitPC => Prepares(To(there), d, dev),
             there = "podKey" => BridgeUp(d, dev)
      PROVE  Life'
  <2>1. call.pc = here /\ call.c \in Container
    BY <1>2 DEF Write, Shape
  <2>2. there \in PC \ {"return"}
    BY DEF PC, InitPC, AddPC
  <2>3. To(there).pc = there /\ To(there).c = call.c
    BY <2>2, ToStep
  <2>4. AllFit(d, dev, on, phase)
    BY <1>1, <1>2, KeptFits
  <2>5. Begins(To(there), d, on, phase)
    BY <1>2, <2>1, <2>3, StillBegins
  <2>6. Does(To(there), d, dev, on, phase)
    BY <1>2, <2>3, <2>5 DEF Does, Adds, BridgeUp, InitPC, AddPC, DelPC
  <2> QED  BY <1>2, <2>2, <2>3, <2>4, <2>6, WriteLife
<1>3. CASE AllocateSubnet
  <2> DEFINE d == [db EXCEPT !.subnet = TRUE]
  <2>1. d \in DbType /\ d.subnet /\ d.nics = db.nics /\ d.addr = db.addr
        /\ d.pods = db.pods /\ d.podKey = db.podKey /\ d.netns = db.netns
        /\ d.used = db.used
    BY DEF DbType
  <2> HIDE DEF d
  <2>2. Prepares(To("gateway"), d, dev)
    BY <2>1, ToStep DEF Prepares, PC, InitPC
  <2>3. BridgeUp(db, dev) => BridgeUp(d, dev)
    BY <2>1 DEF BridgeUp
  <2>4. Write("subnet", d, To("gateway"))
    BY <1>3 DEF AllocateSubnet, d
  <2> QED  BY <1>1, <1>2, <2>1, <2>2, <2>3, <2>4 DEF InitPC
<1>4. CASE AllocateIp("gateway", "nicBridge")
  <2>1. call.pc = "gateway" /\ call.c \in Container /\ db.subnet
    BY <1>1, <1>4 DEF AllocateIp, Shape, Prepares, InitPC
  <2>2. CASE Throw /\ UNCHANGED <<db, kernel>>
    BY <1>1, <2>2, ThrowFits, NoCallDoes DEF Life, kernel
  <2>3. ASSUME NEW a \in Addr, NEW d \in {db, [db EXCEPT !.used = @ \cup {a}]},
               db' = d, UNCHANGED <<kernel, phase>>,
               \/ call' = [call EXCEPT !.pc = "nicBridge", !.addr = a, !.tried = 0]
               \/ call' = [call EXCEPT !.tried = a]
        PROVE  Life'
    <3>1. /\ d \in DbType /\ d.subnet /\ d.nics = db.nics /\ d.addr = db.addr
          /\ d.pods = db.pods /\ d.podKey = db.podKey /\ d.netns = db.netns
          /\ db.used \subseteq d.used
      BY <2>1, <2>3 DEF DbType
    <3>2. call'.c = call.c /\ call'.pc \in {"gateway", "nicBridge"}
      BY <2>1, <2>3 DEF CallType
    <3>3. AllFit(d, dev, on, phase)
      BY <1>1, <3>1, KeptFits DEF BridgeUp
    <3>4. Begins(call', d, on, phase)
      BY <2>1, <3>1, <3>2, StillBegins DEF InitPC
    <3>5. Does(call', d, dev, on, phase)
      BY <3>1, <3>2, <3>4 DEF Does, Prepares, InitPC, AddPC, DelPC
    <3> QED  BY <2>3, <3>3, <3>5 DEF Life, kernel
  <2> QED  BY <1>4, <2>2, <2>3 DEF AllocateIp, Candidate
\* An interface of the root namespace.
<1>5. ASSUME NEW nic \in Nic, NEW here \in InitPC, NEW there \in InitPC,
             here # "subnet", AddNic(HOST, nic, here, there),
             there \in {"setupBridge", "vtep", "netnsHost"},
             there # "setupBridge" => dev[HOST] = "root"
      PROVE  Life'
  <2> DEFINE d == [db EXCEPT !.nics[HOST] = @ \cup {nic}]
  <2>1. /\ d \in DbType /\ d.subnet = db.subnet /\ d.addr = db.addr
        /\ d.pods = db.pods /\ d.podKey = db.podKey /\ d.netns = db.netns
        /\ d.used = db.used /\ \A c \in Container : d.nics[c] = db.nics[c]
    BY DEF DbType, Pod
  <2>2. Write(here, d, To(there))
    BY <1>5 DEF AddNic
  <2> HIDE DEF d
  <2>3. db.subnet
    BY <1>1, <1>5, <2>2 DEF Prepares, Write
  <2>4. Prepares(To(there), d, dev)
    BY <1>5, <2>1, <2>3, ToStep DEF Prepares, PC, InitPC
  <2> QED  BY <1>1, <1>2, <1>5, <2>1, <2>2, <2>4 DEF BridgeUp, InitPC
<1>6. CASE AddNic(HOST, "bridge", "nicBridge", "setupBridge")
  BY <1>5, <1>6 DEF Nic, InitPC
<1>7. CASE AddNic(HOST, "vxlan", "nicVxlan", "vtep")
  <2>1. dev[HOST] = "root"
    BY <1>1, <1>7 DEF AddNic, Write, Prepares, InitPC
  <2> QED  BY <1>5, <1>7, <2>1 DEF Nic, InitPC
<1>8. CASE AddNic(HOST, "underlay", "nicUnderlay", "netnsHost")
  <2>1. dev[HOST] = "root"
    BY <1>1, <1>8 DEF AddNic, Write, Prepares, InitPC
  <2> QED  BY <1>5, <1>8, <2>1 DEF Nic, InitPC
\* A step that fails.
<1>17. CASE Throw /\ UNCHANGED <<db, kernel>>
  BY <1>1, <1>17, ThrowFits, NoCallDoes DEF Life, kernel
<1>9. CASE SetupBridge \/ SetBridgeAddr
  <2>0. CASE Throw /\ UNCHANGED <<db, kernel>>
    BY <1>17, <2>0
  <2> SUFFICES ASSUME ~ (Throw /\ UNCHANGED <<db, kernel>>) PROVE Life'
    BY <2>0
  <2>1. call.pc \in {"setupBridge", "setAddrBridge"} /\ call.c \in Container
    BY <1>9 DEF SetupBridge, SetBridgeAddr, Shape, InitPC
  <2>2. /\ \A c \in Container : dev'[c] = dev[c] /\ on'[c] = on[c]
        /\ dev'[HOST] = "root"
        /\ UNCHANGED <<db, phase>>
    BY <1>1, <1>9, <2>1
       DEF SetupBridge, SetBridgeAddr, SetEntry, Pod, Prepares, InitPC, kernel
  <2>3. PICK there \in {"setAddrBridge", "addrBridge", "nicVxlan", "nicUnderlay"} :
                call' = To(there)
    BY <1>9 DEF SetupBridge, SetBridgeAddr, AfterBridge, kernel
  <2>7. call'.pc = there /\ call'.c = call.c
    BY <2>3, ToStep DEF PC, InitPC
  <2>8. db.subnet
    BY <1>1, <2>1 DEF Prepares, InitPC
  <2>4. AllFit(db, dev', on', phase)
    BY <1>1, <2>2, HostDeviceFits DEF BridgeUp
  <2>5. Begins(call', db, on, phase)
    BY <2>1, <2>7, StillBegins DEF InitPC
  <2>6. Does(call', db, dev', on', phase)
    BY <2>1, <2>2, <2>5, <2>7, <2>8
       DEF Does, Prepares, Begins, InitPC, AddPC, DelPC
  <2> QED  BY <2>2, <2>4, <2>6 DEF Life
<1>10. ASSUME NEW there \in {"nicVxlan", "nicUnderlay"},
              AddAddr(HOST, "addrBridge", there)
       PROVE  Life'
  <2> DEFINE d == [db EXCEPT !.addr[HOST] = call.addr]
  <2>1. /\ call.pc = "addrBridge" /\ call.addr \in Addr
        /\ db.subnet /\ dev[HOST] = "root"
    BY <1>1, <1>10 DEF AddAddr, Write, Shape, Prepares, InitPC
  <2>2. /\ d \in DbType /\ d.subnet = db.subnet /\ d.nics = db.nics
        /\ d.pods = db.pods /\ d.podKey = db.podKey /\ d.netns = db.netns
        /\ d.used = db.used /\ \A c \in Container : d.addr[c] = db.addr[c]
    BY <2>1 DEF DbType, Pod
  <2>3. Write("addrBridge", d, To(there))
    BY <1>10 DEF AddAddr
  <2> HIDE DEF d
  <2>4. Prepares(To(there), d, dev)
    BY <2>1, <2>2, ToStep DEF Prepares, PC, InitPC
  <2>5. BridgeUp(db, dev) => BridgeUp(d, dev)
    BY <2>1, <2>2 DEF BridgeUp
  <2> QED  BY <1>1, <1>2, <2>2, <2>3, <2>4, <2>5 DEF InitPC
<1>11. CASE AddAddr(HOST, "addrBridge", AfterBridge)
  BY <1>10, <1>11 DEF AfterBridge
\* The other records of the root namespace.
<1>12. ASSUME NEW here \in {"vtep", "netnsHost", "podKeyHost", "podListHost"},
              NEW d \in DbType, NEW there \in InitPC \cup {"podKey"},
              Write(here, d, To(there)),
              d.subnet = db.subnet, d.nics = db.nics, d.addr = db.addr, d.used = db.used,
              d.pods \in {db.pods, db.pods \cup {HOST}},
              \A c \in Container : /\ c \in d.podKey <=> c \in db.podKey
                                   /\ c \in d.netns <=> c \in db.netns,
              there \in {"nicUnderlay", "podKeyHost", "podListHost", "podKey"},
              there = "podKey" => HOST \in d.pods
       PROVE  Life'
  <2>1. call.pc = here /\ here \in InitPC
    BY <1>12 DEF Write, InitPC
  <2>2. db.subnet /\ dev[HOST] = "root"
    BY <1>1, <1>12, <2>1 DEF Prepares
  <2>3. there \in InitPC => Prepares(To(there), d, dev)
    BY <1>12, <2>2, ToStep DEF Prepares, PC, InitPC
  <2>4. IsFiniteSet(d.pods) /\ \A c \in Container : c \in d.pods <=> c \in db.pods
    <3>1. CASE d.pods = db.pods
      BY <1>1, <3>1
    <3>2. CASE d.pods = db.pods \cup {HOST}
      BY <1>1, <3>2, PodsFinite
    <3> QED  BY <1>12, <3>1, <3>2
  <2>5. /\ BridgeUp(db, dev) => BridgeUp(d, dev)
        /\ there = "podKey" => BridgeUp(d, dev)
    BY <1>12, <2>2 DEF BridgeUp
  <2>6. /\ db.used \subseteq d.used
        /\ \A c \in Container :
              /\ d.nics[c] = db.nics[c] /\ d.addr[c] = db.addr[c]
              /\ c \in d.pods <=> c \in db.pods
              /\ c \in d.podKey <=> c \in db.podKey
              /\ c \in d.netns <=> c \in db.netns
    BY <1>12, <2>4
  <2>7. Write(here, d, To(there)) /\ (db.subnet => d.subnet)
    BY <1>12
  <2> QED  BY <1>2, <2>1, <2>3, <2>4, <2>5, <2>6, <2>7
<1>13. CASE AddVtep("vtep", "nicUnderlay")
  <2>1. [db EXCEPT !.vtep = TRUE] \in DbType
    BY DEF DbType
  <2> QED  BY <1>12, <1>13, <2>1 DEF AddVtep, InitPC, DbType
<1>14. CASE AddNetns(HOST, "netnsHost", "podKeyHost")
  <2>1. [db EXCEPT !.netns = @ \cup {HOST}] \in DbType
    BY DEF DbType, Pod
  <2> QED  BY <1>12, <1>14, <2>1 DEF AddNetns, InitPC, DbType
<1>15. CASE PutPodKey(HOST, "podKeyHost", "podListHost")
  <2>1. [db EXCEPT !.podKey = @ \cup {HOST}] \in DbType
    BY DEF DbType, Pod
  <2> QED  BY <1>12, <1>15, <2>1 DEF PutPodKey, InitPC, DbType
<1>16. CASE AppendPod(HOST, "podListHost", "podKey")
  <2>1. [db EXCEPT !.pods = @ \cup {HOST}] \in DbType
    BY DEF DbType, Pod
  <2> QED  BY <1>12, <1>16, <2>1 DEF AppendPod, InitPC, DbType
<1> QED
  BY <1>3, <1>4, <1>6, <1>7, <1>8, <1>9, <1>11, <1>13, <1>14, <1>15, <1>16, <1>17
     DEF InitNode, GetBridge, GetVxlan, GetRootPod

-----------------------------------------------------------------------------
(* ADD of a container.                                                      *)

\* The device of one container changes.
LEMMA OneDeviceFits ==
    ASSUME NEW c \in Container, NEW e, NEW v, NEW o, NEW w, NEW u, NEW h,
           AllFit(e, v, o, h),
           \A p \in Pod : p # c => w[p] = v[p] /\ u[p] = o[p],
           Fits(c, e, w, u, h), ~ LeftIn(c, w, h),
           \A d \in Container : d # c /\ ~ LeftIn(d, v, h) => u[c] \cap o[d] = {}
    PROVE  AllFit(e, w, u, h)
<1>1. ASSUME NEW d \in Container, d # c
      PROVE  /\ w[d] = v[d] /\ u[d] = o[d]
             /\ LeftIn(d, w, h) <=> LeftIn(d, v, h)
             /\ w[HOST] = v[HOST] /\ u[HOST] = o[HOST]
  BY <1>1, CniAssumption DEF LeftIn, Pod
<1>2. ASSUME NEW d \in Container PROVE Fits(d, e, w, u, h)
  <2>1. CASE d # c
    BY <1>1, <2>1 DEF AllFit, Fits, BridgeUp
  <2> QED  BY <2>1
<1>3. ASSUME NEW d \in Container, NEW f \in Container, d # f,
             ~ LeftIn(d, w, h), ~ LeftIn(f, w, h)
      PROVE  u[d] \cap u[f] = {}
  <2>1. CASE d # c /\ f # c
    BY <1>1, <1>3, <2>1 DEF AllFit, Differ
  <2>2. CASE d = c
    BY <1>1, <1>3, <2>2
  <2>3. CASE f = c
    BY <1>1, <1>3, <2>3
  <2> QED  BY <2>1, <2>2, <2>3
<1> QED  BY <1>2, <1>3 DEF AllFit, Differ

\* What is known of a container that an ADD works for, beyond what the steps say.
LEMMA AddFacts ==
    ASSUME IInv, Life, call.pc \in AddPC
    PROVE  /\ call.c \in Container /\ call.c \in Pod /\ call.c # HOST
           /\ AllFit(db, dev, on, phase) /\ Fits(call.c, db, dev, on, phase)
           /\ IsFiniteSet(db.pods)
           /\ Adds(call, db, dev, on, phase) /\ Begins(call, db, on, phase)
           /\ phase[call.c] \in {"new", "failed"} /\ ~ LeftIn(call.c, dev, phase)
BY Parts, CniAssumption DEF Life, AllFit, Does, Begins, Shape, LeftIn, Pod

LEMMA AddPodLife == IInv /\ Life /\ AddPod => Life'
<1> SUFFICES ASSUME IInv, Life, AddPod PROVE Life'
  OBVIOUS
<1> USE Parts, CniAssumption
<1> DEFINE c == call.c
\* A record of the pod.
<1>1. ASSUME NEW here \in {"podKey", "podList", "netns"}, NEW d \in DbType,
             NEW there \in {"podList", "netns", "nic"}, Write(here, d, To(there)),
             UNCHANGED <<dev, on>>,
             d.nics = db.nics, d.addr = db.addr, d.used = db.used, d.subnet = db.subnet,
             db.podKey \subseteq d.podKey, db.netns \subseteq d.netns,
             d.pods \in {db.pods, db.pods \cup {c}},
             there = "podList" => c \in d.podKey,
             there = "netns" => here = "podList" /\ c \in d.pods,
             there = "nic" => here = "netns" /\ c \in d.netns
      PROVE  Life'
  <2>1. call.pc = here /\ call.pc \in AddPC
    BY <1>1 DEF Write, AddPC
  <2>2. IsFiniteSet(d.pods) /\ db.pods \subseteq d.pods
    <3>1. CASE d.pods = db.pods
      BY <2>1, <3>1, AddFacts
    <3>2. CASE d.pods = db.pods \cup {c}
      BY <2>1, <3>2, AddFacts, PodsFinite
    <3> QED  BY <1>1, <3>1, <3>2
  <2>3. BridgeUp(db, dev) => BridgeUp(d, dev)
    BY <1>1, <2>2 DEF BridgeUp
  <2>4. AllFit(d, dev, on, phase)
    BY <1>1, <2>1, <2>2, <2>3, AddFacts, KeptFits
  <2>5. /\ there \in PC \ {"return"} /\ To(there).pc = there
        /\ To(there).c = c /\ To(there).gw = call.gw
    BY ToStep DEF PC, AddPC, To, CallType
  <2>6. Begins(To(there), d, on, phase)
    BY <1>1, <2>1, <2>5, AddFacts DEF Begins
  <2>7. Adds(To(there), d, dev, on, phase)
    BY <1>1, <2>1, <2>2, <2>3, <2>5, AddFacts DEF Adds
  <2>8. Does(To(there), d, dev, on, phase)
    BY <2>5, <2>6, <2>7 DEF Does, InitPC, AddPC, DelPC
  <2> QED  BY <1>1, <2>4, <2>5, <2>8, WriteLife
<1>2. CASE PutPodKey(c, "podKey", "podList")
  <2>1. [db EXCEPT !.podKey = @ \cup {c}] \in DbType
    BY <1>2, AddFacts DEF PutPodKey, Write, AddPC, DbType
  <2> QED  BY <1>1, <1>2, <2>1 DEF PutPodKey, Write, kernel, DbType
<1>3. CASE AppendPod(c, "podList", "netns")
  <2>1. [db EXCEPT !.pods = @ \cup {c}] \in DbType
    BY <1>3, AddFacts DEF AppendPod, Write, AddPC, DbType
  <2> QED  BY <1>1, <1>3, <2>1 DEF AppendPod, Write, kernel, DbType
<1>4. CASE AddNetns(c, "netns", "nic")
  <2> DEFINE d == [db EXCEPT !.netns = @ \cup {c}]
  <2>1. Write("netns", d, To("nic")) /\ UNCHANGED <<dev, on>>
    BY <1>4 DEF AddNetns, Write, kernel
  <2>2. /\ d \in DbType /\ d.nics = db.nics /\ d.addr = db.addr /\ d.used = db.used
        /\ d.subnet = db.subnet /\ d.podKey = db.podKey /\ d.pods = db.pods
        /\ db.netns \subseteq d.netns /\ c \in d.netns
    BY <2>1, AddFacts DEF Write, AddPC, DbType
  <2> HIDE DEF d
  <2> QED  BY <1>1, <2>1, <2>2
<1>5. CASE AddNic(c, "eth0", "nic", "veth")
  <2> DEFINE d == [db EXCEPT !.nics[c] = @ \cup {"eth0"}]
  <2>1. Write("nic", d, To("veth")) /\ call.pc = "nic" /\ call.pc \in AddPC
    BY <1>5 DEF AddNic, Write, AddPC
  <2>2. /\ d.addr = db.addr /\ d.used = db.used /\ d.subnet = db.subnet
        /\ d.podKey = db.podKey /\ d.pods = db.pods /\ d.netns = db.netns
        /\ d.nics[c] = {"eth0"} /\ \A f \in Container : f # c => d.nics[f] = db.nics[f]
    BY <2>1, AddFacts DEF DbType, Begins
  <2> HIDE DEF d
  <2>3. BridgeUp(db, dev) => BridgeUp(d, dev)
    BY <2>2 DEF BridgeUp
  <2>4. db.subnet /\ c \in db.pods \cap db.podKey \cap db.netns /\ db.addr[c] = None
        /\ c \in Container /\ phase[c] # "added"
    BY <2>1, AddFacts DEF Adds, AddPC, Begins
  <2>5. ASSUME NEW f \in Container PROVE Fits(f, d, dev, on, phase)
    <3>1. CASE f = c
      BY <2>1, <2>2, <2>4, <3>1, AddFacts DEF Fits
    <3>2. CASE f # c
      BY <2>1, <2>2, <2>3, <3>2, AddFacts DEF AllFit, Fits
    <3> QED  BY <3>1, <3>2
  <2>6. AllFit(d, dev, on, phase)
    BY <2>1, <2>2, <2>5, AddFacts DEF AllFit
  <2>7. /\ To("veth").pc = "veth" /\ To("veth").c = c /\ To("veth").gw = call.gw
    BY ToStep DEF PC, AddPC, To, CallType
  <2>8. Does(To("veth"), d, dev, on, phase)
    BY <2>1, <2>2, <2>3, <2>4, <2>7, AddFacts
       DEF Does, Adds, Begins, InitPC, AddPC, DelPC
  <2> QED  BY <2>1, <2>6, <2>7, <2>8, WriteLife
\* A step that does not write, and goes on or fails.
<1>6. ASSUME call.pc \in AddPC, UNCHANGED db, NEW there \in AddPC,
             AllFit(db, dev', on', phase),
             \/ Continue(To(there)) /\ Adds(To(there), db, dev', on', phase)
                                    /\ Begins(To(there), db, on', phase)
             \/ call' = To(there) /\ UNCHANGED phase
                                  /\ Adds(To(there), db, dev', on', phase)
                                  /\ Begins(To(there), db, on', phase)
             \/ Throw
      PROVE  Life'
  <2>1. To(there).pc = there /\ there # "return"
    BY ToStep DEF PC, AddPC
  <2>2. CASE Throw
    <3>1. AllFit(db, dev', on', phase') /\ call' = NoCall
      BY <1>6, <2>2, ThrowFits
    <3> QED  BY <1>6, <3>1, NoCallDoes DEF Life
  <2>3. CASE ~ Throw
    <3>1. call' = To(there) /\ UNCHANGED phase
      BY <1>6, <2>1, <2>3 DEF Continue
    <3>2. Does(To(there), db, dev', on', phase)
      BY <1>6, <2>1, <2>3, ToStep DEF Does, InitPC, AddPC, DelPC
    <3> QED  BY <1>6, <3>1, <3>2 DEF Life
  <2> QED  BY <2>2, <2>3
\* A step on the container's device, with what it must leave of its addresses.
<1>7. ASSUME call.pc \in AddPC, NEW w, NEW u,
             \A p \in Pod : p # c => w[p] = dev[p] /\ u[p] = on[p],
             Fits(c, db, w, u, phase),
             \A d \in Container :
                d # c /\ ~ LeftIn(d, dev, phase) => u[c] \cap on[d] = {}
      PROVE  /\ AllFit(db, w, u, phase)
             /\ BridgeUp(db, dev) => BridgeUp(db, w)
             /\ \A a : Spare(a, c, dev, on, phase) => Spare(a, c, w, u, phase)
  <2>1. ~ LeftIn(c, w, phase)
    BY <1>7, AddFacts DEF LeftIn
  <2>2. AllFit(db, w, u, phase)
    BY <1>7, <2>1, AddFacts, OneDeviceFits
  <2>3. w[HOST] = dev[HOST] /\ u[HOST] = on[HOST]
    BY <1>7, AddFacts DEF Pod
  <2>4. \A d \in Container : d # c => w[d] = dev[d] /\ u[d] = on[d]
    BY <1>7 DEF Pod
  <2> QED  BY <2>2, <2>3, <2>4 DEF BridgeUp, Spare, LeftIn
<1>8. CASE SetupVeth
  <2>1. call.pc = "veth" /\ call.pc \in AddPC /\ UNCHANGED <<db, on>>
    BY <1>8 DEF SetupVeth, AddPC
  <2>2. on[c] = {} /\ db.addr[c] = None
    BY <2>1, AddFacts DEF Begins
  <2>3. CASE Throw /\ UNCHANGED dev
    BY <1>6, <2>1, <2>3, AddFacts DEF AddPC
  <2>4. CASE dev' = [dev EXCEPT ![c] = "root"] /\ call' = To("setNetns") /\ UNCHANGED phase
    <3>1. /\ \A p \in Pod : p # c => dev'[p] = dev[p] /\ on'[p] = on[p]
          /\ dev'[c] = "root" /\ on'[c] = {}
      BY <2>1, <2>2, <2>4, AddFacts
    <3>2. Fits(c, db, dev', on', phase)
      BY <2>1, <3>1, AddFacts DEF Fits
    <3>3. AllFit(db, dev', on', phase) /\ (BridgeUp(db, dev) => BridgeUp(db, dev'))
      BY <1>7, <2>1, <3>1, <3>2
    <3>4. To("setNetns").pc = "setNetns" /\ To("setNetns").c = c /\ To("setNetns").gw = call.gw
      BY ToStep DEF PC, AddPC, To, CallType
    <3>5. /\ Adds(To("setNetns"), db, dev', on', phase)
          /\ Begins(To("setNetns"), db, on', phase)
      BY <2>1, <2>2, <3>1, <3>3, <3>4, AddFacts DEF Adds, Begins, AddPC, InitPC
    <3> QED  BY <1>6, <2>1, <2>4, <3>3, <3>5 DEF AddPC
  <2> QED  BY <1>8, <2>3, <2>4 DEF SetupVeth
<1>9. CASE SetNetns
  <2>1. call.pc = "setNetns" /\ call.pc \in AddPC /\ UNCHANGED <<db, on>>
    BY <1>9 DEF SetNetns, AddPC
  <2>2. on[c] = {} /\ db.addr[c] = None /\ "eth0" \in db.nics[c]
    BY <2>1, AddFacts DEF Begins, Adds, AddPC
  <2>3. CASE Throw /\ UNCHANGED dev
    BY <1>6, <2>1, <2>3, AddFacts DEF AddPC
  <2>4. CASE dev' = [dev EXCEPT ![c] = "temp"] /\ Continue(To("rename"))
    <3>1. /\ \A p \in Pod : p # c => dev'[p] = dev[p] /\ on'[p] = on[p]
          /\ dev'[c] = "temp" /\ on'[c] = {}
      BY <2>1, <2>2, <2>4, AddFacts
    <3>2. Fits(c, db, dev', on', phase)
      BY <2>1, <2>2, <3>1, AddFacts DEF Fits
    <3>3. AllFit(db, dev', on', phase) /\ (BridgeUp(db, dev) => BridgeUp(db, dev'))
      BY <1>7, <2>1, <3>1, <3>2
    <3>4. To("rename").pc = "rename" /\ To("rename").c = c /\ To("rename").gw = call.gw
      BY ToStep DEF PC, AddPC, To, CallType
    <3>5. /\ Adds(To("rename"), db, dev', on', phase)
          /\ Begins(To("rename"), db, on', phase)
      BY <2>1, <2>2, <3>1, <3>3, <3>4, AddFacts DEF Adds, Begins, AddPC, InitPC
    <3> QED  BY <1>6, <2>1, <2>4, <3>3, <3>5 DEF AddPC
  <2> QED  BY <1>9, <2>3, <2>4 DEF SetNetns
<1>10. CASE Rename
  <2>1. call.pc = "rename" /\ call.pc \in AddPC /\ UNCHANGED <<db, on, phase>>
        /\ call' = To("plug")
    BY <1>10 DEF Rename, AddPC
  <2>2. on[c] = {} /\ db.addr[c] = None /\ "eth0" \in db.nics[c] /\ dev[c] # "root"
    BY <2>1, AddFacts DEF Begins, Adds, AddPC
  <2>3. /\ \A p \in Pod : p # c => dev'[p] = dev[p] /\ on'[p] = on[p]
        /\ dev'[c] \in {dev[c], "ns"} /\ on'[c] = {}
    BY <1>10, <2>1, <2>2, AddFacts DEF Rename
  <2>4. Fits(c, db, dev', on', phase)
    BY <2>1, <2>2, <2>3, AddFacts DEF Fits
  <2>5. AllFit(db, dev', on', phase) /\ (BridgeUp(db, dev) => BridgeUp(db, dev'))
    BY <1>7, <2>1, <2>3, <2>4
  <2>6. To("plug").pc = "plug" /\ To("plug").c = c /\ To("plug").gw = call.gw
    BY ToStep DEF PC, AddPC, To, CallType
  <2>7. Adds(To("plug"), db, dev', on', phase) /\ Begins(To("plug"), db, on', phase)
    BY <2>1, <2>2, <2>3, <2>5, <2>6, AddFacts DEF Adds, Begins, AddPC, InitPC
  <2> QED  BY <1>6, <2>1, <2>5, <2>7 DEF AddPC
<1>11. CASE Plug
  <2>1. call.pc = "plug" /\ call.pc \in AddPC /\ UNCHANGED <<db, dev, on>>
    BY <1>11 DEF Plug, AddPC, kernel
  <2>2. To("allocate").pc = "allocate" /\ To("allocate").c = c /\ To("allocate").gw = call.gw
    BY ToStep DEF PC, AddPC, To, CallType
  <2>3. Adds(To("allocate"), db, dev, on, phase) /\ Begins(To("allocate"), db, on, phase)
    BY <2>1, <2>2, AddFacts DEF Adds, Begins, AddPC, InitPC
  <2>4. Continue(To("allocate")) \/ Throw
    BY <1>11 DEF Plug
  <2> QED  BY <1>6, <2>1, <2>3, <2>4, AddFacts DEF AddPC
<1>12. CASE AllocateIp("allocate", "setAddr")
  <2>1. call.pc = "allocate" /\ call.pc \in AddPC /\ UNCHANGED <<dev, on>>
    BY <1>12 DEF AllocateIp, AddPC, kernel
  <2>2. CASE Throw /\ UNCHANGED db
    BY <1>6, <2>1, <2>2, AddFacts DEF AddPC
  <2>3. ASSUME NEW a \in Addr, a \notin db.used,
               NEW d \in {db, [db EXCEPT !.used = @ \cup {a}]}, db' = d, UNCHANGED phase,
               \/ /\ call' = [call EXCEPT !.pc = "setAddr", !.addr = a, !.tried = 0]
                  /\ d = [db EXCEPT !.used = @ \cup {a}]
               \/ call' = [call EXCEPT !.tried = a]
        PROVE  Life'
    <3>1. /\ d \in DbType /\ d.subnet = db.subnet /\ d.nics = db.nics /\ d.addr = db.addr
          /\ d.pods = db.pods /\ d.podKey = db.podKey /\ d.netns = db.netns
          /\ db.used \subseteq d.used
      BY <2>1, <2>3 DEF DbType
    <3>2. /\ call'.c = c /\ call'.gw = call.gw
          /\ \/ call'.pc = "allocate"
             \/ call'.pc = "setAddr" /\ call'.addr = a /\ a \in d.used
      <4>1. CASE call' = [call EXCEPT !.tried = a]
        BY <2>1, <4>1 DEF CallType
      <4>2. CASE /\ call' = [call EXCEPT !.pc = "setAddr", !.addr = a, !.tried = 0]
                 /\ d = [db EXCEPT !.used = @ \cup {a}]
        <5>1. a \in d.used
          BY <4>2 DEF DbType
        <5>2. call'.c = c /\ call'.gw = call.gw /\ call'.pc = "setAddr" /\ call'.addr = a
          BY <4>2 DEF CallType
        <5> QED  BY <5>1, <5>2
      <4> QED  BY <2>3, <4>1, <4>2
    <3>3. BridgeUp(db, dev) => BridgeUp(d, dev)
      BY <3>1 DEF BridgeUp
    <3>4. AllFit(d, dev, on, phase)
      BY <2>1, <3>1, <3>3, AddFacts, KeptFits
    <3>5. Spare(a, c, dev, on, phase)
      BY <2>1, <2>3, AddFacts DEF Spare, AllFit, Fits
    <3>6. Adds(call', d, dev, on, phase) /\ Begins(call', d, on, phase)
      BY <2>1, <3>1, <3>2, <3>3, <3>5, AddFacts DEF Adds, Begins, AddPC, InitPC
    <3>7. Does(call', d, dev, on, phase)
      BY <3>2, <3>6 DEF Does, InitPC, AddPC, DelPC
    <3> QED  BY <2>1, <2>3, <3>4, <3>7 DEF Life
  <2> QED  BY <1>12, <2>2, <2>3 DEF AllocateIp, Candidate
<1>13. CASE SetAddr
  <2>1. call.pc = "setAddr" /\ call.pc \in AddPC /\ UNCHANGED <<db, dev>>
    BY <1>13 DEF SetAddr, AddPC
  <2>2. /\ on[c] = {} /\ db.addr[c] = None /\ "eth0" \in db.nics[c] /\ dev[c] # "root"
        /\ call.addr \in db.used /\ Spare(call.addr, c, dev, on, phase)
    BY <2>1, AddFacts DEF Begins, Adds, AddPC
  <2>3. CASE Throw /\ UNCHANGED on
    BY <1>6, <2>1, <2>3, AddFacts DEF AddPC
  <2>4. CASE /\ dev[c] # "none" /\ on' = [on EXCEPT ![c] = SetEntry(c, {call.addr})]
             /\ Continue(To("addr"))
    <3>1. /\ \A p \in Pod : p # c => dev'[p] = dev[p] /\ on'[p] = on[p]
          /\ dev'[c] = dev[c] /\ on'[c] = {call.addr}
      BY <2>1, <2>2, <2>4, AddFacts DEF SetEntry
    <3>2. Fits(c, db, dev', on', phase)
      BY <2>1, <2>2, <2>4, <3>1, AddFacts DEF Fits, Place
    <3>3. \A d \in Container : d # c /\ ~ LeftIn(d, dev, phase) => on'[c] \cap on[d] = {}
      BY <2>2, <3>1 DEF Spare
    <3>4. /\ AllFit(db, dev', on', phase)
          /\ BridgeUp(db, dev) => BridgeUp(db, dev')
          /\ Spare(call.addr, c, dev', on', phase)
      BY <1>7, <2>1, <2>2, <3>1, <3>2, <3>3
    <3>5. /\ To("addr").pc = "addr" /\ To("addr").c = c
          /\ To("addr").gw = call.gw /\ To("addr").addr = call.addr
      BY ToStep DEF PC, AddPC, To, CallType
    <3>6. Adds(To("addr"), db, dev', on', phase) /\ Begins(To("addr"), db, on', phase)
      BY <2>1, <2>2, <3>1, <3>4, <3>5, AddFacts DEF Adds, Begins, AddPC, InitPC
    <3> QED  BY <1>6, <2>1, <2>4, <3>4, <3>6 DEF AddPC
  <2> QED  BY <1>13, <2>3, <2>4 DEF SetAddr
<1>14. CASE AddAddr(c, "addr", "route")
  <2> DEFINE d == [db EXCEPT !.addr[c] = call.addr]
  <2>1. Write("addr", d, To("route")) /\ call.pc = "addr" /\ call.pc \in AddPC
        /\ call.addr \in Addr
    BY <1>14 DEF AddAddr, Write, AddPC, Shape
  <2>2. /\ d.nics = db.nics /\ d.used = db.used /\ d.subnet = db.subnet
        /\ d.podKey = db.podKey /\ d.pods = db.pods /\ d.netns = db.netns
        /\ d.addr[c] = call.addr /\ \A p \in Pod : p # c => d.addr[p] = db.addr[p]
    BY <2>1, AddFacts DEF DbType
  <2> HIDE DEF d
  <2>3. BridgeUp(db, dev) => BridgeUp(d, dev)
    BY <2>1, <2>2, AddFacts DEF BridgeUp, Pod
  <2>4. /\ "eth0" \in db.nics[c] /\ c \in Container /\ phase[c] # "added"
        /\ dev[c] = "ns" => on[c] = {call.addr}
    BY <2>1, AddFacts DEF Adds, AddPC
  <2>5. ASSUME NEW f \in Container PROVE Fits(f, d, dev, on, phase)
    <3>1. CASE f = c
      BY <2>1, <2>2, <2>4, <3>1, AddFacts DEF Fits
    <3>2. CASE f # c
      <4>1. d.addr[f] = db.addr[f]
        BY <2>2, <3>2 DEF Pod
      <4> QED  BY <2>1, <2>2, <2>3, <3>2, <4>1, AddFacts DEF AllFit, Fits
    <3> QED  BY <3>1, <3>2
  <2>6. AllFit(d, dev, on, phase)
    BY <2>1, <2>2, <2>5, AddFacts DEF AllFit
  <2>7. To("route").pc = "route" /\ To("route").c = c /\ To("route").gw = call.gw
    BY ToStep DEF PC, AddPC, To, CallType
  <2>8. d.addr[c] # None
    BY <2>1, <2>2
  <2>9. Does(To("route"), d, dev, on, phase)
    BY <2>1, <2>2, <2>3, <2>4, <2>7, <2>8, AddFacts
       DEF Does, Adds, Begins, InitPC, AddPC, DelPC
  <2> QED  BY <2>1, <2>6, <2>7, <2>9, WriteLife
<1>15. CASE AddRoute
  <2>1. CASE /\ call.gw /\ IsExist(c)
             /\ Write("route", [db EXCEPT !.route = @ \cup {c}], To("return"))
    <3> DEFINE d == [db EXCEPT !.route = @ \cup {c}]
    <3>1. call.pc = "route" /\ call.pc \in AddPC
      BY <2>1 DEF Write, AddPC
    <3>2. /\ d.nics = db.nics /\ d.used = db.used /\ d.subnet = db.subnet
          /\ d.podKey = db.podKey /\ d.pods = db.pods /\ d.netns = db.netns
          /\ d.addr = db.addr /\ d \in DbType
      BY <3>1, AddFacts DEF DbType
    <3>3. Write("route", d, To("return"))
      BY <2>1
    <3> HIDE DEF d
    <3>4. BridgeUp(d, dev) /\ dev[c] = "ns" /\ d.addr[c] # None
      BY <2>1, <3>1, <3>2, AddFacts DEF Adds, BridgeUp, IsExist
    <3>5. AllFit(d, dev, on, phase)
      BY <3>1, <3>2, <3>4, AddFacts, KeptFits
    <3> QED  BY <3>3, <3>4, <3>5, ToReturn, WriteLife
  <2>2. CASE call.pc = "route" /\ Throw /\ UNCHANGED <<db, kernel>>
    BY <1>6, <2>2, AddFacts DEF AddPC, kernel
  <2> QED  BY <1>15, <2>1, <2>2 DEF AddRoute
<1> QED
  BY <1>2, <1>3, <1>4, <1>5, <1>8, <1>9, <1>10, <1>11, <1>12, <1>13, <1>14, <1>15
     DEF AddPod, ConfigPodNetwork

-----------------------------------------------------------------------------
(* DEL.                                                                     *)

\* A call moves with what it concluded from storage as well.
LEMMA ToCarries ==
    ASSUME call \in CallType, NEW pc \in PC \ {"return"}
    PROVE  /\ To(pc).nic = call.nic /\ To(pc).last = call.last
           /\ To(pc).root = call.root /\ To(pc).gw = call.gw
BY DEF CallType, To

LEMMA NextNicCarries ==
    ASSUME call \in CallType, NEW rest \in SUBSET Nic
    PROVE  NextNic(rest).c = call.c
<1>1. CASE rest = {}
  BY <1>1, ToStep DEF NextNic, PC, DelPC
<1>2. CASE rest # {}
  BY <1>2 DEF NextNic, CallType
<1> QED  BY <1>1, <1>2

\* What is known of a DEL.
LEMMA DelFacts ==
    ASSUME IInv, Life, call.pc \in DelPC
    PROVE  /\ call.c \in Container /\ call.c \in Pod /\ call.c # HOST
           /\ AllFit(db, dev, on, phase) /\ Fits(call.c, db, dev, on, phase)
           /\ IsFiniteSet(db.pods)
           /\ Deletes(call, db, dev, on, phase) /\ phase[call.c] = "gone"
BY Parts, CniAssumption DEF Life, AllFit, Does, Deletes, Pod

\* When no interface of a container is stored, the records of the root namespace
\* and its device may change at will.
LEMMA NoneFits ==
    ASSUME NEW e, NEW v, NEW o, NEW h, AllFit(e, v, o, h),
           \A c \in Container : e.nics[c] = {},
           NEW d, \A c \in Container : d.nics[c] = {} /\ d.addr[c] = e.addr[c],
           d.used = e.used \/ \A c \in Container : ~ LeftIn(c, v, h) => o[c] = {},
           IsFiniteSet(d.pods),
           NEW w, NEW u, \A c \in Container : w[c] = v[c] /\ u[c] = o[c]
    PROVE  AllFit(d, w, u, h)
<1>1. \A c \in Container : LeftIn(c, w, h) <=> LeftIn(c, v, h)
  BY DEF LeftIn
<1>2. ASSUME NEW c \in Container PROVE Fits(c, d, w, u, h)
  BY <1>1 DEF AllFit, Fits
<1>3. Differ(w, u, h)
  BY <1>1 DEF AllFit, Differ
<1> QED  BY <1>2, <1>3 DEF AllFit

\* Nobody has an address then but those that a DEL has left.
LEMMA NoneOn ==
    ASSUME dev \in [Pod -> Place], AllFit(db, dev, on, phase),
           \A c \in Container : db.nics[c] = {},
           NEW c \in Container, ~ LeftIn(c, dev, phase)
    PROVE  on[c] = {}
<1>1. dev[c] \in Place
  BY DEF Pod
<1> QED  BY <1>1 DEF AllFit, Fits, LeftIn, Place

\* The records of a container whose interface is gone may go.
LEMMA TakenFits ==
    ASSUME NEW c \in Container, NEW e, NEW v, NEW o, NEW h, AllFit(e, v, o, h),
           h[c] = "gone", v[c] # "ns",
           NEW d, d.nics[c] = {}, d.addr[c] = None,
           \A p \in Pod : p # c =>
              /\ d.nics[p] = e.nics[p] /\ d.addr[p] = e.addr[p]
              /\ p \in e.pods => p \in d.pods
              /\ p \in e.podKey => p \in d.podKey
              /\ p \in e.netns => p \in d.netns,
           IsFiniteSet(d.pods), d.used = e.used, d.subnet = e.subnet
    PROVE  AllFit(d, v, o, h)
<1>1. HOST \in Pod /\ HOST # c /\ \A f \in Container : f \in Pod
  BY CniAssumption DEF Pod
<1>2. BridgeUp(e, v) => BridgeUp(d, v)
  BY <1>1 DEF BridgeUp
<1>3. ASSUME NEW f \in Container PROVE Fits(f, d, v, o, h)
  <2>1. CASE f = c
    BY <2>1 DEF AllFit, Fits
  <2>2. CASE f # c
    <3>1. /\ d.nics[f] = e.nics[f] /\ d.addr[f] = e.addr[f]
          /\ f \in e.pods => f \in d.pods
          /\ f \in e.podKey => f \in d.podKey
          /\ f \in e.netns => f \in d.netns
      BY <1>1, <2>2
    <3> QED  BY <1>2, <3>1 DEF AllFit, Fits
  <2> QED  BY <2>1, <2>2
<1> QED  BY <1>3 DEF AllFit

\* Where a DEL that has deleted a pod goes on, it has what it needs.
LEMMA AfterPodDoes ==
    ASSUME IInv, Life, call.pc \in {"delNetns", "delPodList"}, NEW e,
           \A c \in Container : e.nics[c] = db.nics[c]
    PROVE  AfterPod.pc = "return" \/ Does(AfterPod, e, dev, on, phase)
<1> USE Parts
<1>1. call.pc \in DelPC
  BY DEF DelPC
<1>2. CASE call.pod = HOST
  <2>1. AfterPod = To("releaseSubnet")
    BY <1>2 DEF AfterPod
  <2>2. "releaseSubnet" \in PC \ {"return"}
    BY DEF PC, DelPC
  <2>3. /\ AfterPod.pc = "releaseSubnet" /\ AfterPod.c = call.c /\ AfterPod.pod = HOST
    BY <1>2, <2>1, <2>2, ToStep
  <2> QED  BY <1>1, <1>2, <2>3, DelFacts DEF Does, Deletes, InitPC, AddPC, DelPC
<1>3. CASE call.pod # HOST /\ call.last /\ call.root
  <2> DEFINE k == NextNic(db.nics[HOST])
             k2 == [k EXCEPT !.pod = HOST, !.addr = call.bridge]
  <2>1. db.nics[HOST] \in SUBSET Nic
    BY DEF DbType, Pod
  <2>2. k \in CallType /\ k.pc \in {"cleanup", "delNetns"} /\ k.c = call.c
    BY <2>1, NextNicType, NextNicCarries
  <2>3. AfterPod = k2
    BY <1>3 DEF AfterPod
  <2> HIDE DEF k
  <2>4. k2.pc = k.pc /\ k2.pod = HOST /\ k2.c = call.c
    BY <2>2 DEF CallType
  <2> HIDE DEF k2
  <2>5. ASSUME NEW f \in Container PROVE db.nics[f] = {}
    <3>1. CASE f = call.c
      BY <1>1, <1>3, <3>1, DelFacts DEF Deletes, Shape, Fits
    <3>2. CASE f # call.c
      BY <1>1, <1>3, <3>2, DelFacts DEF Deletes, AllFit, Fits
    <3> QED  BY <3>1, <3>2
  <2> QED
    BY <1>1, <2>2, <2>3, <2>4, <2>5, DelFacts DEF Does, Deletes, InitPC, AddPC, DelPC
<1>4. CASE call.pod # HOST /\ ~ (call.last /\ call.root)
  BY <1>4, ToReturn DEF AfterPod
<1> QED  BY <1>2, <1>3, <1>4

LEMMA CleanupWorks ==
    ASSUME ~ Fault("delFail"), Cleanup
    PROVE  LET gone(p) == p = call.pod /\ call.nic = Main(p) /\ Placed(p)
           IN  /\ dev' = [p \in Pod |-> IF gone(p) THEN "none" ELSE dev[p]]
               /\ on' = [p \in Pod |-> IF gone(p) THEN {} ELSE on[p]]
               /\ UNCHANGED faults
BY DEF Cleanup

LEMMA DelPodLife == IInv /\ Life /\ DelPod /\ ~ Fault("delFail") => Life'
<1> SUFFICES ASSUME ~ Fault("delFail"), IInv, Life, DelPod PROVE Life'
  OBVIOUS
<1> USE Parts, CniAssumption
<1> DEFINE c == call.c
\* A write of the root namespace.
<1>1. ASSUME call.pod = HOST, NEW here \in DelPC, NEW d, NEW next,
             Write(here, d, next) \/ WriteAnyway(here, d, next),
             \A f \in Container : d.nics[f] = db.nics[f] /\ d.addr[f] = db.addr[f],
             IsFiniteSet(d.pods),
             next.pc \in {"return"} \cup DelPC, next.c = c, next.pod = HOST
      PROVE  Life'
  <2>1. call.pc = here /\ call.pc \in DelPC
    BY <1>1 DEF Write, WriteAnyway
  <2>2. \A f \in Container : db.nics[f] = {} /\ d.nics[f] = {}
    BY <1>1, <2>1, DelFacts DEF Deletes
  <2>3. \A f \in Container : ~ LeftIn(f, dev, phase) => on[f] = {}
    BY <2>1, <2>2, DelFacts, NoneOn
  <2>4. AllFit(d, dev, on, phase)
    BY <1>1, <2>1, <2>2, <2>3, DelFacts, NoneFits
  <2>5. next.pc # "return" => Does(next, d, dev, on, phase) /\ Does(next, db, dev, on, phase)
    BY <1>1, <2>1, <2>2, DelFacts DEF Does, Deletes, InitPC, AddPC, DelPC
  <2> QED  BY <1>1, <2>1, <2>4, <2>5, DelFacts, WriteLife
\* A write of the container.
<1>2. ASSUME call.pod = c, NEW here \in DelPC, NEW d, NEW next, Write(here, d, next),
             AllFit(d, dev, on, phase),
             next.pc = "return" \/ Does(next, d, dev, on, phase)
      PROVE  Life'
  <2>1. phase[c] = "gone"
    BY <1>2, DelFacts DEF Write
  <2> QED  BY <1>2, <2>1, WriteLife
<1>3. ASSUME call.pc \in DelPC
      PROVE  /\ call.pod = HOST \/ (call.pod = c /\ c # HOST)
             /\ c \in Container /\ c \in Pod
  BY <1>3, DelFacts DEF Deletes
\* A step there of a DEL that is not finished with its container.
<1>4. ASSUME call.pc \in DelPC, call.pod = c, NEW k, NEW e, NEW v, NEW o,
             k.c = c, k.pod = c, k.nic = call.nic, k.last = call.last, k.root = call.root,
             k.pc \in DelPC \ {"releaseSubnet"}, e.pods \subseteq db.pods,
             k.pc \in {"cleanup", "releaseIp"} => Spare(k.addr, c, v, o, phase),
             k.pc # "cleanup" => v[c] # "ns",
             k.pc \in {"delRoute", "delNic"} => e.addr[c] = None,
             k.pc \in {"delVtep", "delNetns", "delPodKey", "delPodList"} => e.nics[c] = {}
      PROVE  Does(k, e, v, o, phase)
  BY <1>3, <1>4, DelFacts DEF Does, Deletes, InitPC, AddPC, DelPC
<1>5. ASSUME NEW pc \in DelPC
      PROVE  /\ To(pc).pc = pc /\ To(pc).c = c /\ To(pc).pod = call.pod
             /\ To(pc).nic = call.nic /\ To(pc).last = call.last
             /\ To(pc).root = call.root /\ To(pc).addr = call.addr
  <2>1. pc \in PC \ {"return"}
    BY DEF PC, DelPC
  <2> QED  BY <2>1, ToStep, ToCarries
<1>6. CASE Cleanup
  <2>1. call.pc = "cleanup" /\ call.pc \in DelPC /\ UNCHANGED <<db, phase>>
    BY <1>6 DEF Cleanup, DelPC
  <2>2. CASE call.pod = HOST
    <3>1. \A f \in Container : db.nics[f] = {}
      BY <2>1, <2>2, DelFacts DEF Deletes
    <3>2. \A f \in Container : dev'[f] = dev[f] /\ on'[f] = on[f]
      BY <1>6, <2>2, CleanupWorks DEF Pod
    <3>3. AllFit(db, dev', on', phase)
      BY <2>1, <3>1, <3>2, DelFacts, NoneFits
    <3>4. call'.pc \in DelPC /\ call'.pod = HOST /\ call'.c = c
      BY <1>5, <1>6, <2>2 DEF Cleanup, DelPC
    <3>5. Does(call', db, dev', on', phase)
      BY <2>1, <3>1, <3>4, DelFacts DEF Does, Deletes, InitPC, AddPC, DelPC
    <3> QED  BY <2>1, <3>3, <3>5 DEF Life
  <2>3. CASE call.pod = c
    <3>1. call.nic = "eth0" /\ Main(c) = "eth0" /\ Spare(call.addr, c, dev, on, phase)
      BY <2>1, <2>3, DelFacts DEF Deletes, Main
    <3>2. call' = To("releaseIp")
      BY <1>6, <2>3, <3>1 DEF Cleanup
    <3>3. /\ \A p \in Pod : p # c => dev'[p] = dev[p] /\ on'[p] = on[p]
          /\ \/ dev[c] = "ns" /\ dev'[c] = "none" /\ on'[c] = {}
             \/ dev[c] # "ns" /\ dev' = dev /\ on' = on
      <4>1. Placed(c) <=> dev[c] = "ns"
        BY <2>1, DelFacts DEF Placed
      <4>2. dev' = [p \in Pod |-> IF p = c /\ dev[c] = "ns" THEN "none" ELSE dev[p]]
        BY <1>6, <2>3, <3>1, <4>1, CleanupWorks
      <4>3. on' = [p \in Pod |-> IF p = c /\ dev[c] = "ns" THEN {} ELSE on[p]]
        BY <1>6, <2>3, <3>1, <4>1, CleanupWorks
      <4> QED  BY <1>3, <2>1, <4>2, <4>3
    <3>4. AllFit(db, dev', on', phase)
      <4>1. CASE dev[c] = "ns"
        <5>1. Fits(c, db, dev', on', phase) /\ ~ LeftIn(c, dev', phase)
          BY <2>1, <3>3, <4>1, DelFacts DEF Fits, LeftIn
        <5> QED  BY <2>1, <3>3, <4>1, <5>1, DelFacts, OneDeviceFits
      <4>2. CASE dev[c] # "ns"
        BY <2>1, <3>3, <4>2, DelFacts
      <4> QED  BY <4>1, <4>2
    <3>5. Spare(call.addr, c, dev', on', phase) /\ dev'[c] # "ns"
      BY <3>1, <3>3 DEF Spare, LeftIn, Pod
    <3>6. Does(call', db, dev', on', phase)
      BY <1>4, <1>5, <2>1, <2>3, <3>2, <3>5 DEF DelPC
    <3> QED  BY <2>1, <3>4, <3>6 DEF Life
  <2> QED  BY <1>3, <2>1, <2>2, <2>3
<1>7. CASE ReleaseIp
  <2> DEFINE d == [db EXCEPT !.used = @ \ {call.addr}]
  <2>1. call.pc = "releaseIp" /\ call.pc \in DelPC
    BY <1>7 DEF ReleaseIp, WriteAnyway, DelPC
  <2>2. /\ d.nics = db.nics /\ d.addr = db.addr /\ d.pods = db.pods
        /\ d.podKey = db.podKey /\ d.netns = db.netns /\ d.subnet = db.subnet
        /\ d.used = db.used \ {call.addr}
    BY DEF DbType
  <2>3. WriteAnyway("releaseIp", d, To("delAddr"))
    BY <1>7 DEF ReleaseIp
  <2> HIDE DEF d
  <2>4. CASE call.pod = HOST
    BY <1>1, <1>5, <2>1, <2>2, <2>3, <2>4, DelFacts DEF DelPC
  <2>5. CASE call.pod = c
    <3>1. Spare(call.addr, c, dev, on, phase) /\ dev[c] # "ns" /\ phase[c] = "gone"
      BY <2>1, <2>5, DelFacts DEF Deletes
    <3>2. BridgeUp(db, dev) => BridgeUp(d, dev)
      BY <2>2 DEF BridgeUp
    <3>3. ASSUME NEW f \in Container PROVE Fits(f, d, dev, on, phase)
      <4>1. CASE f = c
        <5>1. dev[c] \in Place
          BY <1>3, <2>1
        <5> QED  BY <2>1, <2>2, <3>1, <4>1, <5>1, DelFacts DEF Fits, LeftIn, Place
      <4>2. CASE f # c
        <5>1. ~ LeftIn(f, dev, phase) => on[f] \subseteq db.used /\ call.addr \notin on[f]
          BY <2>1, <3>1, <4>2, DelFacts DEF AllFit, Fits, Spare
        <5> QED  BY <2>1, <2>2, <3>2, <5>1, DelFacts DEF AllFit, Fits
      <4> QED  BY <4>1, <4>2
    <3>4. AllFit(d, dev, on, phase)
      BY <2>1, <2>2, <3>3, DelFacts DEF AllFit
    <3>5. ASSUME NEW e \in {d, db} PROVE Does(To("delAddr"), e, dev, on, phase)
      <4>1. e.pods = db.pods
        BY <2>2, <3>5
      <4> QED  BY <1>4, <1>5, <2>1, <2>5, <3>1, <4>1 DEF DelPC
    <3> QED  BY <1>5, <2>3, <3>1, <3>4, <3>5, WriteLife DEF DelPC
  <2> QED  BY <1>3, <2>1, <2>4, <2>5
<1>8. CASE DelAddr
  <2> DEFINE d == [db EXCEPT !.addr[call.pod] = None]
  <2>1. call.pc = "delAddr" /\ call.pc \in DelPC /\ Write("delAddr", d, To("delRoute"))
    BY <1>8 DEF DelAddr, Write, DelPC
  <2>2. /\ d.nics = db.nics /\ d.used = db.used /\ d.pods = db.pods
        /\ d.podKey = db.podKey /\ d.netns = db.netns /\ d.subnet = db.subnet
        /\ d.addr[call.pod] = None
        /\ \A p \in Pod : p # call.pod => d.addr[p] = db.addr[p]
    BY <1>3, <2>1 DEF DbType, Pod
  <2> HIDE DEF d
  <2>3. CASE call.pod = HOST
    BY <1>1, <1>5, <2>1, <2>2, <2>3, DelFacts DEF DelPC, Pod
  <2>4. CASE call.pod = c
    <3>1. dev[c] # "ns" /\ phase[c] = "gone"
      BY <2>1, <2>4, DelFacts DEF Deletes
    <3>2. BridgeUp(db, dev) => BridgeUp(d, dev)
      BY <1>3, <2>1, <2>2, <2>4, DelFacts DEF BridgeUp, Pod
    <3>3. ASSUME NEW f \in Container PROVE Fits(f, d, dev, on, phase)
      <4>1. CASE f = c
        BY <2>1, <2>2, <2>4, <3>1, <4>1, DelFacts DEF Fits
      <4>2. CASE f # c
        <5>1. d.addr[f] = db.addr[f]
          BY <2>2, <2>4, <4>2 DEF Pod
        <5> QED  BY <2>1, <2>2, <3>2, <5>1, DelFacts DEF AllFit, Fits
      <4> QED  BY <4>1, <4>2
    <3>4. AllFit(d, dev, on, phase)
      BY <2>1, <2>2, <3>3, DelFacts DEF AllFit
    <3>5. Does(To("delRoute"), d, dev, on, phase)
      BY <1>4, <1>5, <2>1, <2>2, <2>4, <3>1 DEF DelPC
    <3> QED  BY <1>2, <2>1, <2>4, <3>4, <3>5
  <2> QED  BY <1>3, <2>1, <2>3, <2>4
<1>9. CASE DelRoute
  <2> DEFINE d == [db EXCEPT !.route = @ \ {call.pod}]
  <2>1. call.pc = "delRoute" /\ call.pc \in DelPC /\ Write("delRoute", d, To("delNic"))
    BY <1>9 DEF DelRoute, Write, DelPC
  <2>2. /\ d.nics = db.nics /\ d.used = db.used /\ d.pods = db.pods /\ d.addr = db.addr
        /\ d.podKey = db.podKey /\ d.netns = db.netns /\ d.subnet = db.subnet
        /\ d \in DbType
    BY DEF DbType
  <2> HIDE DEF d
  <2>3. CASE call.pod = HOST
    BY <1>1, <1>5, <2>1, <2>2, <2>3, DelFacts DEF DelPC
  <2>4. CASE call.pod = c
    <3>1. dev[c] # "ns" /\ db.addr[c] = None
      BY <2>1, <2>4, DelFacts DEF Deletes
    <3>2. AllFit(d, dev, on, phase)
      BY <2>1, <2>2, DelFacts, KeptFits DEF BridgeUp
    <3>3. Does(To("delNic"), d, dev, on, phase)
      BY <1>4, <1>5, <2>1, <2>2, <2>4, <3>1 DEF DelPC
    <3> QED  BY <1>2, <2>1, <2>4, <3>2, <3>3
  <2> QED  BY <1>3, <2>1, <2>3, <2>4
<1>10. CASE DelNic
  <2> DEFINE rest == db.nics[call.pod] \ {call.nic}
             d == [db EXCEPT !.nics[call.pod] = rest]
  <2>1. /\ call.pc = "delNic" /\ call.pc \in DelPC
        /\ Write("delNic", d, AfterNic(rest))
    BY <1>10 DEF DelNic, Write, DelPC
  <2>2. /\ d.addr = db.addr /\ d.used = db.used /\ d.pods = db.pods
        /\ d.podKey = db.podKey /\ d.netns = db.netns /\ d.subnet = db.subnet
        /\ d.nics[call.pod] = rest
        /\ \A p \in Pod : p # call.pod => d.nics[p] = db.nics[p]
        /\ rest \in SUBSET Nic
    BY <1>3, <2>1 DEF DbType, Pod
  <2> HIDE DEF d, rest
  <2>3. CASE call.pod = HOST
    <3>1. /\ AfterNic(rest).pc \in DelPC /\ AfterNic(rest).c = c
          /\ AfterNic(rest).pod = HOST
      <4>1. CASE Vxlan
        BY <1>5, <2>3, <4>1 DEF AfterNic, DelPC
      <4>2. CASE ~ Vxlan
        BY <2>2, <2>3, <4>2, NextNicType, NextNicCarries DEF AfterNic, DelPC
      <4> QED  BY <4>1, <4>2
    <3>2. \A f \in Container : d.nics[f] = db.nics[f] /\ d.addr[f] = db.addr[f]
      BY <2>2, <2>3 DEF Pod
    <3> QED  BY <1>1, <2>1, <2>2, <2>3, <3>1, <3>2, DelFacts
  <2>4. CASE call.pod = c
    <3>1. dev[c] # "ns" /\ phase[c] = "gone" /\ db.addr[c] = None /\ rest = {}
      BY <2>1, <2>4, DelFacts DEF Deletes, Fits, rest
    <3>2. AllFit(d, dev, on, phase)
      BY <2>1, <2>2, <2>4, <3>1, DelFacts, TakenFits
    <3>3. AfterNic(rest) = To("delVtep") \/ AfterNic(rest) = To("delNetns")
      BY <3>1 DEF AfterNic, NextNic
    <3>4. Does(AfterNic(rest), d, dev, on, phase)
      BY <1>4, <1>5, <2>1, <2>2, <2>4, <3>1, <3>3 DEF DelPC
    <3> QED  BY <1>2, <2>1, <2>4, <3>2, <3>4
  <2> QED  BY <1>3, <2>1, <2>3, <2>4
<1>11. CASE DelVtep
  <2> DEFINE d == [db EXCEPT !.vtep = FALSE]
             rest == db.nics[call.pod]
  <2>1. /\ call.pc = "delVtep" /\ call.pc \in DelPC
        /\ Write("delVtep", d, NextNic(rest))
    BY <1>11 DEF DelVtep, Write, DelPC
  <2>2. /\ d.nics = db.nics /\ d.used = db.used /\ d.pods = db.pods /\ d.addr = db.addr
        /\ d.podKey = db.podKey /\ d.netns = db.netns /\ d.subnet = db.subnet
        /\ d \in DbType /\ rest \in SUBSET Nic
    BY <1>3, <2>1 DEF DbType, Pod
  <2> HIDE DEF d, rest
  <2>3. CASE call.pod = HOST
    <3>1. /\ NextNic(rest).pc \in DelPC /\ NextNic(rest).c = c
          /\ NextNic(rest).pod = HOST
      BY <2>2, <2>3, NextNicType, NextNicCarries DEF DelPC
    <3> QED  BY <1>1, <2>1, <2>2, <2>3, <3>1, DelFacts
  <2>4. CASE call.pod = c
    <3>1. dev[c] # "ns" /\ rest = {} /\ db.nics[c] = {}
      BY <2>1, <2>4, DelFacts DEF Deletes, rest
    <3>2. AllFit(d, dev, on, phase)
      BY <2>1, <2>2, DelFacts, KeptFits DEF BridgeUp
    <3>3. NextNic(rest) = To("delNetns")
      BY <3>1 DEF NextNic
    <3>4. Does(NextNic(rest), d, dev, on, phase)
      BY <1>4, <1>5, <2>1, <2>2, <2>4, <3>1, <3>3 DEF DelPC
    <3> QED  BY <1>2, <2>1, <2>4, <3>2, <3>4
  <2> QED  BY <1>3, <2>1, <2>3, <2>4
\* The records of the pod, and where DEL goes on.
<1>12. ASSUME NEW here \in {"delNetns", "delPodKey", "delPodList"}, NEW d, NEW next,
              Write(here, d, next),
              d.nics = db.nics, d.addr = db.addr, d.used = db.used, d.subnet = db.subnet,
              \A p \in Pod : p # call.pod =>
                 /\ p \in db.pods => p \in d.pods
                 /\ p \in db.podKey => p \in d.podKey
                 /\ p \in db.netns => p \in d.netns,
              d.pods \in {db.pods, db.pods \ {call.pod}},
              \/ next = AfterPod /\ here # "delPodKey"
              \/ /\ next.pc \in {"delPodKey", "delPodList"}
                 /\ next.c = c /\ next.pod = call.pod /\ next.nic = call.nic
                 /\ next.last = call.last /\ next.root = call.root
       PROVE  Life'
  <2>1. call.pc = here /\ call.pc \in DelPC
    BY <1>12 DEF Write, DelPC
  <2>2. IsFiniteSet(d.pods) /\ d.pods \subseteq db.pods
    <3>1. IsFiniteSet(db.pods)
      BY <2>1, DelFacts
    <3>2. d.pods \subseteq db.pods
      BY <1>12
    <3> QED  BY <3>1, <3>2, FS_Subset
  <2>3. next = AfterPod => next.pc = "return" \/ Does(next, d, dev, on, phase)
    <3>1. CASE next = AfterPod /\ here # "delPodKey"
      BY <1>12, <2>1, <3>1, AfterPodDoes
    <3>2. CASE next.pc \in {"delPodKey", "delPodList"} /\ next = AfterPod
      <4>1. AfterPod.pc \in {"return", "releaseSubnet", "cleanup", "delNetns"}
        <5>1. db.nics[HOST] \in SUBSET Nic
          BY DEF DbType, Pod
        <5>2. NextNic(db.nics[HOST]) \in CallType
              /\ NextNic(db.nics[HOST]).pc \in {"cleanup", "delNetns"}
          BY <5>1, NextNicType
        <5>3. [NextNic(db.nics[HOST]) EXCEPT !.pod = HOST, !.addr = db.addr[HOST]].pc
                 = NextNic(db.nics[HOST]).pc
          BY <5>2 DEF CallType
        <5> QED  BY <1>5, <5>2, <5>3, ToReturn DEF AfterPod, DelPC
      <4> QED  BY <3>2, <4>1
    <3> QED  BY <1>12, <3>1, <3>2
  <2>4. CASE call.pod = HOST
    <3>1. \A f \in Container : db.nics[f] = {} /\ d.nics[f] = {}
      BY <1>12, <2>1, <2>4, DelFacts DEF Deletes
    <3>2. AllFit(d, dev, on, phase)
      BY <1>12, <2>1, <2>2, <3>1, DelFacts, NoneFits
    <3>3. next.pc = "return" \/ Does(next, d, dev, on, phase)
      <4>1. CASE next # AfterPod
        BY <1>12, <2>1, <2>4, <3>1, <4>1, DelFacts DEF Does, Deletes, InitPC, AddPC, DelPC
      <4> QED  BY <2>3, <4>1
    <3> QED  BY <1>12, <2>1, <3>2, <3>3, DelFacts, WriteLife
  <2>5. CASE call.pod = c
    <3>1. dev[c] # "ns" /\ phase[c] = "gone" /\ db.nics[c] = {} /\ db.addr[c] = None
      BY <1>12, <2>1, <2>5, DelFacts DEF Deletes, Fits
    <3>2. AllFit(d, dev, on, phase)
      BY <1>12, <2>1, <2>2, <2>5, <3>1, DelFacts, TakenFits
    <3>3. next.pc = "return" \/ Does(next, d, dev, on, phase)
      <4>1. CASE next # AfterPod
        BY <1>4, <1>12, <2>1, <2>2, <2>5, <3>1, <4>1 DEF DelPC
      <4> QED  BY <2>3, <4>1
    <3> QED  BY <1>2, <1>12, <2>1, <2>5, <3>2, <3>3
  <2> QED  BY <1>3, <2>1, <2>4, <2>5
<1>13. CASE DelNetns
  <2> DEFINE d == [db EXCEPT !.netns = @ \ {call.pod}]
             next == IF call.pod \in db.netns THEN To("delPodKey") ELSE AfterPod
  <2>1. Write("delNetns", d, next)
    BY <1>13 DEF DelNetns, GetNetns
  <2>2. /\ d.nics = db.nics /\ d.used = db.used /\ d.pods = db.pods /\ d.addr = db.addr
        /\ d.podKey = db.podKey /\ d.netns = db.netns \ {call.pod} /\ d.subnet = db.subnet
    BY DEF DbType
  <2>3. next = To("delPodKey") \/ next = AfterPod
    OBVIOUS
  <2> HIDE DEF d, next
  <2> QED  BY <1>5, <1>12, <2>1, <2>2, <2>3 DEF DelPC
<1>14. CASE DelPodKey
  <2> DEFINE d == [db EXCEPT !.podKey = @ \ {call.pod}]
             next == [call EXCEPT !.pc = "delPodList", !.found = call.pod \in db.podKey]
  <2>1. Write("delPodKey", d, next)
    BY <1>14 DEF DelPodKey
  <2>2. /\ d.nics = db.nics /\ d.used = db.used /\ d.pods = db.pods /\ d.addr = db.addr
        /\ d.netns = db.netns /\ d.podKey = db.podKey \ {call.pod} /\ d.subnet = db.subnet
    BY DEF DbType
  <2>3. /\ next.pc = "delPodList" /\ next.c = c /\ next.pod = call.pod
        /\ next.nic = call.nic /\ next.last = call.last /\ next.root = call.root
    BY DEF CallType
  <2> HIDE DEF d, next
  <2> QED  BY <1>12, <2>1, <2>2, <2>3
<1>15. CASE DelPodList
  <2> DEFINE d == [db EXCEPT !.pods = IF call.found THEN @ \ {call.pod} ELSE @]
  <2>1. Write("delPodList", d, AfterPod)
    BY <1>15 DEF DelPodList
  <2>2. /\ d.nics = db.nics /\ d.used = db.used /\ d.addr = db.addr
        /\ d.netns = db.netns /\ d.podKey = db.podKey /\ d.subnet = db.subnet
        /\ d.pods \in {db.pods, db.pods \ {call.pod}}
    BY DEF DbType
  <2> HIDE DEF d
  <2> QED  BY <1>12, <2>1, <2>2
<1>16. CASE ReleaseSubnet
  <2> DEFINE d == [db EXCEPT !.subnet = FALSE]
  <2>1. /\ call.pc = "releaseSubnet" /\ call.pc \in DelPC
        /\ WriteAnyway("releaseSubnet", d, To("return"))
    BY <1>16 DEF ReleaseSubnet, WriteAnyway, DelPC
  <2>2. d.nics = db.nics /\ d.addr = db.addr /\ d.pods = db.pods
    BY DEF DbType
  <2>3. call.pod = HOST
    BY <2>1, DelFacts DEF Deletes
  <2>4. To("return").pc = "return" /\ To("return").c = c /\ To("return").pod = HOST
    BY <2>3 DEF To, CallType
  <2> HIDE DEF d
  <2> QED  BY <1>1, <2>1, <2>2, <2>3, <2>4, DelFacts
<1> QED
  BY <1>6, <1>7, <1>8, <1>9, <1>10, <1>11, <1>13, <1>14, <1>15, <1>16
     DEF DelPod, DelKubernetesNic, DelKubernetesPod

-----------------------------------------------------------------------------
(* The first step of a call, and the environment.                           *)

\* Restoring gives no container an address it did not have; and where the process
\* finds bridge and gateway in storage, the bridge is there when it has restored it.
LEMMA RestoreFits ==
    ASSUME IInv, Life, NEW lost, Restore(lost)
    PROVE  /\ \A c \in Container : dev'[c] = dev[c] /\ on'[c] = on[c]
           /\ AllFit(db, dev', on', phase)
           /\ KnowsGateway => BridgeUp(db, dev')
<1> USE Parts, CniAssumption
<1>1. AllFit(db, dev, on, phase)
  BY DEF Life
<1>2. ASSUME NEW c \in Container PROVE dev'[c] = dev[c] /\ on'[c] = on[c]
  <2>1. c \in Pod /\ c # HOST /\ Fits(c, db, dev, on, phase)
    BY <1>1 DEF Pod, AllFit
  <2>2. dev'[c] = dev[c]
    BY <2>1 DEF Restore
  <2>3. on'[c] = IF Stored(c) /\ dev[c] = "ns" /\ c # lost
                 THEN on[c] \cup ({db.addr[c]} \ {None})
                 ELSE on[c]
    BY <2>1 DEF Restore, Placed, SetEntry, GetAllAddrs
  <2>4. dev[c] = "ns" /\ db.addr[c] # None => on[c] = {db.addr[c]}
    BY <2>1 DEF Fits
  <2> QED  BY <2>2, <2>3, <2>4
<1>3. dev'[HOST] = IF Stored(HOST) THEN "root" ELSE dev[HOST]
  BY DEF Restore, Pod
<1>4. BridgeUp(db, dev) => BridgeUp(db, dev')
  BY <1>3 DEF BridgeUp
<1>5. KnowsGateway => BridgeUp(db, dev')
  BY <1>3 DEF KnowsGateway, BridgeUp, Stored
<1>6. AllFit(db, dev', on', phase)
  BY <1>1, <1>2, <1>4, HostDeviceFits
<1> QED  BY <1>2, <1>5, <1>6

\* A DEL has begun with container c.
LEMMA GoneFits ==
    ASSUME NEW e, NEW v, NEW o, NEW h \in PhaseType, AllFit(e, v, o, h),
           NEW c \in Container
    PROVE  AllFit(e, v, o, [h EXCEPT ![c] = "gone"])
<1> DEFINE h2 == [h EXCEPT ![c] = "gone"]
<1>1. h2[c] = "gone" /\ \A d \in Container : d # c => h2[d] = h[d]
  BY DEF PhaseType
<1> HIDE DEF h2
<1>2. \A d \in Container : LeftIn(d, v, h) => LeftIn(d, v, h2)
  BY <1>1 DEF LeftIn
<1>3. ASSUME NEW d \in Container PROVE Fits(d, e, v, o, h2)
  <2>1. Fits(d, e, v, o, h)
    BY DEF AllFit
  <2>2. CASE d = c
    BY <1>1, <1>2, <2>1, <2>2 DEF Fits
  <2>3. CASE d # c
    BY <1>1, <1>2, <2>1, <2>3 DEF Fits
  <2> QED  BY <2>2, <2>3
<1>4. Differ(v, o, h2)
  BY <1>2 DEF AllFit, Differ
<1>5. AllFit(e, v, o, h2)
  BY <1>3, <1>4 DEF AllFit
<1> QED  BY <1>5 DEF h2

\* A container whose interface is not stored has none.
LEMMA NothingStored ==
    ASSUME IInv, Life, NEW c \in Container, ~ Stored(c)
    PROVE  /\ db.nics[c] = {} /\ db.addr[c] = None /\ dev[c] # "ns"
           /\ phase[c] # "gone" => on[c] = {} /\ phase[c] # "added"
<1> USE Parts, CniAssumption
<1>1. c \in Pod /\ c # HOST /\ Fits(c, db, dev, on, phase) /\ dev[c] \in Place
  BY DEF Life, AllFit, Pod
<1>2. "eth0" \notin db.nics[c]
  BY <1>1 DEF Stored, Main, Fits
<1> QED  BY <1>1, <1>2 DEF Fits, Place

\* When the process counts one namespace besides that of c, and finds the root
\* namespace, no other container is stored.
LEMMA LastIsLast ==
    ASSUME IsFiniteSet(db.pods), NEW c, IsLast(c), HOST \in db.pods, c # HOST,
           NEW d \in Container, d # c
    PROVE  d \notin db.pods
<1> DEFINE S == db.pods \ {c}
<1>1. IsFiniteSet(S) /\ Cardinality(S) = 1 /\ HOST \in S
  BY FS_RemoveElement DEF IsLast
<1>2. PICK x : S = {x}
  BY <1>1, FS_Singleton
<1> QED  BY <1>1, <1>2, CniAssumption

LEMMA StartLife ==
    ASSUME IInv, Life, NEW c \in Container,
           StartAdd(c) \/ AddAgain(c) \/ StartDel(c) \/ NoPlugin(c)
    PROVE  Life'
<1> USE Parts, CniAssumption
<1>1. c \in Pod /\ c # HOST /\ Fits(c, db, dev, on, phase) /\ IsFiniteSet(db.pods)
  BY DEF Life, AllFit, Pod
<1>2. CASE StartAdd(c)
  <2> DEFINE root == ~ db.subnet \/ Stored(HOST)
             gw == ~ db.subnet \/ KnowsGateway
             first == IF db.subnet THEN "podKey" ELSE "subnet"
  <2>0. PICK lost : Restore(lost)
    BY <1>2 DEF StartAdd
  <2>1. UNCHANGED <<db, phase>> /\ ~ Stored(c) /\ phase[c] \in {"new", "failed", "added"}
    BY <1>2 DEF StartAdd, GetKubernetesNic
  <2>2. call' = [NoCall EXCEPT !.pc = first, !.c = c, !.root = root, !.gw = gw]
    BY <1>2 DEF StartAdd, GetKubernetesNic
  <2>3. call'.pc = first /\ call'.c = c /\ call'.gw = gw
    BY <2>2 DEF NoCall
  <2>4. phase[c] \in {"new", "failed"} /\ db.nics[c] = {} /\ on'[c] = {} /\ db.addr[c] = None
    BY <2>0, <2>1, NothingStored, RestoreFits
  <2>5. Begins(call', db, on', phase)
    BY <2>3, <2>4 DEF Begins
  <2>6. CASE db.subnet
    BY <2>0, <2>1, <2>3, <2>5, <2>6, RestoreFits DEF Does, Adds, Life, InitPC, AddPC, DelPC
  <2>7. CASE ~ db.subnet
    BY <2>0, <2>1, <2>3, <2>5, <2>7, RestoreFits DEF Does, Prepares, Life, InitPC, AddPC, DelPC
  <2> QED  BY <2>6, <2>7
<1>3. CASE AddAgain(c)
  <2>1. UNCHANGED <<db, call>> /\ call = NoCall /\ Stored(c) /\ phase[c] # "gone"
    BY <1>3 DEF AddAgain, GetKubernetesNic
  <2>0. PICK lost :
           /\ Restore(lost)
           /\ phase' = [phase EXCEPT ![c] =
                          IF GetAddr(c, lost) # None /\ IsExist(c) /\ KnowsGateway
                          THEN "added" ELSE "failed"]
    BY <1>3 DEF AddAgain
  <2>2. phase' \in PhaseType
    BY <2>0 DEF PhaseType
  <2>3. phase'[c] = "added" => dev[c] = "ns" /\ db.addr[c] # None /\ KnowsGateway
    BY <1>1, <2>0 DEF PhaseType, GetAddr, IsExist, Placed
  <2>4. \A d \in Container :
           /\ phase'[d] = "gone" <=> phase[d] = "gone"
           /\ phase'[d] = "added" => phase[d] = "added" \/ d = c
    BY <2>0, <2>1 DEF PhaseType
  <2>6. /\ AllFit(db, dev', on', phase)
        /\ dev'[c] = dev[c] /\ (KnowsGateway => BridgeUp(db, dev'))
    BY <2>0, RestoreFits
  <2>5. AllFit(db, dev', on', phase')
    BY <2>2, <2>3, <2>4, <2>6, PhaseFits
  <2> QED  BY <2>1, <2>5, NoCallDoes DEF Life
<1>4. CASE StartDel(c)
  <2>1. UNCHANGED db /\ phase' = [phase EXCEPT ![c] = "gone"] /\ call = NoCall
    BY <1>4 DEF StartDel
  <2> DEFINE begun(lost) ==
               [NoCall EXCEPT !.pc = IF Stored(c) THEN "cleanup" ELSE "delNetns",
                              !.c = c, !.pod = c,
                              !.addr = GetAddr(c, lost), !.bridge = GetAddr(HOST, lost),
                              !.root = GetKubernetesPod(HOST), !.last = IsLast(c)]
  <2>0. PICK lost : /\ Restore(lost)
                    /\ IF GetNode /\ GetKubernetesPod(c)
                       THEN call' = begun(lost) ELSE UNCHANGED call
    BY <1>4 DEF StartDel
  <2>2. AllFit(db, dev', on', phase')
    BY <2>0, <2>1, RestoreFits, GoneFits
  <2>3. CASE UNCHANGED call
    BY <2>1, <2>2, <2>3, NoCallDoes DEF Life
  <2>4. CASE db.subnet /\ c \in db.pods
    <3> DEFINE first == IF Stored(c) THEN "cleanup" ELSE "delNetns"
               addr == GetAddr(c, lost)
               root == HOST \in db.pods
               last == IsLast(c)
    <3>1. call' = [NoCall EXCEPT !.pc = first, !.c = c, !.pod = c, !.addr = addr,
                                 !.bridge = GetAddr(HOST, lost), !.root = root,
                                 !.last = last]
      BY <2>0, <2>4 DEF GetNode, GetKubernetesPod
    <3>2. /\ call'.pc = first /\ call'.c = c /\ call'.pod = c /\ call'.nic = "eth0"
          /\ call'.addr = addr /\ call'.root = root /\ call'.last = last
      BY <3>1 DEF NoCall
    <3>3. phase'[c] = "gone" /\ \A d \in Container : d # c => phase'[d] = phase[d]
      BY <2>1 DEF PhaseType
    <3>4. Spare(addr, c, dev', on', phase')
      <4>1. SUFFICES ASSUME NEW d \in Container, d # c, ~ LeftIn(d, dev', phase'),
                            addr \in on'[d]
                     PROVE  FALSE
        BY DEF Spare
      <4>2. on'[d] = on[d] /\ on[d] \subseteq Addr /\ on'[c] = on[c]
            /\ dev'[c] = dev[c]
        BY <2>0, RestoreFits DEF Pod
      <4>3. addr # None
        BY <4>1, <4>2
      <4>4. dev[c] = "ns" /\ addr = db.addr[c]
        BY <1>1, <4>3 DEF GetAddr, Placed
      <4>5. on'[c] = {addr} /\ ~ LeftIn(c, dev', phase')
        BY <1>1, <4>2, <4>3, <4>4 DEF Fits, LeftIn
      <4> QED  BY <2>2, <4>1, <4>5 DEF AllFit, Differ
    <3>5. first = "delNetns" => dev'[c] # "ns" /\ db.nics[c] = {}
      BY <2>0, NothingStored, RestoreFits
    <3>6. last /\ root => \A d \in Container : d # c => d \notin db.pods
      BY <1>1, LastIsLast
    <3> HIDE DEF addr, root, last
    <3>7. Deletes(call', db, dev', on', phase')
      BY <1>1, <3>2, <3>3, <3>4, <3>5, <3>6 DEF Deletes
    <3>8. Does(call', db, dev', on', phase')
      BY <3>2, <3>7 DEF Does, InitPC, AddPC, DelPC
    <3> QED  BY <2>1, <2>2, <3>8 DEF Life
  <2> QED  BY <2>0, <2>3, <2>4 DEF GetNode, GetKubernetesPod
<1>5. CASE NoPlugin(c)
  <2>1. UNCHANGED <<db, dev, on, call>> /\ call = NoCall /\ AllFit(db, dev, on, phase)
    BY <1>5 DEF NoPlugin, kernel, Life
  <2>2. CASE phase[c] # "gone" /\ phase' = [phase EXCEPT ![c] = "failed"]
    <3>1. phase' \in PhaseType
      BY <2>2 DEF PhaseType
    <3>2. \A d \in Container :
             /\ phase'[d] = "gone" <=> phase[d] = "gone"
             /\ phase'[d] = "added" => phase[d] = "added"
      BY <2>2 DEF PhaseType
    <3> QED  BY <2>1, <3>1, <3>2, PhaseFits, NoCallDoes DEF Life
  <2>3. CASE phase' = [phase EXCEPT ![c] = "gone"]
    BY <2>1, <2>3, GoneFits, NoCallDoes DEF Life
  <2> QED  BY <1>5, <2>2, <2>3 DEF NoPlugin
<1> QED  BY <1>2, <1>3, <1>4, <1>5

\* The namespace of a container is removed, whoever is at work.
LEMMA RemoveNsLife ==
    ASSUME IInv, Life, NEW c \in Container, RemoveNs(c)
    PROVE  Life'
<1> USE Parts, CniAssumption
<1>1. UNCHANGED <<db, call>> /\ AllFit(db, dev, on, phase) /\ c \in Pod
      /\ Fits(c, db, dev, on, phase)
  BY DEF RemoveNs, Life, AllFit, Pod
<1>2. phase' \in PhaseType
  BY DEF RemoveNs, PhaseType
<1>3. /\ phase'[c] # "added"
      /\ \A d \in Container :
           /\ phase'[d] = "gone" <=> phase[d] = "gone"
           /\ phase'[d] = "added" => phase[d] = "added"
           /\ phase[d] \in {"new", "failed"} => phase'[d] = phase[d]
  BY DEF RemoveNs, PhaseType
<1>4. AllFit(db, dev, on, phase')
  BY <1>1, <1>2, <1>3, PhaseFits
<1>5. /\ \A p \in Pod : p # c => dev'[p] = dev[p] /\ on'[p] = on[p]
      /\ on'[c] = {} /\ dev'[c] \in {"none", "root"}
      /\ dev'[c] = "root" => dev[c] = "root"
  <2>1. dev[c] \in Place
    BY <1>1
  <2> QED  BY <1>1, <2>1 DEF RemoveNs, Place
<1>6. Fits(c, db, dev', on', phase') /\ ~ LeftIn(c, dev', phase')
  BY <1>1, <1>3, <1>5 DEF Fits, LeftIn
<1>7. AllFit(db, dev', on', phase')
  BY <1>4, <1>5, <1>6, OneDeviceFits
<1>8. BridgeUp(db, dev) => BridgeUp(db, dev')
  BY <1>5 DEF BridgeUp, Pod
<1>9. ASSUME NEW a, NEW f, Spare(a, f, dev, on, phase)
      PROVE  Spare(a, f, dev', on', phase')
  <2>1. SUFFICES ASSUME NEW d \in Container, d # f, ~ LeftIn(d, dev', phase'), d # c
                 PROVE  a \notin on'[d]
    BY <1>5 DEF Spare
  <2>2. dev'[d] = dev[d] /\ on'[d] = on[d]
    BY <1>5, <2>1 DEF Pod
  <2> QED  BY <1>3, <1>9, <2>1, <2>2 DEF Spare, LeftIn
<1>10. ASSUME NEW f \in Container
       PROVE  /\ dev'[f] = "root" => dev[f] = "root"
              /\ dev'[f] = "ns" => dev[f] = "ns" /\ on'[f] = on[f]
              /\ on[f] = {} => on'[f] = {}
  BY <1>5 DEF Pod
<1>11. call.pc \in InitPC => Prepares(call, db, dev')
  BY <1>5 DEF Life, Does, Prepares, Pod
<1>12. call.pc \in AddPC => Adds(call, db, dev', on', phase')
  <2>1. SUFFICES ASSUME call.pc \in AddPC PROVE Adds(call, db, dev', on', phase')
    OBVIOUS
  <2> QED  BY <1>8, <1>9, <1>10, <2>1, AddFacts DEF Adds
<1>13. call.pc \in InitPC \cup AddPC => Begins(call, db, on', phase')
  BY <1>3, <1>10 DEF Life, Does, Begins, Shape
<1>14. call.pc \in DelPC => call.c \in Container /\ Deletes(call, db, dev', on', phase')
  BY <1>3, <1>9, <1>10 DEF Life, Does, Deletes
<1> QED  BY <1>1, <1>7, <1>11, <1>12, <1>13, <1>14 DEF Life, Does

LEMMA EnvironmentLife ==
    ASSUME IInv, Life, Crash \/ Reboot \/ \E c \in Container : RemoveNs(c)
    PROVE  Life'
<1> USE Parts
<1>1. AllFit(db, dev, on, phase)
  BY DEF Life
<1>2. CASE Crash
  <2>1. UNCHANGED <<db, dev, on>> /\ Throw
    BY <1>2 DEF Crash, kernel
  <2> QED  BY <1>1, <2>1, ThrowFits, NoCallDoes DEF Life
<1>3. CASE Reboot
  <2>1. UNCHANGED db /\ call' = NoCall
        /\ \A c \in Container : dev'[c] = "none" /\ on'[c] = {} /\ phase'[c] # "added"
    BY <1>3 DEF Reboot, Pod
  <2>2. AllFit(db, dev', on', phase')
    BY <1>1, <2>1 DEF AllFit, Fits, Differ
  <2> QED  BY <2>1, <2>2, NoCallDoes DEF Life
<1> QED  BY <1>2, <1>3, RemoveNsLife

LEMMA InitLife == Init => Life
<1> SUFFICES ASSUME Init PROVE Life
  OBVIOUS
<1>1. IsFiniteSet(db.pods)
  BY FS_EmptySet DEF Init, EmptyDb
<1>2. \A c \in Container : Fits(c, db, dev, on, phase)
  BY DEF Init, EmptyDb, Fits, Pod
<1>3. Differ(dev, on, phase)
  BY DEF Init, Differ, Pod
<1>4. Does(call, db, dev, on, phase)
  BY NoCallDoes DEF Init
<1> QED  BY <1>1, <1>2, <1>3, <1>4 DEF Life, AllFit

LEMMA NextLife == IInv /\ Life /\ [Next]_vars /\ ~ Fault("delFail") => Life'
<1> SUFFICES ASSUME ~ Fault("delFail"), IInv, Life, [Next]_vars PROVE Life'
  OBVIOUS
<1>1. ASSUME NEW c \in Container,
             StartAdd(c) \/ AddAgain(c) \/ StartDel(c) \/ NoPlugin(c)
      PROVE  Life'
  BY <1>1, StartLife
<1>2. CASE Crash \/ Reboot \/ \E c \in Container : RemoveNs(c)
  BY <1>2, EnvironmentLife
<1>3. CASE UNCHANGED vars
  BY <1>3 DEF vars, kernel, Life
<1> QED
  BY <1>1, <1>2, <1>3, InitNodeLife, AddPodLife, DelPodLife DEF Next

-----------------------------------------------------------------------------
(* The theorems about the life of the containers.                           *)

\* Every `ip link del` deletes its interface: what storage says of a container
\* fits the kernel only then, as nobody looks at the result (nic.cc:37).
DeletionsWork == "delFail" \notin Faults

LEMMA Invariance == ASSUME DeletionsWork PROVE Spec => []LifeInv
<1>1. Init => LifeInv
  BY InitIInv, InitLife DEF LifeInv
<1>2. LifeInv /\ [Next]_vars => LifeInv'
  BY NextIInv, NextLife DEF LifeInv, DeletionsWork, Fault
<1> QED  BY <1>1, <1>2, PTL DEF Spec

\* A container whose ADD succeeded stays completely stored, with the stored address
\* on its interface, until its DEL (cni.cc:758-818), whatever the other calls of the
\* node and their failures do.
THEOREM AddedStayRecorded == ASSUME DeletionsWork PROVE Spec => []AddedIsRecorded
<1>1. LifeInv => AddedIsRecorded
  <2> SUFFICES ASSUME LifeInv, NEW c \in Container, phase[c] = "added"
               PROVE  /\ c \in db.pods \cap db.podKey \cap db.netns
                      /\ db.nics[c] = {"eth0"}
                      /\ dev[c] = "ns"
                      /\ on[c] = {db.addr[c]}
                      /\ on[c] \subseteq db.used
    BY DEF AddedIsRecorded
  <2>1. Fits(c, db, dev, on, phase)
    BY DEF LifeInv, Life, AllFit
  <2> QED  BY <2>1 DEF Fits, LeftIn
<1> QED  BY <1>1, Invariance, PTL

\* No two containers of the node are up with one address, however calls were
\* interrupted and repeated and whatever a process restored (cni.cc:379-439, 842).
THEOREM AddressesDiffer == ASSUME DeletionsWork PROVE Spec => []ContainersDiffer
<1>1. LifeInv => ContainersDiffer
  BY DEF LifeInv, Life, AllFit, Differ, ContainersDiffer, LeftIn, LeftByDel
<1> QED  BY <1>1, Invariance, PTL

\* No DEL takes itself for the last of the node by mistake (cni.cc:293-309): while a
\* container is up its node has subnet, root namespace and bridge.
THEOREM BridgeStays == ASSUME DeletionsWork PROVE Spec => []BridgeOutlivesPods
<1>1. LifeInv => BridgeOutlivesPods
  <2> SUFFICES ASSUME LifeInv, NEW c \in Container, phase[c] = "added"
               PROVE  BridgeUp(db, dev)
    BY DEF BridgeOutlivesPods, AnyAdded, HasBridge, BridgeUp
  <2> QED  BY DEF LifeInv, Life, AllFit, Fits
<1> QED  BY <1>1, Invariance, PTL

\* Only the DEL of the root namespace and a reboot take addresses off the bridge, and
\* neither leaves a container up.
LEMMA GatewayKept ==
    ASSUME LifeInv, [Next]_vars,
           NEW c \in Container, phase[c] = "added", phase'[c] = "added"
    PROVE  on[HOST] \subseteq on'[HOST]
<1> USE CniAssumption
<1>0. /\ IInv /\ Life /\ HOST \in Pod /\ on \in [Pod -> SUBSET Addr]
      /\ "eth0" \in db.nics[c]
  BY Parts DEF LifeInv, Life, AllFit, Fits, Pod
<1>1. CASE InitNode
  <2>1. CASE SetBridgeAddr
    BY <1>0, <2>1 DEF SetBridgeAddr, SetEntry
  <2> QED
    BY <1>1, <2>1
    DEF InitNode, AllocateSubnet, AllocateIp, GetBridge, GetVxlan, GetRootPod, SetupBridge,
        AddNic, AddAddr, AddVtep, AddNetns, PutPodKey, AppendPod, Write, kernel
<1>2. CASE AddPod
  <2>1. CASE SetAddr
    <3>1. call.c \in Container
      BY <1>0, <2>1, Parts DEF SetAddr, Shape, AddPC
    <3> QED  BY <1>0, <2>1, <3>1 DEF SetAddr
  <2> QED
    BY <1>2, <2>1
    DEF AddPod, ConfigPodNetwork, AllocateIp, PutPodKey, AppendPod, AddNetns, AddNic, SetupVeth,
        SetNetns, Rename, Plug, AddAddr, AddRoute, Write, kernel
<1>3. CASE DelPod
  <2>1. CASE Cleanup
    <3>1. call.pod # HOST
      BY <1>0, <2>1, DelFacts DEF Cleanup, Deletes, DelPC
    <3> QED  BY <1>0, <2>1, <3>1 DEF Cleanup
  <2> QED
    BY <1>3, <2>1
    DEF DelPod, DelKubernetesNic, DelKubernetesPod, ReleaseSubnet, ReleaseIp, DelAddr,
        DelRoute, DelNic, DelVtep, DelNetns, DelPodKey, DelPodList, Write, WriteAnyway, kernel
<1>4. ASSUME NEW lost, Restore(lost)
      PROVE  on[HOST] \subseteq on'[HOST]
  BY <1>0, <1>4 DEF Restore, SetEntry
<1>5. ASSUME NEW d \in Container,
             StartAdd(d) \/ AddAgain(d) \/ StartDel(d) \/ NoPlugin(d)
      PROVE  on[HOST] \subseteq on'[HOST]
  BY <1>4, <1>5 DEF StartAdd, AddAgain, StartDel, NoPlugin, kernel
<1>6. ASSUME NEW d \in Container, RemoveNs(d)
      PROVE  on[HOST] \subseteq on'[HOST]
  BY <1>0, <1>6 DEF RemoveNs
<1>7. ~ Reboot
  BY DEF Reboot
<1>8. CASE Crash \/ UNCHANGED vars
  BY <1>8 DEF Crash, vars, kernel
<1> QED  BY <1>1, <1>2, <1>3, <1>5, <1>6, <1>7, <1>8 DEF Next

\* While a container stays up no call takes an address off the bridge, whatever it
\* restores or cleans up (cni.cc:412-420, 293-303).
THEOREM GatewayIsKept == ASSUME DeletionsWork PROVE Spec => GatewayIsNotTaken
<1>1. LifeInv /\ [Next]_vars =>
         [(\E c \in Container : phase[c] = "added" /\ phase'[c] = "added")
             => on[HOST] \subseteq on'[HOST]]_vars
  BY GatewayKept
<1> QED  BY <1>1, Invariance, PTL DEF Spec, GatewayIsNotTaken

-----------------------------------------------------------------------------
(* The calls implement the network the runtime is promised.                 *)

\* Every step of a call is one of its commands.
LEMMA AtStep ==
    ASSUME InitNode \/ AddPod \/ DelPod
    PROVE  call.pc \in InitPC \cup AddPC \cup DelPC
<1>1. CASE InitNode
  BY <1>1
  DEF InitNode, AllocateSubnet, AllocateIp, GetBridge, GetVxlan, GetRootPod, SetupBridge,
      SetBridgeAddr, AddNic, AddAddr, AddVtep, AddNetns, PutPodKey, AppendPod, Write, InitPC
<1>2. CASE AddPod
  BY <1>2
  DEF AddPod, ConfigPodNetwork, AllocateIp, PutPodKey, AppendPod, AddNetns, AddNic, SetupVeth,
      SetNetns, Rename, Plug, SetAddr, AddAddr, AddRoute, Write, AddPC
<1>3. CASE DelPod
  BY <1>3
  DEF DelPod, DelKubernetesNic, DelKubernetesPod, ReleaseSubnet, Cleanup, ReleaseIp, DelAddr,
      DelRoute, DelNic, DelVtep, DelNetns, DelPodKey, DelPodList, Write, WriteAnyway, DelPC
<1> QED  BY <1>1, <1>2, <1>3

\* A container that a call is at work for is not up.
LEMMA AtWorkIsDown ==
    ASSUME IInv, Life, call.pc \in InitPC \cup AddPC \cup DelPC
    PROVE  call.c \in Container /\ phase[call.c] # "added"
<1>1. CASE call.pc \in InitPC \cup AddPC
  BY <1>1, Parts DEF Shape, Life, Does, Begins
<1>2. CASE call.pc \in DelPC
  BY <1>2, DelFacts
<1> QED  BY <1>1, <1>2

\* A step of a call leaves the phases alone, or the call ends with it.
LEMMA CallPhases ==
    ASSUME InitNode \/ AddPod \/ DelPod
    PROVE  UNCHANGED phase \/ \E r \in {"added", "failed"} : End(r)
<1>1. Return => \E r \in {"added", "failed"} : End(r)
  BY DEF Return
<1>2. Throw => \E r \in {"added", "failed"} : End(r)
  BY DEF Throw
<1>3. \A next : Continue(next) => UNCHANGED phase \/ Return
  BY DEF Continue
<1>4. \A here, d, next :
         Write(here, d, next) \/ WriteAnyway(here, d, next) => UNCHANGED phase \/ Return \/ Throw
  BY <1>3 DEF Write, WriteAnyway
<1>5. \A here, there : AllocateIp(here, there) => UNCHANGED phase \/ Throw
  BY DEF AllocateIp
<1>6. InitNode => UNCHANGED phase \/ Return \/ Throw
  BY <1>4, <1>5
  DEF InitNode, AllocateSubnet, GetBridge, GetVxlan, GetRootPod, SetupBridge, SetBridgeAddr, AddNic, AddAddr,
      AddVtep, AddNetns, PutPodKey, AppendPod
<1>7. AddPod => UNCHANGED phase \/ Return \/ Throw
  BY <1>3, <1>4, <1>5
  DEF AddPod, ConfigPodNetwork, PutPodKey, AppendPod, AddNetns, AddNic, SetupVeth, SetNetns,
      Rename, Plug, SetAddr, AddAddr, AddRoute
<1>8. DelPod => UNCHANGED phase \/ Return \/ Throw
  BY <1>4
  DEF DelPod, DelKubernetesNic, DelKubernetesPod, ReleaseSubnet, Cleanup, ReleaseIp, DelAddr,
      DelRoute, DelNic, DelVtep, DelNetns, DelPodKey, DelPodList
<1> QED  BY <1>1, <1>2, <1>6, <1>7, <1>8

\* The stored address of a container changes in its own calls only.
LEMMA AddressStays ==
    ASSUME IInv, Life, InitNode \/ AddPod \/ DelPod,
           NEW c \in Container, c # call.c
    PROVE  db'.addr[c] = db.addr[c]
<1> USE Parts, CniAssumption
<1>1. c \in Pod /\ c # HOST
  BY DEF Pod
<1>2. \A here, d, next :
         Write(here, d, next) \/ WriteAnyway(here, d, next) => db' \in {db, d}
  BY DEF Write, WriteAnyway
<1>3. \A here, there : AllocateIp(here, there) => db'.addr = db.addr
  <2> SUFFICES ASSUME NEW here, NEW there, AllocateIp(here, there)
               PROVE  db'.addr = db.addr
    OBVIOUS
  <2>1. db' = db \/ \E a \in Addr : db' = [db EXCEPT !.used = @ \cup {a}]
    BY DEF AllocateIp, Candidate
  <2> QED  BY <2>1 DEF DbType
<1>4. CASE InitNode
  <2>1. CASE AllocateIp("gateway", "nicBridge") \/ SetupBridge \/ SetBridgeAddr \/ UNCHANGED db
    BY <1>3, <2>1 DEF SetupBridge, SetBridgeAddr
  <2>2. CASE AllocateSubnet \/ AddVtep("vtep", "nicUnderlay")
    BY <1>2, <2>2 DEF AllocateSubnet, AddVtep, DbType
  <2>3. CASE \E nic, here, there : AddNic(HOST, nic, here, there)
    BY <1>2, <2>3 DEF AddNic, DbType
  <2>4. CASE \E here, there : AddAddr(HOST, here, there)
    BY <1>1, <1>2, <2>4 DEF AddAddr, DbType
  <2>5. CASE GetRootPod
    BY <1>2, <2>5 DEF GetRootPod, AddNetns, PutPodKey, AppendPod, DbType
  <2> QED
    BY <1>4, <2>1, <2>2, <2>3, <2>4, <2>5 DEF InitNode, GetBridge, GetVxlan
<1>5. CASE AddPod
  <2>1. CASE SetupVeth \/ SetNetns \/ Rename \/ Plug \/ SetAddr
    BY <2>1 DEF SetupVeth, SetNetns, Rename, Plug, SetAddr
  <2>2. CASE AllocateIp("allocate", "setAddr")
    BY <1>3, <2>2
  <2>3. CASE AddAddr(call.c, "addr", "route")
    BY <1>1, <1>2, <2>3 DEF AddAddr, DbType
  <2>4. CASE AddRoute
    BY <1>2, <2>4 DEF AddRoute, DbType
  <2>5. CASE AddNic(call.c, "eth0", "nic", "veth")
    BY <1>2, <2>5 DEF AddNic, DbType
  <2>6. CASE PutPodKey(call.c, "podKey", "podList")
    BY <1>2, <2>6 DEF PutPodKey, DbType
  <2>7. CASE AppendPod(call.c, "podList", "netns") \/ AddNetns(call.c, "netns", "nic")
    BY <1>2, <2>7 DEF AppendPod, AddNetns, DbType
  <2> QED
    BY <1>5, <2>1, <2>2, <2>3, <2>4, <2>5, <2>6, <2>7 DEF AddPod, ConfigPodNetwork
<1>6. CASE DelPod
  <2>1. CASE Cleanup
    BY <2>1 DEF Cleanup
  <2>2. CASE DelAddr
    <3>1. call.pod \in {call.c, HOST}
      BY <2>2, DelFacts DEF DelAddr, Write, DelPC, Deletes
    <3> QED  BY <1>1, <1>2, <2>2, <3>1 DEF DelAddr, DbType
  <2>3. CASE ReleaseIp \/ ReleaseSubnet \/ DelRoute
    BY <1>2, <2>3 DEF ReleaseIp, ReleaseSubnet, DelRoute, DbType
  <2>4. CASE DelNic \/ DelVtep
    BY <1>2, <2>4 DEF DelNic, DelVtep, DbType
  <2>5. CASE DelKubernetesPod
    BY <1>2, <2>5 DEF DelKubernetesPod, DelNetns, DelPodKey, DelPodList, DbType
  <2> QED
    BY <1>6, <2>1, <2>2, <2>3, <2>4, <2>5 DEF DelPod, DelKubernetesNic
<1> QED  BY <1>4, <1>5, <1>6

\* Who is connected, with an address of its own, and that then there is the bridge.
NetworkIsSound ==
    /\ Network!Connected = {c \in Container : phase[c] = "added"}
    /\ HasBridge \in BOOLEAN /\ on[HOST] \in SUBSET Addr
    /\ Network!Connected # {} => HasBridge
    /\ \A c \in Container : phase[c] = "added" => db.addr[c] \in Addr
    /\ \A c, d \in Container :
          phase[c] = "added" /\ phase[d] = "added" /\ c # d => db.addr[c] # db.addr[d]

LEMMA NetworkFacts == LifeInv => NetworkIsSound
<1> SUFFICES ASSUME LifeInv PROVE NetworkIsSound
  OBVIOUS
<1>1. ASSUME NEW c \in Container, phase[c] = "added"
      PROVE  /\ db.addr[c] \in Addr /\ db.addr[c] # None /\ HasBridge
             /\ on[c] = {db.addr[c]} /\ ~ LeftIn(c, dev, phase)
  <2>1. Fits(c, db, dev, on, phase) /\ db.addr[c] \in Addr \cup {None}
    BY Parts DEF LifeInv, Life, AllFit, DbType, Pod
  <2> QED  BY <1>1, <2>1 DEF Fits, LeftIn, BridgeUp, HasBridge
<1>2. Network!Connected = {c \in Container : phase[c] = "added"}
  BY <1>1 DEF Network!Connected
<1>3. HasBridge \in BOOLEAN /\ on[HOST] \in SUBSET Addr
  BY Parts DEF HasBridge, LifeInv, DbType, Pod
<1>4. ASSUME NEW c \in Container, NEW d \in Container,
             phase[c] = "added", phase[d] = "added", c # d
      PROVE  db.addr[c] # db.addr[d]
  <2>1. on[c] \cap on[d] = {}
    BY <1>1, <1>4 DEF LifeInv, Life, AllFit, Differ
  <2> QED  BY <1>1, <1>4, <2>1
<1> QED  BY <1>1, <1>2, <1>3, <1>4 DEF NetworkIsSound

LEMMA NextNetworkFacts == LifeInv' => NetworkIsSound'
BY NetworkFacts, PTL

\* What the network says of the bridge at every step.
BridgeStep ==
    /\ HasBridge' \in BOOLEAN /\ on'[HOST] \in SUBSET Addr
    /\ Network!Connected' # {} => HasBridge'
    /\ Network!Connected \cap Network!Connected' # {} => on[HOST] \subseteq on'[HOST]

LEMMA BridgeSteps == LifeInv /\ LifeInv' /\ [Next]_vars => BridgeStep
<1> SUFFICES ASSUME LifeInv, LifeInv', [Next]_vars PROVE BridgeStep
  OBVIOUS
<1>1. NetworkIsSound /\ NetworkIsSound'
  BY NetworkFacts, NextNetworkFacts
<1>2. Network!Connected' = {c \in Container : phase'[c] = "added"}
  BY <1>1 DEF NetworkIsSound
<1>3. Network!Connected = {c \in Container : phase[c] = "added"}
  BY <1>1 DEF NetworkIsSound
<1>4. HasBridge' \in BOOLEAN /\ on'[HOST] \in SUBSET Addr
      /\ (Network!Connected' # {} => HasBridge')
  BY <1>1 DEF NetworkIsSound
<1> HIDE DEF Network!Connected
<1> QED  BY <1>2, <1>3, <1>4, GatewayKept DEF BridgeStep

\* Nobody was deleted and nobody is connected who was not, with another address.
LEMMA StepDisconnects ==
    ASSUME LifeInv, LifeInv', [Next]_vars,
           \A c \in Container :
              /\ phase'[c] = "gone" <=> phase[c] = "gone"
              /\ phase'[c] = "added" => phase[c] = "added" /\ db'.addr[c] = db.addr[c]
    PROVE  Network!Next
<1> DEFINE C == {c \in Container : phase[c] = "added" /\ phase'[c] # "added"}
<1>1. Network!Disconnect(C)
  BY DEF Network!Disconnect
<1>2. BridgeStep
  BY BridgeSteps
<1>3. C \in SUBSET Container
  OBVIOUS
<1> HIDE DEF C
<1> QED  BY <1>1, <1>2, <1>3 DEF BridgeStep, Network!Next, Network!Disconnect

\* One container came up.
LEMMA StepConnects ==
    ASSUME LifeInv, LifeInv', [Next]_vars, NEW c \in Container,
           phase[c] \notin {"gone", "added"}, phase'[c] = "added",
           \A d \in Container : d # c => phase'[d] = phase[d] /\ db'.addr[d] = db.addr[d]
    PROVE  Network!Next
<1> DEFINE a == db'.addr[c]
<1>1. a \in Addr /\ \A d \in Container : d # c /\ phase[d] = "added" => db.addr[d] # a
  <2>1. \A d \in Container : d # c => db'.addr[d] # a \/ phase'[d] # "added"
    BY NextNetworkFacts DEF NetworkIsSound
  <2>2. a \in Addr
    BY NextNetworkFacts DEF NetworkIsSound
  <2> QED  BY <2>1, <2>2
<1>2. BridgeStep
  BY BridgeSteps
<1>3. Network!Connected = {d \in Container : phase[d] = "added"}
  BY NetworkFacts DEF NetworkIsSound
<1>4. Network!Connect(c, a)
  <2> DEFINE net == [d \in Container |-> IF phase[d] = "added" THEN db.addr[d] ELSE None]
  <2>1. net' = [net EXCEPT ![c] = a]
    OBVIOUS
  <2>2. {d \in Container : phase'[d] = "gone"} = {d \in Container : phase[d] = "gone"}
    OBVIOUS
  <2> QED  BY <1>1, <1>3, <2>1, <2>2 DEF Network!Connect
<1> HIDE DEF a
<1> QED  BY <1>1, <1>2, <1>4 DEF BridgeStep, Network!Next, Network!Connect

\* A container is deleted.
LEMMA StepDeletes ==
    ASSUME LifeInv, LifeInv', [Next]_vars, NEW c \in Container,
           phase' = [phase EXCEPT ![c] = "gone"], UNCHANGED db
    PROVE  Network!Next
<1>1. \A d \in Container : phase'[d] = IF d = c THEN "gone" ELSE phase[d]
  BY Parts DEF LifeInv, PhaseType
<1>2. Network!Delete(c)
  <2> DEFINE net == [d \in Container |-> IF phase[d] = "added" THEN db.addr[d] ELSE None]
  <2>1. net' = [net EXCEPT ![c] = None]
    <3>1. \A d \in Container : net'[d] = IF d = c THEN None ELSE net[d]
      BY <1>1
    <3> QED  BY <3>1
  <2>2. {d \in Container : phase'[d] = "gone"} = {d \in Container : phase[d] = "gone"} \cup {c}
    BY <1>1
  <2> QED  BY <2>1, <2>2 DEF Network!Delete
<1>3. BridgeStep
  BY BridgeSteps
<1> QED  BY <1>2, <1>3 DEF BridgeStep, Network!Next, Network!Delete

LEMMA StepImplementsNetwork ==
    LifeInv /\ LifeInv' /\ [Next]_vars => [Network!Next]_(Network!vars)
<1> SUFFICES ASSUME LifeInv, LifeInv', [Next]_vars
             PROVE  [Network!Next]_(Network!vars)
  OBVIOUS
<1>0. IInv /\ Life /\ phase \in PhaseType
  BY Parts DEF LifeInv
<1>1. CASE InitNode \/ AddPod \/ DelPod
  <2>1. call.c \in Container /\ phase[call.c] # "added"
    BY <1>0, <1>1, AtStep, AtWorkIsDown
  <2>2. \A d \in Container : d # call.c => db'.addr[d] = db.addr[d]
    BY <1>0, <1>1, AddressStays
  <2>3. CASE UNCHANGED phase
    BY <2>1, <2>2, <2>3, StepDisconnects
  <2>4. ASSUME NEW r \in {"added", "failed"}, End(r)
        PROVE  Network!Next
    <3>1. \A d \in Container :
             phase'[d] = IF d = call.c /\ phase[d] # "gone" THEN r ELSE phase[d]
      BY <2>4 DEF End
    <3>2. CASE phase[call.c] # "gone" /\ r = "added"
      BY <2>1, <2>2, <3>1, <3>2, StepConnects
    <3>3. CASE phase[call.c] = "gone" \/ r = "failed"
      BY <2>1, <2>2, <3>1, <3>3, StepDisconnects
    <3> QED  BY <2>4, <3>2, <3>3
  <2> QED  BY <1>1, <2>3, <2>4, CallPhases
<1>2. ASSUME NEW c \in Container,
             StartAdd(c) \/ AddAgain(c) \/ StartDel(c) \/ NoPlugin(c)
      PROVE  Network!Next
  <2>1. UNCHANGED db
    BY <1>2 DEF StartAdd, AddAgain, StartDel, NoPlugin
  <2>2. CASE StartAdd(c)
    BY <2>1, <2>2, StepDisconnects DEF StartAdd
  <2>3. CASE phase' = [phase EXCEPT ![c] = "gone"]
    BY <2>1, <2>3, StepDeletes
  <2>4. CASE phase[c] # "gone" /\ phase' = [phase EXCEPT ![c] = "failed"]
    BY <1>0, <2>1, <2>4, StepDisconnects DEF PhaseType
  <2>5. CASE phase[c] # "gone" /\ phase' = [phase EXCEPT ![c] = "added"]
    <3>1. phase'[c] = "added" /\ \A d \in Container : d # c => phase'[d] = phase[d]
      BY <1>0, <2>5 DEF PhaseType
    <3>2. CASE phase[c] = "added"
      BY <2>1, <2>5, <3>1, <3>2, StepDisconnects
    <3> QED  BY <2>1, <2>5, <3>1, <3>2, StepConnects
  <2> QED
    BY <1>2, <2>2, <2>3, <2>4, <2>5 DEF AddAgain, StartDel, NoPlugin
<1>3. CASE Crash
  <2>1. UNCHANGED db /\ End("failed")
    BY <1>3 DEF Crash, Throw
  <2> QED  BY <2>1, StepDisconnects DEF End
<1>4. ASSUME NEW c \in Container, RemoveNs(c)
      PROVE  Network!Next
  BY <1>0, <1>4, StepDisconnects DEF RemoveNs, PhaseType
<1>5. CASE Reboot
  BY <1>5, StepDisconnects DEF Reboot
<1>6. CASE UNCHANGED vars
  BY <1>6 DEF vars, kernel, Network!vars, HasBridge
<1> QED  BY <1>1, <1>2, <1>3, <1>4, <1>5, <1>6 DEF Next

\* The commands of all calls together look to the runtime like single steps of the
\* network: a container is connected at once, with an address nobody has, keeps it
\* until it is disconnected or deleted, and a deleted one stays away; the bridge stays
\* with the last of them, and with every address it has (cni.cc:196-316).
THEOREM CniImplementsNetwork == ASSUME DeletionsWork PROVE Spec => ImplementsNetwork
<1>1. Init => Network!Init
  <2> SUFFICES ASSUME Init PROVE Network!Init
    OBVIOUS
  <2>1. \A c \in Container : phase[c] = "new"
    BY DEF Init
  <2>2. HasBridge = FALSE /\ on[HOST] = {}
    BY DEF Init, EmptyDb, HasBridge, Pod
  <2> QED  BY <2>1, <2>2 DEF Network!Init
<1> QED
  BY <1>1, Invariance, StepImplementsNetwork, PTL DEF Spec, ImplementsNetwork, Network!Spec

-----------------------------------------------------------------------------
(* Nothing that fails.  Then everything that is stored or allocated belongs *)
(* to a container that is up or failed, or to the call in progress.         *)

Alive == {"added", "failed"}

\* A container that no call is at work for has its interface, or nothing at all.
Settled(c, e, v, h) ==
    IF h[c] \in Alive
    THEN "eth0" \in e.nics[c] /\ v[c] = "ns"
    ELSE /\ c \notin e.pods \cup e.podKey \cup e.netns \cup e.route
         /\ e.nics[c] = {}
         /\ v[c] = "none"

AtWork(c, k) ==
    \/ k.pc \in AddPC /\ c = k.c
    \/ k.pc \in DelPC /\ c = k.c /\ k.pod # HOST

AllSettled(k, e, v, h) == \A c \in Container : ~ AtWork(c, k) => Settled(c, e, v, h)

\* The root namespace and the bridge, complete and not there at all.
NodeUp(e) ==
    /\ e.subnet
    /\ HOST \in e.pods \cap e.podKey \cap e.netns
    /\ "bridge" \in e.nics[HOST]
    /\ e.addr[HOST] # None

NodeDown(e, v) ==
    /\ ~ e.subnet /\ ~ e.vtep
    /\ HOST \notin e.pods \cup e.podKey \cup e.netns
    /\ e.nics[HOST] = {} /\ e.addr[HOST] = None
    /\ v[HOST] = "none"

\* What the root namespace never has.
Plain(e) == HOST \notin e.route /\ "eth0" \notin e.nics[HOST] /\ (e.vtep => Vxlan)

\* Every allocated address is stored as some pod's, or on its way to be.
Accounted(k, e) ==
    \A a \in e.used :
        \/ \E p \in Pod : e.addr[p] = a /\ ~ (k.pc = "delAddr" /\ p = k.pod)
        \/ /\ k.pc \in {"nicBridge", "setupBridge", "setAddrBridge", "addrBridge",
                         "setAddr", "addr"}
           /\ k.addr = a

\* Between two calls the node is up for some container, or down.
Rests(k, e, v, h) ==
    k.pc = "idle" => NodeDown(e, v) \/ (NodeUp(e) /\ \E c \in Container : h[c] \in Alive)

\* How far the first ADD has come with the root namespace.
Founds(k, e) ==
    /\ k.pc \in {"subnet", "gateway"} => \A p \in Pod : e.addr[p] = None
    /\ k.pc \in {"nicBridge", "setupBridge", "setAddrBridge", "addrBridge"}
          => e.addr[HOST] = None
    /\ k.pc \in {"nicVxlan", "vtep", "nicUnderlay", "netnsHost", "podKeyHost", "podListHost"}
          => e.addr[HOST] # None
    /\ k.pc \notin {"subnet", "gateway", "nicBridge"} => "bridge" \in e.nics[HOST]
    /\ k.pc \in {"nicVxlan", "vtep"} => Vxlan
    /\ k.pc \in {"podKeyHost", "podListHost"} => HOST \in e.netns
    /\ k.pc = "podListHost" => HOST \in e.podKey

\* The interface of the container of an ADD.
Plugs(k, e, v) ==
    /\ NodeUp(e)
    /\ k.pc = "rename" => v[k.c] = "temp"
    /\ k.pc \in {"plug", "allocate", "setAddr", "addr", "route"} => v[k.c] = "ns"

\* What a DEL has still to delete of pod k.pod, and has deleted.
Unwinds(k, e, v) ==
    LET p     == k.pod
        later == k.nic # Main(p)
    IN  /\ p \in e.netns  <=> k.pc \notin {"delPodKey", "delPodList", "releaseSubnet"}
        /\ p \in e.podKey <=> k.pc \notin {"delPodList", "releaseSubnet"}
        /\ k.pc = "delPodList" => k.found
        /\ k.pc = "releaseSubnet" => p \notin e.pods
        /\ k.pc \in {"releaseIp", "delAddr", "delRoute"} => ~ later
        /\ k.pc \in {"cleanup", "releaseIp"} /\ ~ later => k.addr = e.addr[p]
        /\ k.pc \notin {"cleanup", "releaseIp", "delAddr"} \/ later => e.addr[p] = None
        /\ k.pc \notin {"cleanup", "releaseIp", "delAddr", "delRoute"} \/ later
              => p \notin e.route
        /\ k.pc = "cleanup" /\ ~ later => p = HOST \/ v[p] = "ns"
        /\ k.pc # "cleanup" \/ later => v[p] = "none"
        /\ later \/ k.pc = "delVtep" => Main(p) \notin e.nics[p]
        /\ k.pc \in {"delNetns", "delPodKey", "delPodList", "releaseSubnet"}
              => e.nics[p] = {} /\ ~ e.vtep

\* Another container keeps the node up, or this DEL takes it down.
Leaves(k, e, h) ==
    k.pod # HOST =>
        /\ NodeUp(e) /\ k.root /\ k.bridge = e.addr[HOST]
        /\ k.last \/ \E d \in Container : d # k.c /\ h[d] \in Alive

Tidy(k, e, v, h, n) ==
    /\ Plain(e) /\ Accounted(k, e) /\ AllSettled(k, e, v, h) /\ Rests(k, e, v, h)
    /\ k.pc \in InitPC \cup AddPC => k.root /\ k.gw /\ k.tried = 0 /\ k.c \in n
    /\ k.pc \in InitPC => Founds(k, e)
    /\ k.pc \in AddPC => Plugs(k, e, v)
    /\ k.pc \in DelPC => Unwinds(k, e, v) /\ Leaves(k, e, h)

Neat == Tidy(call, db, dev, phase, nsUp)

TidyInv == IInv /\ (faults = 0 => Life /\ Neat)

\* A step of a run without faults.
Calm == faults = 0 /\ faults' = 0

LEMMA CalmStep == Calm => \A kind : ~ Fault(kind)
BY DEF Calm, Fault

\* Then a write is made, and the call goes on or returns.
LEMMA CalmWrite ==
    ASSUME Calm, NEW here, NEW d, NEW next, Write(here, d, next) \/ WriteAnyway(here, d, next)
    PROVE  /\ call.pc = here /\ db' = d /\ UNCHANGED <<dev, on, nsUp>>
           /\ next.pc # "return" => call' = next /\ UNCHANGED phase
           /\ next.pc = "return" => Return
BY CalmStep DEF Write, WriteAnyway, Continue, kernel

\* The steps are disjoint.
LEMMA Steps ==
    /\ InitPC \cap AddPC = {} /\ InitPC \cap DelPC = {} /\ AddPC \cap DelPC = {}
    /\ "idle" \notin InitPC \cup AddPC \cup DelPC
    /\ "return" \notin InitPC \cup AddPC \cup DelPC
BY DEF InitPC, AddPC, DelPC

-----------------------------------------------------------------------------
(* The first ADD of a node.                                                 *)

\* A write of the root namespace.
LEMMA FoundTidy ==
    ASSUME IInv, Neat, Calm, NEW here \in InitPC, NEW there \in InitPC, NEW d,
           Write(here, d, To(there)),
           \A c \in Container :
              /\ d.nics[c] = db.nics[c]
              /\ c \in d.pods \cup d.podKey \cup d.netns \cup d.route
                    => c \in db.pods \cup db.podKey \cup db.netns \cup db.route,
           Plain(d), Accounted(To(there), d), Founds(To(there), d)
    PROVE  Neat'
<1> USE Parts
<1>1. call.pc = here /\ db' = d /\ UNCHANGED <<dev, nsUp>>
  BY CalmWrite
<1>2. To(there).pc = there /\ To(there).c = call.c /\ there \in PC \ {"return"}
  BY ToStep DEF PC, InitPC
<1>3. call' = To(there) /\ UNCHANGED phase
  BY <1>2, CalmWrite
<1>4. call'.pc = there /\ call'.c = call.c /\ call'.tried = call.tried
      /\ call'.root = call.root /\ call'.gw = call.gw
  BY <1>2, <1>3 DEF To, CallType
<1>5. AllSettled(call', db', dev', phase')
  <2>1. SUFFICES ASSUME NEW c \in Container PROVE Settled(c, db', dev', phase')
    BY DEF AllSettled
  <2>2. Settled(c, db, dev, phase)
    BY <1>1, Steps DEF Neat, Tidy, AllSettled, AtWork
  <2> QED  BY <1>1, <1>3, <2>2 DEF Settled
<1>6. call.root /\ call.gw /\ call.tried = 0 /\ call.c \in nsUp
  BY <1>1 DEF Neat, Tidy
<1> QED
  BY <1>1, <1>3, <1>4, <1>5, <1>6, Steps DEF Neat, Tidy, Rests

LEMMA InitNodeTidy ==
    ASSUME IInv, Life, Neat, Calm, MaxAddr # 0, InitNode
    PROVE  Neat'
<1> USE Parts, CniAssumption
<1>1. Plain(db) /\ Accounted(call, db) /\ AllSettled(call, db, dev, phase)
      /\ (call.pc \in InitPC => Founds(call, db))
  BY DEF Neat, Tidy
<1>2. HOST \in Pod /\ \A c \in Container : c # HOST /\ c \in Pod
  BY DEF Pod
\* A record of the root namespace that is neither an interface nor an address.
<1>3. ASSUME NEW here \in InitPC, NEW there \in InitPC, NEW d, Write(here, d, To(there)),
             d.nics = db.nics, d.addr = db.addr, d.used = db.used, d.route = db.route,
             d.vtep => Vxlan,
             \A c \in Container :
                /\ c \in d.pods => c \in db.pods
                /\ c \in d.podKey => c \in db.podKey
                /\ c \in d.netns => c \in db.netns,
             {here, there} \cap {"nicBridge", "setupBridge", "setAddrBridge", "addrBridge"} = {},
             Founds(To(there), d)
      PROVE  Neat'
  <2>1. call.pc = here /\ To(there).pc = there
    BY <1>3, CalmWrite, ToStep DEF PC, InitPC
  <2>2. Accounted(To(there), d)
    BY <1>1, <1>3, <2>1 DEF Accounted, InitPC
  <2>3. Plain(d)
    BY <1>1, <1>3 DEF Plain
  <2> QED  BY <1>3, <2>2, <2>3, FoundTidy
<1>4. CASE AllocateSubnet
  <2> DEFINE d == [db EXCEPT !.subnet = TRUE]
  <2>1. Write("subnet", d, To("gateway"))
    BY <1>4 DEF AllocateSubnet
  <2>2. call.pc = "subnet" /\ To("gateway").pc = "gateway"
    BY <2>1, CalmWrite, ToStep DEF PC, InitPC
  <2>3. /\ d.nics = db.nics /\ d.addr = db.addr /\ d.used = db.used /\ d.route = db.route
        /\ d.vtep = db.vtep /\ d.pods = db.pods /\ d.podKey = db.podKey /\ d.netns = db.netns
    BY DEF DbType
  <2> HIDE DEF d
  <2>4. Founds(To("gateway"), d)
    BY <1>1, <2>2, <2>3 DEF Founds, InitPC
  <2> QED  BY <1>1, <1>3, <2>1, <2>3, <2>4 DEF InitPC, Plain
<1>5. CASE AllocateIp("gateway", "nicBridge")
  <2>1. call.pc = "gateway" /\ UNCHANGED <<dev, on, nsUp>>
    BY <1>5 DEF AllocateIp, kernel
  <2>2. \A p \in Pod : db.addr[p] = None
    BY <1>1, <2>1 DEF Founds, InitPC
  <2>3. call.root /\ call.gw /\ call.tried = 0 /\ call.c \in nsUp
    BY <2>1 DEF Neat, Tidy, InitPC
  <2>4. Candidate # {}
    <3>1. db.used = {}
      BY <1>1, <2>1, <2>2 DEF Accounted, DbType
    <3> QED  BY <2>3, <3>1 DEF Candidate, Addr
  <2>5. PICK a \in Candidate :
           /\ db' = [db EXCEPT !.used = @ \cup {a}]
           /\ call' = [call EXCEPT !.pc = "nicBridge", !.addr = a, !.tried = 0]
           /\ UNCHANGED phase
    BY <1>5, <2>4, CalmStep DEF AllocateIp
  <2>6. /\ call'.pc = "nicBridge" /\ call'.addr = a /\ call'.c = call.c
        /\ call'.root = call.root /\ call'.gw = call.gw /\ call'.tried = 0
    BY <2>5 DEF CallType
  <2>7. db'.used = db.used \cup {a}
        /\ db'.nics = db.nics /\ db'.addr = db.addr /\ db'.route = db.route
        /\ db'.vtep = db.vtep /\ db'.pods = db.pods /\ db'.podKey = db.podKey
        /\ db'.netns = db.netns
    BY <2>5 DEF DbType
  <2>8. Plain(db') /\ Accounted(call', db') /\ Founds(call', db')
    BY <1>1, <1>2, <2>1, <2>2, <2>6, <2>7 DEF Plain, Accounted, Founds
  <2>9. AllSettled(call', db', dev', phase')
    BY <1>1, <2>1, <2>5, <2>6, <2>7
    DEF AllSettled, Settled, AtWork, AddPC, DelPC
  <2> QED
    BY <2>1, <2>3, <2>6, <2>8, <2>9 DEF Neat, Tidy, Rests, InitPC, AddPC, DelPC
\* An interface of the root namespace.
<1>6. ASSUME NEW nic \in Nic \ {"eth0"}, NEW here \in InitPC, NEW there \in InitPC,
             AddNic(HOST, nic, here, there),
             here = "nicBridge" => nic = "bridge" /\ there = "setupBridge",
             here # "nicBridge" => here \in {"nicVxlan", "nicUnderlay"}
                                   /\ there \in {"vtep", "netnsHost"},
             there = "vtep" => here = "nicVxlan"
      PROVE  Neat'
  <2> DEFINE d == [db EXCEPT !.nics[HOST] = @ \cup {nic}]
  <2>1. Write(here, d, To(there))
    BY <1>6 DEF AddNic
  <2>2. /\ call.pc = here /\ To(there).pc = there /\ To(there).addr = call.addr
        /\ To(there).pod = call.pod
    BY <2>1, CalmWrite, ToStep DEF PC, InitPC
  <2>3. /\ d.addr = db.addr /\ d.used = db.used /\ d.route = db.route
        /\ d.vtep = db.vtep /\ d.pods = db.pods /\ d.podKey = db.podKey /\ d.netns = db.netns
        /\ d.nics[HOST] = db.nics[HOST] \cup {nic}
        /\ \A c \in Container : d.nics[c] = db.nics[c]
    BY <1>2 DEF DbType
  <2> HIDE DEF d
  <2>4. Founds(To(there), d)
    BY <1>1, <1>6, <2>2, <2>3 DEF Founds, InitPC
  <2>5. Accounted(To(there), d)
    BY <1>1, <1>6, <2>2, <2>3 DEF Accounted, InitPC
  <2>6. Plain(d)
    BY <1>1, <1>6, <2>3 DEF Plain
  <2> QED  BY <2>1, <2>3, <2>4, <2>5, <2>6, FoundTidy
<1>7. CASE AddNic(HOST, "bridge", "nicBridge", "setupBridge")
  BY <1>6, <1>7 DEF Nic, InitPC
<1>8. CASE AddNic(HOST, "vxlan", "nicVxlan", "vtep")
  BY <1>6, <1>8 DEF Nic, InitPC
<1>9. CASE AddNic(HOST, "underlay", "nicUnderlay", "netnsHost")
  BY <1>6, <1>9 DEF Nic, InitPC
\* Its bridge and the address of it.
<1>10. ASSUME NEW there \in {"setAddrBridge", "addrBridge"},
              call.pc \in {"setupBridge", "setAddrBridge"}, call' = To(there),
              UNCHANGED <<db, nsUp, phase>>, \A c \in Container : dev'[c] = dev[c]
       PROVE  Neat'
  <2>1. call' = To(there)
    BY <1>10
  <2>2. /\ call'.pc = there /\ call'.addr = call.addr /\ call'.c = call.c
        /\ call'.root = call.root /\ call'.gw = call.gw /\ call'.tried = call.tried
    BY <2>1 DEF To, CallType
  <2>3. Accounted(call', db') /\ Founds(call', db')
    BY <1>1, <1>10, <2>2 DEF Accounted, Founds, InitPC
  <2>4. AllSettled(call', db', dev', phase')
    BY <1>1, <1>10, <2>2 DEF AllSettled, Settled, AtWork, AddPC, DelPC
  <2> QED
    BY <1>10, <2>2, <2>3, <2>4 DEF Neat, Tidy, Rests, InitPC, AddPC, DelPC
<1>17. CASE SetupBridge
  BY <1>2, <1>10, <1>17, CalmStep DEF SetupBridge, IpFails
<1>18. CASE SetBridgeAddr
  BY <1>10, <1>18, CalmStep DEF SetBridgeAddr, IpFails
<1>11. ASSUME NEW there \in {"nicVxlan", "nicUnderlay"}, there = "nicVxlan" => Vxlan,
              AddAddr(HOST, "addrBridge", there)
       PROVE  Neat'
  <2> DEFINE d == [db EXCEPT !.addr[HOST] = call.addr]
  <2>1. Write("addrBridge", d, To(there))
    BY <1>11 DEF AddAddr
  <2>2. call.pc = "addrBridge" /\ To(there).pc = there
    BY <2>1, CalmWrite, ToStep DEF PC, InitPC
  <2>3. call.addr \in Addr
    BY <2>2 DEF Shape
  <2>4. /\ d.nics = db.nics /\ d.used = db.used /\ d.route = db.route
        /\ d.vtep = db.vtep /\ d.pods = db.pods /\ d.podKey = db.podKey /\ d.netns = db.netns
        /\ d.addr[HOST] = call.addr
        /\ \A c \in Container : d.addr[c] = db.addr[c]
    BY <1>2 DEF DbType
  <2> HIDE DEF d
  <2>5. Founds(To(there), d)
    BY <1>1, <1>11, <2>2, <2>3, <2>4 DEF Founds, InitPC
  <2>6. Accounted(To(there), d)
    <3>1. db.addr[HOST] = None /\ db.used \subseteq Addr
      BY <1>1, <2>2 DEF Founds, InitPC, DbType
    <3>2. SUFFICES ASSUME NEW a \in d.used PROVE \E p \in Pod : d.addr[p] = a
      BY <2>2 DEF Accounted
    <3>3. a = call.addr \/ \E p \in Pod : db.addr[p] = a
      BY <1>1, <2>4, <3>2 DEF Accounted
    <3> QED  BY <1>2, <2>4, <3>1, <3>2, <3>3 DEF Pod
  <2>7. Plain(d)
    BY <1>1, <2>4 DEF Plain
  <2> QED  BY <2>1, <2>4, <2>5, <2>6, <2>7, FoundTidy DEF InitPC
<1>12. CASE AddAddr(HOST, "addrBridge", AfterBridge)
  BY <1>11, <1>12 DEF AfterBridge
<1>13. CASE AddVtep("vtep", "nicUnderlay")
  <2> DEFINE d == [db EXCEPT !.vtep = TRUE]
  <2>1. Write("vtep", d, To("nicUnderlay"))
    BY <1>13 DEF AddVtep
  <2>2. call.pc = "vtep" /\ To("nicUnderlay").pc = "nicUnderlay"
    BY <2>1, CalmWrite, ToStep DEF PC, InitPC
  <2>3. /\ d.nics = db.nics /\ d.addr = db.addr /\ d.used = db.used /\ d.route = db.route
        /\ d.pods = db.pods /\ d.podKey = db.podKey /\ d.netns = db.netns
    BY DEF DbType
  <2> HIDE DEF d
  <2>4. Founds(To("nicUnderlay"), d) /\ Vxlan
    BY <1>1, <2>2, <2>3 DEF Founds, InitPC
  <2> QED  BY <1>3, <2>1, <2>3, <2>4 DEF InitPC
<1>14. CASE AddNetns(HOST, "netnsHost", "podKeyHost")
  <2> DEFINE d == [db EXCEPT !.netns = @ \cup {HOST}]
  <2>1. Write("netnsHost", d, To("podKeyHost"))
    BY <1>14 DEF AddNetns
  <2>2. call.pc = "netnsHost" /\ To("podKeyHost").pc = "podKeyHost"
    BY <2>1, CalmWrite, ToStep DEF PC, InitPC
  <2>3. /\ d.nics = db.nics /\ d.addr = db.addr /\ d.used = db.used /\ d.route = db.route
        /\ d.vtep = db.vtep
        /\ d.pods = db.pods /\ d.podKey = db.podKey /\ d.netns = db.netns \cup {HOST}
    BY DEF DbType
  <2> HIDE DEF d
  <2>4. Founds(To("podKeyHost"), d)
    BY <1>1, <2>2, <2>3 DEF Founds, InitPC
  <2> QED  BY <1>1, <1>2, <1>3, <2>1, <2>3, <2>4 DEF InitPC, Plain
<1>15. CASE PutPodKey(HOST, "podKeyHost", "podListHost")
  <2> DEFINE d == [db EXCEPT !.podKey = @ \cup {HOST}]
  <2>1. Write("podKeyHost", d, To("podListHost"))
    BY <1>15 DEF PutPodKey
  <2>2. call.pc = "podKeyHost" /\ To("podListHost").pc = "podListHost"
    BY <2>1, CalmWrite, ToStep DEF PC, InitPC
  <2>3. /\ d.nics = db.nics /\ d.addr = db.addr /\ d.used = db.used /\ d.route = db.route
        /\ d.vtep = db.vtep
        /\ d.pods = db.pods /\ d.podKey = db.podKey \cup {HOST} /\ d.netns = db.netns
    BY DEF DbType
  <2> HIDE DEF d
  <2>4. Founds(To("podListHost"), d)
    BY <1>1, <2>2, <2>3 DEF Founds, InitPC
  <2> QED  BY <1>1, <1>2, <1>3, <2>1, <2>3, <2>4 DEF InitPC, Plain
\* The root namespace is complete, and the container's turn comes.
<1>16. CASE AppendPod(HOST, "podListHost", "podKey")
  <2> DEFINE d == [db EXCEPT !.pods = @ \cup {HOST}]
  <2>1. Write("podListHost", d, To("podKey"))
    BY <1>16 DEF AppendPod
  <2>2. /\ To("podKey").pc = "podKey" /\ To("podKey").c = call.c
        /\ To("podKey").root = call.root /\ To("podKey").gw = call.gw
        /\ To("podKey").tried = call.tried
    BY DEF To, CallType
  <2>3. call.pc = "podListHost" /\ db' = d /\ call' = To("podKey")
        /\ UNCHANGED <<dev, on, nsUp, phase>>
    BY <2>1, <2>2, CalmWrite
  <2>4. /\ d.nics = db.nics /\ d.addr = db.addr /\ d.used = db.used /\ d.route = db.route
        /\ d.vtep = db.vtep /\ d.subnet = db.subnet
        /\ d.pods = db.pods \cup {HOST} /\ d.podKey = db.podKey /\ d.netns = db.netns
    BY DEF DbType
  <2> HIDE DEF d
  <2>5. db.subnet
    BY <2>3 DEF Life, Does, Prepares, InitPC
  <2>6. NodeUp(db')
    BY <1>1, <2>3, <2>4, <2>5 DEF NodeUp, Founds, InitPC
  <2>7. AllSettled(call', db', dev', phase')
    <3>1. SUFFICES ASSUME NEW c \in Container PROVE Settled(c, db', dev', phase')
      BY DEF AllSettled
    <3>2. Settled(c, db, dev, phase)
      BY <1>1, <2>3 DEF AllSettled, AtWork, AddPC, DelPC
    <3> QED  BY <1>2, <2>3, <2>4, <3>2 DEF Settled
  <2>8. Plain(db') /\ Accounted(call', db')
    BY <1>1, <2>2, <2>3, <2>4 DEF Plain, Accounted
  <2> QED
    BY <2>2, <2>3, <2>6, <2>7, <2>8 DEF Neat, Tidy, Rests, Plugs, InitPC, AddPC, DelPC
<1> QED
  BY <1>4, <1>5, <1>7, <1>8, <1>9, <1>12, <1>13, <1>14, <1>15, <1>16, <1>17, <1>18, CalmStep
  DEF InitNode, GetBridge, GetVxlan, GetRootPod, IpFails

-----------------------------------------------------------------------------
(* The ADD of a container.                                                  *)

\* A step with which an ADD goes on.
LEMMA AddStepTidy ==
    ASSUME IInv, Life, Neat, call.pc \in AddPC, UNCHANGED <<nsUp, phase>>,
           call'.pc \in AddPC, call'.c = call.c, call'.tried = 0,
           call'.root = call.root, call'.gw = call.gw,
           db'.subnet = db.subnet, db'.vtep = db.vtep,
           \A p \in Pod : p # call.c =>
              /\ p \in db'.pods <=> p \in db.pods
              /\ p \in db'.podKey <=> p \in db.podKey
              /\ p \in db'.netns <=> p \in db.netns
              /\ p \in db'.route <=> p \in db.route
              /\ db'.nics[p] = db.nics[p] /\ db'.addr[p] = db.addr[p]
              /\ dev'[p] = dev[p],
           Accounted(call', db'),
           call'.pc = "rename" => dev'[call.c] = "temp",
           call'.pc \in {"plug", "allocate", "setAddr", "addr", "route"}
              => dev'[call.c] = "ns"
    PROVE  Neat'
<1>1. call.c \in Container /\ HOST \in Pod /\ HOST # call.c
  BY AddFacts DEF Pod
<1>2. Plain(db) /\ AllSettled(call, db, dev, phase) /\ NodeUp(db)
      /\ call.root /\ call.gw /\ call.c \in nsUp
  BY DEF Neat, Tidy, Plugs
<1>3. Plain(db') /\ NodeUp(db')
  BY <1>1, <1>2 DEF Plain, NodeUp
<1>4. AllSettled(call', db', dev', phase')
  <2>1. SUFFICES ASSUME NEW c \in Container, c # call.c
                 PROVE  Settled(c, db', dev', phase')
    BY DEF AllSettled, AtWork
  <2>2. Settled(c, db, dev, phase) /\ c \in Pod
    BY <1>2, <2>1, Steps DEF AllSettled, AtWork, Pod
  <2> QED  BY <2>1, <2>2 DEF Settled
<1> QED
  BY <1>2, <1>3, <1>4, Steps DEF Neat, Tidy, Rests, Plugs

LEMMA AddPodTidy ==
    ASSUME IInv, Life, Neat, Calm, AddPod
    PROVE  Neat'
<1> USE Parts, CniAssumption
<1> DEFINE c == call.c
<1>1. ASSUME call.pc \in AddPC
      PROVE  /\ c \in Container /\ c \in Pod /\ c # HOST
             /\ Adds(call, db, dev, on, phase) /\ Begins(call, db, on, phase)
             /\ phase[c] \in {"new", "failed"}
             /\ Accounted(call, db) /\ AllSettled(call, db, dev, phase) /\ Plain(db)
             /\ call.root /\ call.gw /\ call.tried = 0 /\ c \in nsUp
             /\ Plugs(call, db, dev)
  BY <1>1, AddFacts, Steps DEF Neat, Tidy
\* A record of the pod.
<1>2. ASSUME NEW here \in {"podKey", "podList", "netns", "nic"}, NEW d,
             NEW there \in {"podList", "netns", "nic", "veth"}, Write(here, d, To(there)),
             d.subnet = db.subnet, d.vtep = db.vtep, d.used = db.used,
             d.addr = db.addr, d.route = db.route,
             \A p \in Pod : p # c =>
                /\ p \in d.pods <=> p \in db.pods
                /\ p \in d.podKey <=> p \in db.podKey
                /\ p \in d.netns <=> p \in db.netns
                /\ d.nics[p] = db.nics[p]
      PROVE  Neat'
  <2>1. /\ To(there).pc = there /\ To(there).c = c /\ To(there).tried = call.tried
        /\ To(there).root = call.root /\ To(there).gw = call.gw
    BY DEF To, CallType
  <2>2. call.pc = here /\ call' = To(there) /\ db' = d /\ UNCHANGED <<dev, nsUp, phase>>
    BY <1>2, <2>1, CalmWrite
  <2>3. call.pc \in AddPC /\ call'.pc \in AddPC
    BY <2>1, <2>2 DEF AddPC
  <2>4. Accounted(call', db')
    BY <1>1, <1>2, <2>1, <2>2, <2>3 DEF Accounted
  <2> QED  BY <1>1, <1>2, <2>1, <2>2, <2>3, <2>4, AddStepTidy
<1>3. CASE PutPodKey(c, "podKey", "podList")
  <2> DEFINE d == [db EXCEPT !.podKey = @ \cup {c}]
  <2>1. Write("podKey", d, To("podList"))
    BY <1>3 DEF PutPodKey
  <2>2. /\ d.nics = db.nics /\ d.addr = db.addr /\ d.used = db.used /\ d.route = db.route
        /\ d.vtep = db.vtep /\ d.subnet = db.subnet
        /\ d.pods = db.pods /\ d.podKey = db.podKey \cup {c} /\ d.netns = db.netns
    BY DEF DbType
  <2> HIDE DEF d, c
  <2> QED  BY <1>2, <2>1, <2>2
<1>4. CASE AppendPod(c, "podList", "netns")
  <2> DEFINE d == [db EXCEPT !.pods = @ \cup {c}]
  <2>1. Write("podList", d, To("netns"))
    BY <1>4 DEF AppendPod
  <2>2. /\ d.nics = db.nics /\ d.addr = db.addr /\ d.used = db.used /\ d.route = db.route
        /\ d.vtep = db.vtep /\ d.subnet = db.subnet
        /\ d.pods = db.pods \cup {c} /\ d.podKey = db.podKey /\ d.netns = db.netns
    BY DEF DbType
  <2> HIDE DEF d, c
  <2> QED  BY <1>2, <2>1, <2>2
<1>5. CASE AddNetns(c, "netns", "nic")
  <2> DEFINE d == [db EXCEPT !.netns = @ \cup {c}]
  <2>1. Write("netns", d, To("nic"))
    BY <1>5 DEF AddNetns
  <2>2. /\ d.nics = db.nics /\ d.addr = db.addr /\ d.used = db.used /\ d.route = db.route
        /\ d.vtep = db.vtep /\ d.subnet = db.subnet
        /\ d.pods = db.pods /\ d.podKey = db.podKey /\ d.netns = db.netns \cup {c}
    BY DEF DbType
  <2> HIDE DEF d, c
  <2> QED  BY <1>2, <2>1, <2>2
<1>6. CASE AddNic(c, "eth0", "nic", "veth")
  <2> DEFINE d == [db EXCEPT !.nics[c] = @ \cup {"eth0"}]
  <2>1. Write("nic", d, To("veth"))
    BY <1>6 DEF AddNic
  <2>2. /\ d.addr = db.addr /\ d.used = db.used /\ d.route = db.route
        /\ d.vtep = db.vtep /\ d.subnet = db.subnet
        /\ d.pods = db.pods /\ d.podKey = db.podKey /\ d.netns = db.netns
        /\ \A p \in Pod : p # c => d.nics[p] = db.nics[p]
    BY DEF DbType
  <2> HIDE DEF d, c
  <2> QED  BY <1>2, <2>1, <2>2
\* A command on the interface.
<1>7. ASSUME NEW here \in AddPC, call.pc = here,
             NEW there \in {"setNetns", "rename", "plug", "allocate", "addr"},
             call' = To(there) \/ Continue(To(there)), UNCHANGED <<db, nsUp>>,
             call' = To(there) => UNCHANGED phase,
             \A p \in Pod : p # c => dev'[p] = dev[p],
             there = "addr" <=> here = "setAddr", here # "addr",
             there = "rename" => dev'[c] = "temp",
             there \in {"plug", "allocate", "addr"} => dev'[c] = "ns"
      PROVE  Neat'
  <2>1. /\ To(there).pc = there /\ To(there).c = c /\ To(there).tried = call.tried
        /\ To(there).root = call.root /\ To(there).gw = call.gw
        /\ To(there).addr = call.addr /\ To(there).pod = call.pod
    BY DEF To, CallType
  <2>2. call' = To(there) /\ UNCHANGED phase
    BY <1>7, <2>1 DEF Continue
  <2>3. call'.pc \in AddPC
    BY <2>1, <2>2 DEF AddPC
  <2>4. Accounted(call', db')
    BY <1>1, <1>7, <2>1, <2>2 DEF Accounted, AddPC
  <2> QED  BY <1>1, <1>7, <2>1, <2>2, <2>3, <2>4, AddStepTidy
<1>8. CASE SetupVeth
  <2>1. /\ call.pc = "veth" /\ call' = To("setNetns") /\ UNCHANGED <<db, nsUp, phase>>
        /\ dev' = [dev EXCEPT ![c] = "root"]
    BY <1>8, CalmStep DEF SetupVeth, IpFails
  <2> QED  BY <1>7, <2>1 DEF AddPC
<1>9. CASE SetNetns
  <2>1. call.pc = "setNetns" /\ c \in nsUp
    BY <1>1, <1>9 DEF SetNetns, AddPC
  <2>2. /\ Continue(To("rename")) /\ UNCHANGED <<db, nsUp>>
        /\ dev' = [dev EXCEPT ![c] = "temp"]
    BY <1>9, <2>1, CalmStep DEF SetNetns, IpFails
  <2>3. dev'[c] = "temp"
    BY <1>1, <2>1, <2>2 DEF AddPC
  <2>4. To("rename").pc = "rename"
    BY DEF To, CallType
  <2>5. UNCHANGED phase
    BY <2>2, <2>4 DEF Continue
  <2> QED  BY <1>7, <2>1, <2>2, <2>3, <2>5 DEF AddPC
<1>10. CASE Rename
  <2>1. call.pc = "rename" /\ call.pc \in AddPC
    BY <1>10 DEF Rename, AddPC
  <2>2. /\ call' = To("plug") /\ UNCHANGED <<db, nsUp, phase>>
        /\ dev' = [dev EXCEPT ![c] = "ns"]
    BY <1>1, <1>10, <2>1, CalmStep DEF Rename, IpFails, Plugs
  <2>3. dev'[c] = "ns"
    BY <1>1, <2>1, <2>2
  <2> QED  BY <1>7, <2>1, <2>2, <2>3
<1>11. CASE Plug
  <2>1. call.pc = "plug" /\ call.pc \in AddPC
    BY <1>11 DEF Plug, AddPC
  <2>2. call.root /\ dev[c] = "ns"
    BY <1>1, <2>1 DEF Plugs
  <2>3. Continue(To("allocate")) /\ UNCHANGED <<db, dev, nsUp>>
    BY <1>11, <2>2, CalmStep DEF Plug, IpFails, SetMaster, kernel
  <2>4. To("allocate").pc = "allocate"
    BY DEF To, CallType
  <2>5. UNCHANGED phase
    BY <2>3, <2>4 DEF Continue
  <2> QED  BY <1>7, <2>1, <2>2, <2>3, <2>5
<1>12. CASE SetAddr
  <2>1. call.pc = "setAddr" /\ call.pc \in AddPC
    BY <1>12 DEF SetAddr, AddPC
  <2>2. dev[c] = "ns"
    BY <1>1, <2>1 DEF Plugs
  <2>3. Continue(To("addr")) /\ UNCHANGED <<db, dev, nsUp>>
    BY <1>12, <2>2, CalmStep DEF SetAddr, IpFails
  <2>4. To("addr").pc = "addr"
    BY DEF To, CallType
  <2>5. UNCHANGED phase
    BY <2>3, <2>4 DEF Continue
  <2> QED  BY <1>7, <2>1, <2>2, <2>3, <2>5
\* The container is up, or failed but complete, when its ADD ends from here on.
<1>13. ASSUME call.pc \in {"allocate", "route"}, call' = NoCall,
              \A f \in Container : f # c => phase'[f] = phase[f],
              phase'[c] \in Alive, UNCHANGED <<dev, nsUp>>,
              db'.subnet = db.subnet, db'.vtep = db.vtep, db'.used = db.used,
              db'.pods = db.pods, db'.podKey = db.podKey, db'.netns = db.netns,
              db'.nics = db.nics, db'.addr = db.addr,
              \A p \in Pod : p # c => (p \in db'.route <=> p \in db.route)
       PROVE  Neat'
  <2>1. call.pc \in AddPC /\ NoCall.pc = "idle"
    BY <1>13 DEF AddPC, NoCall
  <2>2. "eth0" \in db.nics[c] /\ dev[c] = "ns"
    BY <1>1, <1>13, <2>1 DEF Adds, Plugs
  <2>3. AllSettled(call', db', dev', phase')
    <3>1. SUFFICES ASSUME NEW f \in Container PROVE Settled(f, db', dev', phase')
      BY DEF AllSettled
    <3>2. CASE f = c
      BY <1>13, <2>2, <3>2 DEF Settled
    <3>3. CASE f # c
      <4>1. Settled(f, db, dev, phase) /\ f \in Pod
        BY <1>1, <2>1, <3>3, Steps DEF AllSettled, AtWork, Pod
      <4> QED  BY <1>13, <3>3, <4>1 DEF Settled
    <3> QED  BY <3>2, <3>3
  <2>4. Plain(db') /\ NodeUp(db') /\ Accounted(call', db')
    <3>1. \A a \in db.used : \E p \in Pod : db.addr[p] = a
      BY <1>1, <1>13, <2>1 DEF Accounted
    <3>2. Plain(db') /\ NodeUp(db')
      BY <1>1, <1>13, <2>1 DEF Plain, NodeUp, Plugs, Pod
    <3> QED  BY <1>13, <2>1, <3>1, <3>2 DEF Accounted
  <2> QED
    BY <1>1, <1>13, <2>1, <2>3, <2>4, Steps DEF Neat, Tidy, Rests
<1>14. CASE AllocateIp("allocate", "setAddr")
  <2>1. call.pc = "allocate" /\ call.pc \in AddPC /\ UNCHANGED <<dev, on, nsUp>>
    BY <1>14 DEF AllocateIp, kernel, AddPC
  <2>2. CASE Throw /\ UNCHANGED db
    <3>1. call' = NoCall /\ phase'[c] \in Alive
          /\ \A f \in Container : f # c => phase'[f] = phase[f]
      BY <1>1, <2>1, <2>2 DEF Throw, End, Alive
    <3> QED  BY <1>13, <2>1, <2>2, <3>1
  <2>3. ASSUME NEW a \in Candidate,
               db' = [db EXCEPT !.used = @ \cup {a}],
               call' = [call EXCEPT !.pc = "setAddr", !.addr = a, !.tried = 0],
               UNCHANGED phase
        PROVE  Neat'
    <3>1. /\ call'.pc = "setAddr" /\ call'.addr = a /\ call'.c = c
          /\ call'.root = call.root /\ call'.gw = call.gw /\ call'.tried = 0
      BY <2>3 DEF CallType
    <3>2. /\ db'.nics = db.nics /\ db'.addr = db.addr /\ db'.used = db.used \cup {a}
          /\ db'.route = db.route /\ db'.vtep = db.vtep /\ db'.subnet = db.subnet
          /\ db'.pods = db.pods /\ db'.podKey = db.podKey /\ db'.netns = db.netns
      BY <2>3 DEF DbType
    <3>3. Accounted(call', db')
      BY <1>1, <2>1, <3>1, <3>2 DEF Accounted
    <3>4. dev'[c] = "ns" /\ call'.pc \in AddPC
      BY <1>1, <2>1, <3>1 DEF Plugs, AddPC
    <3> QED  BY <2>1, <2>3, <3>1, <3>2, <3>3, <3>4, AddStepTidy
  <2> QED  BY <1>14, <2>2, <2>3, CalmStep DEF AllocateIp
<1>15. CASE AddAddr(c, "addr", "route")
  <2> DEFINE d == [db EXCEPT !.addr[c] = call.addr]
  <2>1. Write("addr", d, To("route"))
    BY <1>15 DEF AddAddr
  <2>2. /\ To("route").pc = "route" /\ To("route").c = c /\ To("route").tried = call.tried
        /\ To("route").root = call.root /\ To("route").gw = call.gw
    BY DEF To, CallType
  <2>3. call.pc = "addr" /\ call' = To("route") /\ db' = d /\ UNCHANGED <<dev, nsUp, phase>>
    BY <2>1, <2>2, CalmWrite
  <2>4. call.pc \in AddPC /\ call'.pc \in AddPC
    BY <2>2, <2>3 DEF AddPC
  <2>5. /\ d.nics = db.nics /\ d.used = db.used /\ d.route = db.route
        /\ d.vtep = db.vtep /\ d.subnet = db.subnet
        /\ d.pods = db.pods /\ d.podKey = db.podKey /\ d.netns = db.netns
        /\ d.addr[c] = call.addr
        /\ \A p \in Pod : p # c => d.addr[p] = db.addr[p]
    BY <1>1, <2>4 DEF DbType
  <2> HIDE DEF d
  <2>6. Accounted(call', db')
    <3>1. db.addr[c] = None /\ db.used \subseteq Addr
      BY <1>1, <2>3, <2>4 DEF Begins, DbType
    <3>2. SUFFICES ASSUME NEW a \in d.used PROVE \E p \in Pod : d.addr[p] = a
      BY <2>2, <2>3 DEF Accounted
    <3>3. a = call.addr \/ \E p \in Pod : db.addr[p] = a
      BY <1>1, <2>4, <2>5, <3>2 DEF Accounted
    <3> QED  BY <1>1, <2>4, <2>5, <3>1, <3>2, <3>3
  <2>7. dev'[c] = "ns"
    BY <1>1, <2>3, <2>4 DEF Plugs
  <2> QED  BY <1>1, <2>2, <2>3, <2>4, <2>5, <2>6, <2>7, AddStepTidy
<1>16. CASE AddRoute
  <2>1. call.pc = "route" /\ call.pc \in AddPC
    BY <1>16 DEF AddRoute, Write, AddPC
  <2>2. call.gw /\ IsExist(c)
    BY <1>1, <2>1 DEF Plugs, IsExist
  <2> DEFINE d == [db EXCEPT !.route = @ \cup {c}]
  <2>3. Write("route", d, To("return"))
    BY <1>16, <2>2, CalmStep DEF AddRoute, IpFails
  <2>4. db' = d /\ UNCHANGED <<dev, nsUp>> /\ Return
    BY <2>3, ToReturn, CalmWrite
  <2>5. /\ d.nics = db.nics /\ d.used = db.used /\ d.addr = db.addr
        /\ d.vtep = db.vtep /\ d.subnet = db.subnet
        /\ d.pods = db.pods /\ d.podKey = db.podKey /\ d.netns = db.netns
        /\ d.route = db.route \cup {c}
    BY DEF DbType
  <2> HIDE DEF d
  <2>6. call' = NoCall /\ phase'[c] \in Alive
        /\ \A f \in Container : f # c => phase'[f] = phase[f]
    BY <1>1, <2>1, <2>4 DEF Return, End, Alive
  <2> QED  BY <1>13, <2>1, <2>4, <2>5, <2>6
<1> QED
  BY <1>3, <1>4, <1>5, <1>6, <1>8, <1>9, <1>10, <1>11, <1>12, <1>14, <1>15, <1>16
  DEF AddPod, ConfigPodNetwork

-----------------------------------------------------------------------------
(* DEL.                                                                     *)

\* The next interface is one that is left, and the bridge if that is.
LEMMA NextNicIsLeft ==
    ASSUME call \in CallType, NEW rest \in SUBSET Nic
    PROVE  /\ NextNic(rest).addr = call.addr /\ NextNic(rest).bridge = call.bridge
           /\ NextNic(rest).root = call.root /\ NextNic(rest).last = call.last
           /\ rest # {} => NextNic(rest).pc = "cleanup" /\ NextNic(rest).nic \in rest
           /\ "bridge" \in rest /\ "eth0" \notin rest => NextNic(rest).nic = "bridge"
<1>1. CASE rest = {}
  BY <1>1 DEF NextNic, To, CallType
<1>2. CASE rest # {}
  <2> DEFINE first == CHOOSE n \in rest : \A m \in rest : Rank[n] <= Rank[m]
  <2>1. \A n \in Nic : Rank[n] \in {1, 2, 3}
    BY DEF Rank, Nic
  <2>2. \E n \in rest : \A m \in rest : Rank[n] <= Rank[m]
    <3>1. CASE \E n \in rest : Rank[n] = 1
      BY <2>1, <3>1
    <3>2. CASE (\A n \in rest : Rank[n] # 1) /\ \E n \in rest : Rank[n] = 2
      BY <2>1, <3>2
    <3>3. CASE \A n \in rest : Rank[n] \notin {1, 2}
      BY <1>2, <2>1, <3>3
    <3> QED  BY <2>1, <3>1, <3>2, <3>3
  <2>3. first \in rest /\ \A m \in rest : Rank[first] <= Rank[m]
    BY <2>2
  <2> HIDE DEF first
  <2>4. "bridge" \in rest /\ "eth0" \notin rest => first = "bridge"
    BY <2>3 DEF Rank, Nic
  <2>5. NextNic(rest) = [call EXCEPT !.pc = "cleanup", !.nic = first]
    BY <1>2 DEF NextNic, first
  <2> QED  BY <2>3, <2>4, <2>5 DEF CallType
<1> QED  BY <1>1, <1>2

\* What the proofs about a DEL start from.
LEMMA UndoFacts ==
    ASSUME IInv, Life, Neat, call.pc \in DelPC
    PROVE  /\ call.c \in Container /\ call.c # HOST /\ phase[call.c] = "gone"
           /\ call.pod \in Pod /\ call.pod \in {call.c, HOST}
           /\ call.pod # HOST => call.nic = "eth0" /\ call.pc # "releaseSubnet"
           /\ Plain(db) /\ Accounted(call, db) /\ AllSettled(call, db, dev, phase)
           /\ Unwinds(call, db, dev) /\ Leaves(call, db, phase)
BY Parts, DelFacts DEF Neat, Tidy, Deletes, Shape

\* A step with which a DEL goes on with its pod.
LEMMA DelStepTidy ==
    ASSUME IInv, Life, Neat, call.pc \in DelPC, UNCHANGED <<nsUp, phase>>,
           call'.pc \in DelPC, call'.c = call.c, call'.pod = call.pod,
           call'.root = call.root, call'.last = call.last, call'.bridge = call.bridge,
           db'.subnet = db.subnet, db'.vtep => db.vtep,
           \A p \in Pod : p # call.pod =>
              /\ p \in db'.pods <=> p \in db.pods
              /\ p \in db'.podKey <=> p \in db.podKey
              /\ p \in db'.netns <=> p \in db.netns
              /\ db'.addr[p] = db.addr[p]
              /\ dev'[p] = dev[p],
           \A p \in Pod :
              /\ db'.nics[p] \subseteq db.nics[p]
              /\ p # call.pod => db'.nics[p] = db.nics[p],
           db'.route \subseteq db.route,
           \A p \in Pod : p # call.pod /\ p \in db.route => p \in db'.route,
           Accounted(call', db'), Unwinds(call', db', dev')
    PROVE  Neat'
<1>1. HOST \in Pod /\ \A c \in Container : c \in Pod /\ c # HOST
  BY CniAssumption DEF Pod
<1>2. Plain(db')
  BY <1>1, UndoFacts DEF Plain
<1>3. Leaves(call', db', phase')
  BY <1>1, UndoFacts DEF Leaves, NodeUp
<1>4. AllSettled(call', db', dev', phase')
  <2>1. SUFFICES ASSUME NEW c \in Container, ~ AtWork(c, call')
                 PROVE  Settled(c, db', dev', phase')
    BY DEF AllSettled
  <2>2. ~ AtWork(c, call) /\ c # call.pod
    BY <1>1, <2>1, UndoFacts, Steps DEF AtWork
  <2>3. Settled(c, db, dev, phase)
    BY <2>2, UndoFacts DEF AllSettled
  <2> QED  BY <1>1, <2>2, <2>3 DEF Settled
<1> QED
  BY <1>2, <1>3, <1>4, Steps DEF Neat, Tidy, Rests

\* A call that returns from a DEL says nothing of its container.
LEMMA DelReturns ==
    ASSUME phase \in PhaseType, phase[call.c] = "gone", Return
    PROVE  call' = NoCall /\ phase' = phase
BY DEF Return, End, PhaseType

\* What To(pc) keeps of a call.
LEMMA ToKeeps ==
    ASSUME call \in CallType, NEW pc
    PROVE  /\ To(pc).pc = pc /\ To(pc).c = call.c /\ To(pc).pod = call.pod
           /\ To(pc).nic = call.nic /\ To(pc).addr = call.addr
           /\ To(pc).root = call.root /\ To(pc).last = call.last
           /\ To(pc).found = call.found /\ To(pc).bridge = call.bridge
BY DEF CallType, To

LEMMA DelNicTidy ==
    ASSUME IInv, Life, Neat, Calm, DelKubernetesNic
    PROVE  Neat'
<1> USE Parts, CniAssumption, ToKeeps
<1> DEFINE p == call.pod
<1>1. CASE Cleanup
  <2>1. call.pc = "cleanup" /\ call.pc \in DelPC
    BY <1>1 DEF Cleanup, DelPC
  <2>2. /\ UNCHANGED <<db, nsUp, phase>>
        /\ call' = To(IF call.nic = Main(p) THEN "releaseIp" ELSE "delNic")
        /\ \A q \in Pod : dev'[q] = IF q = p /\ call.nic = Main(p) /\ Placed(q)
                                    THEN "none" ELSE dev[q]
    BY <1>1, CalmStep DEF Cleanup
  <2>3. /\ call'.pc = IF call.nic = Main(p) THEN "releaseIp" ELSE "delNic"
        /\ call'.c = call.c /\ call'.pod = p /\ call'.nic = call.nic
        /\ call'.addr = call.addr /\ call'.root = call.root /\ call'.last = call.last
        /\ call'.bridge = call.bridge
    BY <2>2
  <2>4. Accounted(call', db')
    BY <2>1, <2>2, <2>3, UndoFacts DEF Accounted
  <2>5. Unwinds(call', db', dev')
    BY <2>1, <2>2, <2>3, UndoFacts DEF Unwinds, Placed
  <2>6. call'.pc \in DelPC
    BY <2>3 DEF DelPC
  <2> QED  BY <2>1, <2>2, <2>3, <2>4, <2>5, <2>6, DelStepTidy
\* A write that goes on with the same interface.
<1>2. ASSUME NEW here \in {"releaseIp", "delAddr", "delRoute"}, NEW d,
             NEW there \in {"delAddr", "delRoute", "delNic"},
             Write(here, d, To(there)) \/ WriteAnyway(here, d, To(there)),
             d.subnet = db.subnet, d.vtep = db.vtep, d.nics = db.nics,
             d.pods = db.pods, d.podKey = db.podKey, d.netns = db.netns,
             \A q \in Pod : q # p => d.addr[q] = db.addr[q] /\ (q \in d.route <=> q \in db.route),
             d.route \subseteq db.route,
             Accounted(To(there), d),
             there # "delAddr" => d.addr[p] = None,
             there = "delNic" => p \notin d.route
      PROVE  Neat'
  <2>1. call.pc = here /\ call' = To(there) /\ db' = d /\ UNCHANGED <<dev, nsUp, phase>>
    BY <1>2, CalmWrite
  <2>2. call.pc \in DelPC /\ call'.pc \in DelPC
    BY <2>1 DEF DelPC
  <2>3. Unwinds(call', db', dev')
    BY <1>2, <2>1, <2>2, UndoFacts DEF Unwinds
  <2> QED  BY <1>2, <2>1, <2>2, <2>3, DelStepTidy
<1>3. CASE ReleaseIp
  <2> DEFINE d == [db EXCEPT !.used = @ \ {call.addr}]
  <2>1. WriteAnyway("releaseIp", d, To("delAddr"))
    BY <1>3 DEF ReleaseIp
  <2>2. call.pc = "releaseIp" /\ call.pc \in DelPC
    BY <2>1, CalmWrite DEF DelPC
  <2>3. /\ d.subnet = db.subnet /\ d.vtep = db.vtep /\ d.nics = db.nics /\ d.addr = db.addr
        /\ d.pods = db.pods /\ d.podKey = db.podKey /\ d.netns = db.netns
        /\ d.route = db.route /\ d.used = db.used \ {call.addr}
    BY DEF DbType
  <2> HIDE DEF d
  <2>4. call.addr = db.addr[p]
    BY <2>2, UndoFacts DEF Unwinds
  <2>5. Accounted(To("delAddr"), d)
    BY <2>2, <2>3, <2>4, UndoFacts DEF Accounted
  <2> QED  BY <1>2, <2>1, <2>3, <2>5
<1>4. CASE DelAddr
  <2> DEFINE d == [db EXCEPT !.addr[p] = None]
  <2>1. Write("delAddr", d, To("delRoute"))
    BY <1>4 DEF DelAddr
  <2>2. call.pc = "delAddr" /\ call.pc \in DelPC
    BY <2>1, CalmWrite DEF DelPC
  <2>3. /\ d.subnet = db.subnet /\ d.vtep = db.vtep /\ d.nics = db.nics
        /\ d.pods = db.pods /\ d.podKey = db.podKey /\ d.netns = db.netns
        /\ d.route = db.route /\ d.used = db.used
        /\ d.addr[p] = None /\ \A q \in Pod : q # p => d.addr[q] = db.addr[q]
    BY <2>2, UndoFacts DEF DbType
  <2> HIDE DEF d
  <2>4. Accounted(To("delRoute"), d)
    BY <2>2, <2>3, UndoFacts DEF Accounted
  <2> QED  BY <1>2, <2>1, <2>3, <2>4
<1>5. CASE DelRoute
  <2> DEFINE d == [db EXCEPT !.route = @ \ {p}]
  <2>1. Write("delRoute", d, To("delNic"))
    BY <1>5 DEF DelRoute
  <2>2. call.pc = "delRoute" /\ call.pc \in DelPC
    BY <2>1, CalmWrite DEF DelPC
  <2>3. /\ d.subnet = db.subnet /\ d.vtep = db.vtep /\ d.nics = db.nics
        /\ d.pods = db.pods /\ d.podKey = db.podKey /\ d.netns = db.netns
        /\ d.route = db.route \ {p} /\ d.used = db.used /\ d.addr = db.addr
    BY DEF DbType
  <2> HIDE DEF d
  <2>4. Accounted(To("delNic"), d) /\ d.addr[p] = None
    BY <2>2, <2>3, UndoFacts DEF Accounted, Unwinds
  <2> QED  BY <1>2, <2>1, <2>3, <2>4
\* Where DEL continues when the bridge or the interface is deleted.
<1>6. ASSUME NEW here \in {"delNic", "delVtep"}, NEW d, NEW next, Write(here, d, next),
             next = To("delVtep") \/ (next = NextNic(d.nics[p]) /\ ~ d.vtep),
             next = To("delVtep") => here = "delNic",
             d.subnet = db.subnet, d.vtep => db.vtep, d.used = db.used, d.addr = db.addr,
             d.pods = db.pods, d.podKey = db.podKey, d.netns = db.netns, d.route = db.route,
             d.nics[p] \subseteq db.nics[p],
             \A q \in Pod : q # p => d.nics[q] = db.nics[q],
             Main(p) \notin d.nics[p]
      PROVE  Neat'
  <2>1. call.pc = here /\ call.pc \in DelPC
    BY <1>6, CalmWrite DEF DelPC
  <2>2. p \in Pod /\ d.nics[p] \in SUBSET Nic
    BY <1>6, <2>1, UndoFacts DEF DbType
  <2>3. /\ next.pc \in {"delVtep", "cleanup", "delNetns"}
        /\ next.c = call.c /\ next.pod = p /\ next.root = call.root /\ next.last = call.last
        /\ next.bridge = call.bridge
        /\ next.pc = "cleanup" => next.nic \in d.nics[p]
        /\ next.pc = "delNetns" => d.nics[p] = {} /\ ~ d.vtep
    <3>1. CASE next = To("delVtep")
      BY <3>1
    <3>2. CASE next = NextNic(d.nics[p]) /\ ~ d.vtep
      <4> DEFINE rest == d.nics[p]
      <4>1. rest \in SUBSET Nic /\ next = NextNic(rest)
        BY <2>2, <3>2
      <4> HIDE DEF rest
      <4>2. /\ next.pc = "cleanup" \/ (next.pc = "delNetns" /\ rest = {})
            /\ next.pod = p /\ next.c = call.c
            /\ next.root = call.root /\ next.last = call.last /\ next.bridge = call.bridge
            /\ rest # {} => next.nic \in rest
        BY <4>1, NextNicType, NextNicCarries, NextNicIsLeft
      <4>3. rest = {} => next.pc = "delNetns"
        BY <4>1 DEF NextNic
      <4> QED  BY <3>2, <4>2, <4>3 DEF rest
    <3> QED  BY <1>6, <3>1, <3>2
  <2>4. call' = next /\ db' = d /\ UNCHANGED <<dev, nsUp, phase>>
    BY <1>6, <2>3, CalmWrite
  <2>5. Accounted(call', db')
    BY <1>6, <2>1, <2>3, <2>4, UndoFacts DEF Accounted
  <2>6. Unwinds(call', db', dev')
    BY <1>6, <2>1, <2>3, <2>4, UndoFacts DEF Unwinds
  <2>7. call'.pc \in DelPC
    BY <2>3, <2>4 DEF DelPC
  <2>8. \A q \in Pod : d.nics[q] \subseteq db.nics[q]
    BY <1>6
  <2> QED  BY <1>6, <2>1, <2>3, <2>4, <2>5, <2>6, <2>7, <2>8, DelStepTidy
<1>7. CASE DelNic
  <2> DEFINE rest == db.nics[p] \ {call.nic}
             d == [db EXCEPT !.nics[p] = rest]
  <2>1. Write("delNic", d, AfterNic(rest))
    BY <1>7 DEF DelNic
  <2>2. call.pc = "delNic" /\ call.pc \in DelPC
    BY <2>1, CalmWrite DEF DelPC
  <2>3. /\ d.subnet = db.subnet /\ d.vtep = db.vtep /\ d.addr = db.addr
        /\ d.pods = db.pods /\ d.podKey = db.podKey /\ d.netns = db.netns
        /\ d.route = db.route /\ d.used = db.used
        /\ d.nics[p] = rest /\ \A q \in Pod : q # p => d.nics[q] = db.nics[q]
    BY <2>2, UndoFacts DEF DbType
  <2>4. Main(p) \notin rest
    BY <2>2, UndoFacts DEF Unwinds
  <2>5. \/ AfterNic(rest) = To("delVtep")
        \/ AfterNic(rest) = NextNic(rest) /\ ~ db.vtep
    BY <2>2, UndoFacts DEF AfterNic, Plain
  <2>6. rest \subseteq db.nics[p]
    OBVIOUS
  <2> HIDE DEF d, rest
  <2> QED  BY <1>6, <2>1, <2>3, <2>4, <2>5, <2>6
<1>8. CASE DelVtep
  <2> DEFINE d == [db EXCEPT !.vtep = FALSE]
  <2>1. Write("delVtep", d, NextNic(db.nics[p]))
    BY <1>8 DEF DelVtep
  <2>2. call.pc = "delVtep" /\ call.pc \in DelPC
    BY <2>1, CalmWrite DEF DelPC
  <2>3. /\ d.subnet = db.subnet /\ ~ d.vtep /\ d.addr = db.addr
        /\ d.pods = db.pods /\ d.podKey = db.podKey /\ d.netns = db.netns
        /\ d.route = db.route /\ d.used = db.used /\ d.nics = db.nics
    BY DEF DbType
  <2>4. Main(p) \notin d.nics[p]
    BY <2>2, <2>3, UndoFacts DEF Unwinds
  <2>5. NextNic(db.nics[p]).pc # "delVtep"
    <3>1. db.nics[p] \in SUBSET Nic
      BY <2>2, UndoFacts DEF DbType
    <3> QED  BY <3>1, NextNicType
  <2>6. NextNic(db.nics[p]) # To("delVtep")
    BY <2>5
  <2> HIDE DEF d
  <2> QED  BY <1>6, <2>1, <2>3, <2>4, <2>6
<1> QED
  BY <1>1, <1>3, <1>4, <1>5, <1>7, <1>8 DEF DelKubernetesNic

\* The bridge and what it needs are what a DEL finds when it comes to the root
\* namespace.
LEMMA HostUnwinds ==
    ASSUME call \in CallType, db \in DbType, Plain(db), NodeUp(db), NEW k, NEW e,
           call.bridge = db.addr[HOST],
           k = [NextNic(db.nics[HOST]) EXCEPT !.pod = HOST, !.addr = call.bridge],
           e.netns = db.netns, e.podKey = db.podKey, e.nics = db.nics, e.addr = db.addr
    PROVE  /\ k.pc = "cleanup" /\ k.c = call.c /\ k.pod = HOST /\ k \in CallType
           /\ Unwinds(k, e, dev)
<1> DEFINE rest == db.nics[HOST]
           n == NextNic(rest)
<1>1. HOST \in Pod /\ rest \in SUBSET Nic /\ "bridge" \in rest /\ "eth0" \notin rest
      /\ db.addr[HOST] \in Addr \cup {None}
  BY DEF Pod, DbType, Plain, NodeUp
<1> HIDE DEF rest
<1>2. n \in CallType /\ n.pc = "cleanup" /\ n.nic = "bridge" /\ n.c = call.c
  BY <1>1, NextNicType, NextNicCarries, NextNicIsLeft
<1> HIDE DEF n
<1>3. k = [n EXCEPT !.pod = HOST, !.addr = call.bridge]
  BY DEF n, rest
<1>4. /\ k \in CallType /\ k.pc = "cleanup" /\ k.c = call.c /\ k.pod = HOST
      /\ k.nic = "bridge" /\ k.addr = db.addr[HOST]
  BY <1>1, <1>2, <1>3 DEF CallType
<1> QED  BY <1>4 DEF Unwinds, Main, NodeUp

LEMMA DelPodTidy ==
    ASSUME IInv, Life, Neat, Calm, DelKubernetesPod \/ ReleaseSubnet
    PROVE  Neat'
<1> USE Parts, CniAssumption, ToKeeps
<1> DEFINE p == call.pod
<1>0. HOST \in Pod /\ \A c \in Container : c \in Pod /\ c # HOST
  BY DEF Pod
<1>1. CASE DelNetns
  <2> DEFINE d == [db EXCEPT !.netns = @ \ {p}]
  <2>1. call.pc = "delNetns" /\ call.pc \in DelPC
    BY <1>1 DEF DelNetns, Write, DelPC
  <2>2. GetNetns(p)
    BY <2>1, UndoFacts DEF Unwinds, GetNetns
  <2>3. Write("delNetns", d, To("delPodKey"))
    BY <1>1, <2>2 DEF DelNetns
  <2>4. call' = To("delPodKey") /\ db' = d /\ UNCHANGED <<dev, nsUp, phase>>
    BY <2>3, CalmWrite
  <2>5. /\ d.subnet = db.subnet /\ d.vtep = db.vtep /\ d.nics = db.nics /\ d.addr = db.addr
        /\ d.pods = db.pods /\ d.podKey = db.podKey /\ d.netns = db.netns \ {p}
        /\ d.route = db.route /\ d.used = db.used
    BY DEF DbType
  <2> HIDE DEF d
  <2>6. Accounted(call', db') /\ Unwinds(call', db', dev')
    BY <2>1, <2>4, <2>5, UndoFacts DEF Accounted, Unwinds
  <2>7. call'.pc \in DelPC
    BY <2>4 DEF DelPC
  <2> QED  BY <2>1, <2>4, <2>5, <2>6, <2>7, DelStepTidy
<1>2. CASE DelPodKey
  <2> DEFINE d == [db EXCEPT !.podKey = @ \ {p}]
             next == [call EXCEPT !.pc = "delPodList", !.found = p \in db.podKey]
  <2>1. Write("delPodKey", d, next)
    BY <1>2 DEF DelPodKey
  <2>2. call.pc = "delPodKey" /\ call.pc \in DelPC
    BY <2>1, CalmWrite DEF DelPC
  <2>3. p \in db.podKey
    BY <2>2, UndoFacts DEF Unwinds
  <2>4. /\ next.pc = "delPodList" /\ next.c = call.c /\ next.pod = p /\ next.nic = call.nic
        /\ next.addr = call.addr /\ next.root = call.root /\ next.last = call.last
        /\ next.found /\ next.bridge = call.bridge
    BY <2>3 DEF CallType
  <2>5. /\ d.subnet = db.subnet /\ d.vtep = db.vtep /\ d.nics = db.nics /\ d.addr = db.addr
        /\ d.pods = db.pods /\ d.podKey = db.podKey \ {p} /\ d.netns = db.netns
        /\ d.route = db.route /\ d.used = db.used
    BY DEF DbType
  <2> HIDE DEF d, next
  <2>6. call' = next /\ db' = d /\ UNCHANGED <<dev, nsUp, phase>>
    BY <2>1, <2>4, CalmWrite
  <2>7. Accounted(call', db') /\ Unwinds(call', db', dev')
    BY <2>2, <2>4, <2>5, <2>6, UndoFacts DEF Accounted, Unwinds
  <2>8. call'.pc \in DelPC
    BY <2>4, <2>6 DEF DelPC
  <2> QED  BY <2>2, <2>4, <2>5, <2>6, <2>7, <2>8, DelStepTidy
<1>3. CASE DelPodList
  <2> DEFINE d == [db EXCEPT !.pods = @ \ {p}]
  <2>1. call.pc = "delPodList" /\ call.pc \in DelPC
    BY <1>3 DEF DelPodList, Write, DelPC
  <2>2. call.found
    BY <2>1, UndoFacts DEF Unwinds
  <2>3. Write("delPodList", d, AfterPod)
    BY <1>3, <2>2 DEF DelPodList
  <2>4. /\ d.subnet = db.subnet /\ d.vtep = db.vtep /\ d.nics = db.nics /\ d.addr = db.addr
        /\ d.pods = db.pods \ {p} /\ d.podKey = db.podKey /\ d.netns = db.netns
        /\ d.route = db.route /\ d.used = db.used
    BY DEF DbType
  <2> HIDE DEF d
  <2>5. db' = d /\ UNCHANGED <<dev, nsUp>>
    BY <2>3, CalmWrite
  <2>6. CASE p = HOST
    <3>1. AfterPod = To("releaseSubnet")
      BY <2>6 DEF AfterPod
    <3>2. call' = To("releaseSubnet") /\ UNCHANGED phase
      BY <2>3, <3>1, CalmWrite
    <3>3. Accounted(call', db') /\ Unwinds(call', db', dev')
      BY <2>1, <2>4, <2>5, <3>2, UndoFacts DEF Accounted, Unwinds
    <3>4. call'.pc \in DelPC
      BY <3>2 DEF DelPC
    <3> QED  BY <2>1, <2>4, <2>5, <3>2, <3>3, <3>4, DelStepTidy
  \* The container is settled, whatever the call does next.
  <2>7. CASE p # HOST
    <3>1. p = call.c /\ p \in Container /\ NodeUp(db) /\ call.root
          /\ call.bridge = db.addr[HOST]
          /\ (call.last \/ \E f \in Container : f # call.c /\ phase[f] \in Alive)
          /\ phase[p] = "gone"
      BY <2>1, <2>7, UndoFacts DEF Leaves
    <3>2. Settled(p, d, dev, phase)
      <4>1. Unwinds(call, db, dev) /\ call.nic = "eth0" /\ p \in Pod
        BY <2>1, <2>7, UndoFacts
      <4>2. /\ p \notin db.netns /\ p \notin db.podKey /\ p \notin db.route
            /\ db.nics[p] = {} /\ dev[p] = "none"
        BY <2>1, <2>7, <4>1 DEF Unwinds, Main
      <4> QED  BY <2>4, <3>1, <4>2 DEF Settled, Alive
    <3>3. \A f \in Container : Settled(f, d, dev, phase)
      <4>1. SUFFICES ASSUME NEW f \in Container, f # p PROVE Settled(f, d, dev, phase)
        BY <3>2
      <4>2. Settled(f, db, dev, phase)
        BY <2>1, <3>1, <4>1, UndoFacts, Steps DEF AllSettled, AtWork
      <4> QED  BY <2>4, <4>1, <4>2 DEF Settled
    <3>4. Plain(d) /\ NodeUp(d)
      BY <2>1, <2>4, <2>7, <3>1, UndoFacts DEF Plain, NodeUp
    <3>5. \A a \in d.used : \E q \in Pod : d.addr[q] = a
      BY <2>1, <2>4, UndoFacts DEF Accounted
    <3>6. CASE call.last /\ call.root
      <4> DEFINE k == [NextNic(db.nics[HOST]) EXCEPT !.pod = HOST, !.addr = call.bridge]
      <4>1. AfterPod = k
        BY <2>7, <3>6 DEF AfterPod
      <4>2. /\ k.pc = "cleanup" /\ k.c = call.c /\ k.pod = HOST
            /\ Unwinds(k, d, dev)
        BY <2>1, <2>4, <3>1, UndoFacts, HostUnwinds
      <4> HIDE DEF k
      <4>3. call' = k /\ UNCHANGED phase
        BY <2>3, <4>1, <4>2, CalmWrite
      <4>4. call'.pc \in DelPC
        BY <4>2, <4>3 DEF DelPC
      <4>5. Accounted(call', db')
        BY <2>5, <3>5, <4>2, <4>3 DEF Accounted
      <4>6. AllSettled(call', db', dev', phase')
        BY <2>5, <3>3, <4>3 DEF AllSettled
      <4> QED
        BY <2>5, <3>4, <4>2, <4>3, <4>4, <4>5, <4>6, Steps
        DEF Neat, Tidy, Rests, Leaves
    <3>7. CASE ~ (call.last /\ call.root)
      <4>1. AfterPod = To("return")
        BY <2>7, <3>7 DEF AfterPod
      <4>2. Return
        BY <2>3, <4>1, CalmWrite
      <4>3. call' = NoCall /\ phase' = phase
        BY <3>1, <4>2, DelReturns
      <4>4. NoCall.pc = "idle"
        BY DEF NoCall
      <4>5. Accounted(call', db') /\ AllSettled(call', db', dev', phase')
        BY <2>5, <3>3, <3>5, <4>3, <4>4 DEF Accounted, AllSettled
      <4>6. Rests(call', db', dev', phase')
        BY <2>5, <3>1, <3>4, <3>7, <4>3 DEF Rests
      <4> QED
        BY <2>5, <3>4, <4>3, <4>4, <4>5, <4>6, Steps DEF Neat, Tidy
    <3> QED  BY <3>6, <3>7
  <2> QED  BY <2>6, <2>7
\* With the subnet the node is down.
<1>4. CASE ReleaseSubnet
  <2> DEFINE d == [db EXCEPT !.subnet = FALSE]
  <2>1. WriteAnyway("releaseSubnet", d, To("return"))
    BY <1>4 DEF ReleaseSubnet
  <2>2. call.pc = "releaseSubnet" /\ call.pc \in DelPC
    BY <2>1, CalmWrite DEF DelPC
  <2>3. p = HOST /\ phase[call.c] = "gone"
    BY <2>2, UndoFacts
  <2>4. /\ ~ d.subnet /\ d.vtep = db.vtep /\ d.nics = db.nics /\ d.addr = db.addr
        /\ d.pods = db.pods /\ d.podKey = db.podKey /\ d.netns = db.netns
        /\ d.route = db.route /\ d.used = db.used
    BY DEF DbType
  <2> HIDE DEF d
  <2>5. db' = d /\ UNCHANGED <<dev, nsUp>> /\ Return
    BY <2>1, CalmWrite
  <2>6. call' = NoCall /\ phase' = phase /\ NoCall.pc = "idle"
    BY <2>3, <2>5, DelReturns DEF NoCall
  <2>7. NodeDown(db', dev')
    BY <2>2, <2>3, <2>4, <2>5, UndoFacts DEF NodeDown, Unwinds
  <2>8. AllSettled(call', db', dev', phase')
    <3>1. SUFFICES ASSUME NEW f \in Container PROVE Settled(f, db', dev', phase')
      BY DEF AllSettled
    <3>2. Settled(f, db, dev, phase)
      BY <2>2, <2>3, UndoFacts, Steps DEF AllSettled, AtWork
    <3> QED  BY <2>4, <2>5, <2>6, <3>2 DEF Settled
  <2>9. Plain(db') /\ Accounted(call', db')
    BY <2>2, <2>4, <2>5, <2>6, UndoFacts DEF Plain, Accounted
  <2> QED
    BY <2>6, <2>7, <2>8, <2>9, Steps DEF Neat, Tidy, Rests
<1> QED  BY <1>1, <1>2, <1>3, <1>4 DEF DelKubernetesPod

-----------------------------------------------------------------------------
(* The first step of a call, and the environment.                           *)

\* Between two calls: what a process that starts finds.
LEMMA RestFacts ==
    ASSUME IInv, Life, Neat, call = NoCall
    PROVE  /\ \A c \in Container : Settled(c, db, dev, phase)
           /\ \A c \in Container : phase[c] \in Alive <=> Stored(c)
           /\ \A c \in Container : c \in db.pods => phase[c] \in Alive
           /\ NodeDown(db, dev) \/ (NodeUp(db) /\ \E c \in Container : phase[c] \in Alive)
           /\ Plain(db)
           /\ \A a \in db.used : \E p \in Pod : db.addr[p] = a
           /\ call.pc = "idle"
<1>1. call.pc = "idle"
  BY DEF NoCall
<1>2. \A c \in Container : Settled(c, db, dev, phase)
  BY <1>1, Steps DEF Neat, Tidy, AllSettled, AtWork
<1>3. ASSUME NEW c \in Container
      PROVE  /\ phase[c] \in Alive <=> Stored(c)
             /\ c \in db.pods => phase[c] \in Alive
  <2>1. Fits(c, db, dev, on, phase) /\ c # HOST
    BY CniAssumption DEF Life, AllFit
  <2> QED  BY <1>2, <2>1 DEF Settled, Fits, Stored, Main
<1>4. \A a \in db.used : \E p \in Pod : db.addr[p] = a
  BY <1>1 DEF Neat, Tidy, Accounted
<1> QED  BY <1>1, <1>2, <1>3, <1>4 DEF Neat, Tidy, Rests

\* The containers that no call is at work for may change their phase, if they stay up
\* or failed, or gone or new.
LEMMA StayTidy ==
    ASSUME IInv, Life, Neat, call = NoCall, UNCHANGED <<db, call>>,
           \A c \in Container : dev'[c] = dev[c] /\ (phase'[c] \in Alive <=> phase[c] \in Alive),
           ~ db.subnet => dev'[HOST] = dev[HOST]
    PROVE  Neat'
<1>1. AllSettled(call', db', dev', phase')
  BY RestFacts DEF AllSettled, Settled
<1>2. Rests(call', db', dev', phase')
  BY RestFacts DEF Rests, NodeUp, NodeDown
<1>3. Accounted(call', db') /\ Plain(db')
  BY RestFacts DEF Accounted
<1> QED  BY <1>1, <1>2, <1>3, RestFacts, Steps DEF Neat, Tidy

LEMMA StartTidy ==
    ASSUME IInv, Life, Neat, Calm, NEW c \in Container,
           StartAdd(c) \/ AddAgain(c) \/ StartDel(c) \/ NoPlugin(c)
    PROVE  Neat'
<1> USE Parts, CniAssumption
<1>0. HOST \in Pod /\ c \in Pod /\ c # HOST /\ Fits(c, db, dev, on, phase)
  BY DEF Pod, Life, AllFit
<1>1. ASSUME NEW lost, Lose(lost), Restore(lost)
      PROVE  /\ \A d \in Container : dev'[d] = dev[d]
             /\ ~ db.subnet => dev'[HOST] = dev[HOST]
             /\ UNCHANGED nsUp
             /\ lost = None
  BY <1>0, <1>1, RestoreFits, CalmStep DEF Lose, IpFails, Restore, Stored
<1>2. CASE StartAdd(c)
  <2> DEFINE root == ~ db.subnet \/ Stored(HOST)
             gw == ~ db.subnet \/ KnowsGateway
             first == IF db.subnet THEN "podKey" ELSE "subnet"
  <2>0. PICK lost : Lose(lost) /\ Restore(lost)
    BY <1>2 DEF StartAdd
  <2>1. /\ call = NoCall /\ c \in nsUp /\ ~ Stored(c)
        /\ call' = [NoCall EXCEPT !.pc = first, !.c = c, !.root = root, !.gw = gw]
        /\ UNCHANGED <<db, phase>>
    BY <1>2 DEF StartAdd, GetKubernetesNic
  <2>2. phase[c] \notin Alive
    BY <2>1, RestFacts
  <2>3. root /\ gw
    BY <2>1, RestFacts DEF NodeDown, NodeUp, Stored, Main, KnowsGateway, GetAllAddrs
  <2>4. \/ first = "podKey" /\ NodeUp(db)
        \/ first = "subnet" /\ NodeDown(db, dev)
    BY <2>1, RestFacts DEF NodeDown, NodeUp
  <2> HIDE DEF root, gw, first
  <2>5. /\ call'.pc = first /\ call'.c = c /\ call'.root /\ call'.gw /\ call'.tried = 0
    BY <2>1, <2>3 DEF NoCall
  <2>6. AllSettled(call', db', dev', phase')
    BY <1>1, <2>0, <2>1, RestFacts DEF AllSettled, Settled
  <2>7. Plain(db') /\ Accounted(call', db')
    BY <2>1, <2>4, <2>5, RestFacts DEF Accounted
  <2>8. CASE first = "podKey" /\ NodeUp(db)
    <3>1. Plugs(call', db', dev')
      BY <2>1, <2>5, <2>8 DEF Plugs, NodeUp
    <3> QED
      BY <1>1, <2>0, <2>1, <2>5, <2>6, <2>7, <2>8, <3>1
      DEF Neat, Tidy, Rests, InitPC, AddPC, DelPC
  <2>9. CASE first = "subnet" /\ NodeDown(db, dev)
    <3>1. \A p \in Pod : db.addr[p] = None
      <4>1. \A d \in Container : Fits(d, db, dev, on, phase)
        BY DEF Life, AllFit
      <4> QED  BY <2>9, <4>1 DEF NodeDown, Fits, Pod
    <3>2. Founds(call', db')
      BY <2>1, <2>5, <2>9, <3>1 DEF Founds
    <3> QED
      BY <1>1, <2>0, <2>1, <2>5, <2>6, <2>7, <2>9, <3>2
      DEF Neat, Tidy, Rests, InitPC, AddPC, DelPC
  <2> QED  BY <2>4, <2>8, <2>9
<1>3. CASE AddAgain(c)
  <2>0. PICK lost : Lose(lost) /\ Restore(lost)
    BY <1>3 DEF AddAgain
  <2>1. /\ call = NoCall /\ Stored(c) /\ UNCHANGED <<db, call>>
        /\ phase'[c] \in Alive /\ \A d \in Container : d # c => phase'[d] = phase[d]
    BY <1>3 DEF AddAgain, GetKubernetesNic, PhaseType, Alive
  <2>2. phase[c] \in Alive
    BY <2>1, RestFacts
  <2> QED  BY <1>1, <2>0, <2>1, <2>2, StayTidy
<1>4. CASE StartDel(c)
  <2>0. PICK lost :
           /\ Lose(lost) /\ Restore(lost)
           /\ IF GetNode /\ GetKubernetesPod(c)
              THEN call' = [NoCall EXCEPT
                              !.pc = IF Stored(c) THEN "cleanup" ELSE "delNetns",
                              !.c = c, !.pod = c,
                              !.addr = GetAddr(c, lost), !.bridge = GetAddr(HOST, lost),
                              !.root = GetKubernetesPod(HOST), !.last = IsLast(c)]
              ELSE UNCHANGED call
    BY <1>4 DEF StartDel
  <2>1. /\ call = NoCall /\ UNCHANGED db
        /\ phase'[c] = "gone" /\ \A d \in Container : d # c => phase'[d] = phase[d]
    BY <1>4 DEF StartDel, PhaseType
  <2>2. CASE UNCHANGED call /\ ~ (db.subnet /\ c \in db.pods)
    <3>1. phase[c] \notin Alive /\ phase'[c] \notin Alive
      BY <2>1, <2>2, RestFacts DEF Stored, Alive
    <3> QED  BY <1>1, <2>0, <2>1, <2>2, <3>1, StayTidy
  <2>3. CASE db.subnet /\ c \in db.pods
    <3> DEFINE addr == GetAddr(c, lost)
               bridge == GetAddr(HOST, lost)
               root == HOST \in db.pods
               last == IsLast(c)
    <3>1. Stored(c) /\ phase[c] \in Alive /\ Settled(c, db, dev, phase) /\ NodeUp(db)
      BY <2>1, <2>3, RestFacts DEF NodeDown
    <3>2. call' = [NoCall EXCEPT !.pc = "cleanup", !.c = c, !.pod = c, !.addr = addr,
                                 !.bridge = bridge, !.root = root, !.last = last]
      BY <2>0, <2>3, <3>1 DEF GetNode, GetKubernetesPod
    <3>12. lost = None
      BY <1>1, <2>0
    <3>3. addr = db.addr[c] /\ bridge = db.addr[HOST] /\ dev[c] = "ns"
      BY <1>0, <3>1, <3>12 DEF GetAddr, Placed, Settled, NodeUp, Stored, Main
    <3>4. root
      BY <3>1 DEF NodeUp
    \* A namespace that is left beside the root namespace is a container's.
    <3>5. last \/ \E d \in Container : d # c /\ phase[d] \in Alive
      <4> DEFINE S == db.pods \ {c}
      <4>1. CASE S = {HOST}
        BY <4>1, FS_Singleton DEF IsLast
      <4>2. CASE S # {HOST}
        <5>1. PICK d \in S : d # HOST
          BY <1>0, <3>4, <4>2
        <5>2. d \in Container /\ d \in db.pods /\ d # c
          BY <5>1 DEF DbType, Pod
        <5> QED  BY <2>1, <5>2, RestFacts
      <4> QED  BY <4>1, <4>2
    <3> HIDE DEF addr, bridge, root, last
    <3>6. /\ call'.pc = "cleanup" /\ call'.c = c /\ call'.pod = c /\ call'.nic = "eth0"
          /\ call'.addr = db.addr[c] /\ call'.root /\ call'.last = last
          /\ call'.bridge = db.addr[HOST]
      BY <3>2, <3>3, <3>4 DEF NoCall
    <3>7. call'.pc \in DelPC
      BY <3>6 DEF DelPC
    <3>8. Unwinds(call', db', dev')
      BY <1>0, <1>1, <2>0, <2>1, <3>1, <3>3, <3>6 DEF Unwinds, Main, Fits, Settled
    <3>9. Leaves(call', db', phase')
      BY <1>0, <2>1, <3>1, <3>5, <3>6 DEF Leaves, NodeUp
    <3>10. AllSettled(call', db', dev', phase')
      BY <1>0, <1>1, <2>0, <2>1, <3>6, <3>7, RestFacts DEF AllSettled, AtWork, Settled
    <3>11. Plain(db') /\ Accounted(call', db')
      BY <2>1, <3>6, RestFacts DEF Accounted
    <3> QED
      BY <3>6, <3>7, <3>8, <3>9, <3>10, <3>11, Steps DEF Neat, Tidy, Rests
  <2> QED  BY <2>0, <2>2, <2>3 DEF GetNode, GetKubernetesPod
<1>5. CASE NoPlugin(c)
  BY <1>5, CalmStep
  DEF NoPlugin, GetCniPluginFails, ApiServerFails, EtcdFails, ParseConfigFails
<1> QED  BY <1>2, <1>3, <1>4, <1>5

\* Without faults the runtime removes the namespace of a container that is gone, whose
\* interface is gone as well.
LEMMA RemoveNsTidy ==
    ASSUME IInv, Life, Neat, Calm, NEW c \in Container, RemoveNs(c)
    PROVE  Neat'
<1> USE Parts
<1>1. phase[c] = "gone" /\ call.c # c /\ nsUp' = nsUp \ {c} /\ UNCHANGED <<db, call>>
  BY CalmStep DEF RemoveNs
<1>2. Settled(c, db, dev, phase)
  BY <1>1 DEF Neat, Tidy, AllSettled, AtWork
<1>3. UNCHANGED <<dev, phase>>
  BY <1>1, <1>2 DEF RemoveNs, Settled, Alive
<1> QED  BY <1>1, <1>3 DEF Neat, Tidy

LEMMA InitTidy == Init => Neat
<1> SUFFICES ASSUME Init PROVE Neat
  OBVIOUS
<1> USE CniAssumption
<1>1. call.pc = "idle" /\ db = EmptyDb /\ HOST \in Pod
      /\ \A p \in Pod : dev[p] = "none"
  BY DEF Init, NoCall, Pod
<1>2. \A c \in Container : c \in Pod /\ phase[c] = "new"
  BY DEF Init, Pod
<1>3. Plain(db) /\ Accounted(call, db) /\ NodeDown(db, dev)
  BY <1>1 DEF EmptyDb, Plain, Accounted, NodeDown
<1>4. AllSettled(call, db, dev, phase)
  BY <1>1, <1>2 DEF EmptyDb, AllSettled, Settled, Alive
<1> QED  BY <1>1, <1>3, <1>4, Steps DEF Neat, Tidy, Rests

LEMMA NextTidy ==
    ASSUME IInv, Life, Neat, Calm, MaxAddr # 0, [Next]_vars
    PROVE  Neat'
<1>1. CASE DelPod
  BY <1>1, DelNicTidy, DelPodTidy DEF DelPod
<1>2. CASE Crash \/ Reboot
  BY <1>2, CalmStep DEF Crash, Reboot
<1>3. CASE UNCHANGED vars
  BY <1>3 DEF vars, kernel, Neat
<1> QED
  BY <1>1, <1>2, <1>3, StartTidy, RemoveNsTidy, InitNodeTidy, AddPodTidy DEF Next

\* No step takes a fault back.
LEMMA FaultsStay ==
    ASSUME IInv, [Next]_vars, faults' = 0
    PROVE  faults = 0
<1>1. faults \in Nat
  BY CniAssumption DEF IInv, TypeOK
<1>2. \A kind : ~ Fault(kind)
  BY <1>1 DEF Fault
<1> QED
  BY <1>2
  DEF Next, vars, StartAdd, AddAgain, StartDel, NoPlugin, GetCniPluginFails, ApiServerFails,
      EtcdFails, ParseConfigFails, RemoveNs, Crash, Reboot, Write, WriteAnyway, AllocateIp,
      InitNode, GetBridge, GetVxlan, GetRootPod, AllocateSubnet, SetupBridge, SetBridgeAddr,
      Lose, AddNic, AddAddr,
      AddVtep, AddNetns, PutPodKey, AppendPod, AddPod, ConfigPodNetwork, SetupVeth, SetNetns,
      Rename, Plug, SetAddr, AddRoute, IpFails, DelPod, DelKubernetesNic, DelKubernetesPod,
      Cleanup, ReleaseIp, DelAddr, DelRoute, DelNic, DelVtep, DelNetns, DelPodKey, DelPodList,
      ReleaseSubnet

\* Without faults, when the containers that came are gone, storage, IPAM and kernel are as
\* if nothing had happened (cni.cc:252-316).  A subnet has an address for the gateway: if
\* it had not, the first ADD would fail after it has allocated the subnet, and no DEL
\* would release that.
THEOREM NodeIsLeftClean == ASSUME MaxAddr # 0 PROVE Spec => []NodeLeftClean
<1>1. Init => TidyInv
  BY InitIInv, InitLife, InitTidy DEF TidyInv
<1>2. TidyInv /\ [Next]_vars => TidyInv'
  <2>1. SUFFICES ASSUME TidyInv, [Next]_vars PROVE TidyInv'
    OBVIOUS
  <2>2. IInv /\ IInv'
    BY <2>1, NextIInv DEF TidyInv
  <2>3. ASSUME faults' = 0 PROVE Life' /\ Neat'
    <3>1. faults = 0
      BY <2>1, <2>2, <2>3, FaultsStay
    <3>2. Calm /\ Life /\ Neat
      BY <2>1, <2>3, <3>1 DEF TidyInv, Calm
    <3>3. Life'
      BY <2>1, <2>2, <3>2, NextLife, CalmStep
    <3> QED  BY <2>1, <2>2, <3>2, <3>3, NextTidy
  <2> QED  BY <2>2, <2>3 DEF TidyInv
<1>3. TidyInv => NodeLeftClean
  <2>1. SUFFICES ASSUME IInv, Life, Neat, call = NoCall,
                        \A c \in Container : phase[c] \in {"new", "gone"}
                 PROVE  db = EmptyDb /\ \A p \in Pod : dev[p] = "none"
    BY DEF TidyInv, NodeLeftClean
  <2>2. NodeDown(db, dev) /\ Plain(db)
        /\ \A c \in Container : Settled(c, db, dev, phase) /\ phase[c] \notin Alive
                                /\ Fits(c, db, dev, on, phase)
    BY <2>1, RestFacts DEF Alive, Life, AllFit
  <2>3. \A c \in Container :
           /\ c \notin db.pods \cup db.podKey \cup db.netns \cup db.route
           /\ db.nics[c] = {} /\ db.addr[c] = None /\ dev[c] = "none"
    BY <2>2 DEF Settled, Fits
  <2>4. \A p \in Pod :
           /\ p \notin db.pods \cup db.podKey \cup db.netns \cup db.route
           /\ db.nics[p] = {} /\ db.addr[p] = None /\ dev[p] = "none"
    BY <2>2, <2>3 DEF NodeDown, Plain, Pod
  <2>5. db.used = {}
    <3>1. None \notin Addr /\ db.used \subseteq Addr
      BY <2>1, Parts, CniAssumption DEF DbType
    <3> QED  BY <2>1, <2>4, <3>1, RestFacts
  <2>6. db \in DbType
    BY <2>1, Parts
  <2>7. /\ ~ db.subnet /\ ~ db.vtep /\ db.pods = {} /\ db.podKey = {} /\ db.netns = {}
        /\ db.route = {}
        /\ db.nics = [p \in Pod |-> {}] /\ db.addr = [p \in Pod |-> None]
    BY <2>2, <2>4, <2>6 DEF NodeDown, DbType
  <2>8. db = EmptyDb
    BY <2>5, <2>6, <2>7 DEF DbType, EmptyDb
  <2> QED  BY <2>4, <2>8
<1> QED  BY <1>1, <1>2, <1>3, PTL DEF Spec
=============================================================================
