----------------------------- MODULE EtcdProofs -----------------------------
(***************************************************************************)
(* When calls do not overlap, append() and del() of the etcd client         *)
(* implement lists that change by one item at a time, whichever commands    *)
(* fail, lose their answer or are never issued because the process died.    *)
(***************************************************************************)
EXTENDS EtcdClient, TLAPS

\* What a call that has read its list will write.
BufferIsCurrent ==
    \A p \in Proc :
        LET c == call[p]
        IN  /\ c.at # "idle" => c.key \in Key /\ c.item \in Item
            /\ c.at = "appendPut" =>
                  \/ c.buf = list[c.key] \cup {c.item}
                  \/ "readFail" \in Faults /\ c.buf = {c.item}
            /\ c.at = "delPut" => c.buf = list[c.key] \ {c.item}

OneCall ==
    \A p, q \in Proc : p # q => call[p].at = "idle" \/ call[q].at = "idle"

\* Inductive when calls do not overlap: the buffer stays current because no
\* other process writes between the read and the write of a call.
EtcdInv == EtcdTypeOK /\ OneCall /\ BufferIsCurrent

\* The initial states satisfy the invariant: no call is in progress.
LEMMA EtcdInitInv == EtcdInit => EtcdInv
  BY EtcdAssumption
     DEF EtcdInit, EtcdInv, EtcdTypeOK, CallType, Idle, OneCall, BufferIsCurrent

\* Every start, command and crash keeps the invariant (etcd_client_shell.cc:84,
\* 174), provided calls do not overlap.
LEMMA EtcdStepInv ==
  ASSUME "overlap" \notin Faults, EtcdInv, [EtcdNext]_etcdVars
  PROVE  EtcdInv'
<1> USE EtcdAssumption DEF EtcdInv, CallType, EtcdTypeOK
<1>1. ASSUME NEW p \in Proc, EtcdStart(p)
      PROVE  EtcdInv'
  <2>1. PICK k \in Key, v \in Item, at \in {"appendGet", "delList"} :
            call' = [call EXCEPT ![p] =
                       [at |-> at, key |-> k, item |-> v, buf |-> {}]]
    BY <1>1 DEF EtcdStart, StartAppend, StartDel
  <2>2. list' = list /\ \A q \in Proc : call[q].at = "idle"
    BY <1>1 DEF EtcdStart, EtcdMayStart
  <2>3. EtcdTypeOK'
    BY <2>1, <2>2
  <2>4. OneCall'
    BY <2>1, <2>2 DEF OneCall
  <2>5. BufferIsCurrent'
    BY <2>1, <2>2 DEF BufferIsCurrent
  <2> QED BY <2>3, <2>4, <2>5
<1>2. ASSUME NEW p \in Proc, NEW o \in ReadOutcome, AppendGet(p, o)
      PROVE  EtcdInv'
  <2>1. call[p].at = "appendGet" /\ call[p].key \in Key /\ call[p].item \in Item
    BY <1>2 DEF AppendGet, BufferIsCurrent
  <2>2. o = "ok" \/ "readFail" \in Faults
    BY DEF ReadOutcome
  <2>3. EtcdTypeOK'
    <3> DEFINE b == IF o = "ok" THEN Appended(list[call[p].key], call[p].item)
                                ELSE Appended({}, call[p].item)
    <3>1. b \in SUBSET Item
      BY <2>1 DEF Appended
    <3>2. call' = [call EXCEPT ![p].at = "appendPut", ![p].buf = b]
      BY <1>2 DEF AppendGet
    <3> HIDE DEF b
    <3>3. call' \in [Proc -> CallType]
      <4> DEFINE r == [call[p] EXCEPT !.at = "appendPut", !.buf = b]
      <4>1. call[p] \in CallType
        OBVIOUS
      <4>2. r \in CallType
        BY <3>1, <4>1
      <4>3. call' = [call EXCEPT ![p] = r]
        BY <3>2
      <4> HIDE DEF r, CallType
      <4> QED BY <4>2, <4>3
    <3> QED BY <1>2, <3>3 DEF AppendGet
  <2>4. OneCall'
    BY <1>2, <2>1 DEF AppendGet, OneCall
  <2>5. BufferIsCurrent'
    BY <1>2, <2>1, <2>2 DEF AppendGet, Appended, BufferIsCurrent
  <2> QED BY <2>3, <2>4, <2>5
<1>3. ASSUME NEW p \in Proc, NEW o \in ReadOutcome, DelList(p, o)
      PROVE  EtcdInv'
  <2>1. call[p].at = "delList" /\ call[p].key \in Key /\ call[p].item \in Item
    BY <1>3 DEF DelList, BufferIsCurrent
  <2>3. EtcdTypeOK'
    <3> DEFINE b == Removed(list[call[p].key], call[p].item)
               r == [call[p] EXCEPT !.at = "delPut", !.buf = b]
    <3>1. call[p] \in CallType /\ Idle \in CallType
      BY DEF Idle
    <3>2. b \in SUBSET Item
      BY <2>1 DEF Removed
    <3>3. r \in CallType
      BY <3>1, <3>2
    <3>4. list' = list /\ call' \in {[call EXCEPT ![p] = r], [call EXCEPT ![p] = Idle]}
      BY <1>3 DEF DelList
    <3> HIDE DEF r, CallType
    <3> QED BY <3>1, <3>3, <3>4
  <2>4. OneCall'
    BY <1>3, <2>1 DEF DelList, OneCall, Idle
  <2>5. BufferIsCurrent'
    BY <1>3, <2>1 DEF DelList, Removed, BufferIsCurrent, Idle
  <2> QED BY <2>3, <2>4, <2>5
<1>4. ASSUME NEW p \in Proc, NEW o \in WriteOutcome,
             AppendPut(p, o) \/ DelPut(p, o)
      PROVE  EtcdInv'
  <2>1. call[p].at # "idle" /\ call[p].key \in Key
    BY <1>4 DEF AppendPut, DelPut, BufferIsCurrent
  <2>2. /\ call' = [call EXCEPT ![p] = Idle]
        /\ list' = Written(list, call[p].key, call[p].buf, o)
    BY <1>4 DEF AppendPut, DelPut
  <2>3. EtcdTypeOK'
    BY <2>1, <2>2 DEF Written, Idle
  <2>4. \A q \in Proc : call'[q].at = "idle"
    BY <2>1, <2>2 DEF OneCall, Idle
  <2> QED BY <2>3, <2>4 DEF OneCall, BufferIsCurrent
<1>5. ASSUME NEW p \in Proc, EtcdCrash(p)
      PROVE  EtcdInv'
  BY <1>5 DEF EtcdCrash, Idle, OneCall, BufferIsCurrent
<1>6. CASE UNCHANGED etcdVars
  BY <1>6 DEF etcdVars, OneCall, BufferIsCurrent
<1> QED
  BY <1>1, <1>2, <1>3, <1>4, <1>5, <1>6 DEF EtcdNext, EtcdStep

\* The invariant of the client, and with it its type correctness, for any
\* number of processes, keys and items.
THEOREM EtcdInvariant ==
  ASSUME "overlap" \notin Faults
  PROVE  EtcdSpec => []EtcdInv
  BY EtcdInitInv, EtcdStepInv, PTL DEF EtcdSpec

\* A write of a call adds or removes its own item, or replaces a list that
\* could not be read; every other step leaves the lists alone.
LEMMA EtcdStepImplements ==
  ASSUME EtcdInv, [EtcdNext]_etcdVars
  PROVE  [Lists!Next]_list
<1> USE EtcdAssumption DEF EtcdInv, EtcdTypeOK, CallType
<1> SUFFICES ASSUME list' # list PROVE Lists!Next
  OBVIOUS
<1>1. PICK p \in Proc, o \in WriteOutcome : AppendPut(p, o) \/ DelPut(p, o)
  BY DEF EtcdNext, EtcdStart, EtcdStep, EtcdCrash, AppendGet, DelList, etcdVars
<1> DEFINE k == call[p].key
           v == call[p].item
<1>2. k \in Key /\ v \in Item
  BY <1>1 DEF AppendPut, DelPut, BufferIsCurrent
<1>3. list' = [list EXCEPT ![k] = call[p].buf]
  BY <1>1 DEF AppendPut, DelPut, Written
<1>4. CASE AppendPut(p, o)
  <2>1. Lists!Add(k, v) \/ Lists!Replace(k, v)
    BY <1>2, <1>3, <1>4
       DEF AppendPut, BufferIsCurrent, Lists!Add, Lists!Replace
  <2> QED BY <1>2, <2>1 DEF Lists!Next
<1>5. CASE DelPut(p, o)
  <2>1. Lists!Remove(k, v)
    BY <1>2, <1>3, <1>5 DEF DelPut, BufferIsCurrent, Lists!Remove
  <2> QED BY <1>2, <2>1 DEF Lists!Next
<1> QED BY <1>1, <1>4, <1>5

\* The etcd client implements lists that change by one item at a time.
THEOREM EtcdImplementsLists ==
  ASSUME "overlap" \notin Faults
  PROVE  EtcdSpec => ImplementsLists
<1>1. EtcdInit => Lists!Init
  BY DEF EtcdInit, Lists!Init
<1> QED
  BY <1>1, EtcdInvariant, EtcdStepImplements, PTL
     DEF EtcdSpec, ImplementsLists, Lists!Spec
=============================================================================
