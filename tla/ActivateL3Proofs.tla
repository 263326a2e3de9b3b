--------------------------- MODULE ActivateL3Proofs ---------------------------
(***************************************************************************)
(* Proofs about ActivateL3 for every device list, every set of host lists *)
(* and every set of call outcomes that satisfy ActivateAssumption.         *)
(***************************************************************************)
EXTENDS ActivateL3, TLAPS

USE ActivateAssumption

LEMMA ProtocolsSeq == protocols \in Seq(Nat) /\ Len(protocols) = 4
    BY DEF protocols

(* The flow the loops post next is a rule of the script's shape, on a     *)
(* listed device.                                                          *)
LEMMA NextFlowRule ==
    ASSUME NEW d \in 1..Len(DeviceIds), NEW k \in 0..Len(protocols)
    PROVE  LET f == IF k = 0 THEN BaseFlow(DeviceIds[d])
                    ELSE L3Flow(DeviceIds[d], protocols[k])
           IN  /\ f \in Rules
               /\ f.deviceId = DeviceIds[d]
<1>1. DeviceIds[d] \in DevSet
    BY DEF DevSet
<1>2. k # 0 => <<"ETH_TYPE", protocols[k]>> \in Matches
    BY ProtocolsSeq DEF Matches
<1>3. QED
    BY <1>1, <1>2 DEF BaseFlow, L3Flow, Rules, Matches

-----------------------------------------------------------------------------
(* Type correctness.  TypeOK alone is not inductive: GET /hosts replaces *)
(* the host list under the loop index, which must still be at its start.   *)

TypeInv ==
    /\ TypeOK
    /\ pc \in {"devices", "hosts"} => hIdx = 1

LEMMA InitType == Init => TypeInv
    BY DEF Init, TypeInv, TypeOK

LEMMA TypeStep == TypeInv /\ [Next]_vars => TypeInv'
<1> SUFFICES ASSUME TypeInv, [Next]_vars PROVE TypeInv'
    OBVIOUS
<1> USE DEF TypeInv
<1>1. CASE ListDevices
    BY <1>1 DEF ListDevices, Get, TypeOK
<1>2. CASE ListHosts
    <2>1. PICK hl \in HostLists : hosts' = hl
        BY <1>2 DEF ListHosts
    <2>2. hl \in Seq(Seq(STRING))
        OBVIOUS
    <2>3. QED
        BY <1>2, <2>1, <2>2 DEF ListHosts, Get, TypeOK
<1>3. CASE AttachHost
    <2>1. pc = "hostloop" /\ hIdx \in 1..Len(hosts)
        BY <1>3 DEF AttachHost, TypeOK
    <2>2. UNCHANGED <<hosts, dIdx, pIdx, posted, installed>>
        BY <1>3 DEF AttachHost
    <2>3. \/ pc' = "crashed" /\ hIdx' = hIdx
          \/ pc' = pc /\ hIdx' = hIdx + 1
        BY <1>3 DEF AttachHost
    <2>4. pc' \in {"hostloop", "crashed"} /\ hIdx' \in 1..Len(hosts) + 1
        BY <2>1, <2>3
    <2>5. QED
        BY <2>2, <2>4 DEF TypeOK
<1>4. CASE HostsDone
    BY <1>4 DEF HostsDone, TypeOK
<1>5. CASE PostFlow
    <2>1. /\ pc = "flows"
          /\ dIdx \in 1..Len(DeviceIds)
          /\ pIdx \in 0..Len(protocols)
        BY <1>5 DEF PostFlow, TypeOK
    <2>2. /\ NextFlow \in Rules
          /\ NextFlow.deviceId = DeviceIds[dIdx]
        BY <2>1, NextFlowRule DEF NextFlow
    <2>3. NextFlow.match \in Matches
        BY <2>2 DEF Rules
    <2>4. DeviceIds[dIdx] \in DevSet
        BY <2>1 DEF DevSet
    <2>5. PICK o \in Outcomes : InstallFlow(NextFlow, o)
                /\ IF o \in {"raised", "raisedLate"}
                   THEN pc' = "crashed" /\ UNCHANGED <<dIdx, pIdx>>
                   ELSE /\ IF pIdx < Len(protocols)
                           THEN pIdx' = pIdx + 1 /\ UNCHANGED dIdx
                           ELSE pIdx' = 0 /\ dIdx' = dIdx + 1
                        /\ UNCHANGED pc
        BY <1>5 DEF PostFlow
    <2>6. posted' \subseteq DevSet \X Matches /\ installed' \subseteq Rules
        BY <2>2, <2>3, <2>4, <2>5 DEF InstallFlow, TypeOK
    <2>7. /\ pc' \in {"devices", "hosts", "hostloop", "flows", "done", "crashed"}
          /\ dIdx' \in 1..(Len(DeviceIds) + 1)
          /\ pIdx' \in 0..Len(protocols)
        BY <2>1, <2>5, ProtocolsSeq
    <2>8. QED
        BY <1>5, <2>6, <2>7 DEF PostFlow, TypeOK
<1>6. CASE Finish
    BY <1>6 DEF Finish, TypeOK
<1>7. CASE UNCHANGED vars
    BY <1>7 DEF vars, TypeOK
<1>8. QED
    BY <1>1, <1>2, <1>3, <1>4, <1>5, <1>6, <1>7 DEF Next

(* Every reachable state of the script is well typed. *)
THEOREM TypeCorrect == Spec => []TypeOK
<1>1. TypeInv => TypeOK
    BY DEF TypeInv
<1>2. QED
    BY InitType, TypeStep, <1>1, PTL DEF Spec
-----------------------------------------------------------------------------
(* AllPosted.  It is not inductive: a step of the loops has to know which *)
(* POSTs were already sent.  PostInv says that in the loops the sent POSTs *)
(* are exactly those of the devices before dIdx and of the first pIdx      *)
(* flows of device dIdx (in any outcome but a raise, which ends the        *)
(* script).                                                                *)

(* The match of the k-th flow posted to a device: 0 is the baseline rule. *)
MatchOf(k) == IF k = 0 THEN <<"ETH_DST">> ELSE <<"ETH_TYPE", protocols[k]>>

PostedUpTo(d, k) ==
    {p \in DevSet \X Matches :
        \E i \in 1..Len(DeviceIds) :
            /\ p[1] = DeviceIds[i]
            /\ \/ i < d
               \/ i = d /\ \E j \in 0..(k - 1) : p[2] = MatchOf(j)}

PostInv ==
    /\ TypeInv
    /\ pc \in {"devices", "hosts", "hostloop"} => posted = {} /\ dIdx = 1 /\ pIdx = 0
    /\ pc \in {"flows", "done"} => posted = PostedUpTo(dIdx, pIdx)
    /\ dIdx = Len(DeviceIds) + 1 => pIdx = 0
    /\ pc = "done" => dIdx = Len(DeviceIds) + 1

(* The matches are those of the five flows a device gets. *)
LEMMA MatchesEnum ==
    \A m : m \in Matches <=> \E j \in 0..Len(protocols) : m = MatchOf(j)
    BY ProtocolsSeq DEF Matches, MatchOf

(* One more POST of the loops: the k-th flow of device d is sent, and the *)
(* POSTs sent are those up to the next flow, or up to the next device     *)
(* after the last protocol.                                                *)
LEMMA PostedExtend ==
    ASSUME NEW d \in 1..Len(DeviceIds), NEW k \in 0..Len(protocols)
    PROVE  PostedUpTo(d, k) \cup {<<DeviceIds[d], MatchOf(k)>>}
             = IF k < Len(protocols) THEN PostedUpTo(d, k + 1) ELSE PostedUpTo(d + 1, 0)
<1> DEFINE new == <<DeviceIds[d], MatchOf(k)>>
           R == IF k < Len(protocols) THEN PostedUpTo(d, k + 1) ELSE PostedUpTo(d + 1, 0)
<1>1. new \in DevSet \X Matches
    BY MatchesEnum DEF DevSet
<1>2. new \in R
    <2>1. CASE k < Len(protocols)
        BY <1>1, <2>1 DEF PostedUpTo
    <2>2. CASE ~(k < Len(protocols))
        BY <1>1, <2>2 DEF PostedUpTo
    <2>3. QED
        BY <2>1, <2>2
<1>3. PostedUpTo(d, k) \subseteq R
    BY ProtocolsSeq DEF PostedUpTo
<1>4. ASSUME NEW p \in R, p # new PROVE p \in PostedUpTo(d, k)
    <2>1. p \in DevSet \X Matches
        BY DEF PostedUpTo
    <2>2. p = <<p[1], p[2]>>
        BY <2>1
    <2>3. PICK i \in 1..Len(DeviceIds) :
             /\ p[1] = DeviceIds[i]
             /\ \/ k < Len(protocols) /\ (i < d \/ (i = d /\ \E j \in 0..k : p[2] = MatchOf(j)))
                \/ ~(k < Len(protocols)) /\ i < d + 1
        <3>1. CASE k < Len(protocols)
            <4>1. p \in PostedUpTo(d, k + 1)
                BY <3>1
            <4>2. PICK i \in 1..Len(DeviceIds) :
                     /\ p[1] = DeviceIds[i]
                     /\ \/ i < d
                        \/ (i = d /\ \E j \in 0..((k + 1) - 1) : p[2] = MatchOf(j))
                BY <4>1 DEF PostedUpTo
            <4>3. (k + 1) - 1 = k
                BY ProtocolsSeq
            <4>4. i < d \/ (i = d /\ \E j \in 0..k : p[2] = MatchOf(j))
                BY <4>2, <4>3
            <4>5. QED
                BY <3>1, <4>2, <4>4
        <3>2. CASE ~(k < Len(protocols))
            <4>1. p \in PostedUpTo(d + 1, 0)
                BY <3>2
            <4>2. QED
                BY <3>2, <4>1, ProtocolsSeq DEF PostedUpTo
        <3>3. QED
            BY <3>1, <3>2
    <2>4. CASE i < d
        BY <2>1, <2>3, <2>4 DEF PostedUpTo
    <2>5. CASE i = d
        <3>1. PICK j \in 0..k : p[2] = MatchOf(j)
            <4>1. CASE k < Len(protocols)
                BY <2>3, <2>5, <4>1
            <4>2. CASE ~(k < Len(protocols))
                <5>1. p[2] \in Matches
                    BY <2>1
                <5>2. \E j \in 0..Len(protocols) : p[2] = MatchOf(j)
                    BY <5>1, MatchesEnum
                <5>3. QED
                    BY <4>2, <5>2, ProtocolsSeq
            <4>3. QED
                BY <4>1, <4>2
        <3>2. j # k
            BY <1>4, <2>2, <2>3, <2>5, <3>1
        <3>3. j \in 0..(k - 1)
            BY <3>2
        <3>4. QED
            BY <2>1, <2>3, <2>5, <3>1, <3>3 DEF PostedUpTo
    <2>6. QED
        BY <2>3, <2>4, <2>5
<1>5. QED
    BY <1>2, <1>3, <1>4

LEMMA InitPost == Init => PostInv
    BY InitType DEF Init, PostInv

LEMMA PostStep == PostInv /\ [Next]_vars => PostInv'
<1> SUFFICES ASSUME PostInv, [Next]_vars PROVE PostInv'
    OBVIOUS
<1>0. TypeInv'
    BY TypeStep DEF PostInv
<1>1. CASE ListDevices \/ ListHosts
    <2>1. /\ pc \in {"devices", "hosts"}
          /\ pc' \in {"hosts", "hostloop", "crashed"}
          /\ UNCHANGED <<dIdx, pIdx, posted>>
        BY <1>1 DEF ListDevices, ListHosts, Get
    <2>2. QED
        BY <1>0, <2>1 DEF PostInv
<1>2. CASE AttachHost
    <2>1. /\ pc = "hostloop"
          /\ pc' \in {"hostloop", "crashed"}
          /\ UNCHANGED <<dIdx, pIdx, posted>>
        BY <1>2 DEF AttachHost
    <2>2. QED
        BY <1>0, <2>1 DEF PostInv
<1>3. CASE Finish
    <2>1. /\ pc = "flows" /\ pc' = "done"
          /\ dIdx > Len(DeviceIds)
          /\ UNCHANGED <<dIdx, pIdx, posted>>
        BY <1>3 DEF Finish
    <2>2. dIdx = Len(DeviceIds) + 1
        BY <2>1 DEF PostInv, TypeInv, TypeOK
    <2>3. QED
        BY <1>0, <2>1, <2>2 DEF PostInv
<1>4. CASE UNCHANGED vars
    BY <1>0, <1>4 DEF vars, PostInv
<1>5. CASE HostsDone
    <2>1. /\ pc = "hostloop" /\ pc' = "flows"
          /\ UNCHANGED <<dIdx, pIdx, posted>>
        BY <1>5 DEF HostsDone
    <2>2. posted = {} /\ dIdx = 1 /\ pIdx = 0
        BY <2>1 DEF PostInv, TypeInv, TypeOK
    <2>3. PostedUpTo(1, 0) = {}
        BY DEF PostedUpTo
    <2>4. dIdx = Len(DeviceIds) + 1 => pIdx = 0
        BY <2>2
    <2>5. QED
        BY <1>0, <2>1, <2>2, <2>3, <2>4 DEF PostInv
<1>6. CASE PostFlow
    <2> DEFINE dev == DeviceIds[dIdx]
    <2>1. /\ pc = "flows"
          /\ dIdx \in 1..Len(DeviceIds)
          /\ pIdx \in 0..Len(protocols)
          /\ posted = PostedUpTo(dIdx, pIdx)
        BY <1>6 DEF PostFlow, PostInv, TypeInv, TypeOK
    <2>2. /\ NextFlow.deviceId = dev
          /\ NextFlow.match = MatchOf(pIdx)
        BY <2>1, NextFlowRule DEF NextFlow, MatchOf, BaseFlow, L3Flow
    <2>3. /\ dev \in DevSet
          /\ MatchOf(pIdx) \in Matches
        BY <2>1, MatchesEnum DEF DevSet
    <2>4. posted' = PostedUpTo(dIdx, pIdx) \cup {<<dev, MatchOf(pIdx)>>}
        BY <1>6, <2>1, <2>2 DEF PostFlow, InstallFlow
    <2>5. PICK o \in Outcomes :
                IF o \in {"raised", "raisedLate"}
                THEN pc' = "crashed" /\ UNCHANGED <<dIdx, pIdx>>
                ELSE /\ IF pIdx < Len(protocols)
                        THEN pIdx' = pIdx + 1 /\ UNCHANGED dIdx
                        ELSE pIdx' = 0 /\ dIdx' = dIdx + 1
                     /\ UNCHANGED pc
        BY <1>6 DEF PostFlow
    <2>6. CASE o \in {"raised", "raisedLate"}
        BY <1>0, <2>1, <2>5, <2>6 DEF PostInv
    <2>7. CASE o \notin {"raised", "raisedLate"} /\ pIdx < Len(protocols)
        <3>1. pc' = "flows" /\ dIdx' = dIdx /\ pIdx' = pIdx + 1
            BY <2>1, <2>5, <2>7
        <3>2. PostedUpTo(dIdx, pIdx) \cup {<<dev, MatchOf(pIdx)>>}
                = PostedUpTo(dIdx, pIdx + 1)
            BY <2>1, <2>7, PostedExtend
        <3>3. QED
            BY <1>0, <2>1, <2>4, <3>1, <3>2 DEF PostInv
    <2>8. CASE o \notin {"raised", "raisedLate"} /\ ~(pIdx < Len(protocols))
        <3>1. pc' = "flows" /\ dIdx' = dIdx + 1 /\ pIdx' = 0
            BY <2>1, <2>5, <2>8
        <3>2. pIdx = Len(protocols)
            BY <2>1, <2>8
        <3>3. PostedUpTo(dIdx, pIdx) \cup {<<dev, MatchOf(pIdx)>>}
                = PostedUpTo(dIdx + 1, 0)
            BY <2>1, <2>8, PostedExtend
        <3>4. QED
            BY <1>0, <2>1, <2>4, <3>1, <3>3 DEF PostInv
    <2>9. QED
        BY <2>6, <2>7, <2>8
<1>7. QED
    BY <1>1, <1>2, <1>3, <1>4, <1>5, <1>6 DEF Next

(* When the script ends normally, every listed device got its baseline    *)
(* rule and an L3 rule per protocol (lines 53-76), whatever ONOS answered. *)
THEOREM Posted == Spec => []AllPosted
<1>1. PostInv => AllPosted
    <2> SUFFICES ASSUME PostInv, pc = "done" PROVE posted = DevSet \X Matches
        BY DEF AllPosted
    <2>1. posted = PostedUpTo(Len(DeviceIds) + 1, 0)
        BY DEF PostInv
    <2>2. Len(DeviceIds) \in Nat
        BY ActivateAssumption
    <2>3. \A p \in DevSet \X Matches :
              \E i \in 1..Len(DeviceIds) : p[1] = DeviceIds[i] /\ i < Len(DeviceIds) + 1
        BY <2>2 DEF DevSet
    <2>4. PostedUpTo(Len(DeviceIds) + 1, 0) = DevSet \X Matches
        BY <2>3 DEF PostedUpTo
    <2>5. QED
        BY <2>1, <2>4
<1>2. QED
    BY InitPost, PostStep, <1>1, PTL DEF Spec
=============================================================================
