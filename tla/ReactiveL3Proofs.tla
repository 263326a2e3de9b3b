--------------------------- MODULE ReactiveL3Proofs ---------------------------
(***************************************************************************)
(* Proofs about ReactiveL3 for every value of the constants that satisfies *)
(* ConstantsAssumption and PortsAssumption.                                *)
(***************************************************************************)
EXTENDS ReactiveL3, WellFoundedInduction, TLAPS

USE ConstantsAssumption DEF CONTROLLER, NoPort

-----------------------------------------------------------------------------
(* Lemmas on the lookup of resolve_out_port (module HostResolve). *)

(* A non-empty set of naturals holds the index FirstIndex picks. *)
LEMMA FirstIndexIn ==
    ASSUME NEW S \in SUBSET Nat, S # {}
    PROVE  /\ FirstIndex(S) \in S
           /\ \A j \in S : FirstIndex(S) <= j
<1>0. IsWellFoundedOn(OpToRel(<, Nat), Nat)
    BY NatLessThanWellFounded
<1>1. \E x \in S : \A y \in S : ~(<<y, x>> \in OpToRel(<, Nat))
    BY <1>0, WFMin, Zenon
<1>2. \A x, y \in Nat : <<y, x>> \in OpToRel(<, Nat) <=> y < x
    BY Zenon DEF OpToRel
<1>3. \E x \in S : \A y \in S : ~(y < x)
    BY <1>1, <1>2, Zenon
<1>4. \E x \in S : \A y \in S : x <= y
    BY <1>3
<1>5. QED
    BY <1>4 DEF FirstIndex

(* When resolve_out_port returns a port, it is the first location of a     *)
(* host that carries the address, and that location is on the device.     *)
LEMMA ResolveSound ==
    ASSUME NEW hs \in Seq(Host), NEW ip, NEW dev,
           ~ResolveRaises(hs, ip, dev),
           ResolveOutPort(hs, ip, dev) # NoPort
    PROVE  \E i \in 1..Len(hs) :
              /\ ip \in hs[i].ipAddresses
              /\ hs[i].locations # << >>
              /\ hs[i].locations[1].elementId = dev
              /\ ResolveOutPort(hs, ip, dev) = hs[i].locations[1].port
<1> DEFINE D == Deciding(hs, ip, dev)
           i == FirstIndex(D)
<1>1. D # {}
    BY DEF ResolveOutPort
<1>2. D \in SUBSET Nat
    BY DEF Deciding
<1>3. i \in D
    BY <1>1, <1>2, FirstIndexIn
<1>4. hs[i].locations # << >>
    BY <1>1 DEF ResolveRaises
<1>5. ResolveOutPort(hs, ip, dev) = hs[i].locations[1].port
    BY <1>1 DEF ResolveOutPort
<1>6. QED
    BY <1>3, <1>4, <1>5 DEF Deciding, Decides

(* resolve_out_port returns a port or None. *)
LEMMA ResolveType ==
    ASSUME NEW hs \in Seq(Host), NEW ip, NEW dev,
           ~ResolveRaises(hs, ip, dev)
    PROVE  ResolveOutPort(hs, ip, dev) \in Ports \cup {NoPort}
<1>1. CASE ResolveOutPort(hs, ip, dev) = NoPort
    BY <1>1
<1>2. CASE ResolveOutPort(hs, ip, dev) # NoPort
    <2>1. PICK i \in 1..Len(hs) :
              /\ hs[i].locations # << >>
              /\ ResolveOutPort(hs, ip, dev) = hs[i].locations[1].port
        BY <1>2, ResolveSound
    <2>2. hs[i] \in Host
        OBVIOUS
    <2>5. hs[i].locations \in Seq(Loc)
        BY <2>2 DEF Host
    <2>3. hs[i].locations[1] \in Loc
        BY <2>1, <2>5
    <2>4. QED
        BY <2>1, <2>3 DEF Loc
<1>3. QED
    BY <1>1, <1>2

-----------------------------------------------------------------------------
(* Type correctness. *)

LEMMA InventoryType ==
    ASSUME hostLoc \in [HostIdx -> LocChoices]
    PROVE  Inventory \in Seq(Host)
<1>1. \A i \in HostIdx : HostIPs[i] \in SUBSET IPs /\ hostLoc[i] \in Seq(Loc)
    BY DEF HostIdx
<1>2. \A i \in HostIdx : Inventory[i] \in Host
    BY <1>1 DEF Inventory, Host
<1>3. Inventory \in [1..Len(HostIPs) -> Host]
    BY <1>2 DEF Inventory, HostIdx
<1>4. QED
    BY <1>3

LEMMA HostPairsType ==
    ASSUME NEW i \in HostIdx, NEW ls \in LocChoices
    PROVE  HostPairs(i, ls) \subseteq IPs \X Loc
BY DEF HostPairs, HostIdx

(* The loop's fallback port is a port or CONTROLLER. *)
LEMMA OutPortType ==
    ASSUME NEW hs \in Seq(Host), NEW pk,
           ~ResolveRaises(hs, pk.dst, pk.deviceId)
    PROVE  OutPortOf(hs, pk) \in Ports \cup {CONTROLLER}
BY ResolveType DEF OutPortOf

(* A step of the loop or of the controller keeps every variable in its type. *)
LEMMA TypeOKStep == TypeOK /\ [Next]_vars => TypeOK'
<1> SUFFICES ASSUME TypeOK, [Next]_vars PROVE TypeOK'
    OBVIOUS
<1> USE DEF TypeOK
<1>1. CASE ListDevices
    BY <1>1 DEF ListDevices, Crash, PC, ctrlVars, histVars
<1>2. ASSUME NEW d \in Devices, ClearFlows(d)
      PROVE  TypeOK'
    BY <1>2 DEF ClearFlows, Crash, PC, ctrlVars, histVars
<1>3. CASE ListenStart
    BY <1>3 DEF ListenStart, PC, ctrlVars, histVars
<1>4. CASE PollPackets
    <2>1. CASE PollOk
        BY <2>1 DEF PollOk, PC, histVars
    <2>2. CASE pc = "poll" /\ Crash
        BY <2>2 DEF Crash, PC, ctrlVars, histVars
    <2>3. CASE /\ pc = "poll"
               /\ pc' = "sleep"
               /\ UNCHANGED <<toClear, cleared, clearOk, batch, cur, outPort, ctrlVars, histVars>>
        BY <2>3 DEF PC, ctrlVars, histVars
    <2>4. QED
        BY <1>4, <2>1, <2>2, <2>3 DEF PollPackets
<1>5. CASE SkipPacket
    BY <1>5 DEF SkipPacket, ctrlVars, histVars
<1>6. CASE ResolvePacket
    <2> DEFINE pk == Head(batch)
    <2>1. pk \in Packets
        BY <1>6 DEF ResolvePacket
    <2>2. CASE Crash
        BY <2>2 DEF Crash, PC, ctrlVars, histVars
    <2>3. ASSUME NEW hs \in {Inventory, << >>},
                 ~ResolveRaises(hs, pk.dst, pk.deviceId),
                 pc' = "install",
                 batch' = Tail(batch),
                 cur' = pk,
                 outPort' = OutPortOf(hs, pk),
                 UNCHANGED <<toClear, cleared, clearOk, ctrlVars, histVars>>
          PROVE  TypeOK'
        <3>1. hs \in Seq(Host)
            <4>1. Inventory \in Seq(Host)
                BY InventoryType
            <4>2. << >> \in Seq(Host)
                OBVIOUS
            <4>3. QED
                BY <4>1, <4>2
        <3>2. outPort' \in Ports \cup {CONTROLLER}
            BY <2>3, <3>1, OutPortType
        <3>3. QED
            BY <1>6, <2>1, <2>3, <3>2 DEF ResolvePacket, PC, ctrlVars, histVars
    <2>4. ASSUME NEW hs \in {Inventory, << >>},
                 ResolveRaises(hs, pk.dst, pk.deviceId),
                 pc' = "crashed",
                 UNCHANGED <<toClear, cleared, clearOk, batch, cur, outPort, ctrlVars, histVars>>
          PROVE  TypeOK'
        BY <2>4 DEF PC, ctrlVars, histVars
    <2>5. QED
        BY <1>6, <2>2, <2>3, <2>4 DEF ResolvePacket
<1>7. CASE InstallFlow
    <2>1. CASE Crash
        BY <2>1 DEF Crash, PC, ctrlVars, histVars
    <2>2. CASE ~Crash
        <3>1. MatchOf(cur) \in Match
            BY DEF MatchOf, Match, PacketIn
        <3>2. [match |-> MatchOf(cur), out |-> outPort, stale |-> FALSE] \in Rule
            BY <3>1 DEF Rule
        <3>3. NoPacket \in Packets
            BY DEF NoPacket
        <3>5. posted' \subseteq [deviceId : Devices, match : Match]
            BY <1>7, <2>2, <3>1 DEF InstallFlow, PacketIn
        <3>7. cur.deviceId \in Devices
            BY DEF PacketIn
        <3>6. table' \in [Devices -> SUBSET Rule]
            <4>1. CASE table' = [table EXCEPT ![cur.deviceId] =
                                   {r \in @ : r.match # MatchOf(cur)}
                                     \cup {[match |-> MatchOf(cur), out |-> outPort, stale |-> FALSE]}]
                BY <4>1, <3>2, <3>7
            <4>2. CASE UNCHANGED table
                BY <4>2
            <4>3. QED
                BY <1>7, <2>2, <4>1, <4>2 DEF InstallFlow
        <3>4. QED
            BY <1>7, <2>2, <3>3, <3>5, <3>6 DEF InstallFlow, PC, ctrlVars, histVars
    <2>3. QED
        BY <2>1, <2>2
<1>8. CASE EndBatch
    BY <1>8 DEF EndBatch, PC, ctrlVars, histVars
<1>9. CASE Wake
    BY <1>9 DEF Wake, PC, ctrlVars, histVars
<1>10. ASSUME NEW pk \in Packets, ReportPacket(pk)
       PROVE  TypeOK'
    BY <1>10 DEF ReportPacket, loopVars, histVars
<1>11. ASSUME NEW d \in Devices, NEW r \in table[d], ExpireRule(d, r)
       PROVE  TypeOK'
    BY <1>11 DEF ExpireRule, loopVars, histVars
<1>12. ASSUME NEW i \in HostIdx, NEW ls \in LocChoices, MoveHost(i, ls)
       PROVE  TypeOK'
    BY <1>12, HostPairsType DEF MoveHost, loopVars
<1>13. CASE UNCHANGED vars
    BY <1>13 DEF vars, loopVars, ctrlVars, histVars
<1>14. QED
    BY <1>1, <1>2, <1>3, <1>4, <1>5, <1>6, <1>7, <1>8, <1>9, <1>10,
       <1>11, <1>12, <1>13 DEF Next, Loop, Controller

(* The loop starts well typed, whatever a previous run left. *)
LEMMA InitTypeOK == Init => TypeOK
<1> SUFFICES ASSUME Init PROVE TypeOK
    OBVIOUS
<1>1. everAt \subseteq IPs \X Loc
    BY HostPairsType DEF Init
<1>2. cur \in Packets
    BY DEF Init, NoPacket
<1>5. PrevRules \subseteq Rule
    BY DEF Rule
<1>3. table \in [Devices -> SUBSET Rule]
    BY <1>5 DEF Init
<1>4. QED
    BY <1>1, <1>2, <1>3 DEF Init, TypeOK, PC

(* Every state the loop and the controller reach is well typed: pc is a  *)
(* place of the loop, out_port a port or CONTROLLER, the tables sets of  *)
(* rules (Reactive_L3.py, lines 12-101).                                  *)
THEOREM TypeCorrect == Spec => []TypeOK
<1>1. Init => TypeOK
    BY InitTypeOK
<1>2. TypeOK /\ [Next]_vars => TypeOK'
    BY TypeOKStep
<1>3. QED
    BY <1>1, <1>2, PTL DEF Spec

-----------------------------------------------------------------------------
(* Soundness of the installed output ports. *)

(* The first location of a host's list is one of the pairs it records.    *)
LEMMA FirstLocRecorded ==
    ASSUME NEW i \in HostIdx, NEW ls \in Seq(Loc), ls # << >>,
           NEW ip \in HostIPs[i]
    PROVE  <<ip, [elementId |-> ls[1].elementId, port |-> ls[1].port]>>
              \in HostPairs(i, ls)
<1>1. ls[1] \in Loc
    OBVIOUS
<1>2. ls[1] = [elementId |-> ls[1].elementId, port |-> ls[1].port]
    BY <1>1 DEF Loc
<1>3. 1 \in 1..Len(ls)
    OBVIOUS
<1>4. QED
    BY <1>2, <1>3 DEF HostPairs

(* The lookup over an empty host list (GET /hosts did not answer 200)     *)
(* finds nothing, so the loop falls back to CONTROLLER.                    *)
LEMMA EmptyListNoPort ==
    ASSUME NEW ip, NEW dev
    PROVE  ResolveOutPort(<< >>, ip, dev) = NoPort
<1>1. Deciding(<< >>, ip, dev) = {}
    BY DEF Deciding
<1>2. QED
    BY <1>1 DEF ResolveOutPort

(* A port the loop resolves from the host list of GET /hosts is the first *)
(* location of a host of the destination, on the device that saw it.      *)
LEMMA ResolvedPortRecorded ==
    ASSUME TypeOK, LocationsRecorded,
           NEW hl \in {Inventory, << >>}, NEW pk \in Packets,
           ~ResolveRaises(hl, pk.dst, pk.deviceId),
           OutPortOf(hl, pk) # CONTROLLER
    PROVE  <<pk.dst, [elementId |-> pk.deviceId, port |-> OutPortOf(hl, pk)]>> \in everAt
<1>1. ResolveOutPort(hl, pk.dst, pk.deviceId) # NoPort
    BY DEF OutPortOf
<1>2. OutPortOf(hl, pk) = ResolveOutPort(hl, pk.dst, pk.deviceId)
    BY <1>1 DEF OutPortOf
<1>3. hl = Inventory
    BY <1>1, EmptyListNoPort
<1>4. hl \in Seq(Host)
    BY <1>3, InventoryType DEF TypeOK
<1>5. PICK i \in 1..Len(hl) :
          /\ pk.dst \in hl[i].ipAddresses
          /\ hl[i].locations # << >>
          /\ hl[i].locations[1].elementId = pk.deviceId
          /\ ResolveOutPort(hl, pk.dst, pk.deviceId) = hl[i].locations[1].port
    <2>1. \A h \in Seq(Host) :
              (~ResolveRaises(h, pk.dst, pk.deviceId) /\ ResolveOutPort(h, pk.dst, pk.deviceId) # NoPort)
                 => \E j \in 1..Len(h) :
                       /\ pk.dst \in h[j].ipAddresses
                       /\ h[j].locations # << >>
                       /\ h[j].locations[1].elementId = pk.deviceId
                       /\ ResolveOutPort(h, pk.dst, pk.deviceId) = h[j].locations[1].port
        BY ResolveSound, SMTT(60)
    <2>2. QED
        BY <1>1, <1>4, <2>1, Zenon
<1>6. i \in HostIdx /\ hl[i] = [ipAddresses |-> HostIPs[i], locations |-> hostLoc[i]]
    BY <1>3 DEF Inventory, HostIdx
<1>7. hostLoc[i] \in Seq(Loc)
    BY <1>6 DEF TypeOK
<1>8. <<pk.dst, [elementId |-> pk.deviceId, port |-> OutPortOf(hl, pk)]>>
          \in HostPairs(i, hostLoc[i])
    BY <1>2, <1>5, <1>6, <1>7, FirstLocRecorded
<1>9. QED
    BY <1>6, <1>8 DEF LocationsRecorded

(* A table that only loses rules keeps RuleOutputSound. *)
LEMMA ShrinkKeepsSound ==
    ASSUME RuleOutputSound, everAt' = everAt,
           \A d \in Devices : table'[d] \subseteq table[d]
    PROVE  RuleOutputSound'
BY DEF RuleOutputSound

(* A step that leaves the host locations, the history and the tables      *)
(* alone, and does not reach "install", keeps the three conjuncts.        *)
LEMMA QuietStepKeeps ==
    ASSUME RuleOutputSound, LocationsRecorded,
           UNCHANGED <<table, hostLoc, everAt>>, pc' # "install"
    PROVE  (RuleOutputSound /\ LocationsRecorded /\ ResolvedSound)'
BY DEF RuleOutputSound, LocationsRecorded, ResolvedSound

(* OutputInv holds initially: every rule of a previous run is stale. *)
LEMMA OutputInit == Init => OutputInv
<1> SUFFICES ASSUME Init PROVE OutputInv
    OBVIOUS
<1>1. TypeOK
    BY InitTypeOK
<1>2. RuleOutputSound
    <2>1. \A d \in Devices : \A r \in table[d] : r \in PrevRules
        BY DEF Init
    <2>2. \A r \in PrevRules : r.stale
        OBVIOUS
    <2>3. QED
        BY <2>1, <2>2 DEF RuleOutputSound
<1>3. LocationsRecorded
    BY DEF Init, LocationsRecorded
<1>4. ResolvedSound
    BY DEF Init, ResolvedSound
<1>5. QED
    BY <1>1, <1>2, <1>3, <1>4 DEF OutputInv
(* Every step of the loop and of the controller keeps OutputInv. *)
LEMMA OutputStep == OutputInv /\ [Next]_vars => OutputInv'
<1> SUFFICES ASSUME TypeOK, RuleOutputSound, LocationsRecorded, ResolvedSound,
                    [Next]_vars
             PROVE  TypeOK' /\ (RuleOutputSound /\ LocationsRecorded /\ ResolvedSound)'
    BY DEF OutputInv
<1>1. TypeOK'
    BY TypeOKStep
<1> DEFINE Keep == (RuleOutputSound /\ LocationsRecorded /\ ResolvedSound)'
<1> SUFFICES Keep
    BY <1>1
<1>2. CASE Crash
    BY <1>2, QuietStepKeeps DEF Crash, ctrlVars, histVars
<1>3. CASE ListDevices
    BY <1>2, <1>3, QuietStepKeeps DEF ListDevices, ctrlVars, histVars
<1>4. ASSUME NEW d \in Devices, ClearFlows(d) PROVE Keep
    <2>1. CASE Crash
        BY <1>2, <2>1
    <2>2. CASE ~Crash
        <3>1. \A x \in Devices : table'[x] \subseteq table[x]
            BY <1>4, <2>2 DEF ClearFlows, TypeOK
        <3>2. RuleOutputSound'
            BY <1>4, <2>2, <3>1, ShrinkKeepsSound DEF ClearFlows, histVars
        <3>3. QED
            BY <1>4, <2>2, <3>2 DEF ClearFlows, histVars, LocationsRecorded, ResolvedSound
    <2>3. QED
        BY <2>1, <2>2
<1>5. CASE ListenStart
    BY <1>5, QuietStepKeeps DEF ListenStart, ctrlVars, histVars
<1>6. CASE PollPackets
    BY <1>2, <1>6, QuietStepKeeps DEF PollPackets, PollOk, ctrlVars, histVars
<1>7. CASE SkipPacket
    BY <1>7, QuietStepKeeps DEF SkipPacket, ctrlVars, histVars
<1>8. CASE ResolvePacket
    <2> DEFINE pk == Head(batch)
    <2>1. pk \in Packets
        BY <1>8 DEF ResolvePacket, TypeOK
    <2>2. ASSUME NEW hs \in {Inventory, << >>},
                 ~ResolveRaises(hs, pk.dst, pk.deviceId),
                 pc' = "install",
                 cur' = pk,
                 outPort' = OutPortOf(hs, pk),
                 UNCHANGED <<ctrlVars, histVars>>
          PROVE  Keep
        <3>1. outPort' # CONTROLLER =>
                  <<pk.dst, [elementId |-> pk.deviceId, port |-> outPort']>> \in everAt
            BY <2>1, <2>2, ResolvedPortRecorded
        <3>2. QED
            BY <2>2, <3>1 DEF ctrlVars, histVars, RuleOutputSound, LocationsRecorded, ResolvedSound
    <2>3. ASSUME NEW hs \in {Inventory, << >>},
                 pc' = "crashed",
                 UNCHANGED <<ctrlVars, histVars>>
          PROVE  Keep
        BY <2>3, QuietStepKeeps DEF ctrlVars, histVars
    <2>4. QED
        BY <1>2, <1>8, <2>2, <2>3 DEF ResolvePacket
<1>9. CASE InstallFlow
    <2>1. CASE Crash
        BY <1>2, <2>1
    <2>2. CASE ~Crash
        <3> DEFINE new == [match |-> MatchOf(cur), out |-> outPort, stale |-> FALSE]
        <3>1. outPort # CONTROLLER =>
                  <<new.match.dst, [elementId |-> cur.deviceId, port |-> new.out]>> \in everAt
            BY <1>9 DEF InstallFlow, ResolvedSound, MatchOf
        <3>2. CASE table' = [table EXCEPT ![cur.deviceId] =
                               {r \in @ : r.match # MatchOf(cur)} \cup {new}]
            <4>1. cur.deviceId \in Devices
                BY DEF TypeOK, PacketIn
            <4>2. \A x \in Devices : \A r \in table'[x] : r \in table[x] \/ (x = cur.deviceId /\ r = new)
                BY <3>2, <4>1 DEF TypeOK
            <4>3. everAt' = everAt
                BY <1>9, <2>2 DEF InstallFlow
            <4>4. RuleOutputSound'
                <5> SUFFICES ASSUME NEW x \in Devices, NEW r \in table'[x],
                                    ~r.stale, r.out # CONTROLLER
                             PROVE  <<r.match.dst, [elementId |-> x, port |-> r.out]>> \in everAt'
                    BY DEF RuleOutputSound
                <5>1. CASE r \in table[x]
                    BY <5>1, <4>3 DEF RuleOutputSound
                <5>2. CASE x = cur.deviceId /\ r = new
                    BY <5>2, <3>1, <4>3
                <5>3. QED
                    BY <4>2, <5>1, <5>2
            <4>5. QED
                BY <1>9, <2>2, <4>4 DEF InstallFlow, LocationsRecorded, ResolvedSound
        <3>3. CASE UNCHANGED table
            BY <1>9, <2>2, <3>3 DEF InstallFlow, RuleOutputSound, LocationsRecorded, ResolvedSound
        <3>4. QED
            BY <1>9, <2>2, <3>2, <3>3 DEF InstallFlow
    <2>3. QED
        BY <2>1, <2>2
<1>10. CASE EndBatch
    BY <1>10, QuietStepKeeps DEF EndBatch, ctrlVars, histVars
<1>11. CASE Wake
    BY <1>11, QuietStepKeeps DEF Wake, ctrlVars, histVars
<1>12. ASSUME NEW pk \in Packets, ReportPacket(pk) PROVE Keep
    BY <1>12 DEF ReportPacket, loopVars, histVars, RuleOutputSound, LocationsRecorded, ResolvedSound
<1>13. ASSUME NEW d \in Devices, NEW r \in table[d], ExpireRule(d, r) PROVE Keep
    <2>1. \A x \in Devices : table'[x] \subseteq table[x]
        BY <1>13 DEF ExpireRule, TypeOK
    <2>2. RuleOutputSound'
        BY <1>13, <2>1, ShrinkKeepsSound DEF ExpireRule, histVars
    <2>3. QED
        BY <1>13, <2>2 DEF ExpireRule, loopVars, histVars, LocationsRecorded, ResolvedSound
<1>14. ASSUME NEW i \in HostIdx, NEW ls \in LocChoices, MoveHost(i, ls) PROVE Keep
    <2>1. everAt \subseteq everAt'
        BY <1>14 DEF MoveHost
    <2>2. RuleOutputSound'
        BY <1>14, <2>1 DEF MoveHost, RuleOutputSound
    <2>3. LocationsRecorded'
        BY <1>14 DEF MoveHost, LocationsRecorded, TypeOK
    <2>4. ResolvedSound'
        BY <1>14, <2>1 DEF MoveHost, loopVars, ResolvedSound
    <2>5. QED
        BY <2>2, <2>3, <2>4
<1>15. CASE UNCHANGED vars
    BY <1>15 DEF vars, loopVars, ctrlVars, histVars, RuleOutputSound, LocationsRecorded, ResolvedSound
<1>16. QED
    BY <1>1, <1>3, <1>4, <1>5, <1>6, <1>7, <1>8, <1>9, <1>10, <1>11, <1>12,
       <1>13, <1>14, <1>15 DEF Next, Loop, Controller

(* Every rule this loop installs that outputs to a port sends the packet *)
(* to a location its destination host has held: neither the startup     *)
(* clear, nor a failed GET /hosts, nor a host moving between GET /hosts  *)
(* and POST /flows (Reactive_L3.py, lines 49-57 and 87-91) produces a     *)
(* rule to a port of another device or another host.                      *)
THEOREM OutputSound == Spec => []RuleOutputSound
    BY OutputInit, OutputStep, PTL DEF Spec, OutputInv
-----------------------------------------------------------------------------
(* Startup: the DELETEs before the first poll.  ClearedBeforePoll needs   *)
(* the startup loop's own invariant: the devices still to clear and those *)
(* cleared are all the listed devices.                                     *)

StartupInv ==
    /\ TypeOK
    /\ pc = "clearing" => toClear \cup cleared = Devices
    /\ ClearedBeforePoll

LEMMA InitStartup == Init => StartupInv
    BY InitTypeOK DEF Init, StartupInv, ClearedBeforePoll

(* A step that changes neither the startup loop nor the tables, and keeps *)
(* the loop out of its startup places or in them, keeps StartupInv.       *)
LEMMA StartupFrame ==
    ASSUME StartupInv, TypeOK',
           UNCHANGED <<toClear, cleared, clearOk, table>>,
           pc \in {"poll", "next", "install", "sleep"} \/ pc' = "crashed" \/ pc' = pc,
           pc' \in {"poll", "next", "install", "sleep", "crashed"} \/ pc' = pc
    PROVE  StartupInv'
    BY DEF StartupInv, ClearedBeforePoll

LEMMA StartupStep == StartupInv /\ [Next]_vars => StartupInv'
<1> SUFFICES ASSUME StartupInv, [Next]_vars PROVE StartupInv'
    OBVIOUS
<1>0. TypeOK'
    BY TypeOKStep DEF StartupInv
<1>c. CASE Crash
    BY <1>0, <1>c, StartupFrame DEF Crash, ctrlVars
<1>1. CASE ListDevices /\ ~Crash
    <2>1. /\ pc = "start" /\ pc' = "clearing" /\ toClear' = Devices
          /\ UNCHANGED <<cleared, clearOk, table>>
        BY <1>1 DEF ListDevices, ctrlVars
    <2>2. QED
        BY <1>0, <2>1 DEF StartupInv, ClearedBeforePoll, TypeOK
<1>2. ASSUME NEW d \in Devices, ClearFlows(d)
      PROVE  StartupInv'
    <2>1. CASE /\ pc = "clearing" /\ d \in toClear
               /\ toClear' = toClear \ {d}
               /\ cleared' = cleared \cup {d}
               /\ table' = [table EXCEPT ![d] = {}]
               /\ clearOk' = clearOk \cup {d}
               /\ UNCHANGED pc
        BY <1>0, <2>1 DEF StartupInv, ClearedBeforePoll, TypeOK
    <2>2. CASE /\ pc = "clearing" /\ d \in toClear
               /\ toClear' = toClear \ {d}
               /\ cleared' = cleared \cup {d}
               /\ UNCHANGED <<table, clearOk, pc>>
        BY <1>0, <2>2 DEF StartupInv, ClearedBeforePoll
    <2>3. QED
        BY <1>2, <1>c, <2>1, <2>2 DEF ClearFlows
<1>3. CASE ListenStart
    BY <1>0, <1>3 DEF ListenStart, StartupInv, ClearedBeforePoll, ctrlVars
<1>4. CASE PollPackets \/ SkipPacket \/ EndBatch \/ Wake
    <2>1. /\ UNCHANGED <<toClear, cleared, clearOk, table>>
          /\ pc \in {"poll", "next", "install", "sleep"}
          /\ pc' \in {"poll", "next", "install", "sleep", "crashed"}
        BY <1>4 DEF PollPackets, PollOk, SkipPacket, EndBatch, Wake, Crash, ctrlVars
    <2>2. QED
        BY <1>0, <2>1, StartupFrame
<1>5. CASE ResolvePacket
    <2>1. /\ UNCHANGED <<toClear, cleared, clearOk, table>>
          /\ pc = "next"
          /\ pc' \in {"install", "crashed"}
        BY <1>5 DEF ResolvePacket, Crash, ctrlVars
    <2>2. QED
        BY <1>0, <2>1, StartupFrame
<1>6. CASE InstallFlow /\ ~Crash
    <2>1. /\ pc = "install" /\ pc' = "next"
          /\ UNCHANGED <<toClear, cleared, clearOk>>
        BY <1>6 DEF InstallFlow
    <2>2. QED
        BY <1>0, <2>1 DEF StartupInv, ClearedBeforePoll
<1>7. CASE InstallFlow /\ Crash
    BY <1>7, <1>c
<1>8. ASSUME NEW d \in Devices, NEW r \in table[d], ExpireRule(d, r)
      PROVE  StartupInv'
    BY <1>0, <1>8 DEF ExpireRule, loopVars, StartupInv, ClearedBeforePoll,
                      TypeOK
<1>9. CASE \/ \E pk \in Packets : ReportPacket(pk)
           \/ \E i \in HostIdx, ls \in LocChoices : MoveHost(i, ls)
    BY <1>0, <1>9, StartupFrame DEF ReportPacket, MoveHost, loopVars
<1>10. CASE UNCHANGED vars
    BY <1>0, <1>10, StartupFrame DEF vars, loopVars, ctrlVars
<1>11. QED
    BY <1>c, <1>1, <1>2, <1>3, <1>4, <1>5, <1>6, <1>7, <1>8, <1>9, <1>10
       DEF Next, Loop, Controller

(* Reactive_L3.py lines 97-101: the first GET /packets is issued only     *)
(* after a DELETE /flows went to every listed device.                     *)
THEOREM ClearedFirst == Spec => []ClearedBeforePoll
<1>1. StartupInv => ClearedBeforePoll
    BY DEF StartupInv
<1>2. QED
    BY InitStartup, StartupStep, <1>1, PTL DEF Spec

-----------------------------------------------------------------------------
(* The loop implements FlowTables.  Besides OutputInv and StartupInv, the *)
(* refinement needs the startup loop to send each device one DELETE only. *)

(* Before GET /devices no DELETE was sent, and the loop of lines 98-99    *)
(* visits each listed device once: none still to clear was cleared.        *)
ClearOnce ==
    /\ pc = "start" => cleared = {}
    /\ pc = "clearing" => toClear \cap cleared = {}

RefInv == OutputInv /\ StartupInv /\ ClearOnce

(* The phase each place of the loop maps to, before and after a step. *)
LEMMA PhaseValues ==
    /\ pc \in {"start", "clearing"} => PhaseOf = "startup"
    /\ pc = "crashed" => PhaseOf = "halted"
    /\ pc \in {"poll", "next", "install", "sleep"} => PhaseOf = "listening"
    /\ pc' \in {"start", "clearing"} => PhaseOf' = "startup"
    /\ pc' = "crashed" => PhaseOf' = "halted"
    /\ pc' \in {"poll", "next", "install", "sleep"} => PhaseOf' = "listening"
BY DEF PhaseOf

LEMMA ClearOnceInit == Init => ClearOnce
BY DEF Init, ClearOnce

LEMMA ClearOnceStep == ClearOnce /\ [Next]_vars => ClearOnce'
<1> SUFFICES ASSUME ClearOnce, [Next]_vars PROVE ClearOnce'
    OBVIOUS
<1>1. CASE Crash
    BY <1>1 DEF Crash, ClearOnce
<1>2. CASE ListDevices /\ ~Crash
    BY <1>2 DEF ListDevices, ClearOnce
<1>3. ASSUME NEW d \in Devices, ClearFlows(d), ~Crash PROVE ClearOnce'
    BY <1>3 DEF ClearFlows, ClearOnce
<1>4. CASE (ListenStart \/ PollPackets \/ SkipPacket \/ ResolvePacket \/ InstallFlow
            \/ EndBatch \/ Wake) /\ ~Crash
    BY <1>4 DEF ListenStart, PollPackets, PollOk, SkipPacket, ResolvePacket, InstallFlow,
                EndBatch, Wake, ClearOnce
<1>5. CASE Controller
    BY <1>5 DEF Controller, ReportPacket, ExpireRule, MoveHost, loopVars, ClearOnce
<1>6. CASE UNCHANGED vars
    BY <1>6 DEF vars, loopVars, ClearOnce
<1>7. QED
    BY <1>1, <1>2, <1>3, <1>4, <1>5, <1>6 DEF Next, Loop

LEMMA RefInvariant == Spec => []RefInv
<1>1. Init => RefInv
    BY OutputInit, InitStartup, ClearOnceInit DEF RefInv
<1>2. RefInv /\ [Next]_vars => RefInv'
    BY OutputStep, StartupStep, ClearOnceStep DEF RefInv
<1>3. QED
    BY <1>1, <1>2, PTL DEF Spec

(* The initial states of the loop are initial states of FlowTables. *)
LEMMA RefInit == Init => Tables!Init
<1> SUFFICES ASSUME Init PROVE Tables!Init
    OBVIOUS
<1>1. PhaseOf = "startup"
    BY PhaseValues DEF Init
<1>2. everAt \subseteq IPs \X Loc
    <2>1. \A i \in HostIdx : hostLoc[i] \in LocChoices
        BY DEF Init
    <2>2. QED
        BY <2>1, HostPairsType DEF Init
<1>3. QED
    BY <1>1, <1>2 DEF Init, Tables!Init

(* Every step of the loop or of the controller is a FlowTables step or    *)
(* leaves the phase, the tables and the history unchanged.                 *)
LEMMA RefStep == RefInv /\ [Next]_vars => [Tables!Next]_Tables!vars
<1> SUFFICES ASSUME RefInv, [Next]_vars PROVE [Tables!Next]_Tables!vars
    OBVIOUS
<1>0. TypeOK /\ RuleOutputSound /\ ResolvedSound /\ StartupInv /\ ClearOnce
    BY DEF RefInv, OutputInv
<1> DEFINE Stutter == UNCHANGED <<PhaseOf, table, cleared, clearOk, everAt>>
<1>s. Stutter => [Tables!Next]_Tables!vars
    BY DEF Tables!vars
<1>1. CASE Crash
    <2>1. Tables!Halt
        BY <1>1, PhaseValues DEF Crash, ctrlVars, histVars, Tables!Halt
    <2>2. QED
        BY <2>1 DEF Tables!Next
<1>2. CASE ListDevices /\ ~Crash
    <2>1. pc = "start" /\ pc' = "clearing" /\ UNCHANGED <<cleared, clearOk, table, everAt>>
        BY <1>2 DEF ListDevices, ctrlVars, histVars
    <2>2. QED
        BY <1>s, <2>1, PhaseValues
<1>3. ASSUME NEW d \in Devices, ClearFlows(d), ~Crash PROVE [Tables!Next]_Tables!vars
    <2>1. /\ pc = "clearing" /\ pc' = pc
          /\ d \in toClear
          /\ cleared' = cleared \cup {d}
          /\ \/ table' = [table EXCEPT ![d] = {}] /\ clearOk' = clearOk \cup {d}
             \/ UNCHANGED <<table, clearOk>>
          /\ everAt' = everAt
        BY <1>3 DEF ClearFlows, histVars
    <2>2. d \notin cleared
        BY <1>0, <2>1 DEF ClearOnce
    <2>3. Tables!Clear(d)
        BY <2>1, <2>2, PhaseValues DEF Tables!Clear
    <2>4. QED
        BY <2>3 DEF Tables!Next
<1>4. CASE ListenStart
    <2>1. pc = "clearing" /\ toClear = {} /\ pc' = "poll"
          /\ UNCHANGED <<cleared, clearOk, table, everAt>>
        BY <1>4 DEF ListenStart, ctrlVars, histVars
    <2>2. cleared = Devices
        BY <1>0, <2>1 DEF StartupInv
    <2>3. Tables!Listen
        BY <2>1, <2>2, PhaseValues DEF Tables!Listen
    <2>4. QED
        BY <2>3 DEF Tables!Next
<1>5. CASE (PollPackets \/ SkipPacket \/ EndBatch \/ Wake) /\ ~Crash
    <2>1. /\ pc \in {"poll", "next", "sleep"}
          /\ pc' \in {"poll", "next", "sleep"}
          /\ UNCHANGED <<cleared, clearOk, table, everAt>>
        BY <1>5 DEF PollPackets, PollOk, SkipPacket, EndBatch, Wake, ctrlVars, histVars
    <2>2. QED
        BY <1>s, <2>1, PhaseValues
<1>6. CASE ResolvePacket /\ ~Crash
    <2>1. /\ pc = "next"
          /\ pc' \in {"install", "crashed"}
          /\ UNCHANGED <<cleared, clearOk, table, everAt>>
        BY <1>6 DEF ResolvePacket, ctrlVars, histVars
    <2>2. CASE pc' = "install"
        BY <1>s, <2>1, <2>2, PhaseValues
    <2>3. CASE pc' = "crashed"
        <3>1. Tables!Halt
            BY <2>1, <2>3, PhaseValues DEF Tables!Halt
        <3>2. QED
            BY <3>1 DEF Tables!Next
    <2>4. QED
        BY <2>1, <2>2, <2>3
<1>7. CASE InstallFlow /\ ~Crash
    <2> DEFINE d == cur.deviceId
               new == [match |-> MatchOf(cur), out |-> outPort, stale |-> FALSE]
    <2>1. /\ pc = "install" /\ pc' = "next"
          /\ UNCHANGED <<cleared, clearOk, everAt>>
        BY <1>7 DEF InstallFlow
    <2>2. PhaseOf = "listening" /\ PhaseOf' = "listening"
        BY <2>1, PhaseValues
    <2>3. CASE table' = [table EXCEPT ![d] = {r \in @ : r.match # MatchOf(cur)} \cup {new}]
        <3>1. d \in Devices /\ new \in Rule
            BY <1>0 DEF TypeOK, PacketIn, MatchOf, Rule, Match
        <3>2. new \in table'[d]
            BY <1>0, <2>3, <3>1 DEF TypeOK
        <3>3. Tables!Sound(d, new)
            BY <1>0, <2>1 DEF ResolvedSound, MatchOf, Tables!Sound
        <3>4. Tables!Install(d, new)
            BY <2>1, <2>2, <2>3, <3>3 DEF Tables!Install
        <3>5. QED
            BY <3>1, <3>2, <3>4 DEF Tables!Next
    <2>4. CASE UNCHANGED table
        BY <1>s, <2>1, <2>2, <2>4
    <2>5. QED
        BY <1>7, <2>3, <2>4 DEF InstallFlow
<1>8. CASE pc # "crashed" /\ \E pk \in Packets : ReportPacket(pk)
    BY <1>s, <1>8 DEF ReportPacket, loopVars, histVars, PhaseOf
<1>9. ASSUME pc # "crashed", NEW d \in Devices, NEW r \in table[d], ExpireRule(d, r)
      PROVE  [Tables!Next]_Tables!vars
    <2>1. Tables!Expire(d, r)
        BY <1>9 DEF ExpireRule, loopVars, histVars, PhaseOf, Tables!Expire
    <2>2. QED
        BY <2>1 DEF Tables!Next
<1>10. ASSUME pc # "crashed", NEW i \in HostIdx, NEW ls \in LocChoices, MoveHost(i, ls)
       PROVE  [Tables!Next]_Tables!vars
    <2>1. everAt \subseteq IPs \X Loc /\ HostPairs(i, ls) \subseteq IPs \X Loc
        BY <1>0, HostPairsType DEF TypeOK
    <2>2. Tables!Sight
        BY <1>10, <2>1 DEF MoveHost, loopVars, PhaseOf, Tables!Sight
    <2>3. QED
        BY <2>2 DEF Tables!Next
<1>11. CASE UNCHANGED vars
    BY <1>s, <1>11 DEF vars, loopVars, ctrlVars, histVars, PhaseOf
<1>12. QED
    <2>1. CASE Loop
        BY <2>1, <1>1, <1>2, <1>3, <1>4, <1>5, <1>6, <1>7
           DEF Loop, PollPackets
    <2>2. CASE Controller
        BY <2>2, <1>8, <1>9, <1>10 DEF Controller
    <2>3. QED
        BY <2>1, <2>2, <1>11 DEF Next

(* Reactive_L3.py implements FlowTables: it clears every listed device once *)
(* before it listens, then only installs fresh rules to CONTROLLER or to a *)
(* place the destination has been, each replacing the rule with the same   *)
(* selector, while the switches expire rules, hosts move, and the process *)
(* may crash at any REST call.                                             *)
THEOREM Implementation == Spec => ImplementsFlowTables
<1>1. []RefInv /\ [][Next]_vars => [][Tables!Next]_Tables!vars
    BY RefStep, PTL
<1>2. QED
    BY RefInit, RefInvariant, <1>1, PTL DEF Spec, ImplementsFlowTables, Tables!Spec
=============================================================================
