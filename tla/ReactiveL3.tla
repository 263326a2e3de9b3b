------------------------------ MODULE ReactiveL3 ------------------------------
(***************************************************************************)
(* Reactive_L3.py: the reactive flow-installation loop, and the part of    *)
(* the ONOS controller it drives through REST.                             *)
(*                                                                         *)
(* The loop (one Python thread) lists the devices, clears the flows of     *)
(* each, then forever polls /packets and, for every packet-in of the batch,*)
(* filters it, resolves the output port through a fresh GET /hosts and     *)
(* POSTs a flow rule.  Every REST call is one step, so the controller's    *)
(* own changes (new packet-ins, expiring rules, hosts moving) interleave   *)
(* between the calls.  A call that raises (ConnectionError, or IndexError  *)
(* in resolve_out_port) is not caught anywhere: the process ends.          *)
(***************************************************************************)
EXTENDS Naturals, Sequences, FiniteSets

CONSTANTS Devices,      \* device ids returned by GET /devices
          Ports,        \* switch ports
          IPs,          \* IPv4 addresses
          WireProtos,   \* values of ipv4Packet.protocol as the controller sends them
          ProtoNum,     \* the IP protocol number each such value stands for
          Packets,      \* the packet-ins the switches may report
          HostIPs,      \* ipAddresses of each host, in the order of GET /hosts
          LocChoices,   \* the location lists a host may have
          PrevRules,    \* rules a previous run may have left in a table
          MaxPending,   \* packet-ins the controller buffers between two polls
          MaxMoves,     \* host moves in one behaviour
          RaiseErrors   \* TRUE: a REST call may raise

INSTANCE HostResolve

(* The output port of the fallback rule, Reactive_L3.py line 89. *)
CONTROLLER == "CONTROLLER"

(* Reactive_L3.py line 10: the protocol filter, keyed by protocol name. *)
protocols == [ICMP |-> 1, TCP |-> 6, UDP |-> 17, SCTP |-> 132]

Match == [inPort : Ports, src : IPs, dst : IPs, proto : WireProtos]

Rule == [match : Match, out : Ports \cup {CONTROLLER}, stale : BOOLEAN]

PacketIn == [deviceId : Devices, port : Ports, ipv4 : BOOLEAN,
             src : IPs, dst : IPs, proto : WireProtos]

ASSUME ConstantsAssumption ==
    /\ CONTROLLER \notin Ports
    /\ NoPort \notin Ports
    /\ ProtoNum \in [WireProtos -> Nat]
    /\ Packets \subseteq PacketIn
    /\ Packets # {}
    /\ HostIPs \in Seq(SUBSET IPs)
    /\ LocChoices \subseteq Seq(Loc)
    /\ LocChoices # {}
    /\ PrevRules \subseteq [match : Match, out : Ports \cup {CONTROLLER}, stale : {TRUE}]
    /\ MaxPending \in Nat
    /\ MaxMoves \in Nat
    /\ RaiseErrors \in BOOLEAN

HostIdx == 1..Len(HostIPs)

PC == {"start", "clearing", "poll", "next", "install", "sleep", "crashed"}

VARIABLES
    pc,        \* where the Python thread is
    toClear,   \* devices of the startup loop (lines 98-99) not yet cleared
    cleared,   \* devices whose DELETE /flows was issued
    clearOk,   \* devices whose DELETE /flows succeeded
    batch,     \* packets of the last poll not yet handled (line 72)
    cur,       \* the packet whose rule is being installed
    outPort,   \* out_port of that packet (lines 87-89)
    table,     \* controller: the rules installed on each device
    pending,   \* controller: packet-ins not yet returned by GET /packets
    hostLoc,   \* controller: the locations of each host
    moves,     \* host moves so far
    everAt,    \* history: <<ip, location>> pairs that have held
    posted,    \* history: [deviceId, match] of every POST /flows issued
    okPosted   \* history: [deviceId, match] of every POST /flows that succeeded

loopVars == <<pc, toClear, cleared, clearOk, batch, cur, outPort>>
ctrlVars == <<table, pending, hostLoc, moves>>
histVars == <<everAt, posted, okPosted>>
vars == <<loopVars, ctrlVars, histVars>>

(* The host list GET /hosts returns when it answers 200. *)
Inventory == [i \in HostIdx |-> [ipAddresses |-> HostIPs[i], locations |-> hostLoc[i]]]

HostPairs(i, ls) == {<<ip, ls[k]>> : ip \in HostIPs[i], k \in 1..Len(ls)}

MatchOf(pk) == [inPort |-> pk.port, src |-> pk.src, dst |-> pk.dst, proto |-> pk.proto]

(* A switch forwards the packet itself, without a packet-in, when an IPv4  *)
(* rule for it outputs to a port; a CONTROLLER rule punts it again.        *)
Forwarded(pk) ==
    /\ pk.ipv4
    /\ \E r \in table[pk.deviceId] : r.match = MatchOf(pk) /\ r.out # CONTROLLER

(* No packet in flight: the value cur and outPort hold outside "install". *)
NoPacket == CHOOSE pk \in Packets : TRUE

(* A REST call raising: nothing catches it, the process exits. *)
Crash ==
    /\ RaiseErrors
    /\ pc' = "crashed"
    /\ UNCHANGED <<toClear, cleared, clearOk, batch, cur, outPort, ctrlVars, histVars>>

Init ==
    /\ pc = "start"
    /\ toClear = {}
    /\ cleared = {}
    /\ clearOk = {}
    /\ batch = << >>
    /\ cur = NoPacket
    /\ outPort = CONTROLLER
    /\ table \in [Devices -> SUBSET PrevRules]
    /\ pending = << >>
    /\ hostLoc \in [HostIdx -> LocChoices]
    /\ moves = 0
    /\ everAt = UNION {HostPairs(i, hostLoc[i]) : i \in HostIdx}
    /\ posted = {}
    /\ okPosted = {}

-----------------------------------------------------------------------------
(* The loop. *)

(* Line 97: GET /devices, then the for loop over the devices. *)
ListDevices ==
    /\ pc = "start"
    /\ \/ /\ pc' = "clearing"
          /\ toClear' = Devices
          /\ UNCHANGED <<cleared, clearOk, batch, cur, outPort, ctrlVars, histVars>>
       \/ Crash

(* Lines 98-99 and clear_flows, lines 35-39: DELETE /flows/{device_id}.    *)
(* The status is printed and not checked: the loop goes on either way.     *)
(* Mutant: every DELETE goes to the first device of the list. *)
ClearFlowsFirstDevice(d) ==
    /\ pc = "clearing"
    /\ d \in toClear
    /\ \/ /\ toClear' = toClear \ {d}
          /\ cleared' = cleared \cup {d}
          /\ \/ /\ table' = [table EXCEPT ![CHOOSE x \in Devices : TRUE] = {}]
                /\ clearOk' = clearOk \cup {d}
             \/ UNCHANGED <<table, clearOk>>
          /\ UNCHANGED <<pc, batch, cur, outPort, pending, hostLoc, moves, histVars>>
       \/ Crash

ClearFlows(d) ==
    /\ pc = "clearing"
    /\ d \in toClear
    /\ \/ /\ toClear' = toClear \ {d}
          /\ cleared' = cleared \cup {d}
          /\ \/ /\ table' = [table EXCEPT ![d] = {}]
                /\ clearOk' = clearOk \cup {d}
             \/ UNCHANGED <<table, clearOk>>
          /\ UNCHANGED <<pc, batch, cur, outPort, pending, hostLoc, moves, histVars>>
       \/ Crash

(* Line 101: the for loop is done, listen_packets starts. *)
(* Mutant: listening starts while clear calls are still outstanding. *)
ListenStartEarly ==
    /\ pc = "clearing"
    /\ pc' = "poll"
    /\ UNCHANGED <<toClear, cleared, clearOk, batch, cur, outPort, ctrlVars, histVars>>

ListenStart ==
    /\ pc = "clearing"
    /\ toClear = {}
    /\ pc' = "poll"
    /\ UNCHANGED <<toClear, cleared, clearOk, batch, cur, outPort, ctrlVars, histVars>>

(* Lines 64-71: GET /packets.  On 200 the packets become the batch; on     *)
(* another status the loop sleeps 2 s (line 68) and polls again.           *)
PollOk ==
    /\ pc = "poll"
    /\ pc' = "next"
    /\ batch' = pending
    /\ pending' = << >>
    /\ UNCHANGED <<toClear, cleared, clearOk, cur, outPort, table, hostLoc, moves, histVars>>

PollPackets ==
    \/ PollOk
    \/ /\ pc = "poll"
       /\ pc' = "sleep"
       /\ UNCHANGED <<toClear, cleared, clearOk, batch, cur, outPort, ctrlVars, histVars>>
    \/ pc = "poll" /\ Crash

(* Lines 76-85: a packet without ipv4Packet, or whose protocol is not a    *)
(* key of the protocols dict, is skipped.                                  *)
(* Mutant: a packet whose destination is not found is dropped too. *)
SkippedUnresolved(pk) ==
    \/ ~pk.ipv4
    \/ pk.proto \notin DOMAIN protocols
    \/ ResolveOutPort(Inventory, pk.dst, pk.deviceId) = NoPort

Skipped(pk) == ~pk.ipv4 \/ pk.proto \notin DOMAIN protocols

SkipPacket ==
    /\ pc = "next"
    /\ batch # << >>
    /\ Skipped(Head(batch))
    /\ batch' = Tail(batch)
    /\ UNCHANGED <<pc, toClear, cleared, clearOk, cur, outPort, ctrlVars, histVars>>

(* Lines 87-89 and resolve_out_port, lines 49-57, with get_hosts, lines    *)
(* 41-47: GET /hosts (an empty list unless it answers 200), the lookup,    *)
(* and CONTROLLER when it found no port.                                   *)
(* Mutant: the CONTROLLER fallback of lines 88-89 left out. *)
OutPortNoFallback(hs, pk) == ResolveOutPort(hs, pk.dst, pk.deviceId)

(* Lines 87-89: the port found, or CONTROLLER when there is none. *)
OutPortOf(hs, pk) ==
    IF ResolveOutPort(hs, pk.dst, pk.deviceId) = NoPort
    THEN CONTROLLER
    ELSE ResolveOutPort(hs, pk.dst, pk.deviceId)

ResolvePacket ==
    /\ pc = "next"
    /\ batch # << >>
    /\ ~Skipped(Head(batch))
    /\ LET pk == Head(batch) IN
       \/ \E hs \in {Inventory, << >>} :
             IF ResolveRaises(hs, pk.dst, pk.deviceId)
             THEN /\ pc' = "crashed"
                  /\ UNCHANGED <<toClear, cleared, clearOk, batch, cur, outPort, ctrlVars, histVars>>
             ELSE /\ pc' = "install"
                  /\ batch' = Tail(batch)
                  /\ cur' = pk
                  /\ outPort' = OutPortOf(hs, pk)
                  /\ UNCHANGED <<toClear, cleared, clearOk, ctrlVars, histVars>>
       \/ Crash

(* Line 91 and install_flow, lines 12-33: POST /flows/{device_id}.  The    *)
(* controller replaces a rule with the same selector; the status is only   *)
(* printed.                                                                *)
InstallFlow ==
    /\ pc = "install"
    /\ \/ /\ pc' = "next"
          /\ posted' = posted \cup {[deviceId |-> cur.deviceId, match |-> MatchOf(cur)]}
          /\ \/ /\ table' = [table EXCEPT ![cur.deviceId] =
                               {r \in @ : r.match # MatchOf(cur)}
                                 \cup {[match |-> MatchOf(cur), out |-> outPort, stale |-> FALSE]}]
                /\ okPosted' = okPosted \cup {[deviceId |-> cur.deviceId, match |-> MatchOf(cur)]}
             \/ UNCHANGED <<table, okPosted>>
          /\ cur' = NoPacket
          /\ outPort' = CONTROLLER
          /\ UNCHANGED <<toClear, cleared, clearOk, batch, pending, hostLoc, moves, everAt>>
       \/ Crash

(* Line 93: the batch is done, time.sleep(1). *)
EndBatch ==
    /\ pc = "next"
    /\ batch = << >>
    /\ pc' = "sleep"
    /\ UNCHANGED <<toClear, cleared, clearOk, batch, cur, outPort, ctrlVars, histVars>>

(* The end of time.sleep, lines 68 and 93: back to the top of the loop. *)
Wake ==
    /\ pc = "sleep"
    /\ pc' = "poll"
    /\ UNCHANGED <<toClear, cleared, clearOk, batch, cur, outPort, ctrlVars, histVars>>

-----------------------------------------------------------------------------
(* The controller and the network, which the code does not control. *)

(* A switch reports a packet that no rule forwards. *)
ReportPacket(pk) ==
    /\ Len(pending) < MaxPending
    /\ ~Forwarded(pk)
    /\ pending' = Append(pending, pk)
    /\ UNCHANGED <<loopVars, table, hostLoc, moves, histVars>>

(* A rule idles out: every rule of this loop has timeout 30, isPermanent False. *)
ExpireRule(d, r) ==
    /\ r \in table[d]
    /\ table' = [table EXCEPT ![d] = @ \ {r}]
    /\ UNCHANGED <<loopVars, pending, hostLoc, moves, histVars>>

(* A host is seen at other locations. *)
MoveHost(i, ls) ==
    /\ moves < MaxMoves
    /\ ls # hostLoc[i]
    /\ hostLoc' = [hostLoc EXCEPT ![i] = ls]
    /\ moves' = moves + 1
    /\ everAt' = everAt \cup HostPairs(i, ls)
    /\ UNCHANGED <<loopVars, table, pending, posted, okPosted>>

-----------------------------------------------------------------------------
Loop ==
    \/ ListDevices
    \/ \E d \in Devices : ClearFlows(d)
    \/ ListenStart
    \/ PollPackets
    \/ SkipPacket
    \/ ResolvePacket
    \/ InstallFlow
    \/ EndBatch
    \/ Wake

(* After the process has exited the controller goes on, but nothing it   *)
(* does then can touch what the properties are about; it is left out.      *)
Controller ==
    /\ pc # "crashed"
    /\ \/ \E pk \in Packets : ReportPacket(pk)
       \/ \E d \in Devices : \E r \in table[d] : ExpireRule(d, r)
       \/ \E i \in HostIdx, ls \in LocChoices : MoveHost(i, ls)

Next == Loop \/ Controller

(* The Python thread runs whenever it is not blocked.  GET /packets, tried *)
(* again after every failure, is assumed to answer 200 eventually (strong *)
(* fairness, as it is only enabled between sleeps).  The controller, the  *)
(* switches and the hosts get no fairness.                                 *)
Fairness ==
    /\ WF_vars(ListDevices)
    /\ WF_vars(\E d \in Devices : ClearFlows(d))
    /\ WF_vars(ListenStart)
    /\ SF_vars(PollOk)
    /\ WF_vars(SkipPacket)
    /\ WF_vars(ResolvePacket)
    /\ WF_vars(InstallFlow)
    /\ WF_vars(EndBatch)
    /\ WF_vars(Wake)

Spec == Init /\ [][Next]_vars /\ Fairness

-----------------------------------------------------------------------------
(* Properties. *)

TypeOK ==
    /\ pc \in PC
    /\ toClear \subseteq Devices
    /\ cleared \subseteq Devices
    /\ clearOk \subseteq cleared
    /\ batch \in Seq(Packets)
    /\ cur \in Packets
    /\ outPort \in Ports \cup {CONTROLLER}
    /\ table \in [Devices -> SUBSET Rule]
    /\ pending \in Seq(Packets)
    /\ hostLoc \in [HostIdx -> LocChoices]
    /\ moves \in 0..MaxMoves
    /\ everAt \subseteq IPs \X Loc
    /\ posted \subseteq [deviceId : Devices, match : Match]
    /\ okPosted \subseteq [deviceId : Devices, match : Match]

(* Startup (lines 97-99, spec.md 8, scenario D): the first GET /packets is *)
(* issued only after DELETE /flows went out to every listed device.        *)
ClearedBeforePoll ==
    pc \in {"poll", "next", "install", "sleep"} => cleared = Devices

(* A rule this loop installed on device d that outputs to a port p, for    *)
(* destination ip, only exists if the host of ip was at some time located  *)
(* at (d, p): resolve_out_port never picks a port of another device or of  *)
(* another host, even with hosts moving between GET /hosts and POST.       *)
RuleOutputSound ==
    \A d \in Devices : \A r \in table[d] :
        (~r.stale /\ r.out # CONTROLLER) =>
            <<r.match.dst, [elementId |-> d, port |-> r.out]>> \in everAt

(* The inductive invariant behind RuleOutputSound.  The current locations *)
(* of every host are in the history, and a port resolved by line 87 and    *)
(* not yet POSTed already satisfies what RuleOutputSound asks of the rule  *)
(* line 91 will install.                                                   *)
LocationsRecorded ==
    \A i \in HostIdx : HostPairs(i, hostLoc[i]) \subseteq everAt

ResolvedSound ==
    (pc = "install" /\ outPort # CONTROLLER) =>
        <<cur.dst, [elementId |-> cur.deviceId, port |-> outPort]>> \in everAt

OutputInv == TypeOK /\ RuleOutputSound /\ LocationsRecorded /\ ResolvedSound

(* The phase of the FlowTables promise the loop is in: startup until line *)
(* 101 is reached, halted once the process has exited.                    *)
PhaseOf ==
    CASE pc \in {"start", "clearing"} -> "startup"
      [] pc = "crashed"               -> "halted"
      [] OTHER                        -> "listening"

Tables == INSTANCE FlowTables WITH phase <- PhaseOf, Sightings <- IPs \X Loc

(* The loop keeps the FlowTables promise: every step it or the controller *)
(* takes is a DELETE of a device not yet cleared during startup, the start *)
(* of listening once every device was cleared, the install of a fresh rule *)
(* to CONTROLLER or to a place the destination has been, replacing the     *)
(* rule with the same selector, an expiry, new host locations, the crash,  *)
(* or leaves the tables and the history alone.                             *)
ImplementsFlowTables == Tables!Spec

(* The protocol numbers spec.md 4.3 supports: ICMP, TCP, UDP, SCTP. *)
Supported(pk) == pk.ipv4 /\ ProtoNum[pk.proto] \in {protocols[n] : n \in DOMAIN protocols}

InPending(pk) == \E k \in 1..Len(pending) : pending[k] = pk

Posted(pk) == [deviceId |-> pk.deviceId, match |-> MatchOf(pk)] \in posted

(* spec.md 4.3 and 8: every reported IPv4 packet of a supported protocol   *)
(* eventually gets a rule POSTed for it (lines 84-91).                     *)
SupportedPacketHandled ==
    \A pk \in {q \in Packets : Supported(q)} : InPending(pk) ~> Posted(pk)

(* spec.md 4.4 and 8 (idempotence): once a POST /flows of a selector to a *)
(* device has succeeded, the loop does not POST it again (the FlowStore's *)
(* shouldInstall skips it); line 91 posts for every packet-in it handles. *)
InstallOnce ==
    [][(pc = "install" /\ pc' = "next") =>
           [deviceId |-> cur.deviceId, match |-> MatchOf(cur)] \notin okPosted]_vars

(* spec.md 7: no error of this subsystem ends the loop. *)
NoCrash == pc # "crashed"
=============================================================================
