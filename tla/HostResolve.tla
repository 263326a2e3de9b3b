----------------------------- MODULE HostResolve -----------------------------
(***************************************************************************)
(* The destination lookup of Reactive_L3.py, resolve_out_port (lines       *)
(* 49-57), as an operator over the host list that get_hosts returned, and  *)
(* the lookup that spec.md 4.2 describes, as a reference to compare with.  *)
(*                                                                         *)
(* A host is the part of an ONOS /hosts entry the lookup reads: its set of *)
(* IP addresses and its ordered list of locations (elementId, port).  The  *)
(* list of hosts keeps the controller's order, since the first match wins. *)
(***************************************************************************)
EXTENDS Naturals, Sequences

CONSTANTS Devices,  \* device ids (elementId of a location)
          Ports,    \* switch port names
          IPs       \* IPv4 addresses

(* The value None that resolve_out_port returns when it finds no port. *)
NoPort == "None"

ASSUME PortsAssumption == NoPort \notin Ports

Loc == [elementId : Devices, port : Ports]

Host == [ipAddresses : SUBSET IPs, locations : Seq(Loc)]

(* The smallest index of a non-empty set of indices. *)
FirstIndex(S) == CHOOSE i \in S : \A j \in S : i <= j

(* Mutant: the test loc["elementId"] == device_id left out. *)
DecidesAnyDevice(hs, ip, dev, i) == ip \in hs[i].ipAddresses

(***************************************************************************)
(* resolve_out_port walks the host list in order.  At a host that carries  *)
(* dst_ip it reads h["locations"][0]: if the list is empty that raises     *)
(* IndexError, otherwise it returns the port when the location is on the   *)
(* device that saw the packet and goes on to the next host when it is not. *)
(* So the outcome is decided by the first host that carries dst_ip and     *)
(* whose location list is empty or starts on device_id.                    *)
(***************************************************************************)
Decides(hs, ip, dev, i) ==
    /\ ip \in hs[i].ipAddresses
    /\ \/ hs[i].locations = << >>
       \/ hs[i].locations[1].elementId = dev

Deciding(hs, ip, dev) == {i \in 1..Len(hs) : Decides(hs, ip, dev, i)}

(* resolve_out_port raises IndexError. *)
ResolveRaises(hs, ip, dev) ==
    /\ Deciding(hs, ip, dev) # {}
    /\ hs[FirstIndex(Deciding(hs, ip, dev))].locations = << >>

(* The port resolve_out_port returns, when it does not raise. *)
ResolveOutPort(hs, ip, dev) ==
    IF Deciding(hs, ip, dev) = {}
    THEN NoPort
    ELSE hs[FirstIndex(Deciding(hs, ip, dev))].locations[1].port

(***************************************************************************)
(* The reference, spec.md 4.2: hosts without a location are not in the    *)
(* cache; the first cached host whose IP set holds dstIp is the match, and *)
(* among its locations the one on the origin device gives the port.       *)
(***************************************************************************)
Cached(hs) == {i \in 1..Len(hs) : hs[i].locations # << >>}

SpecResolve(hs, ip, dev) ==
    LET holders == {i \in Cached(hs) : ip \in hs[i].ipAddresses}
        h       == hs[FirstIndex(holders)]
        onDev   == {k \in 1..Len(h.locations) : h.locations[k].elementId = dev}
    IN  IF holders = {} \/ onDev = {}
        THEN NoPort
        ELSE h.locations[FirstIndex(onDev)].port
=============================================================================
