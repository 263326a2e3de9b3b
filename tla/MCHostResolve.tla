---------------------------- MODULE MCHostResolve ----------------------------
(***************************************************************************)
(* Compares resolve_out_port with the lookup of spec.md 4.2 on every host  *)
(* list of at most MaxHosts hosts built from small sets of addresses and   *)
(* locations, every destination address and every origin device.          *)
(***************************************************************************)
EXTENDS HostResolve

CONSTANTS LocChoices,   \* the location lists a host may have
          DistinctIPs,  \* TRUE: no address belongs to two hosts
          MaxHosts      \* length of the longest host list

VARIABLES hosts, ip, dev

vars == <<hosts, ip, dev>>

(* Location lists: one location, or two on different devices. *)
SingleLocs == {<<l>> : l \in Loc}
DualLocs == SingleLocs \cup {p \in Loc \X Loc : p[1].elementId # p[2].elementId}

HostChoices == [ipAddresses : (SUBSET IPs) \ {{}}, locations : LocChoices]

IPsDistinct(hs) ==
    \A i, j \in 1..Len(hs) : i # j => hs[i].ipAddresses \cap hs[j].ipAddresses = {}

Init ==
    /\ hosts \in {hs \in UNION {[1..n -> HostChoices] : n \in 1..MaxHosts} :
                    DistinctIPs => IPsDistinct(hs)}
    /\ ip \in IPs
    /\ dev \in Devices

Next == UNCHANGED vars

Spec == Init /\ [][Next]_vars

(***************************************************************************)
(* resolve_out_port returns the port spec.md 4.2 says the host cache       *)
(* returns, for the same host list, destination and origin device,         *)
(* whenever it does not raise.                                             *)
(***************************************************************************)
ResolveAgreesWithSpec ==
    ~ResolveRaises(hosts, ip, dev) =>
        ResolveOutPort(hosts, ip, dev) = SpecResolve(hosts, ip, dev)
=============================================================================
