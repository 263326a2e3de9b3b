-------------------------------- MODULE MCXApp --------------------------------
(* xapp_test.py on a small RAN: the surveyed network of this repository's  *)
(* flows, and E2 nodes of each accepted type and of one other type.        *)
EXTENDS XApp

MCSwitchIds == {"of:1", "of:2"}

(* The Reactive L3 rule and an Ethernet rule on one switch, the UDP tunnel *)
(* rule of set_udp_flow_queue on the other.                                *)
MCSwitchFlows ==
    [sw \in MCSwitchIds |->
        IF sw = "of:1"
        THEN {{"IN_PORT", "ETH_TYPE", "IP_PROTO", "IPV4_SRC", "IPV4_DST"}, {"ETH_DST"}}
        ELSE {{"ETH_TYPE", "IP_PROTO", "UDP_DST", "TUNNEL_ID"}}]

MCHostLocs == << <<"of:1">>, <<"of:2">> >>

(* "of:0000000000000002" of set_udp_flow_queue: the second switch. *)
MCQueueDevice == "of:2"

(* An eNB-CU (not accepted), a gNB-DU, a gNB-CU-UP and a gNB-CU-CP. *)
MCNodeEnums == <<3, 7, 10, 9>>
=============================================================================
