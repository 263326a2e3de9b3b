---------------------------- MODULE MCFlowSurvey ----------------------------
(***************************************************************************)
(* The selectors of the rules this repository installs, each read by the   *)
(* survey of xapp_test.py and by the reference of spec.md 9.               *)
(***************************************************************************)
EXTENDS FlowSurvey

CONSTANT Selectors   \* the selectors whose rules the survey reads

VARIABLE sel

(* Reactive_L3.py install_flow; topology.py set_udp_flow_queue;           *)
(* Activate_L3_flows.py's base flow; the ONOS default ETH_TYPE rules.      *)
(* Its L3 flows never reach a table: line 71 sends their selector as a     *)
(* bare list, which ONOS does not accept.                                  *)
RepoSelectors ==
    { {"IN_PORT", "ETH_TYPE", "IPV4_SRC", "IPV4_DST", "IP_PROTO"},
      {"ETH_TYPE", "IP_PROTO", "UDP_DST", "TUNNEL_ID"},
      {"ETH_DST"},
      {"ETH_TYPE"} }

Init == sel \in Selectors

Next == UNCHANGED sel

Spec == Init /\ [][Next]_sel

(* spec.md 9: the survey reads every rule's criteria by kind: it neither  *)
(* raises nor classifies a rule differently from a lookup by kind         *)
(* (xapp_test.py lines 24-34).                                            *)
ParsedAsSpec ==
    /\ ~ParseRaises(Criteria(sel))
    /\ ParseFlow(Criteria(sel)) = SpecParse(sel)
=============================================================================
