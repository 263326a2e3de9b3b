----------------------------- MODULE FlowSurvey -----------------------------
(***************************************************************************)
(* The flow survey of xapp_test.py, lines 23-35: how each flow that GET    *)
(* /flows returns is turned into a topology.flow object, reading the       *)
(* selector's criteria by position.  And the reading spec.md 9 asks for,   *)
(* by the kind of each criterion, to compare with.                         *)
(*                                                                         *)
(* A selector is the set of criterion kinds of a rule.  ONOS returns the   *)
(* criteria sorted by kind (the order of its Criterion.Type enum), so the  *)
(* list the code indexes is that set in ONOS order.  A criterion is the    *)
(* dict {"type": kind, <field>: value}; a value is abstracted to the kind  *)
(* it belongs to.                                                          *)
(***************************************************************************)
EXTENDS Naturals, Sequences, FiniteSets

(* The key of .get(type) at line 25: Python's builtin class type, which is *)
(* not a string; a model value, unequal to every key of a criterion dict.  *)
CONSTANT BuiltinType

(* The criterion kinds the rules of this repository use, in ONOS order. *)
ONOSOrder == <<"IN_PORT", "ETH_DST", "ETH_TYPE", "IP_PROTO", "IPV4_SRC",
               "IPV4_DST", "UDP_DST", "TUNNEL_ID">>

Kinds == {ONOSOrder[i] : i \in 1..Len(ONOSOrder)}

(* The field of a criterion dict besides "type" (topology and flow JSON). *)
FieldOf(k) ==
    CASE k = "IN_PORT"   -> "port"
      [] k = "ETH_DST"   -> "mac"
      [] k = "ETH_TYPE"  -> "ethType"
      [] k = "IP_PROTO"  -> "protocol"
      [] k = "IPV4_SRC"  -> "ip"
      [] k = "IPV4_DST"  -> "ip"
      [] k = "UDP_DST"   -> "udpPort"
      [] k = "TUNNEL_ID" -> "tunnelId"

(* Python's None. *)
None == "None"


(* The value of a field of the criterion of kind k. *)
ValueOf(k) == [of |-> k]

(* dict.get(key) on the criterion of kind k. *)
Get(k, key) ==
    IF key = "type" THEN k
    ELSE IF key = FieldOf(k) THEN ValueOf(k)
    ELSE None

(* The criteria list GET /flows returns for a selector. *)
Criteria(S) == SelectSeq(ONOSOrder, LAMBDA k : k \in S)

(* Line 25: is the third criterion IP_PROTO? *)
IsL3(c) == Get(c[3], BuiltinType) = "IP_PROTO"

(* Lines 24-34 raise IndexError: a criterion past the end is read. *)
ParseRaises(c) ==
    /\ Len(c) > 1
    /\ \/ Len(c) < 3
       \/ IsL3(c) /\ Len(c) < 5
       \/ ~IsL3(c) /\ Len(c) < 4

(* The fields of the flow object built at lines 26-34 that tell the kind  *)
(* of a flow apart: its kind (the branch taken), ip_src, ip_dst, tun_id.  *)
ParseFlow(c) ==
    IF Len(c) <= 1
    THEN [kind |-> "Ethernet", src |-> None, dst |-> None, tun |-> None]
    ELSE IF IsL3(c)
    THEN [kind |-> "L3", src |-> Get(c[4], "ip"), dst |-> Get(c[5], "ip"), tun |-> None]
    ELSE [kind |-> "tunnel", src |-> None, dst |-> None, tun |-> Get(c[4], "tunnelId")]

(***************************************************************************)
(* The reference, spec.md 9 and 3: criteria looked up by kind.  A rule     *)
(* with a tunnel id is a tunnel rule, one with an IP protocol an L3 rule,  *)
(* anything else an Ethernet rule.                                         *)
(***************************************************************************)
Lookup(S, k) == IF k \in S THEN ValueOf(k) ELSE None

SpecParse(S) ==
    IF "TUNNEL_ID" \in S
    THEN [kind |-> "tunnel", src |-> None, dst |-> None, tun |-> Lookup(S, "TUNNEL_ID")]
    ELSE IF "IP_PROTO" \in S
    THEN [kind |-> "L3", src |-> Lookup(S, "IPV4_SRC"), dst |-> Lookup(S, "IPV4_DST"), tun |-> None]
    ELSE [kind |-> "Ethernet", src |-> None, dst |-> None, tun |-> None]
=============================================================================
