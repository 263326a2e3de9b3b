----------------------------- MODULE MCReactiveL3 -----------------------------
(***************************************************************************)
(* Small instances of ReactiveL3: two switches with two ports each, two    *)
(* hosts a and b, and packet-ins for the flows a -> b and b -> a.          *)
(***************************************************************************)
EXTENDS ReactiveL3

CONSTANTS d1, d2, p1, p2, a, b,   \* model values named in the definitions below
          N6, N47                 \* the numbers 6 and 47 as the controller sends them

(* ipv4Packet.protocol as a name (a key of the protocols dict) ... *)
NameProtos == [TCP |-> 6, GRE |-> 47]
(* ... or as a number, which is never equal to a string key. *)
NumberProtos == [v \in {N6, N47} |-> IF v = N6 THEN 6 ELSE 47]

Pkt(d, port, src, dst, proto) ==
    [deviceId |-> d, port |-> port, ipv4 |-> TRUE, src |-> src, dst |-> dst, proto |-> proto]

(* The TCP flow a -> b seen at d1 and at d2, a flow of an unsupported     *)
(* protocol, and a non-IPv4 packet.                                        *)
MCPackets ==
    LET tcp == CHOOSE v \in DOMAIN ProtoNum : ProtoNum[v] = 6
        gre == CHOOSE v \in DOMAIN ProtoNum : ProtoNum[v] = 47
    IN  {Pkt(d1, p1, a, b, tcp), Pkt(d2, p2, a, b, tcp), Pkt(d1, p1, a, b, gre),
         [Pkt(d2, p1, a, b, tcp) EXCEPT !.ipv4 = FALSE]}

(* For the safety run: the packets that get a rule.  A skipped packet     *)
(* touches no table; the liveness and crash runs have them.               *)
MCSafetyPackets ==
    {pk \in MCPackets : Supported(pk)}

MCHostIPs == << {b} >>

(* One location per host, or none (a host ONOS knows without a location). *)
OneLoc == {<<l>> : l \in Loc}
OneLocOrNone == OneLoc \cup {<< >>}

(* A rule of an earlier run on the TCP flow a -> b at d1, outputting to p2. *)
MCPrevRules ==
    {[match |-> MatchOf(Pkt(d1, p1, a, b, CHOOSE v \in DOMAIN ProtoNum : ProtoNum[v] = 6)),
      out |-> p2, stale |-> TRUE]}
=============================================================================
