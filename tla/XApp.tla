--------------------------------- MODULE XApp ---------------------------------
(***************************************************************************)
(* xapp_test.py __main__ (lines 8-107), with the metric storage and the    *)
(* statistics callbacks of xapp_functs.py.                                 *)
(*                                                                         *)
(* The main thread surveys the switches, flows and hosts (lines 12-46),    *)
(* connects to the E2 nodes (57-59), and for each node of an accepted type *)
(* adds it to the storage and registers one SDK subscription per          *)
(* statistics kind (66-93).  From its registration on, a subscription's    *)
(* callback runs on an SDK thread, concurrently with the main thread, and  *)
(* appends what it receives to the storage.  After a sleep (96) the main   *)
(* thread removes every handler it recorded (99-105) and stops the SDK.    *)
(***************************************************************************)
EXTENDS Naturals, Sequences, FiniteSets, FlowSurvey

CONSTANTS SwitchIds,    \* the switches that are or may become ONOS devices
          SwitchFlows,  \* the selectors of the flows of each switch (line 20)
          HostLocs,     \* the elementIds of each host's locations (line 38)
          QueueDevice,  \* the deviceId set_udp_flow_queue posts to (topology.py 127, 146)
          NodeEnums,    \* conn: the ngran node type enum of each E2 node, in order
          MaxInd        \* indications stored per metric

ASSUME XAppAssumption ==
    /\ SwitchFlows \in [SwitchIds -> SUBSET SUBSET Kinds]
    /\ HostLocs \in Seq(Seq(SwitchIds))
    /\ QueueDevice \in STRING
    /\ NodeEnums \in Seq(Nat)
    /\ MaxInd \in Nat

(* xapp_functs.py lines 276-288 and 300. *)
NGRAN_NODE_TYPES ==
    LET names == <<"ngran_eNB", "ngran_ng_eNB", "ngran_gNB", "ngran_eNB_CU",
                   "ngran_ng_eNB_CU", "ngran_gNB_CU", "ngran_eNB_DU", "ngran_gNB_DU",
                   "ngran_eNB_MBMS_STA", "ngran_gNB_CUCP", "ngran_gNB_CUUP">>
    IN  [e \in 0..10 |-> names[e + 1]]

classify_e2node(e) ==
    IF e \in DOMAIN NGRAN_NODE_TYPES THEN NGRAN_NODE_TYPES[e] ELSE "Unknown"

types_accepted == {"ngran_gNB_CUUP", "ngran_gNB_DU", "ngran_gNB_CUCP"}

SMs == {"mac", "rlc", "pdcp", "gtp"}

(* Mutant: the DU's storage set up for the MAC and RLC statistics only. *)
MetricListNoDUGtp(t) ==
    CASE t = "ngran_gNB_DU"   -> {"mac", "rlc"}
      [] t = "ngran_gNB_CUUP" -> {"pdcp", "gtp"}
      [] t = "ngran_gNB_CUCP" -> {"gtp"}

(* The metric list of add_node, lines 78, 86 and 90. *)
MetricList(t) ==
    CASE t = "ngran_gNB_DU"   -> {"mac", "rlc", "gtp"}
      [] t = "ngran_gNB_CUUP" -> {"pdcp", "gtp"}
      [] t = "ngran_gNB_CUCP" -> {"gtp"}

(* The report_*_sm calls, in order: lines 80-82, 88 and 92. *)
Registrations(t) ==
    CASE t = "ngran_gNB_DU"   -> <<"mac", "rlc", "gtp">>
      [] t = "ngran_gNB_CUUP" -> <<"pdcp">>
      [] t = "ngran_gNB_CUCP" -> <<"gtp">>

(* The node indices of enumerate(conn), line 66. *)
Nodes == 0..(Len(NodeEnums) - 1)

(* ONOS learns a host on a device it knows, so when it knows the devices  *)
(* dev, GET /hosts reports the hosts located on them (and any host         *)
(* configured without a location), in the order of HostLocs.               *)
Reported(l, dev) == l = << >> \/ l[1] \in dev

(* The loop of line 40 walks that list; its place in it is the position in *)
(* HostLocs of the next reported host: the first one from position i on,   *)
(* or Len(HostLocs) + 1 when none is left.                                 *)
NextReported(i, dev) ==
    LET S == {j \in i..(Len(HostLocs) + 1) :
                 j = Len(HostLocs) + 1 \/ Reported(HostLocs[j], dev)}
    IN  CHOOSE j \in S : \A k \in S : j <= k

VARIABLES
    onosDev,        \* the devices ONOS knows (a device stays known once it connected)
    queueRule,      \* ONOS holds the UDP queue rule of set_udp_flow_queue
    pc,             \* where the main thread is
    spc,            \* where the survey of lines 12-53 is
    swLeft,         \* the switches of devices_from_onos the loop of line 17 has to visit
    devKeys,        \* the keys of the devices dict (line 19)
    hostDev,        \* the devices ONOS knew when it answered GET /hosts (line 37)
    hostPos,        \* the position in HostLocs of the next host the loop of line 40 visits
    node,           \* node_idx of the registration loop
    toReg,          \* subscriptions of that node not yet registered
    node_handlers,  \* the handler keys recorded per node, in insertion order
    live,           \* <<node, kind>> subscriptions the SDK holds
    metrics,        \* storage.metrics: node -> metric -> indications stored
    cbError,        \* a callback raised KeyError on an SDK thread
    rmNode,         \* i of the removal loop
    rmLeft          \* handler keys of node i not yet removed

surveyVars == <<onosDev, queueRule, spc, swLeft, devKeys, hostDev, hostPos>>

vars == <<surveyVars, pc, node, toReg, node_handlers, live, metrics, cbError, rmNode, rmLeft>>

Init ==
    /\ onosDev \in SUBSET SwitchIds
    /\ queueRule = FALSE
    /\ pc = "survey"
    /\ spc = "devices"
    /\ swLeft = {}
    /\ devKeys = {}
    /\ hostDev = {}
    /\ hostPos = Len(HostLocs) + 1
    /\ node = 0
    /\ toReg = << >>
    /\ node_handlers = [n \in Nodes |-> << >>]
    /\ live = {}
    /\ metrics = [n \in {} |-> {}]
    /\ cbError = FALSE
    /\ rmNode = 0
    /\ rmLeft = << >>

-----------------------------------------------------------------------------
(* The main thread. *)

(* The survey, lines 12-53.  Each GET is a curl subprocess whose output  *)
(* json.loads parses (topology.py 66-98): when ONOS does not answer 200,   *)
(* the output is empty or an error body, and json.loads or the key lookup  *)
(* that follows raises; the exception ends the program.                    *)
E2Vars == <<node, toReg, node_handlers, live, metrics, cbError, rmNode, rmLeft>>

(* Line 12, get_devices (topology.py 66-76). *)
GetDevices ==
    /\ pc = "survey" /\ spc = "devices"
    /\ \E answered \in BOOLEAN :
          IF answered THEN swLeft' = onosDev /\ spc' = "switches" /\ UNCHANGED pc
          ELSE pc' = "crashed" /\ UNCHANGED <<swLeft, spc>>
    /\ UNCHANGED <<onosDev, queueRule, devKeys, hostDev, hostPos, E2Vars>>

(* Lines 17-35 for one switch: the switch object is filed in devices       *)
(* (line 19), get_flows (topology.py 78-87) and r_flows['flows'] (line 22) *)
(* raise without an answer, and the positional parse of lines 23-34       *)
(* raises on a flow whose criteria it reads past their end.                *)
VisitSwitch(sw) ==
    /\ pc = "survey" /\ spc = "switches"
    /\ sw \in swLeft
    /\ devKeys' = devKeys \cup {sw}
    /\ \E answered \in BOOLEAN :
          IF answered /\ \A S \in SwitchFlows[sw] : ~ParseRaises(Criteria(S))
          THEN swLeft' = swLeft \ {sw} /\ UNCHANGED pc
          ELSE pc' = "crashed" /\ UNCHANGED swLeft
    /\ UNCHANGED <<onosDev, queueRule, spc, hostDev, hostPos, E2Vars>>

(* Lines 37-40, get_hosts (topology.py 89-98) and ['hosts']. *)
GetHosts ==
    /\ pc = "survey" /\ spc = "switches"
    /\ swLeft = {}
    /\ \E answered \in BOOLEAN :
          IF answered
          THEN /\ hostDev' = onosDev
               /\ hostPos' = NextReported(1, onosDev)
               /\ spc' = "hosts"
               /\ UNCHANGED pc
          ELSE pc' = "crashed" /\ UNCHANGED <<hostDev, hostPos, spc>>
    /\ UNCHANGED <<onosDev, queueRule, swLeft, devKeys, E2Vars>>

(* Lines 40-43 for one host: devices[host_obj.locations[0]['elementId']]   *)
(* raises IndexError for a host without locations and KeyError for one    *)
(* located on a device the devices dict does not hold.                     *)
AttachHost ==
    /\ pc = "survey" /\ spc = "hosts"
    /\ hostPos <= Len(HostLocs)
    /\ LET h == HostLocs[hostPos] IN
       IF h = << >> \/ h[1] \notin devKeys
       THEN pc' = "crashed" /\ UNCHANGED hostPos
       ELSE hostPos' = NextReported(hostPos + 1, hostDev) /\ UNCHANGED pc
    /\ UNCHANGED <<onosDev, queueRule, spc, swLeft, devKeys, hostDev, E2Vars>>

(* Lines 45-53: print_device_info prints; set_udp_flow_queue (topology.py  *)
(* 120-150) posts the queue rule to the fixed QueueDevice and returns the  *)
(* CompletedProcess, which is printed whatever curl got.  ONOS takes the   *)
(* rule when the POST reaches it and knows the device.                     *)
SetUdpFlowQueue ==
    /\ pc = "survey" /\ spc = "hosts"
    /\ hostPos = Len(HostLocs) + 1
    /\ \E reached \in BOOLEAN :
          queueRule' = (queueRule \/ (reached /\ QueueDevice \in onosDev))
    /\ pc' = "connect"
    /\ UNCHANGED <<onosDev, spc, swLeft, devKeys, hostDev, hostPos, E2Vars>>

Survey ==
    \/ GetDevices
    \/ \E sw \in SwitchIds : VisitSwitch(sw)
    \/ GetHosts
    \/ AttachHost
    \/ SetUdpFlowQueue

(* Lines 57-60: xapp_sdk.init, conn_e2_nodes, assert(len(conn) > 0). *)
Connect ==
    /\ pc = "connect"
    /\ pc' = IF NodeEnums = << >> THEN "crashed" ELSE "node"
    /\ UNCHANGED <<surveyVars, node, toReg, node_handlers, live, metrics, cbError, rmNode, rmLeft>>

(* Lines 66-74, with add_node (xapp_functs.py lines 20-22) and the         *)
(* construction of the callbacks: a node of an accepted type gets its      *)
(* storage entry before any of its subscriptions.                          *)
(* Mutant: add_node rebuilding self.metrics with only the new node. *)
AddNodeReplaceAll(n, t) ==
    metrics' = [x \in {n} |-> [m \in MetricList(t) |-> 0]]

AddNode(n, t) ==
    metrics' = [x \in DOMAIN metrics \cup {n} |->
                   IF x = n THEN [m \in MetricList(t) |-> 0] ELSE metrics[x]]

(* Mutant: the node index also advanced when the node is accepted. *)
VisitNodeAdvanceTwice ==
    /\ pc = "node"
    /\ node < Len(NodeEnums)
    /\ LET t == classify_e2node(NodeEnums[node + 1]) IN
       IF t \in types_accepted
       THEN /\ AddNode(node, t)
            /\ toReg' = Registrations(t)
            /\ pc' = "reg"
            /\ node' = node + 1
       ELSE /\ node' = node + 1
            /\ UNCHANGED <<pc, toReg, metrics>>
    /\ UNCHANGED <<surveyVars, node_handlers, live, cbError, rmNode, rmLeft>>

VisitNode ==
    /\ pc = "node"
    /\ node < Len(NodeEnums)
    /\ LET t == classify_e2node(NodeEnums[node + 1]) IN
       IF t \in types_accepted
       THEN /\ AddNode(node, t)
            /\ toReg' = Registrations(t)
            /\ pc' = "reg"
            /\ UNCHANGED node
       ELSE /\ node' = node + 1
            /\ UNCHANGED <<pc, toReg, metrics>>
    /\ UNCHANGED <<surveyVars, node_handlers, live, cbError, rmNode, rmLeft>>

(* Lines 80-82, 88, 92: one xapp_sdk.report_*_sm call; the handle is       *)
(* recorded in node_handlers and the callback is live from then on.        *)
Register ==
    /\ pc = "reg"
    /\ toReg # << >>
    /\ live' = live \cup {<<node, Head(toReg)>>}
    /\ node_handlers' = [node_handlers EXCEPT ![node] = Append(@, Head(toReg))]
    /\ toReg' = Tail(toReg)
    /\ IF Tail(toReg) = << >>
       THEN pc' = "node" /\ node' = node + 1
       ELSE UNCHANGED <<pc, node>>
    /\ UNCHANGED <<surveyVars, metrics, cbError, rmNode, rmLeft>>

(* Line 95: every node visited. *)
AllRegistered ==
    /\ pc = "node"
    /\ node = Len(NodeEnums)
    /\ pc' = "sleep"
    /\ UNCHANGED <<surveyVars, node, toReg, node_handlers, live, metrics, cbError, rmNode, rmLeft>>

(* Line 96: the end of time.sleep(10); the removal loop starts at node 0. *)
Wake ==
    /\ pc = "sleep"
    /\ pc' = "rm"
    /\ rmNode' = 0
    /\ rmLeft' = node_handlers[0]
    /\ UNCHANGED <<surveyVars, node, toReg, node_handlers, live, metrics, cbError>>

(* Lines 99-105: rm_report_*_sm for each recorded handler, node by node,   *)
(* in the dict's insertion order; then xapp_sdk.try_stop (line 107).       *)
(* Mutant: range(0, len(conn) - 1), the last node is left out. *)
RemoveStopEarly ==
    /\ pc = "rm"
    /\ \/ /\ rmLeft # << >>
          /\ live' = live \ {<<rmNode, Head(rmLeft)>>}
          /\ rmLeft' = Tail(rmLeft)
          /\ UNCHANGED <<pc, rmNode>>
       \/ /\ rmLeft = << >>
          /\ rmNode + 1 < Len(NodeEnums) - 1
          /\ rmNode' = rmNode + 1
          /\ rmLeft' = node_handlers[rmNode + 1]
          /\ UNCHANGED <<pc, live>>
       \/ /\ rmLeft = << >>
          /\ rmNode + 1 >= Len(NodeEnums) - 1
          /\ pc' = "stopped"
          /\ UNCHANGED <<live, rmNode, rmLeft>>
    /\ UNCHANGED <<surveyVars, node, toReg, node_handlers, metrics, cbError>>

Remove ==
    /\ pc = "rm"
    /\ \/ /\ rmLeft # << >>
          /\ live' = live \ {<<rmNode, Head(rmLeft)>>}
          /\ rmLeft' = Tail(rmLeft)
          /\ UNCHANGED <<pc, rmNode>>
       \/ /\ rmLeft = << >>
          /\ rmNode + 1 < Len(NodeEnums)
          /\ rmNode' = rmNode + 1
          /\ rmLeft' = node_handlers[rmNode + 1]
          /\ UNCHANGED <<pc, live>>
       \/ /\ rmLeft = << >>
          /\ rmNode + 1 = Len(NodeEnums)
          /\ pc' = "stopped"
          /\ UNCHANGED <<live, rmNode, rmLeft>>
    /\ UNCHANGED <<surveyVars, node, toReg, node_handlers, metrics, cbError>>

-----------------------------------------------------------------------------
(* ONOS: a switch connects while the survey runs, and the hosts behind it  *)
(* are learned.  Nothing after the survey reads ONOS's devices.           *)
SwitchConnects(sw) ==
    /\ pc = "survey"
    /\ sw \notin onosDev
    /\ onosDev' = onosDev \cup {sw}
    /\ UNCHANGED <<queueRule, pc, spc, swLeft, devKeys, hostDev, hostPos, E2Vars>>

-----------------------------------------------------------------------------
(* The SDK threads. *)

(* xapp_functs.py lines 48-60, 78-91, 108-122, 138-145: the handle method *)
(* of the callback of kind m for node n receives an indication with        *)
(* statistics and appends them to storage.metrics[n][m]; a missing key     *)
(* raises KeyError on the SDK thread.  An indication without statistics    *)
(* changes nothing and is left out.                                        *)
Deliver(n, m) ==
    /\ pc \notin {"crashed", "stopped"}
    /\ <<n, m>> \in live
    /\ IF n \in DOMAIN metrics /\ m \in DOMAIN metrics[n]
       THEN /\ metrics[n][m] < MaxInd
            /\ metrics' = [metrics EXCEPT ![n][m] = @ + 1]
            /\ UNCHANGED cbError
       ELSE /\ cbError' = TRUE
            /\ UNCHANGED metrics
    /\ UNCHANGED <<surveyVars, pc, node, toReg, node_handlers, live, rmNode, rmLeft>>

-----------------------------------------------------------------------------
Next ==
    \/ Survey
    \/ Connect
    \/ VisitNode
    \/ Register
    \/ AllRegistered
    \/ Wake
    \/ Remove
    \/ \E n \in Nodes, m \in SMs : Deliver(n, m)
    \/ \E sw \in SwitchIds : SwitchConnects(sw)

Spec == Init /\ [][Next]_vars

-----------------------------------------------------------------------------
(* The registry the xApp implements (SubscriptionRegistry): its lists are  *)
(* the <<node, metric>> pairs storage.metrics holds, its subscriptions the *)
(* live ones, and it is stopped once try_stop is called.                   *)
Stored ==
    {p \in Nodes \X SMs : p[1] \in DOMAIN metrics /\ p[2] \in DOMAIN metrics[p[1]]}

Phase == IF pc = "stopped" THEN "stopped" ELSE "running"

Registry == INSTANCE SubscriptionRegistry
                WITH Metrics <- SMs, subs <- live, lists <- Stored, phase <- Phase

-----------------------------------------------------------------------------
(* Properties. *)

TypeOK ==
    /\ onosDev \subseteq SwitchIds
    /\ queueRule \in BOOLEAN
    /\ spc \in {"devices", "switches", "hosts"}
    /\ swLeft \subseteq SwitchIds
    /\ devKeys \subseteq SwitchIds
    /\ hostDev \subseteq SwitchIds
    /\ hostPos \in 1..(Len(HostLocs) + 1)
    /\ pc \in {"survey", "connect", "node", "reg", "sleep", "rm", "stopped", "crashed"}
    /\ node \in 0..Len(NodeEnums)
    /\ toReg \in Seq(SMs)
    /\ node_handlers \in [Nodes -> Seq(SMs)]
    /\ live \subseteq Nodes \X SMs
    /\ DOMAIN metrics \subseteq Nodes
    /\ \A n \in DOMAIN metrics : metrics[n] \in [DOMAIN metrics[n] -> 0..MaxInd]
    /\ cbError \in BOOLEAN
    /\ rmNode \in 0..Len(NodeEnums)
    /\ rmLeft \in Seq(SMs)

(* No statistics callback ever raises KeyError: whenever the SDK calls     *)
(* handle for a subscription, storage.metrics already holds the node and   *)
(* the metric it appends to, whatever the interleaving of the SDK threads  *)
(* with the registration loop (xapp_test.py 78-92, xapp_functs.py 60 ...). *)
NoCallbackError == ~cbError

(* When the program stops the SDK (line 107), no subscription it made is   *)
(* still held: the removal loop of lines 99-105 reaches every handler.     *)
HandlersReleased == pc = "stopped" => live = {}

(* xapp_test.py with xapp_functs.py implements the registry: add_node     *)
(* never replaces the lists of a node that already has a subscription,     *)
(* every report_*_sm call subscribes to a list add_node made, and          *)
(* try_stop comes only after the removal loop emptied the SDK's handlers.  *)
ImplementsRegistry == Registry!Spec

(* While the program sleeps to collect statistics (line 96), every metric *)
(* the storage was set up with (add_node, lines 78, 86, 90) has a live    *)
(* subscription feeding it, as the message of line 85 announces for the   *)
(* CU-UP's GTP and PDCP statistics.                                        *)
MetricsFed ==
    pc = "sleep" =>
        \A n \in DOMAIN metrics : \A m \in DOMAIN metrics[n] : <<n, m>> \in live
=============================================================================
