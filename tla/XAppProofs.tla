------------------------------ MODULE XAppProofs ------------------------------
(***************************************************************************)
(* Proof that xapp_test.py releases every SDK subscription it makes        *)
(* before try_stop (line 107), for every list of E2 nodes.                 *)
(***************************************************************************)
EXTENDS XApp, SequenceTheorems, WellFoundedInduction, TLAPS

(* The elements of a sequence of handler keys. *)
Keys(s) == {x \in SMs : \E j \in 1..Len(s) : s[j] = x}

(* The subscriptions of node k among the keys of s. *)
Row(k, s) == {p \in Nodes \X SMs : p[1] = k /\ p[2] \in Keys(s)}

(* The subscriptions recorded in node_handlers for the nodes from k on. *)
RecordedFrom(k) ==
    {p \in Nodes \X SMs : p[1] >= k /\ p[2] \in Keys(node_handlers[p[1]])}

(* The subscriptions the removal loop has still to reach. *)
StillToRemove == Row(rmNode, rmLeft) \cup RecordedFrom(rmNode + 1)

(* The inductive invariant: every live subscription was recorded in       *)
(* node_handlers when it was made (lines 80-92), and during the removal    *)
(* loop it is one the loop has not passed yet.                             *)
ReleaseInv ==
    /\ pc \in {"survey", "connect", "node", "reg", "sleep", "rm", "stopped", "crashed"}
    /\ node \in Nat
    /\ node_handlers \in [Nodes -> Seq(SMs)]
    /\ rmNode \in Nat
    /\ rmLeft \in Seq(SMs)
    /\ toReg \in Seq(SMs)
    /\ pc = "reg" => node \in Nodes
    /\ pc \in {"node", "reg", "sleep", "rm", "stopped"} => NodeEnums # << >>
    /\ pc \notin {"rm", "stopped"} => live \subseteq RecordedFrom(0)
    /\ pc = "rm" => rmNode \in Nodes /\ live \subseteq StillToRemove
    /\ pc = "stopped" => live = {}

(* The inductive invariant of NoCallbackError: each subscription is made   *)
(* for a node and a kind add_node has already given a list (lines 78-92), *)
(* and a node is added before any of its subscriptions, so adding it       *)
(* (which replaces its entry) never strands one.                           *)
CallbackInv ==
    /\ pc \in {"survey", "connect", "node", "reg", "sleep", "rm", "stopped", "crashed"}
    /\ node \in Nat
    /\ toReg \in Seq(SMs)
    /\ ~cbError
    /\ live \subseteq Stored
    /\ pc \in {"survey", "connect", "node"} => \A p \in live : p[1] < node
    /\ pc = "reg" => /\ node \in Nodes
                     /\ \A p \in live : p[1] <= node
                     /\ node \in DOMAIN metrics
                     /\ Keys(toReg) \subseteq DOMAIN metrics[node]

(* conn is a list of node type enums (line 58). *)
LEMMA NodeEnumsSeq == NodeEnums \in Seq(Nat) /\ Len(NodeEnums) \in Nat
BY XAppAssumption

(* The survey's steps and ONOS's run before any E2 node is touched. *)
LEMMA SurveyFrame ==
    ASSUME Survey \/ \E sw \in SwitchIds : SwitchConnects(sw)
    PROVE  /\ pc = "survey"
           /\ pc' \in {"survey", "connect", "crashed"}
           /\ UNCHANGED E2Vars
BY DEF Survey, GetDevices, VisitSwitch, GetHosts, AttachHost, SetUdpFlowQueue,
       SwitchConnects, E2Vars

LEMMA InitRelease == Init => ReleaseInv
BY DEF Init, ReleaseInv, Nodes

(* Splitting off the first node of RecordedFrom(k). *)
LEMMA RecordedSplit ==
    ASSUME NEW k \in Nodes
    PROVE  RecordedFrom(k) = Row(k, node_handlers[k]) \cup RecordedFrom(k + 1)
BY NodeEnumsSeq DEF RecordedFrom, Row, Nodes

(* Past the last node nothing is recorded. *)
LEMMA RecordedPastEnd == RecordedFrom(Len(NodeEnums)) = {}
BY NodeEnumsSeq DEF RecordedFrom, Nodes

(* A step that leaves the handler records and the removal loop alone      *)
(* leaves the sets the invariant speaks of alone.                          *)
LEMMA HandlersFrame ==
    ASSUME UNCHANGED <<node_handlers, rmNode, rmLeft>>
    PROVE  /\ RecordedFrom(0)' = RecordedFrom(0)
           /\ StillToRemove' = StillToRemove
BY DEF RecordedFrom, StillToRemove, Row, Keys

(* The empty sequence has no keys. *)
LEMMA KeysEmpty == Keys(<< >>) = {}
BY DEF Keys

(* The keys of an appended sequence. *)
LEMMA KeysAppend ==
    ASSUME NEW s \in Seq(SMs), NEW h \in SMs
    PROVE  Keys(Append(s, h)) = Keys(s) \cup {h}
<1>1. /\ Len(Append(s, h)) = Len(s) + 1
      /\ \A j \in 1..Len(s) : Append(s, h)[j] = s[j]
      /\ Append(s, h)[Len(s) + 1] = h
    BY AppendProperties
<1>2. QED
    BY <1>1 DEF Keys

(* The keys of a non-empty sequence are its head and the keys of its tail. *)
LEMMA KeysTail ==
    ASSUME NEW s \in Seq(SMs), s # << >>
    PROVE  Keys(s) = {Head(s)} \cup Keys(Tail(s))
<1>1. /\ Len(s) >= 1
      /\ Len(Tail(s)) = Len(s) - 1
      /\ Head(s) = s[1]
      /\ Head(s) \in SMs
      /\ \A j \in 1..Len(Tail(s)) : Tail(s)[j] = s[j + 1]
    BY HeadTailProperties, EmptySeq
<1>2. QED
    BY <1>1 DEF Keys

(* What a node of an accepted type registers is a list of statistics kinds. *)
LEMMA RegistrationsType ==
    ASSUME NEW t \in types_accepted
    PROVE  Registrations(t) \in Seq(SMs)
<1>1. CASE t = "ngran_gNB_DU"
    <2>1. Registrations(t) = <<"mac", "rlc", "gtp">>
        BY <1>1 DEF Registrations
    <2>2. QED
        BY <2>1 DEF SMs
<1>2. CASE t = "ngran_gNB_CUUP"
    <2>1. Registrations(t) = <<"pdcp">>
        BY <1>2 DEF Registrations
    <2>2. QED
        BY <2>1 DEF SMs
<1>3. CASE t = "ngran_gNB_CUCP"
    <2>1. Registrations(t) = <<"gtp">>
        BY <1>3 DEF Registrations
    <2>2. QED
        BY <2>1 DEF SMs
<1>4. QED
    BY <1>1, <1>2, <1>3 DEF types_accepted

LEMMA ReleaseStep == ReleaseInv /\ [Next]_vars => ReleaseInv'
<1> SUFFICES ASSUME ReleaseInv, [Next]_vars PROVE ReleaseInv'
    OBVIOUS
<1>1. CASE Survey \/ \E sw \in SwitchIds : SwitchConnects(sw)
    <2>0. /\ pc = "survey"
          /\ pc' \in {"survey", "connect", "crashed"}
          /\ UNCHANGED E2Vars
        BY <1>1, SurveyFrame
    <2>1. /\ pc = "survey"
          /\ pc' \in {"survey", "connect", "crashed"}
          /\ UNCHANGED <<node, toReg, node_handlers, live, rmNode, rmLeft>>
        BY <2>0 DEF E2Vars
    <2>2. RecordedFrom(0)' = RecordedFrom(0) /\ StillToRemove' = StillToRemove
        BY <2>1, HandlersFrame
    <2>3. QED
        BY <2>1, <2>2 DEF ReleaseInv
<1>2. CASE Connect
    <2>1. /\ pc = "connect"
          /\ pc' = "node" => NodeEnums # << >>
          /\ pc' \in {"node", "crashed"}
          /\ UNCHANGED <<node, toReg, node_handlers, live, rmNode, rmLeft>>
        BY <1>2 DEF Connect
    <2>2. RecordedFrom(0)' = RecordedFrom(0) /\ StillToRemove' = StillToRemove
        BY <2>1, HandlersFrame
    <2>3. QED
        BY <2>1, <2>2 DEF ReleaseInv
<1>3. CASE VisitNode
    <2>1. /\ pc = "node"
          /\ node \in Nat
          /\ node < Len(NodeEnums)
          /\ UNCHANGED <<node_handlers, live, rmNode, rmLeft>>
        BY <1>3 DEF VisitNode, ReleaseInv
    <2>2. \/ pc' = "reg" /\ node' = node
          \/ pc' = "node" /\ node' = node + 1
        BY <1>3 DEF VisitNode
    <2>3. toReg' \in Seq(SMs)
        <3> DEFINE t == classify_e2node(NodeEnums[node + 1])
        <3>1. CASE t \in types_accepted
            <4>1. toReg' = Registrations(t)
                BY <1>3, <3>1 DEF VisitNode
            <4>2. QED
                BY <3>1, <4>1, RegistrationsType
        <3>2. CASE t \notin types_accepted
            BY <1>3, <3>2 DEF VisitNode, ReleaseInv
        <3>3. QED
            BY <3>1, <3>2
    <2>4. node \in Nodes /\ NodeEnums # << >>
        BY <2>1, NodeEnumsSeq DEF Nodes
    <2>5. RecordedFrom(0)' = RecordedFrom(0) /\ StillToRemove' = StillToRemove
        BY <2>1, HandlersFrame
    <2>6. QED
        BY <2>1, <2>2, <2>3, <2>4, <2>5 DEF ReleaseInv
<1>4. CASE Register
    <2> DEFINE h == Head(toReg)
    <2>1. /\ pc = "reg"
          /\ node \in Nodes
          /\ toReg # << >>
          /\ toReg \in Seq(SMs)
          /\ node_handlers \in [Nodes -> Seq(SMs)]
          /\ live \subseteq RecordedFrom(0)
          /\ NodeEnums # << >>
        BY <1>4 DEF Register, ReleaseInv
    <2>2. h \in SMs
        BY <2>1, HeadTailProperties
    <2>3. /\ pc' \in {"node", "reg"}
          /\ node' \in Nat
          /\ pc' = "reg" => node' \in Nodes
          /\ UNCHANGED <<rmNode, rmLeft>>
        <3>1. UNCHANGED <<rmNode, rmLeft>>
            BY <1>4 DEF Register
        <3>2. CASE Tail(toReg) = << >>
            <4>1. pc' = "node" /\ node' = node + 1
                BY <1>4, <3>2 DEF Register
            <4>2. QED
                BY <2>1, <3>1, <4>1, NodeEnumsSeq DEF Nodes
        <3>3. CASE Tail(toReg) # << >>
            <4>1. pc' = pc /\ node' = node
                BY <1>4, <3>3 DEF Register
            <4>2. QED
                BY <2>1, <3>1, <4>1 DEF Nodes
        <3>4. QED
            BY <3>2, <3>3
    <2>4. node_handlers' = [node_handlers EXCEPT ![node] = Append(@, h)]
        BY <1>4 DEF Register
    <2>5. node_handlers' \in [Nodes -> Seq(SMs)]
        BY <2>1, <2>2, <2>4
    <2>6. live' \subseteq RecordedFrom(0)'
        <3>1. Keys(node_handlers'[node]) = Keys(node_handlers[node]) \cup {h}
            BY <2>1, <2>2, <2>4, KeysAppend
        <3>2. \A n \in Nodes : n # node => node_handlers'[n] = node_handlers[n]
            BY <2>1, <2>4
        <3>3. live' = live \cup {<<node, h>>}
            BY <1>4 DEF Register
        <3>4. <<node, h>> \in RecordedFrom(0)'
            BY <2>1, <2>2, <3>1, NodeEnumsSeq DEF RecordedFrom, Nodes
        <3>5. live \subseteq RecordedFrom(0)'
            BY <2>1, <3>1, <3>2 DEF RecordedFrom
        <3>6. QED
            BY <3>3, <3>4, <3>5
    <2>7. toReg' \in Seq(SMs)
        BY <1>4, <2>1, HeadTailProperties DEF Register
    <2>8. QED
        BY <2>1, <2>3, <2>5, <2>6, <2>7 DEF ReleaseInv
<1>5. CASE AllRegistered
    <2>1. /\ pc = "node"
          /\ pc' = "sleep"
          /\ node' \in Nat
          /\ UNCHANGED <<toReg, node_handlers, live, rmNode, rmLeft>>
        BY <1>5, NodeEnumsSeq DEF AllRegistered
    <2>2. RecordedFrom(0)' = RecordedFrom(0) /\ StillToRemove' = StillToRemove
        BY <2>1, HandlersFrame
    <2>3. QED
        BY <2>1, <2>2 DEF ReleaseInv
<1>6. CASE Wake
    <2>1. /\ NodeEnums # << >>
          /\ live \subseteq RecordedFrom(0)
          /\ node_handlers \in [Nodes -> Seq(SMs)]
        BY <1>6 DEF Wake, ReleaseInv
    <2>2. 0 \in Nodes
        BY <2>1, NodeEnumsSeq, EmptySeq DEF Nodes
    <2>3. RecordedFrom(0) = Row(0, node_handlers[0]) \cup RecordedFrom(1)
        BY <2>2, RecordedSplit
    <2>4. /\ pc' = "rm"
          /\ rmNode' = 0
          /\ rmLeft' = node_handlers[0]
          /\ UNCHANGED <<node, node_handlers, live>>
        BY <1>6 DEF Wake
    <2>5. live' \subseteq StillToRemove'
        BY <2>1, <2>3, <2>4 DEF StillToRemove, Row, RecordedFrom, Keys
    <2>6. QED
        BY <1>6, <2>1, <2>2, <2>4, <2>5 DEF Wake, ReleaseInv
<1>7. CASE Remove
    <2>1. /\ pc = "rm"
          /\ rmNode \in Nodes
          /\ live \subseteq StillToRemove
          /\ node_handlers \in [Nodes -> Seq(SMs)]
          /\ rmLeft \in Seq(SMs)
          /\ NodeEnums # << >>
          /\ UNCHANGED node_handlers
        BY <1>7 DEF Remove, ReleaseInv
    <2>2. CASE rmLeft # << >>
        <3>1. Keys(rmLeft) = {Head(rmLeft)} \cup Keys(Tail(rmLeft))
            BY <2>1, <2>2, KeysTail
        <3>2. /\ live' = live \ {<<rmNode, Head(rmLeft)>>}
              /\ rmLeft' = Tail(rmLeft)
              /\ UNCHANGED <<pc, rmNode>>
            BY <1>7, <2>2 DEF Remove
        <3>3. StillToRemove' = Row(rmNode, Tail(rmLeft)) \cup RecordedFrom(rmNode + 1)
            BY <2>1, <3>2 DEF StillToRemove, RecordedFrom, Row
        <3>4. Row(rmNode, rmLeft) \subseteq Row(rmNode, Tail(rmLeft)) \cup {<<rmNode, Head(rmLeft)>>}
            BY <3>1 DEF Row
        <3>5. live' \subseteq StillToRemove'
            BY <2>1, <3>2, <3>3, <3>4 DEF StillToRemove
        <3>6. QED
            BY <1>7, <2>1, <2>2, <3>2, <3>5, HeadTailProperties DEF Remove, ReleaseInv
    <2>3. CASE rmLeft = << >> /\ rmNode + 1 < Len(NodeEnums)
        <3>1. rmNode + 1 \in Nodes
            BY <2>1, <2>3 DEF Nodes
        <3>2. RecordedFrom(rmNode + 1) =
                 Row(rmNode + 1, node_handlers[rmNode + 1]) \cup RecordedFrom(rmNode + 1 + 1)
            BY <2>1, <3>1, RecordedSplit
        <3>3. /\ rmNode' = rmNode + 1
              /\ rmLeft' = node_handlers[rmNode + 1]
              /\ UNCHANGED <<pc, live>>
            BY <1>7, <2>3 DEF Remove
        <3>4. StillToRemove = RecordedFrom(rmNode + 1)
            BY <2>3, KeysEmpty DEF StillToRemove, Row
        <3>5. StillToRemove' = Row(rmNode + 1, node_handlers[rmNode + 1]) \cup RecordedFrom(rmNode + 1 + 1)
            BY <2>1, <3>3 DEF StillToRemove, RecordedFrom, Row
        <3>6. live' \subseteq StillToRemove'
            BY <2>1, <3>2, <3>3, <3>4, <3>5
        <3>7. QED
            BY <1>7, <2>1, <3>1, <3>3, <3>6 DEF Remove, ReleaseInv
    <2>4. CASE rmLeft = << >> /\ rmNode + 1 = Len(NodeEnums)
        <3>1. live = {}
            BY <2>1, <2>4, RecordedPastEnd, KeysEmpty DEF StillToRemove, Row
        <3>2. /\ pc' = "stopped"
              /\ UNCHANGED <<live, rmNode, rmLeft>>
            BY <1>7, <2>4 DEF Remove
        <3>3. QED
            BY <1>7, <2>1, <3>1, <3>2 DEF Remove, ReleaseInv
    <2>5. QED
        BY <1>7, <2>2, <2>3, <2>4 DEF Remove
<1>8. CASE \E n \in Nodes, m \in SMs : Deliver(n, m)
    BY <1>8 DEF Deliver, ReleaseInv, RecordedFrom, StillToRemove, Keys
<1>9. CASE UNCHANGED vars
    BY <1>9 DEF vars, ReleaseInv, RecordedFrom, StillToRemove, Keys
<1>10. QED
    BY <1>1, <1>2, <1>3, <1>4, <1>5, <1>6, <1>7, <1>8, <1>9 DEF Next

(* When xapp_test.py reaches try_stop (line 107), the removal loop of      *)
(* lines 99-105 has removed every subscription registered at lines 80-92. *)
THEOREM Released == Spec => []HandlersReleased
<1>1. Init => ReleaseInv
    BY InitRelease
<1>2. ReleaseInv /\ [Next]_vars => ReleaseInv'
    BY ReleaseStep
<1>3. ReleaseInv => HandlersReleased
    BY DEF ReleaseInv, HandlersReleased
<1>4. QED
    BY <1>1, <1>2, <1>3, PTL DEF Spec
-----------------------------------------------------------------------------
(* No callback raises KeyError. *)

(* What a node registers has lists in what add_node gave it. *)
LEMMA RegistrationsStored ==
    ASSUME NEW t \in types_accepted
    PROVE  Keys(Registrations(t)) \subseteq MetricList(t)
<1>1. CASE t = "ngran_gNB_DU"
    <2>1. Registrations(t) = <<"mac", "rlc", "gtp">> /\ MetricList(t) = {"mac", "rlc", "gtp"}
        BY <1>1 DEF Registrations, MetricList
    <2>2. QED
        BY <2>1 DEF Keys, SMs
<1>2. CASE t = "ngran_gNB_CUUP"
    <2>1. Registrations(t) = <<"pdcp">> /\ MetricList(t) = {"pdcp", "gtp"}
        BY <1>2 DEF Registrations, MetricList
    <2>2. QED
        BY <2>1 DEF Keys, SMs
<1>3. CASE t = "ngran_gNB_CUCP"
    <2>1. Registrations(t) = <<"gtp">> /\ MetricList(t) = {"gtp"}
        BY <1>3 DEF Registrations, MetricList
    <2>2. QED
        BY <2>1 DEF Keys, SMs
<1>4. QED
    BY <1>1, <1>2, <1>3 DEF types_accepted

LEMMA InitCallback == Init => CallbackInv
BY DEF Init, CallbackInv, Stored

(* A step that leaves the storage alone leaves Stored alone. *)
LEMMA StoredFrame ==
    ASSUME UNCHANGED metrics
    PROVE  Stored' = Stored
BY DEF Stored

LEMMA CallbackStep == CallbackInv /\ [Next]_vars => CallbackInv'
<1> SUFFICES ASSUME CallbackInv, [Next]_vars PROVE CallbackInv'
    OBVIOUS
<1>1. CASE Survey \/ \E sw \in SwitchIds : SwitchConnects(sw)
    <2>0. /\ pc = "survey"
          /\ pc' \in {"survey", "connect", "crashed"}
          /\ UNCHANGED E2Vars
        BY <1>1, SurveyFrame
    <2>1. /\ pc = "survey"
          /\ pc' \in {"survey", "connect", "crashed"}
          /\ UNCHANGED <<node, toReg, live, metrics, cbError>>
        BY <2>0 DEF E2Vars
    <2>2. QED
        BY <2>1, StoredFrame DEF CallbackInv
<1>2. CASE Connect
    <2>1. /\ pc = "connect"
          /\ pc' \in {"node", "crashed"}
          /\ UNCHANGED <<node, toReg, live, metrics, cbError>>
        BY <1>2 DEF Connect
    <2>2. QED
        BY <2>1, StoredFrame DEF CallbackInv
<1>3. CASE VisitNode
    <2> DEFINE t == classify_e2node(NodeEnums[node + 1])
    <2>1. /\ pc = "node"
          /\ node \in Nat
          /\ node < Len(NodeEnums)
          /\ \A p \in live : p[1] < node
          /\ live \subseteq Stored
          /\ UNCHANGED <<live, cbError>>
        BY <1>3 DEF VisitNode, CallbackInv
    <2>2. node \in Nodes
        BY <2>1, NodeEnumsSeq DEF Nodes
    <2>3. CASE t \in types_accepted
        <3>1. /\ metrics' = [x \in DOMAIN metrics \cup {node} |->
                                IF x = node THEN [m \in MetricList(t) |-> 0] ELSE metrics[x]]
              /\ toReg' = Registrations(t)
              /\ pc' = "reg"
              /\ node' = node
            BY <1>3, <2>3 DEF VisitNode, AddNode
        <3>2. /\ node \in DOMAIN metrics'
              /\ DOMAIN metrics'[node] = MetricList(t)
            BY <3>1
        <3>3. Keys(toReg') \subseteq DOMAIN metrics'[node]
            BY <2>3, <3>1, <3>2, RegistrationsStored
        <3>4. toReg' \in Seq(SMs)
            BY <2>3, <3>1, RegistrationsType
        <3>5. live' \subseteq Stored'
            <4>1. \A p \in live : p[1] # node
                BY <2>1
            <4>2. \A x \in DOMAIN metrics : x # node => x \in DOMAIN metrics' /\ metrics'[x] = metrics[x]
                BY <3>1
            <4>3. QED
                BY <2>1, <4>1, <4>2 DEF Stored
        <3>6. \A p \in live' : p[1] <= node'
            BY <2>1, <3>1, NodeEnumsSeq DEF Stored, Nodes
        <3>7. QED
            BY <2>1, <2>2, <3>1, <3>2, <3>3, <3>4, <3>5, <3>6 DEF CallbackInv
    <2>4. CASE t \notin types_accepted
        <3>1. /\ node' = node + 1
              /\ UNCHANGED <<pc, toReg, metrics>>
            BY <1>3, <2>4 DEF VisitNode
        <3>2. Stored' = Stored
            BY <3>1, StoredFrame
        <3>3. \A p \in live : p[1] < node + 1
            BY <2>1, NodeEnumsSeq DEF Stored, Nodes
        <3>4. QED
            BY <2>1, <3>1, <3>2, <3>3 DEF CallbackInv
    <2>5. QED
        BY <2>3, <2>4
<1>4. CASE Register
    <2> DEFINE h == Head(toReg)
    <2>1. /\ pc = "reg"
          /\ node \in Nodes
          /\ node \in Nat
          /\ toReg # << >>
          /\ toReg \in Seq(SMs)
          /\ live \subseteq Stored
          /\ \A p \in live : p[1] <= node
          /\ node \in DOMAIN metrics
          /\ Keys(toReg) \subseteq DOMAIN metrics[node]
          /\ ~cbError
        BY <1>4 DEF Register, CallbackInv
    <2>2. /\ live' = live \cup {<<node, h>>}
          /\ toReg' = Tail(toReg)
          /\ UNCHANGED <<metrics, cbError>>
          /\ IF Tail(toReg) = << >>
             THEN pc' = "node" /\ node' = node + 1
             ELSE UNCHANGED <<pc, node>>
        BY <1>4 DEF Register
    <2>3. /\ Keys(toReg) = {h} \cup Keys(Tail(toReg))
          /\ h \in SMs
          /\ Tail(toReg) \in Seq(SMs)
        BY <2>1, KeysTail, HeadTailProperties
    <2>4. <<node, h>> \in Stored
        BY <2>1, <2>3 DEF Stored
    <2>5. Stored' = Stored
        BY <2>2, StoredFrame
    <2>6. live' \subseteq Stored'
        BY <2>1, <2>2, <2>4, <2>5
    <2>7. CASE Tail(toReg) = << >>
        <3>1. \A p \in live' : p[1] < node + 1
            BY <2>1, <2>2, NodeEnumsSeq DEF Stored, Nodes
        <3>2. QED
            BY <2>1, <2>2, <2>3, <2>6, <2>7, <3>1 DEF CallbackInv
    <2>8. CASE Tail(toReg) # << >>
        BY <2>1, <2>2, <2>3, <2>6, <2>8, KeysTail DEF CallbackInv
    <2>9. QED
        BY <2>7, <2>8
<1>5. CASE AllRegistered
    <2>1. /\ pc = "node"
          /\ pc' = "sleep"
          /\ UNCHANGED <<node, toReg, live, metrics, cbError>>
        BY <1>5 DEF AllRegistered
    <2>2. QED
        BY <2>1, StoredFrame DEF CallbackInv
<1>6. CASE Wake
    <2>1. /\ pc = "sleep"
          /\ pc' = "rm"
          /\ UNCHANGED <<node, toReg, live, metrics, cbError>>
        BY <1>6 DEF Wake
    <2>2. QED
        BY <2>1, StoredFrame DEF CallbackInv
<1>7. CASE Remove
    <2>1. /\ pc = "rm"
          /\ pc' \in {"rm", "stopped"}
          /\ live' \subseteq live
          /\ UNCHANGED <<node, toReg, metrics, cbError>>
        BY <1>7 DEF Remove
    <2>2. QED
        BY <2>1, StoredFrame DEF CallbackInv
<1>8. CASE \E n \in Nodes, m \in SMs : Deliver(n, m)
    <2>1. PICK n \in Nodes, m \in SMs : Deliver(n, m)
        BY <1>8
    <2>2. /\ <<n, m>> \in live
          /\ UNCHANGED <<pc, node, toReg, live>>
        BY <2>1 DEF Deliver
    <2>3. n \in DOMAIN metrics /\ m \in DOMAIN metrics[n]
        BY <2>2 DEF CallbackInv, Stored
    <2>4. /\ metrics' = [metrics EXCEPT ![n][m] = @ + 1]
          /\ UNCHANGED cbError
        BY <2>1, <2>3 DEF Deliver
    <2>5. /\ DOMAIN metrics' = DOMAIN metrics
          /\ \A x \in DOMAIN metrics : DOMAIN metrics'[x] = DOMAIN metrics[x]
        BY <2>3, <2>4
    <2>6. Stored' = Stored
        BY <2>5 DEF Stored
    <2>7. QED
        BY <2>2, <2>4, <2>6 DEF CallbackInv
<1>9. CASE UNCHANGED vars
    BY <1>9, StoredFrame DEF vars, CallbackInv
<1>10. QED
    BY <1>1, <1>2, <1>3, <1>4, <1>5, <1>6, <1>7, <1>8, <1>9 DEF Next

(* Whatever the SDK threads deliver while xapp_test.py registers its       *)
(* subscriptions, no statistics callback of xapp_functs.py finds its node  *)
(* or its metric missing from the storage.                                 *)
THEOREM NoKeyError == Spec => []NoCallbackError
<1>1. Init => CallbackInv
    BY InitCallback
<1>2. CallbackInv /\ [Next]_vars => CallbackInv'
    BY CallbackStep
<1>3. CallbackInv => NoCallbackError
    BY DEF CallbackInv, NoCallbackError
<1>4. QED
    BY <1>1, <1>2, <1>3, PTL DEF Spec
-----------------------------------------------------------------------------
(* The xApp implements SubscriptionRegistry. *)

(* The storage lists add_node makes are lists of statistics kinds. *)
LEMMA MetricListType ==
    ASSUME NEW t \in types_accepted
    PROVE  MetricList(t) \subseteq SMs
BY DEF types_accepted, MetricList, SMs

(* add_node for node n with the metrics of type t opens n's lists anew. *)
LEMMA AddNodeStored ==
    ASSUME NEW n \in Nodes, NEW t \in types_accepted, AddNode(n, t)
    PROVE  Stored' = {p \in Stored : p[1] # n} \cup ({n} \X MetricList(t))
<1>1. /\ DOMAIN metrics' = DOMAIN metrics \cup {n}
      /\ metrics'[n] = [m \in MetricList(t) |-> 0]
      /\ \A x \in DOMAIN metrics : x # n => metrics'[x] = metrics[x]
    BY DEF AddNode
<1>2. MetricList(t) \subseteq SMs
    BY MetricListType
<1>3. QED
    BY <1>1, <1>2 DEF Stored

(* A step of the storage's values that keeps its keys keeps Stored. *)
LEMMA DeliverStored ==
    ASSUME NEW n \in DOMAIN metrics, NEW m \in DOMAIN metrics[n],
           metrics' = [metrics EXCEPT ![n][m] = @ + 1]
    PROVE  Stored' = Stored
<1>1. /\ DOMAIN metrics' = DOMAIN metrics
      /\ \A x \in DOMAIN metrics : DOMAIN metrics'[x] = DOMAIN metrics[x]
    OBVIOUS
<1>2. QED
    BY <1>1 DEF Stored

RegVars == <<live, Stored, Phase>>

LEMMA StepRefines ==
    ASSUME ReleaseInv, CallbackInv, ReleaseInv', [Next]_vars
    PROVE  [Registry!Next]_RegVars
<1> USE DEF RegVars
<1>1. CASE Survey \/ \E sw \in SwitchIds : SwitchConnects(sw)
    <2>1. /\ pc = "survey"
          /\ pc' \in {"survey", "connect", "crashed"}
          /\ UNCHANGED E2Vars
        BY <1>1, SurveyFrame
    <2>2. Stored' = Stored
        BY <2>1, StoredFrame DEF E2Vars
    <2>3. QED
        BY <2>1, <2>2 DEF E2Vars, Phase
<1>2. CASE Connect
    <2>1. /\ pc = "connect"
          /\ pc' \in {"node", "crashed"}
          /\ UNCHANGED <<live, metrics>>
        BY <1>2 DEF Connect
    <2>2. Stored' = Stored
        BY <2>1, StoredFrame
    <2>3. QED
        BY <2>1, <2>2 DEF Phase
<1>3. CASE VisitNode
    <2> DEFINE t == classify_e2node(NodeEnums[node + 1])
    <2>1. /\ pc = "node"
          /\ node \in Nat
          /\ node < Len(NodeEnums)
          /\ \A p \in live : p[1] < node
          /\ UNCHANGED live
        BY <1>3 DEF VisitNode, CallbackInv
    <2>2. node \in Nodes
        BY <2>1, NodeEnumsSeq DEF Nodes
    <2>3. CASE t \in types_accepted
        <3>1. /\ AddNode(node, t)
              /\ pc' = "reg"
            BY <1>3, <2>3 DEF VisitNode
        <3>2. Stored' = {p \in Stored : p[1] # node} \cup ({node} \X MetricList(t))
            BY <2>2, <2>3, <3>1, AddNodeStored
        <3>3. MetricList(t) \in SUBSET SMs
            BY <2>3, MetricListType
        <3>4. \A p \in live : p[1] # node
            BY <2>1
        <3>5. Registry!Open(node, MetricList(t))
            BY <2>1, <3>1, <3>2, <3>4 DEF Registry!Open, Phase
        <3>6. QED
            BY <2>2, <3>3, <3>5 DEF Registry!Next
    <2>4. CASE t \notin types_accepted
        <3>1. UNCHANGED <<pc, metrics>>
            BY <1>3, <2>4 DEF VisitNode
        <3>2. Stored' = Stored
            BY <3>1, StoredFrame
        <3>3. QED
            BY <2>1, <3>1, <3>2 DEF Phase
    <2>5. QED
        BY <2>3, <2>4
<1>4. CASE Register
    <2> DEFINE h == Head(toReg)
    <2>1. /\ pc = "reg"
          /\ node \in Nodes
          /\ toReg # << >>
          /\ toReg \in Seq(SMs)
          /\ node \in DOMAIN metrics
          /\ Keys(toReg) \subseteq DOMAIN metrics[node]
        BY <1>4 DEF Register, CallbackInv
    <2>2. /\ live' = live \cup {<<node, h>>}
          /\ pc' \in {"node", "reg"}
          /\ UNCHANGED metrics
        BY <1>4 DEF Register
    <2>3. h \in Keys(toReg) /\ h \in SMs
        BY <2>1, KeysTail, HeadTailProperties
    <2>4. <<node, h>> \in Stored
        BY <2>1, <2>3 DEF Stored
    <2>5. Stored' = Stored
        BY <2>2, StoredFrame
    <2>6. Registry!Subscribe(<<node, h>>)
        BY <2>1, <2>2, <2>4, <2>5 DEF Registry!Subscribe, Phase
    <2>7. <<node, h>> \in Nodes \X SMs
        BY <2>1, <2>3
    <2>8. QED
        BY <2>6, <2>7 DEF Registry!Next
<1>5. CASE AllRegistered \/ Wake
    <2>1. /\ pc \in {"node", "sleep"}
          /\ pc' \in {"sleep", "rm"}
          /\ UNCHANGED <<live, metrics>>
        BY <1>5 DEF AllRegistered, Wake
    <2>2. Stored' = Stored
        BY <2>1, StoredFrame
    <2>3. QED
        BY <2>1, <2>2 DEF Phase
<1>6. CASE Remove
    <2>1. /\ pc = "rm"
          /\ rmNode \in Nodes
          /\ rmLeft \in Seq(SMs)
          /\ UNCHANGED metrics
        BY <1>6 DEF Remove, ReleaseInv
    <2>2. Stored' = Stored
        BY <2>1, StoredFrame
    <2>3. CASE rmLeft # << >>
        <3> DEFINE q == <<rmNode, Head(rmLeft)>>
        <3>1. /\ live' = live \ {q}
              /\ pc' = "rm"
            BY <1>6, <2>3 DEF Remove
        <3>2. q \in Nodes \X SMs
            BY <2>1, <2>3, HeadTailProperties
        <3>3. CASE q \in live
            <4>1. Registry!Unsubscribe(q)
                BY <2>1, <2>2, <3>1, <3>3 DEF Registry!Unsubscribe, Phase
            <4>2. QED
                BY <3>2, <4>1 DEF Registry!Next
        <3>4. CASE q \notin live
            BY <2>1, <2>2, <3>1, <3>4 DEF Phase
        <3>5. QED
            BY <3>3, <3>4
    <2>4. CASE rmLeft = << >> /\ rmNode + 1 < Len(NodeEnums)
        <3>1. /\ pc' = "rm"
              /\ UNCHANGED live
            BY <1>6, <2>4 DEF Remove
        <3>2. QED
            BY <2>1, <2>2, <3>1 DEF Phase
    <2>5. CASE rmLeft = << >> /\ rmNode + 1 = Len(NodeEnums)
        <3>1. /\ pc' = "stopped"
              /\ UNCHANGED live
            BY <1>6, <2>5 DEF Remove
        <3>2. live = {}
            BY <3>1 DEF ReleaseInv
        <3>3. Registry!Stop
            BY <2>1, <2>2, <3>1, <3>2 DEF Registry!Stop, Phase
        <3>4. QED
            BY <3>3 DEF Registry!Next
    <2>6. QED
        BY <1>6, <2>3, <2>4, <2>5 DEF Remove
<1>7. CASE \E n \in Nodes, m \in SMs : Deliver(n, m)
    <2>1. PICK n \in Nodes, m \in SMs : Deliver(n, m)
        BY <1>7
    <2>2. /\ <<n, m>> \in live
          /\ UNCHANGED <<pc, live>>
        BY <2>1 DEF Deliver
    <2>3. n \in DOMAIN metrics /\ m \in DOMAIN metrics[n]
        BY <2>2 DEF CallbackInv, Stored
    <2>4. metrics' = [metrics EXCEPT ![n][m] = @ + 1]
        BY <2>1, <2>3 DEF Deliver
    <2>5. Stored' = Stored
        BY <2>3, <2>4, DeliverStored
    <2>6. QED
        BY <2>2, <2>5 DEF Phase
<1>8. CASE UNCHANGED vars
    <2>1. UNCHANGED <<pc, live, metrics>>
        BY <1>8 DEF vars
    <2>2. Stored' = Stored
        BY <2>1, StoredFrame
    <2>3. QED
        BY <2>1, <2>2 DEF Phase
<1>9. QED
    BY <1>1, <1>2, <1>3, <1>4, <1>5, <1>6, <1>7, <1>8 DEF Next

(* xapp_test.py and the callbacks of xapp_functs.py implement the         *)
(* registry for every list of E2 nodes: add_node never strands a           *)
(* subscription, each report_*_sm subscribes to a list add_node made, and  *)
(* try_stop (line 107) comes only after every handler was removed.         *)
THEOREM Implementation == Spec => ImplementsRegistry
<1>1. Spec => [](ReleaseInv /\ CallbackInv)
    <2>1. Init => ReleaseInv /\ CallbackInv
        BY InitRelease, InitCallback
    <2>2. ReleaseInv /\ CallbackInv /\ [Next]_vars => ReleaseInv' /\ CallbackInv'
        BY ReleaseStep, CallbackStep
    <2>3. QED
        BY <2>1, <2>2, PTL DEF Spec
<1>2. Init => Registry!Init
    BY DEF Init, Registry!Init, Stored, Phase
<1>3. ReleaseInv /\ CallbackInv /\ ReleaseInv' /\ [Next]_vars => [Registry!Next]_RegVars
    BY StepRefines
<1>4. QED
    BY <1>1, <1>2, <1>3, PTL DEF Spec, ImplementsRegistry, Registry!Spec, Registry!vars, RegVars
-----------------------------------------------------------------------------
(* Type correctness.  TypeOK alone is not inductive: the registration and  *)
(* removal loops index node_handlers by node and rmNode, which are node    *)
(* indices only at the places where those steps happen, and Wake reads     *)
(* node 0, which exists because line 60 stopped the program otherwise.    *)
(* The survey's variables and the E2 ones are typed separately, as only   *)
(* the survey and ONOS change the first and only the E2 part the second.  *)
SurveyType ==
    /\ onosDev \subseteq SwitchIds
    /\ queueRule \in BOOLEAN
    /\ spc \in {"devices", "switches", "hosts"}
    /\ swLeft \subseteq SwitchIds
    /\ devKeys \subseteq SwitchIds
    /\ hostDev \subseteq SwitchIds
    /\ hostPos \in 1..(Len(HostLocs) + 1)

E2Type ==
    /\ pc \in {"survey", "connect", "node", "reg", "sleep", "rm", "stopped", "crashed"}
    /\ node \in 0..Len(NodeEnums)
    /\ toReg \in Seq(SMs)
    /\ node_handlers \in [Nodes -> Seq(SMs)]
    /\ live \subseteq Nodes \X SMs
    /\ DOMAIN metrics \subseteq Nodes
    /\ \A n \in DOMAIN metrics : metrics[n] \in [DOMAIN metrics[n] -> 0..MaxInd]
    /\ cbError \in BOOLEAN
    /\ rmNode \in 0..Len(NodeEnums)
    /\ rmLeft \in Seq(SMs)
    /\ pc = "reg" => node \in Nodes
    /\ pc \in {"node", "reg", "sleep", "rm", "stopped"} => NodeEnums # << >>
    /\ pc = "rm" => rmNode \in Nodes

TypeInv == SurveyType /\ E2Type

(* A non-empty set of naturals has a least element. *)
LEMMA NatSetMin ==
    ASSUME NEW S \in SUBSET Nat, S # {}
    PROVE  \E x \in S : \A y \in S : x <= y
<1>1. IsWellFoundedOn(OpToRel(<, Nat), Nat)
    BY NatLessThanWellFounded, Zenon
<1>2. \E x \in S : \A y \in S : ~(<<y, x>> \in OpToRel(<, Nat))
    BY <1>1, WFMin, Zenon
<1>3. \A x, y \in Nat : <<y, x>> \in OpToRel(<, Nat) <=> y < x
    BY Zenon DEF OpToRel
<1>4. \E x \in S : \A y \in S : ~(y < x)
    BY <1>2, <1>3, Zenon
<1>5. QED
    BY <1>4

(* The next reported host is at or after the position the search starts   *)
(* from, and at most one past the end of HostLocs.                        *)
LEMMA NextReportedIn ==
    ASSUME NEW i \in 1..(Len(HostLocs) + 1), NEW dev
    PROVE  NextReported(i, dev) \in i..(Len(HostLocs) + 1)
<1> DEFINE L == Len(HostLocs) + 1
           S == {j \in i..L : j = L \/ Reported(HostLocs[j], dev)}
<1>1. L \in Nat
    BY XAppAssumption
<1>2. S \in SUBSET Nat /\ S # {}
    BY <1>1
<1>3. \E x \in S : \A y \in S : x <= y
    BY <1>2, NatSetMin, Zenon
<1>4. NextReported(i, dev) \in S
    BY <1>3 DEF NextReported
<1>5. QED
    BY <1>4

LEMMA InitType == Init => TypeInv
<1> SUFFICES ASSUME Init PROVE SurveyType /\ E2Type
    BY DEF TypeInv
<1>1. SurveyType
    <2>1. Len(HostLocs) + 1 \in 1..(Len(HostLocs) + 1)
        BY XAppAssumption
    <2>2. /\ onosDev \subseteq SwitchIds /\ queueRule = FALSE /\ spc = "devices"
          /\ swLeft = {} /\ devKeys = {} /\ hostDev = {}
          /\ hostPos = Len(HostLocs) + 1
        BY Zenon DEF Init
    <2>3. QED
        BY <2>1, <2>2 DEF SurveyType
<1>2. E2Type
    <2>1. Len(NodeEnums) \in Nat
        BY NodeEnumsSeq
    <2>2. node \in 0..Len(NodeEnums) /\ rmNode \in 0..Len(NodeEnums)
        BY <2>1 DEF Init
    <2>3. node_handlers \in [Nodes -> Seq(SMs)]
        BY DEF Init
    <2>4. DOMAIN metrics = {}
        BY DEF Init
    <2>5. toReg \in Seq(SMs) /\ rmLeft \in Seq(SMs) /\ live = {}
        BY DEF Init
    <2>6. pc = "survey" /\ cbError = FALSE
        BY DEF Init
    <2>7. \A n \in DOMAIN metrics : metrics[n] \in [DOMAIN metrics[n] -> 0..MaxInd]
        BY <2>4
    <2>8. live \subseteq Nodes \X SMs /\ DOMAIN metrics \subseteq Nodes
        BY <2>4, <2>5
    <2>9. QED
        BY <2>2, <2>3, <2>5, <2>6, <2>7, <2>8 DEF E2Type
<1>3. QED
    BY <1>1, <1>2

(* The steps that are not the survey's, nor ONOS's, leave the survey alone. *)
LEMMA E2Frame ==
    ASSUME \/ Connect \/ VisitNode \/ Register \/ AllRegistered \/ Wake \/ Remove
           \/ \E n \in Nodes, m \in SMs : Deliver(n, m)
           \/ UNCHANGED vars
    PROVE  UNCHANGED surveyVars
BY DEF Connect, VisitNode, Register, AllRegistered, Wake, Remove, Deliver, vars, surveyVars

LEMMA SurveyTypeStep == SurveyType /\ [Next]_vars => SurveyType'
<1> SUFFICES ASSUME SurveyType, [Next]_vars PROVE SurveyType'
    OBVIOUS
<1>1. CASE GetDevices
    BY <1>1 DEF GetDevices, SurveyType
<1>2. ASSUME NEW sw \in SwitchIds, VisitSwitch(sw) PROVE SurveyType'
    BY <1>2 DEF VisitSwitch, SurveyType
<1>3. CASE GetHosts
    <2>1. 1 \in 1..(Len(HostLocs) + 1)
        BY XAppAssumption
    <2>2. NextReported(1, onosDev) \in 1..(Len(HostLocs) + 1)
        BY <2>1, NextReportedIn
    <2>3. QED
        BY <1>3, <2>2 DEF GetHosts, SurveyType
<1>4. CASE AttachHost
    <2>1. hostPos + 1 \in 1..(Len(HostLocs) + 1)
        BY <1>4, XAppAssumption DEF AttachHost, SurveyType
    <2>2. NextReported(hostPos + 1, hostDev) \in 1..(Len(HostLocs) + 1)
        BY <2>1, NextReportedIn
    <2>3. QED
        BY <1>4, <2>2 DEF AttachHost, SurveyType
<1>5. CASE SetUdpFlowQueue
    BY <1>5 DEF SetUdpFlowQueue, SurveyType
<1>6. ASSUME NEW sw \in SwitchIds, SwitchConnects(sw) PROVE SurveyType'
    BY <1>6 DEF SwitchConnects, SurveyType
<1>7. CASE \/ Connect \/ VisitNode \/ Register \/ AllRegistered \/ Wake \/ Remove
           \/ \E n \in Nodes, m \in SMs : Deliver(n, m)
           \/ UNCHANGED vars
    BY <1>7, E2Frame DEF surveyVars, SurveyType
<1>8. QED
    BY <1>1, <1>2, <1>3, <1>4, <1>5, <1>6, <1>7 DEF Next, Survey

LEMMA E2TypeStep == E2Type /\ [Next]_vars => E2Type'
<1> SUFFICES ASSUME E2Type, [Next]_vars PROVE E2Type'
    OBVIOUS
<1> USE NodeEnumsSeq
<1>1. CASE Survey \/ \E sw \in SwitchIds : SwitchConnects(sw)
    BY <1>1, SurveyFrame DEF E2Vars, E2Type
<1>2. CASE Connect
    BY <1>2 DEF Connect, E2Type
<1>3. CASE VisitNode
    <2> DEFINE t == classify_e2node(NodeEnums[node + 1])
    <2>1. node \in Nodes
        BY <1>3 DEF VisitNode, E2Type, Nodes
    <2>2. CASE t \in types_accepted
        <3>1. Registrations(t) \in Seq(SMs)
            BY <2>2, RegistrationsType
        <3>2. metrics' = [x \in DOMAIN metrics \cup {node} |->
                            IF x = node THEN [m \in MetricList(t) |-> 0] ELSE metrics[x]]
            BY <1>3, <2>2 DEF VisitNode, AddNode
        <3>3. 0 \in 0..MaxInd
            BY XAppAssumption
        <3>4. QED
            BY <1>3, <2>1, <2>2, <3>1, <3>2, <3>3 DEF VisitNode, E2Type
    <2>3. CASE t \notin types_accepted
        BY <1>3, <2>1, <2>3 DEF VisitNode, E2Type, Nodes
    <2>4. QED
        BY <2>2, <2>3
<1>4. CASE Register
    <2>1. node \in Nodes /\ toReg # << >> /\ toReg \in Seq(SMs)
        BY <1>4 DEF Register, E2Type
    <2>2. Head(toReg) \in SMs /\ Tail(toReg) \in Seq(SMs)
        BY <2>1, HeadTailProperties
    <2>3. node + 1 \in 0..Len(NodeEnums)
        BY <2>1 DEF Nodes
    <2>4. Append(node_handlers[node], Head(toReg)) \in Seq(SMs)
        BY <2>1, <2>2 DEF E2Type
    <2>5. node_handlers' \in [Nodes -> Seq(SMs)]
        BY <1>4, <2>1, <2>4 DEF Register, E2Type
    <2>6. live' \subseteq Nodes \X SMs
        BY <1>4, <2>1, <2>2 DEF Register, E2Type
    <2>7. toReg' \in Seq(SMs)
        BY <1>4, <2>2 DEF Register
    <2>8. /\ pc' \in {"node", "reg"}
          /\ node' \in 0..Len(NodeEnums)
          /\ pc' = "reg" => node' \in Nodes
        BY <1>4, <2>1, <2>3 DEF Register, Nodes
    <2>9. UNCHANGED <<metrics, cbError, rmNode, rmLeft>>
        BY <1>4 DEF Register
    <2>10. NodeEnums # << >> /\ DOMAIN metrics \subseteq Nodes
           /\ \A x \in DOMAIN metrics : metrics[x] \in [DOMAIN metrics[x] -> 0..MaxInd]
           /\ cbError \in BOOLEAN /\ rmNode \in 0..Len(NodeEnums) /\ rmLeft \in Seq(SMs)
        BY <1>4 DEF Register, E2Type
    <2>11. QED
        BY <2>5, <2>6, <2>7, <2>8, <2>9, <2>10 DEF E2Type
<1>5. CASE AllRegistered
    BY <1>5 DEF AllRegistered, E2Type
<1>6. CASE Wake
    <2>1. 0 \in Nodes
        BY <1>6, EmptySeq DEF Wake, E2Type, Nodes
    <2>2. QED
        BY <1>6, <2>1 DEF Wake, E2Type, Nodes
<1>7. CASE Remove
    <2>1. rmNode \in Nodes /\ rmLeft \in Seq(SMs)
        BY <1>7 DEF Remove, E2Type
    <2>2. CASE rmLeft # << >> /\ rmLeft' = Tail(rmLeft) /\ UNCHANGED <<pc, rmNode>>
              /\ live' = live \ {<<rmNode, Head(rmLeft)>>}
        <3>1. Tail(rmLeft) \in Seq(SMs)
            BY <2>1, <2>2, HeadTailProperties
        <3>2. QED
            BY <1>7, <2>2, <3>1 DEF Remove, E2Type
    <2>3. CASE rmLeft = << >> /\ rmNode + 1 < Len(NodeEnums)
              /\ rmNode' = rmNode + 1 /\ rmLeft' = node_handlers[rmNode + 1]
              /\ UNCHANGED <<pc, live>>
        <3>1. rmNode + 1 \in Nodes
            BY <2>1, <2>3 DEF Nodes
        <3>2. rmLeft' \in Seq(SMs)
            BY <2>3, <3>1 DEF E2Type
        <3>3. rmNode' \in 0..Len(NodeEnums)
            BY <2>3, <3>1 DEF Nodes
        <3>4. QED
            BY <1>7, <2>3, <3>1, <3>2, <3>3 DEF Remove, E2Type
    <2>4. CASE rmLeft = << >> /\ pc' = "stopped" /\ UNCHANGED <<live, rmNode, rmLeft>>
        BY <1>7, <2>4 DEF Remove, E2Type
    <2>5. QED
        BY <1>7, <2>2, <2>3, <2>4 DEF Remove
<1>8. ASSUME NEW n \in Nodes, NEW m \in SMs, Deliver(n, m) PROVE E2Type'
    <2>1. CASE n \in DOMAIN metrics /\ m \in DOMAIN metrics[n]
        <3>1. metrics[n][m] \in 0..MaxInd /\ metrics[n][m] < MaxInd
            BY <1>8, <2>1 DEF Deliver, E2Type
        <3>2. metrics' = [metrics EXCEPT ![n][m] = metrics[n][m] + 1]
            BY <1>8, <2>1 DEF Deliver
        <3>3. metrics[n][m] + 1 \in 0..MaxInd
            BY <3>1, XAppAssumption
        <3>4. DOMAIN metrics' = DOMAIN metrics
            BY <3>2
        <3>5. \A x \in DOMAIN metrics' : metrics'[x] \in [DOMAIN metrics'[x] -> 0..MaxInd]
            BY <2>1, <3>2, <3>3 DEF E2Type
        <3>6. UNCHANGED <<pc, node, toReg, node_handlers, live, cbError, rmNode, rmLeft>>
            BY <1>8, <2>1 DEF Deliver
        <3>7. QED
            BY <3>4, <3>5, <3>6 DEF E2Type
    <2>2. CASE ~(n \in DOMAIN metrics /\ m \in DOMAIN metrics[n])
        <3>1. cbError' = TRUE /\ UNCHANGED metrics
            BY <1>8, <2>2 DEF Deliver
        <3>2. UNCHANGED <<pc, node, toReg, node_handlers, live, rmNode, rmLeft>>
            BY <1>8 DEF Deliver
        <3>3. QED
            BY <3>1, <3>2 DEF E2Type
    <2>3. QED
        BY <2>1, <2>2
<1>9. CASE UNCHANGED vars
    BY <1>9 DEF vars, surveyVars, E2Type
<1>10. QED
    BY <1>1, <1>2, <1>3, <1>4, <1>5, <1>6, <1>7, <1>8, <1>9 DEF Next

(* Every variable of xapp_test.py and of the storage keeps its type: the   *)
(* indices the loops of lines 66-105 use are node indices, and a metric    *)
(* counts at most MaxInd indications.                                      *)
THEOREM TypeCorrect == Spec => []TypeOK
<1>1. TypeInv => TypeOK
    BY DEF TypeInv, SurveyType, E2Type, TypeOK
<1>2. TypeInv /\ [Next]_vars => TypeInv'
    BY SurveyTypeStep, E2TypeStep DEF TypeInv
<1>3. QED
    BY InitType, <1>1, <1>2, PTL DEF Spec
=============================================================================
