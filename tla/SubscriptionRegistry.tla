------------------------- MODULE SubscriptionRegistry -------------------------
(***************************************************************************)
(* What the xApp promises about its statistics subscriptions, without the  *)
(* loops that make them.  Storage lists are opened per node, a            *)
(* subscription is only made to an open list, and the SDK is stopped only *)
(* once every subscription has been removed.  Nothing is opened,          *)
(* subscribed or removed after the stop.                                   *)
(***************************************************************************)
EXTENDS TLAPS

CONSTANTS Nodes,    \* the E2 nodes
          Metrics   \* the statistics kinds

VARIABLES subs,     \* the <<node, metric>> subscriptions the SDK holds
          lists,    \* the <<node, metric>> pairs that have a storage list
          phase     \* "running" or "stopped"

vars == <<subs, lists, phase>>

Init ==
    /\ subs = {}
    /\ lists = {}
    /\ phase = "running"

(* Node n's lists are (re)made for the metrics ms; no subscription of n   *)
(* may exist then, or it would lose its list.                             *)
Open(n, ms) ==
    /\ phase = "running"
    /\ \A p \in subs : p[1] # n
    /\ lists' = {p \in lists : p[1] # n} \cup ({n} \X ms)
    /\ UNCHANGED <<subs, phase>>

Subscribe(p) ==
    /\ phase = "running"
    /\ p \in lists
    /\ subs' = subs \cup {p}
    /\ UNCHANGED <<lists, phase>>

Unsubscribe(p) ==
    /\ phase = "running"
    /\ p \in subs
    /\ subs' = subs \ {p}
    /\ UNCHANGED <<lists, phase>>

Stop ==
    /\ phase = "running"
    /\ subs = {}
    /\ phase' = "stopped"
    /\ UNCHANGED <<subs, lists>>

Next ==
    \/ \E n \in Nodes, ms \in SUBSET Metrics : Open(n, ms)
    \/ \E p \in Nodes \X Metrics : Subscribe(p) \/ Unsubscribe(p)
    \/ Stop

Spec == Init /\ [][Next]_vars

-----------------------------------------------------------------------------
(* Every subscription has its storage list, and none is left at the stop. *)
Safe ==
    /\ subs \subseteq lists
    /\ phase = "stopped" => subs = {}

(* The registry keeps every subscription on a list and stops empty. *)
THEOREM RegistrySafe == Spec => []Safe
<1>1. Init => Safe
    BY DEF Init, Safe
<1>2. Safe /\ [Next]_vars => Safe'
    <2> SUFFICES ASSUME Safe, [Next]_vars PROVE Safe'
        OBVIOUS
    <2>1. CASE \E n \in Nodes, ms \in SUBSET Metrics : Open(n, ms)
        BY <2>1 DEF Open, Safe
    <2>2. CASE \E p \in Nodes \X Metrics : Subscribe(p) \/ Unsubscribe(p)
        BY <2>2 DEF Subscribe, Unsubscribe, Safe
    <2>3. CASE Stop
        BY <2>3 DEF Stop, Safe
    <2>4. CASE UNCHANGED vars
        BY <2>4 DEF vars, Safe
    <2>5. QED
        BY <2>1, <2>2, <2>3, <2>4 DEF Next
<1>3. QED
    BY <1>1, <1>2, PTL DEF Spec
=============================================================================
