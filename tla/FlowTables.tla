------------------------------ MODULE FlowTables ------------------------------
(***************************************************************************)
(* What the reactive loop of Reactive_L3.py promises about the flow tables *)
(* of the switches, with the REST calls, the packet batches and the host   *)
(* lookups abstracted away.                                                *)
(*                                                                         *)
(* At startup every listed device gets one DELETE of its flows, which      *)
(* succeeds or fails.  Once all are sent the loop listens, and from then   *)
(* on the only rules it adds are fresh ones whose output is CONTROLLER or  *)
(* a place where the destination host has been seen; a new rule replaces  *)
(* the one with the same selector.  The switches expire rules and the      *)
(* controller records new host locations while the loop runs.  A crash    *)
(* halts it all.                                                           *)
(***************************************************************************)
EXTENDS TLAPS

CONSTANTS Devices,     \* the devices GET /devices lists
          Rule,        \* flow rules: [match, out, stale]
          PrevRules,   \* rules a previous run may have left in a table
          Sightings,   \* <<ip, location>> pairs the controller may record
          CONTROLLER   \* the output that punts packets to the controller

VARIABLES phase,     \* "startup", "listening" or "halted"
          table,     \* the rules on each device
          cleared,   \* devices whose DELETE /flows was sent
          clearOk,   \* devices whose DELETE /flows succeeded
          everAt     \* <<ip, location>> pairs that have held

vars == <<phase, table, cleared, clearOk, everAt>>

(* A rule r may sit on device d: it punts to the controller, or its port  *)
(* on d is a location its destination has had.                             *)
Sound(d, r) ==
    r.out = CONTROLLER \/ <<r.match.dst, [elementId |-> d, port |-> r.out]>> \in everAt

Init ==
    /\ phase = "startup"
    /\ table \in [Devices -> SUBSET PrevRules]
    /\ cleared = {}
    /\ clearOk = {}
    /\ everAt \subseteq Sightings

(* One DELETE /flows/{d} per listed device; it may fail and leave the table. *)
Clear(d) ==
    /\ phase = "startup"
    /\ d \notin cleared
    /\ cleared' = cleared \cup {d}
    /\ \/ /\ table' = [table EXCEPT ![d] = {}]
          /\ clearOk' = clearOk \cup {d}
       \/ UNCHANGED <<table, clearOk>>
    /\ UNCHANGED <<phase, everAt>>

(* Listening starts once every device has been sent its DELETE. *)
Listen ==
    /\ phase = "startup"
    /\ cleared = Devices
    /\ phase' = "listening"
    /\ UNCHANGED <<table, cleared, clearOk, everAt>>

(* A fresh, sound rule replaces the rule with the same selector. *)
Install(d, r) ==
    /\ phase = "listening"
    /\ ~r.stale
    /\ Sound(d, r)
    /\ table' = [table EXCEPT ![d] = {x \in @ : x.match # r.match} \cup {r}]
    /\ UNCHANGED <<phase, cleared, clearOk, everAt>>

Expire(d, r) ==
    /\ phase # "halted"
    /\ r \in table[d]
    /\ table' = [table EXCEPT ![d] = @ \ {r}]
    /\ UNCHANGED <<phase, cleared, clearOk, everAt>>

(* The controller records new locations of hosts. *)
Sight ==
    /\ phase # "halted"
    /\ everAt \subseteq everAt'
    /\ everAt' \subseteq Sightings
    /\ UNCHANGED <<phase, table, cleared, clearOk>>

Halt ==
    /\ phase' = "halted"
    /\ UNCHANGED <<table, cleared, clearOk, everAt>>

(* An installed rule is in its table after the step, an expiring one      *)
(* before it: the quantifiers range over those tables.                     *)
Next ==
    \/ \E d \in Devices : Clear(d)
    \/ Listen
    \/ \E d \in Devices : \E r \in table'[d] : r \in Rule /\ Install(d, r)
    \/ \E d \in Devices : \E r \in table[d] : Expire(d, r)
    \/ Sight
    \/ Halt

Spec == Init /\ [][Next]_vars

-----------------------------------------------------------------------------
(* What the promise guarantees when every rule of a previous run is stale: *)
(* the loop listens only after clearing every device, a successfully      *)
(* cleared table never again holds a stale rule, and every fresh rule to  *)
(* a port points at a place its destination has been.                      *)
TablesSafe ==
    /\ phase = "listening" => cleared = Devices
    /\ clearOk \subseteq cleared
    /\ \A d \in clearOk : \A r \in table[d] : ~r.stale
    /\ \A d \in DOMAIN table : \A r \in table[d] : ~r.stale => Sound(d, r)

TypeOK ==
    /\ phase \in {"startup", "listening", "halted"}
    /\ table \in [Devices -> SUBSET Rule]
    /\ cleared \subseteq Devices

TablesInv == TypeOK /\ TablesSafe

(* The promise keeps its tables safe: TablesSafe holds in every state.    *)
THEOREM TablesStaySafe ==
    ASSUME PrevRules \subseteq Rule, \A r \in PrevRules : r.stale
    PROVE  Spec => []TablesSafe
<1>1. Init => TablesInv
    BY DEF Init, TablesInv, TypeOK, TablesSafe
<1>2. TablesInv /\ [Next]_vars => TablesInv'
    <2> SUFFICES ASSUME TablesInv, [Next]_vars PROVE TablesInv'
        OBVIOUS
    <2> USE DEF TablesInv, TypeOK
    <2>1. ASSUME NEW d \in Devices, Clear(d) PROVE TablesInv'
        BY <2>1 DEF Clear, TablesSafe, Sound
    <2>2. CASE Listen
        BY <2>2 DEF Listen, TablesSafe, Sound
    <2>3. ASSUME NEW d \in Devices, NEW r \in Rule, Install(d, r) PROVE TablesInv'
        BY <2>3 DEF Install, TablesSafe, Sound
    <2>4. ASSUME NEW d \in Devices, NEW r \in table[d], Expire(d, r) PROVE TablesInv'
        BY <2>4 DEF Expire, TablesSafe, Sound
    <2>5. CASE Sight
        BY <2>5 DEF Sight, TablesSafe, Sound
    <2>6. CASE Halt
        BY <2>6 DEF Halt, TablesSafe, Sound
    <2>7. CASE UNCHANGED vars
        BY <2>7 DEF vars, TablesSafe, Sound
    <2>8. QED
        BY <2>1, <2>2, <2>3, <2>4, <2>5, <2>6, <2>7 DEF Next
<1>3. QED
    BY <1>1, <1>2, PTL DEF Spec, TablesInv
=============================================================================
