------------------------------ MODULE ActivateL3 ------------------------------
(***************************************************************************)
(* Activate_L3_flows.py: the one-shot script that lists the devices and   *)
(* the hosts of ONOS (lines 39-50), then posts to every device a baseline *)
(* rule and one L3 rule per protocol of the protocols dict (lines 53-76). *)
(* Every requests call may return a failure status, which is printed and   *)
(* ignored, or raise, which ends the script; a POST that raises may have   *)
(* reached ONOS or not.                                                    *)
(***************************************************************************)
EXTENDS Naturals, Sequences, FiniteSets

CONSTANTS DeviceIds,  \* the ids of r.json()['devices'], in order (line 41)
          HostLists,  \* the host lists GET /hosts may return: each host's location elementIds
          Outcomes    \* what a REST call may do: "ok", "rejected", "raised", "raisedLate"

ASSUME ActivateAssumption ==
    /\ DeviceIds \in Seq(STRING)
    /\ HostLists \subseteq Seq(Seq(STRING))
    /\ "ok" \in Outcomes
    /\ Outcomes \subseteq {"ok", "rejected", "raised", "raisedLate"}

(* Line 24: the protocol numbers, in the dict's order. *)
protocols == <<1, 6, 17, 132>>

(* Line 40: the only assignment of devices; the script never adds to it. *)
devices == [d \in {} |-> << >>]

(* Lines 55-62; a match is the criteria list with the values that tell    *)
(* rules apart, and selector the JSON shape of "selector": the object     *)
(* {"criteria": [...]} ONOS's flow codec reads, or a bare list.            *)
BaseFlow(dev) ==
    [deviceId |-> dev, priority |-> 1000, timeout |-> 0, isPermanent |-> TRUE,
     selector |-> "object", match |-> <<"ETH_DST">>, out |-> 1]

(* Lines 65-75: line 71 sends the criteria as a bare list. *)
L3Flow(dev, num) ==
    [deviceId |-> dev, priority |-> 4000, timeout |-> 0, isPermanent |-> FALSE,
     selector |-> "list", match |-> <<"ETH_TYPE", num>>, out |-> 2]

VARIABLES
    pc,         \* where the script is
    hosts,      \* r.json()['hosts'] of line 47
    hIdx,       \* the host of the loop at line 47
    dIdx,       \* the device of the loop at line 53
    pIdx,       \* 0: its base flow is next; k: the k-th protocol's flow is next
    posted,     \* <<device, match>> of every POST sent
    installed   \* the rules ONOS holds

vars == <<pc, hosts, hIdx, dIdx, pIdx, posted, installed>>

Init ==
    /\ pc = "devices"
    /\ hosts = << >>
    /\ hIdx = 1
    /\ dIdx = 1
    /\ pIdx = 0
    /\ posted = {}
    /\ installed = {}

-----------------------------------------------------------------------------
(* Lines 39-41 and 46-47: a GET; anything but a good answer raises (the   *)
(* call itself, or the missing key of r.json()).                           *)
Get(from, to) ==
    /\ pc = from
    /\ \E o \in Outcomes : pc' = IF o = "ok" THEN to ELSE "crashed"
    /\ UNCHANGED <<hIdx, dIdx, pIdx, posted, installed>>

ListDevices == Get("devices", "hosts") /\ UNCHANGED hosts

ListHosts == Get("hosts", "hostloop") /\ \E hl \in HostLists : hosts' = hl

(* Lines 48-50: devices[host_obj.locations[0]['elementId']] raises         *)
(* IndexError for a host without locations, KeyError for one whose device  *)
(* is not a key of devices.                                                *)
AttachHost ==
    /\ pc = "hostloop"
    /\ hIdx <= Len(hosts)
    /\ IF hosts[hIdx] = << >> \/ hosts[hIdx][1] \notin DOMAIN devices
       THEN pc' = "crashed" /\ UNCHANGED hIdx
       ELSE hIdx' = hIdx + 1 /\ UNCHANGED pc
    /\ UNCHANGED <<hosts, dIdx, pIdx, posted, installed>>

HostsDone ==
    /\ pc = "hostloop"
    /\ hIdx > Len(hosts)
    /\ pc' = "flows"
    /\ UNCHANGED <<hosts, hIdx, dIdx, pIdx, posted, installed>>

(* install_flow, lines 26-34: the POST, whose status is printed only.     *)
(* ONOS installs the rule when the call reaches it and it can decode the  *)
(* selector; a bare list it answers with an error status.                 *)
InstallFlow(flow, o) ==
    /\ posted' = posted \cup {<<flow.deviceId, flow.match>>}
    /\ installed' = IF o \in {"ok", "raisedLate"} /\ flow.selector = "object"
                    THEN installed \cup {flow}
                    ELSE installed

(* The flow the loops of lines 53-76 post next. *)
NextFlow ==
    IF pIdx = 0 THEN BaseFlow(DeviceIds[dIdx]) ELSE L3Flow(DeviceIds[dIdx], protocols[pIdx])

(* Mutant: the protocol loop stops one protocol short. *)
PostFlowShort ==
    /\ pc = "flows"
    /\ dIdx <= Len(DeviceIds)
    /\ \E o \in Outcomes :
          /\ InstallFlow(NextFlow, o)
          /\ IF o \in {"raised", "raisedLate"}
             THEN pc' = "crashed" /\ UNCHANGED <<dIdx, pIdx>>
             ELSE /\ IF pIdx + 1 < Len(protocols)
                     THEN pIdx' = pIdx + 1 /\ UNCHANGED dIdx
                     ELSE pIdx' = 0 /\ dIdx' = dIdx + 1
                  /\ UNCHANGED pc
    /\ UNCHANGED <<hosts, hIdx>>

(* Mutant: the protocol loop runs one step past the end of the dict. *)
PostFlowPastEnd ==
    /\ pc = "flows"
    /\ dIdx <= Len(DeviceIds)
    /\ \E o \in Outcomes :
          /\ InstallFlow(NextFlow, o)
          /\ IF o \in {"raised", "raisedLate"}
             THEN pc' = "crashed" /\ UNCHANGED <<dIdx, pIdx>>
             ELSE /\ IF pIdx <= Len(protocols)
                     THEN pIdx' = pIdx + 1 /\ UNCHANGED dIdx
                     ELSE pIdx' = 0 /\ dIdx' = dIdx + 1
                  /\ UNCHANGED pc
    /\ UNCHANGED <<hosts, hIdx>>

(* One install_flow call of the loops of lines 53-76, and the step of the *)
(* loops to the next protocol or the next device.                          *)
PostFlow ==
    /\ pc = "flows"
    /\ dIdx <= Len(DeviceIds)
    /\ \E o \in Outcomes :
          /\ InstallFlow(NextFlow, o)
          /\ IF o \in {"raised", "raisedLate"}
             THEN pc' = "crashed" /\ UNCHANGED <<dIdx, pIdx>>
             ELSE /\ IF pIdx < Len(protocols)
                     THEN pIdx' = pIdx + 1 /\ UNCHANGED dIdx
                     ELSE pIdx' = 0 /\ dIdx' = dIdx + 1
                  /\ UNCHANGED pc
    /\ UNCHANGED <<hosts, hIdx>>

(* The end of the script. *)
Finish ==
    /\ pc = "flows"
    /\ dIdx > Len(DeviceIds)
    /\ pc' = "done"
    /\ UNCHANGED <<hosts, hIdx, dIdx, pIdx, posted, installed>>

Next ==
    \/ ListDevices
    \/ ListHosts
    \/ AttachHost
    \/ HostsDone
    \/ PostFlow
    \/ Finish

Spec == Init /\ [][Next]_vars

-----------------------------------------------------------------------------
(* Properties. *)

DevSet == {DeviceIds[i] : i \in 1..Len(DeviceIds)}

Matches == {<<"ETH_DST">>} \cup {<<"ETH_TYPE", protocols[k]>> : k \in 1..Len(protocols)}

Rules == [deviceId : DevSet, priority : {1000, 4000}, timeout : {0},
          isPermanent : BOOLEAN, selector : {"object", "list"}, match : Matches,
          out : {1, 2}]

TypeOK ==
    /\ pc \in {"devices", "hosts", "hostloop", "flows", "done", "crashed"}
    /\ hosts \in HostLists \cup {<< >>}
    /\ hIdx \in 1..(Len(hosts) + 1)
    /\ dIdx \in 1..(Len(DeviceIds) + 1)
    /\ pIdx \in 0..Len(protocols)
    /\ posted \subseteq DevSet \X Matches
    /\ installed \subseteq Rules

(* When the script ends normally, it has posted to every listed device its *)
(* baseline rule and one L3 rule for each protocol of the dict (lines      *)
(* 53-76), whatever POSTs were rejected on the way.                        *)
AllPosted ==
    pc = "done" =>
        posted = DevSet \X Matches

(* The host loop of lines 47-50 goes through: line 50 files each host     *)
(* under the device it is located on, which it expects devices to hold;   *)
(* here with a controller that answers every call.                         *)
NoCrash == pc # "crashed"
=============================================================================
