# TLA+ models of the ONOS REST clients (rpousa/DFS)

This directory holds a TLA+ verification project for the Python clients under
`src/ONOS_REST_Tests/`. The clients drive an ONOS SDN controller through its
REST interface. The project has:

- the modules that model the code;
- the MC modules and `.cfg` files that model-check them with TLC;
- the proofs that TLAPS checks.

## 1. The system

| File | What it does | State it keeps |
|---|---|---|
| `Reactive_L3.py` | The reactive loop (details below). | the loop position; the batch of packets |
| `Activate_L3_flows.py` | One-shot script. It lists devices and hosts, then posts a baseline rule and one L3 rule per protocol to each device. | the host list; an always-empty `devices` dict |
| `xapp_test.py` | Surveys the switches, flows and hosts. Then it registers statistics callbacks on every E2 node of the RAN SDK, waits 10 s and removes them. | `devices`, `node_handlers`, the metric storage |
| `xapp_functs.py` | The metric storage (`Xapp_Metric_Storage`), the four SDK callback classes, node classification and SWIG helpers. | `nodes`, `metrics` |
| `topology.py` | curl wrappers (`get_devices`, `get_flows`, `get_hosts`, `set_udp_flow_queue`) and plain data classes (switch, flow, host). | none |

The reactive loop (`Reactive_L3.py`) runs in one Python thread:

1. GET /devices, then DELETE /flows for each device.
2. Then forever:
   - GET /packets;
   - for each packet-in, drop the packet if it is not IPv4 or its protocol is not a key of the `protocols` dict;
   - resolve the output port with a fresh GET /hosts (`resolve_out_port`), falling back to CONTROLLER;
   - POST /flows;
   - sleep.

The loop interacts with the controller, which runs concurrently:

- switches report packets that no rule forwards;
- rules expire after their idle timeout (30 s);
- hosts move between locations.

Every REST call is a point where the controller's state can change. No exception is caught anywhere, so an exception ends the process.

In `xapp_test.py`, callbacks run on the SDK's threads. They append to the shared storage while the main thread registers further nodes and later removes the handlers.

### Components (spec.md 2) and where the code implements them

- **ControllerClient**: `install_flow`, `clear_flows`, `get_hosts` and the inline GETs.
- **HostLocationCache**: `resolve_out_port`. There is no cache: it issues GET /hosts for every packet.
- **FlowRuleSynthesizer**: the flow dict in `install_flow`.
- **FlowStore**: absent from the code.
- **ReactiveEventLoop**: `listen_packets` and the `__main__` startup.

## 2. Modules

### HostResolve

`resolve_out_port` (lines 49-57) as operators over the host list:

- `Decides(hs, ip, dev, i)` says that host `i` ends the scan. It carries `ip`, and its location list is empty (IndexError) or starts on `dev` (a return).
- `ResolveRaises` and `ResolveOutPort` are the two outcomes.
- `SpecResolve` is the reference lookup of spec.md 4.2.

`MCHostResolve` enumerates every host list up to a bound and compares the two.

### ReactiveL3

The loop and the controller.

| Variable | Meaning |
|---|---|
| `pc` | the place of the Python thread |
| `toClear`, `cleared`, `clearOk` | the startup loop and the DELETEs issued and succeeded |
| `batch` | the packets of the last poll (line 72) |
| `cur`, `outPort` | the packet being installed and its `out_port` |
| `table` | each device's rules, as `[match, out, stale]`, where `stale` marks rules a previous run left |
| `pending` | packet-ins the controller buffers |
| `hostLoc` | each host's location list |
| `moves` | the number of host moves (bounded by `MaxMoves`) |
| `everAt` | the history of `<<ip, location>>` pairs |
| `posted` | the history of POSTs |
| `okPosted` | the history of POSTs that succeeded, as `[deviceId, match]` |

Each loop action is one REST call, with the code around it:

| Action | Code |
|---|---|
| `ListDevices` | line 97 |
| `ClearFlows` | lines 98-99 and 35-39 |
| `ListenStart` | line 101 |
| `PollPackets` | lines 64-71 |
| `SkipPacket` | lines 76-85 |
| `ResolvePacket` | lines 87-89 with 41-57 |
| `InstallFlow` | line 91 with 12-33 |
| `EndBatch` | line 93 |
| `Wake` | the end of a sleep |

How the model treats the calls:

- A call may succeed, return another status (as the code does: printed and ignored, or an empty host list), or raise (`Crash`: the process ends).
- `ResolvePacket` either raises IndexError or computes `OutPortOf` from the host list GET /hosts returned. That list is the current inventory, or `<< >>` when GET /hosts fails.
- The controller actions (`ReportPacket`, `ExpireRule`, `MoveHost`) interleave with the loop between any two calls.
- After a crash the controller is frozen. Nothing it does then can affect the properties, and freezing it keeps the state space small.

Protocol values are model values: names such as `"TCP"`, or the numbers `N6`/`N47` that the controller may send instead. `ProtoNum` maps each one to its protocol number.

### FlowTables and the refinement

`FlowTables` is what the reactive loop promises about the switches' flow tables, without REST calls, batches or host lookups. Its phases are "startup", "listening" and "halted". Its actions:

- `Clear(d)`: during startup, one DELETE for a device not yet cleared. It empties the table or fails.
- `Listen`: only once every device has been cleared.
- `Install(d, r)`: while listening, a fresh rule to CONTROLLER or to a place where its destination has been (`Sound`). It replaces the rule with the same selector.
- `Expire`, `Sight` (the history of host locations grows) and `Halt`.

ReactiveL3 implements it through `Tables == INSTANCE FlowTables WITH phase <- PhaseOf, Sightings <- IPs \X Loc`. `PhaseOf` maps the places "start" and "clearing" to startup, "crashed" to halted, and the rest to listening. Under this mapping:

- a successful or failed `ClearFlows` is `Clear`;
- `ListenStart` is `Listen`;
- a POST that the controller applies is `Install`;
- `ExpireRule` is `Expire`;
- `MoveHost` is `Sight`;
- every crash is `Halt`;
- every other step is a stutter.

The quantifiers of `FlowTables!Next` range over the rules in the tables after (install) or before (expiry) the step. This is equivalent to ranging over `Rule`, and keeps the check cheap enough for reactive_safety. `ImplementsFlowTables == Tables!Spec` is checked there and proved by `ReactiveL3Proofs!Implementation`.

### FlowSurvey

How `xapp_test.py` (lines 23-35) turns each flow of GET /flows into a `flow` object.

- A selector is a set of criterion kinds. `Criteria(S)` is the list ONOS returns for it, sorted in the order of ONOS's criterion enum (`ONOSOrder`).
- `Get(k, key)` is `dict.get` on a criterion. The key of line 25 is Python's builtin `type`, the model value `BuiltinType`, which equals no key.
- `ParseRaises` and `ParseFlow` are the two outcomes of the positional parse.
- `SpecParse` looks criteria up by kind, as spec.md 9 asks.

`MCFlowSurvey` takes the selectors of the rules this repository installs.

### XApp

The main thread of `xapp_test.py` and the SDK threads that run the callbacks of `xapp_functs.py`.

| Variable | Meaning |
|---|---|
| `pc` | where the main thread is |
| `node`, `toReg` | the index of the registration loop (line 66), and the `report_*_sm` calls of that node still to make |
| `node_handlers` | the handler keys recorded per node, in insertion order (the dict iteration order of line 100) |
| `live` | the `<<node, kind>>` subscriptions the SDK holds |
| `metrics` | `storage.metrics`, with the number of stored indications per list |
| `cbError` | a callback raised KeyError on an SDK thread |
| `rmNode`, `rmLeft` | the removal loop of lines 99-105 |
| `onosDev` | the switches ONOS knows (environment; a switch may connect at any time during the survey) |
| `spc`, `swLeft`, `devKeys` | the survey: its step, the switches of GET /devices still to visit, the keys of the `devices` dict |
| `hostDev`, `hostPos` | the switches ONOS knew when it answered GET /hosts, and the position in `HostLocs` of the next host the loop of line 40 attaches (`Len(HostLocs) + 1` once done) |
| `queueRule` | the queue rule of `set_udp_flow_queue` is on ONOS |

| Action | Code |
|---|---|
| `GetDevices` | line 12 with `get_devices` (topology.py 66-76) |
| `VisitSwitch(sw)` | lines 17-35: the switch enters `devices`, then `get_flows` and the parse of every flow, which raises on FlowSurvey's `ParseRaises` |
| `GetHosts` | lines 37-38 with `get_hosts`: ONOS reports the hosts on a switch it knows or without location (`Reported`), and the loop starts at the first of them (`NextReported`) |
| `AttachHost` | lines 40-43, one reported host, then on to the next reported one: IndexError on a host without locations, KeyError on a switch not in `devices` |
| `SetUdpFlowQueue` | line 53 with `set_udp_flow_queue` (topology.py 120-150): the POST to the fixed device `QueueDevice`, result only printed |
| `SwitchConnects(sw)` | environment: a switch connects to ONOS during the survey |
| `Connect` | lines 57-59, with the assert |
| `VisitNode` | lines 66-79: `classify_e2node`, then `add_node` with `MetricList(t)` for an accepted type |
| `Register` | one `report_*_sm` of lines 80-92 |
| `AllRegistered`, `Wake` | lines 95-96 |
| `Remove` | lines 99-107, including `try_stop` |
| `Deliver(n, m)` | the `handle` method of the callback of kind `m` of node `n` (xapp_functs.py 48-145) |

`Deliver` is enabled for every live subscription at any point before `try_stop`. This is how the SDK threads interleave with the main thread. An indication without statistics changes nothing and is left out.

The curl wrappers never raise (`subprocess.run` captures curl's failure), but a failed curl leaves stdout empty and `json.loads` raises, so each GET is answered or ends the program (`pc = "crashed"`). ONOS keeps a device it has once seen, so GET /flows on it answers. Between GET /devices and GET /hosts a switch may connect: its hosts are then reported, and line 43 raises KeyError. The run reaches that interleaving; no property is stated about it, since no text asks the survey to tolerate it.

### SubscriptionRegistry and the refinement

`SubscriptionRegistry` is what the xApp promises about its subscriptions, with no loops, node types or SDK threads:

- `Open(n, ms)`: node `n`'s storage lists are rebuilt for `ms`, only while `n` has no subscription;
- `Subscribe(p)`: only to a pair that has a list;
- `Unsubscribe(p)`;
- `Stop`: only once no subscription is left.

XApp implements it through `Registry == INSTANCE SubscriptionRegistry WITH subs <- live, lists <- Stored, phase <- Phase`:

- `Stored` is the set of `<<node, kind>>` pairs with a list in `metrics`;
- `Phase` is "stopped" after `try_stop`.

Under this mapping:

- `VisitNode` is `Open`;
- `Register` is `Subscribe`;
- the `remove_*_sm` of `Remove` is `Unsubscribe`;
- the `try_stop` step is `Stop`;
- every other step (the survey, deliveries, the sleep) is a stutter.

The property `ImplementsRegistry == Registry!Spec` is checked by TLC in xapp_callbacks and proved by `Implementation`.

### ActivateL3

`Activate_L3_flows.py`.

- `ListDevices` and `ListHosts` are the two GETs. Anything but a good answer raises, either in the call or at the missing JSON key. The host list is an input chosen from `HostLists`.
- `AttachHost` is line 50. `devices` is the constant `{}` of line 40, which the script never fills.
- `PostFlow` is one `install_flow` of the loops of lines 53-76. Its outcome is one of:
  - accepted;
  - rejected (printed only);
  - raised before reaching ONOS;
  - raised after ONOS applied it (`raisedLate`).

  Each flow records its selector's shape. The base flows of lines 53-63 send an object `{"criteria": [...]}`; the L3 flows of line 71 send the criteria as a bare list, which ONOS's codec answers with an error, so an L3 flow is never installed whatever the outcome.

## 3. Runs

| Run | cfg | Expect | What it shows |
|---|---|---|---|
| resolve_agrees | MCHostResolve.cfg | pass | `ResolveAgreesWithSpec` on every list of at most 2 single-homed hosts with distinct addresses (2 devices, 2 ports, 2 IPs). |
| resolve_dual_homed | MCHostResolve_dual.cfg | violation | A host on two devices: only `locations[0]` is read (line 54). |
| reactive_safety | MCReactiveL3.cfg | pass | `TypeOK`, `ClearedBeforePoll`, `RuleOutputSound`, `ImplementsFlowTables`, with failures and crashes, one host move, and rules left by a previous run, over the packets that get a rule. |
| reactive_liveness | MCReactiveL3_live.cfg | pass | `SupportedPacketHandled` when the controller sends protocol names. |
| reactive_numeric_proto | MCReactiveL3_numeric.cfg | violation | The same property when it sends numbers (spec.md 6): every packet is skipped at line 84. |
| reactive_crash | MCReactiveL3_crash.cfg | violation | `NoCrash`: any REST exception or a host without locations ends the loop. |
| survey_parse | MCFlowSurvey.cfg | violation | `ParsedAsSpec` over this repository's selectors. The Reactive_L3 rule {IN_PORT, ETH_TYPE, IP_PROTO, IPV4_SRC, IPV4_DST} is surveyed as a tunnel rule, because `.get(type)` never returns IP_PROTO. Activate_L3_flows.py's L3 flows are not among the selectors: line 71 posts their criteria as a bare list, which ONOS rejects, so they never reach a table. |
| xapp_callbacks | MCXApp.cfg | pass | `TypeOK`, `NoCallbackError`, `HandlersReleased`, `ImplementsRegistry`. It uses four nodes (eNB-CU, DU, CU-UP, CU-CP), deliveries at any moment, and a survey where any GET may fail and a switch may connect. |
| xapp_metrics_fed | MCXApp_fed.cfg | violation | `MetricsFed`: the CU-UP's gtp list is never fed; line 88 registers only PDCP. |
| activate_posts | MCActivateL3.cfg | pass | `TypeOK`, `AllPosted` on three devices, with every POST outcome. |
| reactive_install_once | MCReactiveL3_once.cfg | violation | `InstallOnce` (spec.md 8): a packet-in reported twice after its rule was installed is posted again (line 91); there is no FlowStore. |
| activate_host_crash | MCActivateL3_hosts.cfg | violation | `NoCrash`: with a controller that answers everything, one host ends the script at line 50. |

A further divergence was seen while modelling and is not kept as a run:

- `resolve_out_port` goes on past a first holder of the address that sits on another device (line 55). With `DistinctIPs = FALSE` in MCHostResolve.cfg, `ResolveAgreesWithSpec` fails on a list of two hosts with one address.

The bounds are chosen so that each hazard actually happens in the runs:

- Two devices and two ports, so that a rule can point to a wrong device or a wrong port.
- Four packets: two TCP packets on different devices, one GRE packet, one non-IPv4 packet. The safety run (`MCSafetyPackets`) keeps only the two TCP packets, the ones that get a rule. The GRE and non-IPv4 packets touch no table, and without them the run stays well within its time. The liveness, crash and install-once runs keep them.
- One host, which may have no location, so that the IndexError happens.
- `MaxPending = 2`: a packet can be reported twice before a poll.
- `MaxMoves = 1`: the host can move between GET /hosts and POST.
- A stale rule of a previous run on the TCP match.

For the xApp:

- One node of each accepted type, so that every `add_node`/`report_*_sm` combination of lines 76-92 occurs.
- One unaccepted node first, so that node indices and storage indices differ from list positions.
- `MaxInd = 1`: a delivery can land on any list at any point of the registration and removal loops.

- Two switches, each connected or not at start, and one host on each. `QueueDevice` is the second switch. This way the survey's race (a switch connecting after GET /devices), the KeyError of line 43 and both outcomes of the queue POST all occur.

For the activation script:

- Three devices, so that the device loop is re-entered twice.
- A host list that is empty or holds one host.
- All four POST outcomes.

The xApp and the activation script end, so their runs set `CHECK_DEADLOCK FALSE`.

### Fairness

The Python thread never blocks except in REST calls and sleeps, so each loop action is weakly fair.

GET /packets is only enabled between sleeps. Its success is therefore strongly fair (`SF_vars(PollOk)`). This is an assumption about the controller, not the code: it eventually answers 200.

The controller, the switches and the hosts get no fairness.

The xApp's run checks only safety and the refinement, so it assumes no fairness.

## 4. Proofs

### ReactiveL3Proofs

All proofs assume only `ConstantsAssumption`.

- `TypeCorrect`: `Spec => []TypeOK`. It rests on lemmas about the resolver:
  - `FirstIndexIn`: the minimum of a non-empty set of naturals, by well-founded induction.
  - `ResolveSound`: a returned port is the first location of a host of the address, on the device.
  - `ResolveType`.
- `OutputSound`: `Spec => []RuleOutputSound`. `RuleOutputSound` alone is not inductive: an install step needs to know that `outPort` was sound when it was resolved. The inductive invariant `OutputInv` adds:
  - `LocationsRecorded`: the current locations are in the history;
  - `ResolvedSound`: in state "install", the resolved port is a recorded location of the destination on the packet's device.

  TLC checks `OutputInv` on the reactive_safety instance.
- `ClearedFirst`: `Spec => []ClearedBeforePoll`. It rests on `StartupInv`, which adds that during the startup loop the devices still to clear and those cleared make up all listed devices. Without it, `ListenStart` (guarded only by `toClear = {}`) could not conclude `cleared = Devices`.

- `Implementation`: `Spec => ImplementsFlowTables`. Its argument:
  - `RefInit`: the initial states map to `FlowTables!Init`. The initial history lies in `IPs \X Loc` by `HostPairsType`.
  - `RefStep`: every step between states of `RefInv` is a FlowTables step or a stutter. `RefInv` joins `OutputInv`, `StartupInv` and `ClearOnce`. `ClearOnce` says that before GET /devices nothing is cleared, and during the startup loop no device still to clear was cleared already. So `ClearFlows` meets the guard of `Clear`. `StartupInv` gives the guard of `Listen`. `ResolvedSound` gives `Sound` for the installed rule.
  - `OutputInit` and `OutputStep` are the two halves of `OutputSound`, stated as lemmas so that both theorems use them.

`FlowTables` proves `TablesStaySafe` for the abstract promise, through its type invariant: listening comes only after every device was cleared, successfully cleared tables hold no stale rule, and every fresh rule is `Sound`.

### ActivateL3Proofs

These proofs hold for every device list (duplicates included), set of host lists and set of outcomes allowed by `ActivateAssumption`.

- `TypeCorrect`: `Spec => []TypeOK`. `TypeOK` is strengthened by `TypeInv`: before GET /hosts the host index is still 1, so the list that GET /hosts installs keeps it in range.
- `Posted`: `Spec => []AllPosted`. The inductive invariant `PostInv` says that in the POST loops the sent POSTs are exactly `PostedUpTo(dIdx, pIdx)`:
  - everything for the devices before `dIdx`;
  - the first `pIdx` flows of device `dIdx` (`MatchOf` numbers them, 0 being the baseline).

  Before the device loop nothing is posted and both indexes are at their start. Lemma `PostedExtend` shows that adding the pair just posted gives `PostedUpTo` of the next index: the next flow, or flow 0 of the next device.

  A POST that is accepted or rejected moves to the next flow or device. One that raises ends the script, which never reaches "done". At "done", `dIdx` is past the list and `pIdx = 0`, so every pair of `DevSet \X Matches` has been posted.

### HostResolveProofs

- `AgreesWithSpec`: `Spec => []ResolveAgreesWithSpec` on the MCHostResolve specification. Whenever `resolve_out_port` does not raise, it returns the port spec.md 4.2 prescribes. This holds for every host list of any length, every destination address and every origin device. It assumes two things:
  - every location list has at most one location;
  - no address belongs to two hosts (`DistinctIPs`).

  Both assumptions are needed. The resolve_dual_homed run shows the two lookups disagreeing for a host on two devices. With a shared address, the code and the spec pick different holders.

  `Next` changes nothing, so `Init` is itself the inductive invariant. The work is in lemma `ResolveSingleHomed`:
  - by `HolderUnique`, at most one host carries the address;
  - then the case split on that host's only location (none, on the origin, elsewhere) gives the same port both ways;
  - a holder with no location makes the code raise `IndexError`, which the theorem excludes.

### XAppProofs

These proofs hold for every list of node types (`XAppAssumption`).

- `TypeCorrect`: `Spec => []TypeOK`, for every topology and node list. `TypeOK` alone is not inductive. `TypeInv` splits it into the survey's part (`SurveyType`) and the E2 part (`E2Type`), and adds three facts:
  - while a node registers, `node` is a node index, so `node_handlers[node]` is defined;
  - once the registration loop starts, the node list is not empty (the assert of line 59), so `Wake` can read `node_handlers[0]`;
  - during removal, `rmNode` is a node index.

  The host loop's place stays in range by `NextReportedIn`: the least position from `i` on, found by `NatSetMin` (well-foundedness of `<` on `Nat`). `E2Frame` and `SurveyFrame` show that each half is left alone by the other half's steps.

  The model keeps the host loop as a position in `HostLocs` plus the devices ONOS knew at GET /hosts. It does not keep the filtered list: `SelectSeq` is opaque to the prover. Both forms give the same 6701 states on xapp_callbacks.
- `Released`: `Spec => []HandlersReleased`. The inductive invariant `ReleaseInv` says:
  - every live subscription was recorded in `node_handlers` when it was made (`RecordedFrom(0)`);
  - during the removal loop, every live subscription is one the loop has still to reach (`StillToRemove`: the rest of the current node's keys and the records of later nodes).

  When the loop passes the last node, nothing is left, so `live` is empty at `try_stop`.
- `NoKeyError`: `Spec => []NoCallbackError`. The inductive invariant `CallbackInv` says:
  - every live subscription has its list in the storage (`Stored`);
  - before and during a node's registration, all live subscriptions belong to earlier nodes (or to it). So the `add_node` of line 78, 86 or 90, which replaces the node's entry, never strands one;
  - what is still to register is among the lists `add_node` created (`RegistrationsStored`).

  A delivery then always finds its list.

- `Implementation`: `Spec => ImplementsRegistry`. Its argument:
  - the initial state maps to `Registry!Init`;
  - `StepRefines` shows that each step, between two states satisfying `ReleaseInv` and `CallbackInv`, is a registry step or a stutter of `<<live, Stored, Phase>>`;
  - lemmas `AddNodeStored` and `DeliverStored` give `Stored` after `add_node` and after a delivery;
  - `CallbackInv` supplies the guard of `Open`: the node being visited has no subscription;
  - `ReleaseInv` supplies the guard of `Stop`: nothing is live at `try_stop`.
- `SurveyFrame`: the survey steps and `SwitchConnects` leave the E2 state unchanged, so the survey is a stutter for every invariant.

`SubscriptionRegistry` proves `RegistrySafe`: the registry never holds a subscription without a list, and holds none once stopped.

TLC checks both invariants on the xapp_callbacks instance.

Some results stay with TLC only:

- Liveness (`SupportedPacketHandled`), which needs fairness and ENABLED.
- What the resolver computes on dual-homed hosts or shared addresses. There the two lookups differ, and TLC's counterexample shows how.
- The comparison of the `/flows` survey with the spec.md reference (`ParsedAsSpec`). It is a violation run: the property is false, and TLC's counterexample is the result.

## 5. Not modelled

- The priority and the literal JSON of a rule.
- Printing.
- topology.py: the data classes, `print_device_info`, and `get_topology`, which is never called.
- The SWIG helpers of xapp_functs.py (`print_swig_members`, `is_swig`, `safe_get`, `safe_repr`).

- `handler_cleanup` (xapp_functs.py): xapp_test.py never calls it.
- The statistics values an indication carries: only their arrival is modelled.
