----------------------------- MODULE MCActivateL3 -----------------------------
(* Activate_L3_flows.py against a network of three devices. *)
EXTENDS ActivateL3

MCDeviceIds == <<"of:1", "of:2", "of:3">>

(* No host (the host loop is empty and the script reaches its POSTs), or *)
(* one host on the first device.                                          *)
MCHostLists == {<< >>, << <<"of:1">> >>}

(* Every answer a REST call may give. *)
MCAnyOutcome == {"ok", "rejected", "raised", "raisedLate"}

(* A controller that answers every call and accepts every rule. *)
MCAllOk == {"ok"}
=============================================================================
