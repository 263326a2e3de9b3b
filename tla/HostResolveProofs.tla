--------------------------- MODULE HostResolveProofs ---------------------------
(***************************************************************************)
(* resolve_out_port (Reactive_L3.py 49-57) agrees with the lookup of       *)
(* spec.md 4.2 on every host list, of any length, in which no address     *)
(* belongs to two hosts and no host has more than one location.  Both      *)
(* conditions are needed: the resolve_dual_homed run shows a host on two  *)
(* devices, and two hosts sharing an address also tell the two apart.     *)
(***************************************************************************)
EXTENDS MCHostResolve, SequenceTheorems, TLAPS

(* The index FirstIndex picks from a one-element set. *)
LEMMA FirstIndexSingleton ==
    ASSUME NEW i \in Nat
    PROVE  FirstIndex({i}) = i
<1>1. \E x \in {i} : \A j \in {i} : x <= j
    OBVIOUS
<1>2. QED
    BY <1>1 DEF FirstIndex

(* A location list of at most one location that is not empty has one. *)
LEMMA OneLocation ==
    ASSUME NEW s \in Seq(Loc), s # << >>, Len(s) <= 1
    PROVE  Len(s) = 1
<1>1. Len(s) \in Nat \ {0}
    BY EmptySeq
<1>2. QED
    BY <1>1

(* The hosts that carry the address, in a list where no address is       *)
(* shared, are at most one.                                               *)
LEMMA HolderUnique ==
    ASSUME NEW hs \in Seq(Host), NEW addr, IPsDistinct(hs),
           NEW i \in 1..Len(hs), addr \in hs[i].ipAddresses
    PROVE  {k \in 1..Len(hs) : addr \in hs[k].ipAddresses} = {i}
BY DEF IPsDistinct

(* The lookup on one host list: when resolve_out_port does not raise, its *)
(* port is the one spec.md 4.2 gives.                                      *)
LEMMA ResolveSingleHomed ==
    ASSUME NEW hs \in Seq(Host), NEW addr, NEW origin,
           \A k \in 1..Len(hs) : Len(hs[k].locations) <= 1,
           IPsDistinct(hs),
           ~ResolveRaises(hs, addr, origin)
    PROVE  ResolveOutPort(hs, addr, origin) = SpecResolve(hs, addr, origin)
<1> DEFINE H == {k \in 1..Len(hs) : addr \in hs[k].ipAddresses}
           D == Deciding(hs, addr, origin)
           holders == {k \in Cached(hs) : addr \in hs[k].ipAddresses}
<1>1. D \subseteq H /\ holders \subseteq H
    BY DEF Deciding, Decides, Cached
<1>2. CASE H = {}
    <2>1. D = {} /\ holders = {}
        BY <1>1, <1>2
    <2>2. QED
        BY <2>1 DEF ResolveOutPort, SpecResolve
<1>3. CASE H # {}
    <2>1. PICK i \in 1..Len(hs) : addr \in hs[i].ipAddresses
        BY <1>3
    <2>2. H = {i}
        BY <2>1, HolderUnique
    <2>3. hs[i] \in Host
        OBVIOUS
    <2>4. hs[i].locations \in Seq(Loc) /\ Len(hs[i].locations) <= 1
        BY <2>3 DEF Host
    <2>5. CASE hs[i].locations = << >>
        <3>1. D = {i}
            BY <1>1, <2>1, <2>2, <2>5 DEF Deciding, Decides
        <3>2. FirstIndex(D) = i
            BY <3>1, FirstIndexSingleton
        <3>3. ResolveRaises(hs, addr, origin)
            BY <2>5, <3>1, <3>2 DEF ResolveRaises
        <3>4. QED
            BY <3>3
    <2>6. CASE hs[i].locations # << >> /\ hs[i].locations[1].elementId = origin
        <3>1. D = {i}
            BY <1>1, <2>1, <2>2, <2>6 DEF Deciding, Decides
        <3>2. FirstIndex(D) = i
            BY <3>1, FirstIndexSingleton
        <3>3. ResolveOutPort(hs, addr, origin) = hs[i].locations[1].port
            BY <3>1, <3>2 DEF ResolveOutPort
        <3>4. holders = {i}
            BY <1>1, <2>1, <2>2, <2>6 DEF Cached
        <3>5. FirstIndex(holders) = i
            BY <3>4, FirstIndexSingleton
        <3>6. Len(hs[i].locations) = 1
            BY <2>4, <2>6, OneLocation
        <3>7. {k \in 1..Len(hs[i].locations) : hs[i].locations[k].elementId = origin} = {1}
            BY <2>6, <3>6
        <3>8. FirstIndex({1}) = 1
            BY FirstIndexSingleton
        <3>9. SpecResolve(hs, addr, origin) = hs[i].locations[1].port
            BY <3>4, <3>5, <3>7, <3>8 DEF SpecResolve
        <3>10. QED
            BY <3>3, <3>9
    <2>7. CASE hs[i].locations # << >> /\ hs[i].locations[1].elementId # origin
        <3>1. D = {}
            BY <1>1, <2>2, <2>7 DEF Deciding, Decides
        <3>2. ResolveOutPort(hs, addr, origin) = NoPort
            BY <3>1 DEF ResolveOutPort
        <3>3. holders = {i}
            BY <1>1, <2>1, <2>2, <2>7 DEF Cached
        <3>4. FirstIndex(holders) = i
            BY <3>3, FirstIndexSingleton
        <3>5. Len(hs[i].locations) = 1
            BY <2>4, <2>7, OneLocation
        <3>6. {k \in 1..Len(hs[i].locations) : hs[i].locations[k].elementId = origin} = {}
            BY <2>7, <3>5
        <3>7. SpecResolve(hs, addr, origin) = NoPort
            BY <3>3, <3>4, <3>6 DEF SpecResolve
        <3>8. QED
            BY <3>2, <3>7
    <2>8. QED
        BY <2>5, <2>6, <2>7
<1>4. QED
    BY <1>2, <1>3

(* resolve_out_port returns what spec.md 4.2 prescribes whenever it does   *)
(* not raise, for every host list of any length whose hosts have at most  *)
(* one location each and share no address, every destination and every   *)
(* origin device.                                                          *)
THEOREM AgreesWithSpec ==
    ASSUME LocChoices \subseteq {ls \in Seq(Loc) : Len(ls) <= 1},
           DistinctIPs = TRUE
    PROVE  Spec => []ResolveAgreesWithSpec
<1>1. Init => ResolveAgreesWithSpec
    <2> SUFFICES ASSUME Init, ~ResolveRaises(hosts, ip, dev)
                 PROVE  ResolveOutPort(hosts, ip, dev) = SpecResolve(hosts, ip, dev)
        BY DEF ResolveAgreesWithSpec
    <2>1. PICK n \in 1..MaxHosts : hosts \in [1..n -> HostChoices]
        BY DEF Init
    <2>2. HostChoices \subseteq Host
        BY DEF HostChoices, Host
    <2>3. hosts \in Seq(Host) /\ Len(hosts) = n
        BY <2>1, <2>2
    <2>4. \A k \in 1..Len(hosts) : Len(hosts[k].locations) <= 1
        BY <2>1, <2>3 DEF HostChoices
    <2>5. IPsDistinct(hosts)
        BY DEF Init
    <2>6. QED
        BY <2>3, <2>4, <2>5, ResolveSingleHomed
<1>2. Init /\ [Next]_vars => Init'
    <2> SUFFICES ASSUME Init, UNCHANGED vars PROVE Init'
        BY DEF Next
    <2>1. hosts' = hosts /\ ip' = ip /\ dev' = dev
        BY DEF vars
    <2>2. QED
        BY <2>1, Zenon DEF Init
<1>3. QED
    BY <1>1, <1>2, PTL DEF Spec
=============================================================================
