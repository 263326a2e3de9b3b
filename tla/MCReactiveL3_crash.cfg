\* REST calls that raise, hosts without a location.
CONSTANTS
  d1 = d1
  d2 = d2
  p1 = p1
  p2 = p2
  a = a
  b = b
  N6 = N6
  N47 = N47
  Devices = {d1, d2}
  Ports = {p1, p2}
  IPs = {a, b}
  WireProtos = {"TCP", "GRE"}
  ProtoNum <- NameProtos
  Packets <- MCPackets
  HostIPs <- MCHostIPs
  LocChoices <- OneLocOrNone
  PrevRules <- MCPrevRules
  MaxPending = 2
  MaxMoves = 1
  RaiseErrors = TRUE
SPECIFICATION Spec
INVARIANT NoCrash
CHECK_DEADLOCK FALSE
