\* The controller reports ipv4Packet.protocol as a number (spec.md 3, 6).
CONSTANTS
  d1 = d1
  d2 = d2
  p1 = p1
  p2 = p2
  a = a
  b = b
  N6 = N6
  N47 = N47
  Devices = {d1, d2}
  Ports = {p1, p2}
  IPs = {a, b}
  WireProtos = {N6, N47}
  ProtoNum <- NumberProtos
  Packets <- MCPackets
  HostIPs <- MCHostIPs
  LocChoices <- OneLoc
  PrevRules <- MCPrevRules
  MaxPending = 1
  MaxMoves = 1
  RaiseErrors = FALSE
SPECIFICATION Spec
PROPERTY SupportedPacketHandled
