\* Safety with every failure the code can meet: REST calls that fail or
\* raise, hosts without a location, hosts moving, rules expiring.
CONSTANTS
  d1 = d1
  d2 = d2
  p1 = p1
  p2 = p2
  a = a
  b = b
  N6 = N6
  N47 = N47
  Devices = {d1, d2}
  Ports = {p1, p2}
  IPs = {a, b}
  WireProtos = {"TCP", "GRE"}
  ProtoNum <- NameProtos
  Packets <- MCSafetyPackets
  HostIPs <- MCHostIPs
  LocChoices <- OneLocOrNone
  PrevRules <- MCPrevRules
  MaxPending = 2
  MaxMoves = 1
  RaiseErrors = TRUE
SPECIFICATION Spec
INVARIANT TypeOK
INVARIANT ClearedBeforePoll
INVARIANT RuleOutputSound
PROPERTY ImplementsFlowTables
\* The process exits on an uncaught exception: it really may stop.
CHECK_DEADLOCK FALSE
