CONSTANTS
  Devices = {d1, d2}
  Ports = {p1, p2}
  IPs = {a, b}
  LocChoices <- DualLocs
  DistinctIPs = TRUE
  MaxHosts = 2
SPECIFICATION Spec
INVARIANT ResolveAgreesWithSpec
