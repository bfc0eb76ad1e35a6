SPECIFICATION Spec
CONSTANTS
  Pids = {p1}
  Addrs = {a, b}
  Nets = {{a}, {a, b}}
  NoAddr = NoAddr
  Names = {n1}
  Profiles = {{"DenyNetwork", "ReadOnlyFS"}, {"write"}, {"network"}}
  Limit = 2
  Window = 1
  MaxBlocks = 2
INVARIANTS NoWayPast RefusedOnEvidence BurstBound
