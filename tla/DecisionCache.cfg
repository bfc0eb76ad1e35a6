SPECIFICATION CacheSpec
CONSTANTS
  Keys = {k1, k2, k3}
  Results = {allow, deny}
  MaxSize = 2
  TTL = 2
  MaxTime = 4
INVARIANTS CapacityBound
PROPERTIES EvictsOnlyOldest ImplementsStore
