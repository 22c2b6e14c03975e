SPECIFICATION Spec
CONSTANTS
  Clients = {c1, c2}
  Keys <- CollidingKeys
  Values = {v1, v2, v3, v4}
  NoValue = NoValue
  Capacities = {0, 1, 2}
  InitialCapacity = 2
  MaxBatch = 2
SYMMETRY Symmetry
INVARIANTS
  Accounting
  ProbesReach
  LocksHoldValues
PROPERTY ImplementsPinnedCache
