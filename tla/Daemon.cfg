SPECIFICATION DaemonFairSpec

CONSTANTS
  GroupIds = {g1, g2}
  Config <- ConfigOne
  Clients = {c1}
  Starter = starter
  MaxStops = 2
  MaxCrashes = 1
  MaxFails = 1
  MaxUploads = 2

INVARIANTS JoinedServed ServedIsStored StartsKnown
PROPERTY ConfigServed
