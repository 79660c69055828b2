SPECIFICATION MCFairSpec

CONSTANTS
  a = a
  b = b
  p1 = p1
  p2 = p2
  Ops = {o1, o2, o3}
  Failing = {o1, o2}
  MaxCrashes = 2
  Nothing = Nothing
  Paths = {a, b}
  MaxVersion = 4
  MaxFaults = 1
  ReadsLatest = TRUE
  Allowed = {"delete", "edit", "crash"}
  Heads <- MCHeads
  Links <- MCLinks
  RootOf <- MCRootOf
  Position <- MCPosition
  Priority <- MCPriority
  Slots = 2
  Available <- MCAvailable

INVARIANTS SyncedIsPinned OneEach IInv
PROPERTIES ChangesFollow Completes PromiseKept AllFinish
