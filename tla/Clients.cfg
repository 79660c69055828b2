SPECIFICATION MCFairSpec

CONSTANTS
  a = a
  b = b
  h1 = h1
  h2 = h2
  None = None
  Null = Null
  Undefined = Undefined
  NoList = NoList
  Thrown = Thrown
  Failed = Failed
  Conns <- MCConns
  Requests <- MCRequests
  SignalOf <- MCSignalOf
  Modulus = 2
  Handlers <- MCHandlers
  Paths <- MCPaths
  Directories <- MCDirectories
  NamePrefix <- MCNamePrefix
  At = Undefined
  MaxTime = 3
  Calls = {c1, c2, c3}
  Timed = {c1, c2}
  Cids = {1, 2}

INVARIANTS MethodsAborted ListedIsFound WantsAreWaitedFor
PROPERTIES CallsEnd CatchesUp

\* All clients are gone.
CHECK_DEADLOCK FALSE
