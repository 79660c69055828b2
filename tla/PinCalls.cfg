SPECIFICATION Spec
CONSTANTS
  r = r  a = a  b = b  w1 = w1  w2 = w2  k1 = k1  k2 = k2
  Cids = {r, a}
  Pins = {r}
  Callers = {k1, k2}
  Workers = {w1,w2}
  Limit = 3
  Stored = {}
  Allowed = {"pin", "unpin", "pinLocal", "abort", "crash"}
  Links <- PairLinks
SYMMETRY BothSymmetry
INVARIANTS IInv UnpinClean
CONSTRAINT SomePinUnraced
