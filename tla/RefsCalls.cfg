SPECIFICATION Spec
CONSTANTS
  x = x  y = y  z = z  c = c  d = d  k1 = k1  k2 = k2
  Keys = {x, y, z}
  Cids = {c, d}
  Callers = {k1, k2}
  Allowed = {"put", "remove", "edit", "crash"}
SYMMETRY MCSymmetry
CONSTRAINT SomeCidUnraced
INVARIANTS IInv Protected NoLeak Resumable
