SPECIFICATION FairSpec
CONSTANTS
  r = r  a = a  b = b  w1 = w1  w2 = w2  k1 = k1  k2 = k2
  Cids = {r, a}
  Pins = {r, a}
  Callers = {k1}
  Workers = {w1}
  Limit = 3
  Stored = {}
  Allowed = {"pin", "abort"}
  Links <- PairLinks
PROPERTIES Downloaded
CHECK_DEADLOCK FALSE
