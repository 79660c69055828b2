SPECIFICATION CalmSpec
CONSTANTS
  r = r  a = a  b = b  w1 = w1  w2 = w2  k1 = k1  k2 = k2
  Cids = {r, a, b}
  Pins = {r, a}
  Callers = {k1, k2}
  Workers = {w1, w2}
  Limit = 3
  Stored = {}
  Allowed = {"pin", "abort"}
  Links <- DiamondLinks
PROPERTIES Arrives Converges
CHECK_DEADLOCK FALSE
