SPECIFICATION FairSpec

CONSTANTS
  me = me
  p1 = p1
  p2 = p2
  d1 = d1
  d2 = d2
  None = None
  Ended = Ended

PROPERTIES FirstArrives Arrives
