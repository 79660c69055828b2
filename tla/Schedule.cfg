SPECIFICATION Spec

CONSTANTS
  Daemons = {d1, d2}
  MaxEntry = 3

INVARIANT AddedIsListed

\* There are no more entries.
CHECK_DEADLOCK FALSE
