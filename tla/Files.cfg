SPECIFICATION MCSpec

CONSTANTS
  Chosen = {"files", "queue", "revs", "keys", "write", "json", "size", "port"}
  XBeginsY = FALSE
  dir = dir
  f = f
  hold = hold
  holder = holder
  x = x
  y = y
  w1 = w1
  Worker = Worker
  Paths <- MCPaths
  Under <- MCUnder
  Above <- MCAbove
  PlaceHolder <- MCPlaceHolder
  Writers <- MCWriters
  MaxOps = 4
  MaxCrashes = 2
  Allowed = {"put", "delete"}
  StrategyOf <- MCStrategyOf
  Default = "log"
  Intervals <- MCIntervals
  PerInterval = 1
  Spans <- MCSpans
  PerSpan = 2
  Start = 64
  End = 112
  MaxPause = 2
  Version = "r"
  FilePaths <- KeyPaths
  Asked <- KeyAsked
  Longer <- KeyLonger
  Authors = {"a", "b"}
  Numbers = {0, 1}
  Cids = {"c1", "c2"}
  MaxChanges = 3
  None = None
  Top = 4
  Codecs = {"dag-pb", "dag-json", "raw", "unknown"}
  JsonKeys <- MCJsonKeys
  JsonNodes <- MCNodes
  Rank <- MCRank
  MaxRank = 20
  Disks <- MCDisks
  Imports = {1, 2}
  Sources <- MCSources
  Targets <- MCTargets
  NameOf <- MCNameOf
  Off = Off

INVARIANTS VersionsDistinct HistoryLeft KeysDecode ExportWhole Reaches JsonDecoded AllCounted RoundTrip
PROPERTIES SequenceFollows DirectoryStays

\* Every operation was asked for and has ended; everything has been read, counted, written or exported.
CHECK_DEADLOCK FALSE
