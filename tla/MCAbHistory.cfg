\* The history over three ticks, one recording, a buffer that may be overrun, and a
\* clock that is set back once.
SPECIFICATION HSpec
CONSTANTS
  MaxDownstreams = 3
  BufSize = 7
  Align = 2
  Options <- OnlyNoBlock
  InputSizes = {2}
  ClearSizes = {0}
  Backwards = {}
  MaxTotal = 8
  Resolution = 2
  Overlap = 5
  MaxTick = 3
  MaxSetBacks = 1
INVARIANTS
  HistoryKept
  CoversOverlap
  BeginsOnPacket
