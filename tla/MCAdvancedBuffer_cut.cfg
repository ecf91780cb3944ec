\* A downstream is cut off in the middle of a packet.
SPECIFICATION Spec
CONSTANTS
  MaxDownstreams = 1
  BufSize = 8
  Align = 3
  Options <- OnlyPipe
  InputSizes = {3}
  ClearSizes = {0}
  Backwards = {0}
  MaxTotal = 9
INVARIANTS
  WriteIsAligned
