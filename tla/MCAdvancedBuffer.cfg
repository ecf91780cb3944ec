\* One downstream and a long stream: partial writes, skips, close points, room
\* made in advance.
SPECIFICATION FairSpec
CONSTANTS
  MaxDownstreams = 1
  BufSize = 8
  Align = 3
  Options <- PipeOrNoBlock
  InputSizes = {3}
  ClearSizes = {0, 4}
  Backwards = {0, 3}
  MaxTotal = 12
INVARIANTS
  TypeOK
  StaysInBuffer
  AccountBalances
  PacketsWhole
PROPERTIES
  ImplementsTap
  ClosingCloses
