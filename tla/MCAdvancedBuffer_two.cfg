\* Two downstreams that take everything they are offered and are busy
\* afterwards: one falls behind while the other keeps up; slots are freed
\* and taken again.
SPECIFICATION Spec
CONSTANTS
  MaxDownstreams = 2
  BufSize = 5
  Align = 2
  Options <- OnlyOverlapped
  InputSizes = {2}
  ClearSizes = {0}
  Backwards = {2}
  MaxTotal = 6
INVARIANTS
  CountedInUse
PROPERTIES
  DropsOnlyTheOverflow
