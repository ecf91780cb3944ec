SPECIFICATION FairSpec
CONSTANTS
  MaxPipecmds = 2
  MaxCmds = 2
  Followed <- SomeLines
  MaxProgs = 1
  MaxPids = 3
  MaxFds = 2
  MaxExec = 2
  LimitSec = 1
  KillSec = 0
  PrecloseSec = 0
  CloseSec = 0
INVARIANTS
  TypeOK
  ChildrenAreHeld
  PipesOverAtPostclose
PROPERTIES
  KillsOnlyTheAsked
  ShutdownEnds
