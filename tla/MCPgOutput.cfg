SPECIFICATION FairSpec
CONSTANTS
  MaxPgOverlap = 2
  NModules = 2
  Asks <- FileAndPipes
  MaxAsk = 2
  Forceclosing = {1}
  MaxClients = 5
  Overlap = 1
  OutputDelay = 1
  CloseDelay = 1
  LastOutputDelay = 0
  LastCloseDelay = 1
INVARIANTS
  SlotsAgree
  OwnsDownstream
  TypeOK
  CountsAgree
  HandlersHaveClients
PROPERTIES
  DisconnectsOnlyTheLate
  ShutdownEnds
  ProgrammesEnd
