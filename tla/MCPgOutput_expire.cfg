SPECIFICATION Spec
CONSTANTS
  MaxPgOverlap = 2
  NModules = 3
  Asks <- WithSilentModule
  MaxAsk = 1
  Forceclosing = {1}
  MaxClients = 4
  Overlap = 0
  OutputDelay = 0
  CloseDelay = 0
  LastOutputDelay = 0
  LastCloseDelay = 0
PROPERTIES
  NothingReadAfterExpire
