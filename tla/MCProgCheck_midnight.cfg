SPECIFICATION Spec
CONSTANTS
  MaxEvents = 1
  Versions = {0}
  FirstHour = 22
  LastHour = 25
  MaxBreaks = 0
  Streams <- TimeOnly
  MaxPgOverlap = 3
  ReadyRetries = 1
  SiRetries = 1
  PcrRetries = 0
  TotRetries = 0
PROPERTY HourlyOnce
