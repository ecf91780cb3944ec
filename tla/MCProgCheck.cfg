SPECIFICATION FairSpec
CONSTANTS
  MaxEvents = 2
  Versions = {0, 1}
  FirstHour = 1
  LastHour = 3
  MaxBreaks = 1
  Streams <- EventsOrTime
  MaxPgOverlap = 2
  ReadyRetries = 2
  SiRetries = 1
  PcrRetries = 0
  TotRetries = 0
INVARIANTS
  TypeOK
  RecordsWhatItKnows
PROPERTIES
  SplitsOnlyOnNews
  HourlyOnce
  HourlySplits
  FollowsBroadcast
