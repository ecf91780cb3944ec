CONSTANTS
  PacketSize = 3
  BlockSize = 9
  MaxSyncs = 3
  CounterMod = 4
  Sent = 5
  HoleSizes = {0, 2, 4}
  PCR_BASE_MAX = 64
  TicksPerMs = 2
  ValidTicks = 8
  ResetTime = 6
  BytesPerMs = 2
  TimeSteps = {0, 2, 7}
  NoPcr = NoPcr
  Inputs <- MCInputs
SPECIFICATION Spec
INVARIANTS
  Intact
  DropsAreCounted
  FileIsRecorded
PROPERTIES
  KeepsPace
