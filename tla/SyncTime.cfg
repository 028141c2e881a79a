SPECIFICATION Spec
CONSTANTS
  SeqMod = 4
  Timeout = 2
  Reports = 1
  LastPkt = 12
  Faults = {"loss", "crc", "ipc"}
CHECK_DEADLOCK FALSE
INVARIANTS
  
  LastAdvTime
PROPERTIES
  EveryPairSampled
