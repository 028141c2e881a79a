SPECIFICATION FairSpec
CONSTANTS
  n1 = n1  n2 = n2
  Node = {n1, n2}
  QueueSize = 2
  StartDelay = 1
  TimeMod = 4
  CmdSeqMod = 8
  MaxCmds = 2
  LastPkt = 0
  Faults = {"late", "codec", "node"}
PROPERTIES
  StopReachesAll
