SPECIFICATION Spec
CONSTANTS
  n1 = n1  n2 = n2
  Node = {n1, n2}
  QueueSize = 2
  StartDelay = 1
  TimeMod = 4
  CmdSeqMod = 4
  MaxCmds = 2
  LastPkt = 0
  Faults = {"ipc", "set", "central", "node"}
SYMMETRY NodeSymmetry
INVARIANTS
  HeardIsTakenUntilRestart
PROPERTIES
  KeepsPromise
