SPECIFICATION Spec
CONSTANTS
  QueueSize = 2
  StartDelay = 3
  TimeMod = 8
  CmdSeqMod = 16
  MaxCmds = 2
  LastPkt = 9
  Faults = {"adv", "central"}
INVARIANTS
  StateFollowsCommands
  PairingIsExclusive
  QueueLatency
  StartExpires
PROPERTIES
  BootReleaseIgnored
  StartAnnouncedAhead
