SPECIFICATION FairSpec
CONSTANTS
  h1 = h1  h2 = h2  h3 = h3  h4 = h4  p1 = p1  p2 = p2
  Handle = {h1, h2}
  NoFile = NoFile
  Idle = Idle
  Prefix = {p1}
  BlockFrames = 2
  MaxData = 3
  SyncFrames = 2
  TimeMod = 8
  Reach = 1
  FirstFrame = 6
  LastFrame = 12
  Faults = {"card", "scan"}
PROPERTIES
  
  
  WaitEnds
  
