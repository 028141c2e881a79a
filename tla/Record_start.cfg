SPECIFICATION Spec
CONSTANTS
  h1 = h1  h2 = h2  h3 = h3  h4 = h4  p1 = p1  p2 = p2
  Handle = {h1, h2}
  NoFile = NoFile
  Idle = Idle
  Prefix = {p1, p2}
  BlockFrames = 2
  MaxData = 12
  SyncFrames = 2
  TimeMod = 8
  Reach = 2
  FirstFrame = 6
  LastFrame = 14
  Faults = {"io", "codec", "power"}
SYMMETRY HandleSymmetry
INVARIANTS
  NoRecordingTruncated
  LossBounded

  
