SPECIFICATION NodeSpec
CONSTANTS
  MgrFaults = {"call"}
  Card = {"a", "b"}
  SdFaults = {"init", "info", "mount", "scan"}
  BlockCount = 4
  BlockMod = 9
  AudioFaults = {"trigger", "stall", "restart"}
  CodecFaults = {"codec_i2c", "codec_save"}
  Conn = {"c1", "c2"}
  MaxFd = 5
  FtpFaults = {}
INVARIANTS
  
  
  CardFollowsSlot
  BlocksGetTheirTime
  
  FdsOwned
PROPERTIES
  CoroutineYields
CHECK_DEADLOCK FALSE
