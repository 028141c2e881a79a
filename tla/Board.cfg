SPECIFICATION FairSpec
CONSTANTS
  Faults = {"bq"}

  
  
PROPERTIES
  
  ButtonSwitchesOff
