SPECIFICATION Spec
CONSTANTS
  Slot = {e1, e2}
  NoSlot = none
  LastSector = 2
  MaxRead = 2
  MaxWrite = 1
  MaxWrites = 1
  Faults = {}
SYMMETRY Symmetry
INVARIANTS
  ReadReturnsDisk
