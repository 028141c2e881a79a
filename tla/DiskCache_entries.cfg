SPECIFICATION Spec
CONSTANTS
  Slot = {e1, e2}
  NoSlot = none
  LastSector = 3
  MaxRead = 3
  MaxWrite = 2
  MaxWrites = 2
  Faults = {"read", "write"}
SYMMETRY Symmetry
INVARIANTS
  Coherent
  NoDuplicate
  SingleReadReturnsDisk
