CONSTANTS
  n1 = n1
  n2 = n2
  Names <- MCNames
  Existing <- MCExisting
  Ranges <- MCRanges
  SlotLength <- MCSlotLength
  SlotCount <- MCSlotCount
  Initially = "7d"
  PageSize = 1
  MaxTime = 1
  MaxRows = 3
  MaxInputs = 3
  MaxLoads = 2
  None = None
SPECIFICATION Spec
INVARIANTS
  TypeOK
  
  
PROPERTIES
  LogIsSeen
\* The log and the clicks are bounded.
CHECK_DEADLOCK FALSE
