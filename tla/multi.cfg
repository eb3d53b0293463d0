SPECIFICATION Spec
CONSTANTS
  Entries <- BothEntries
  MaxParts = 3
  NScales = 4
INVARIANTS GatedValid 
CHECK_DEADLOCK FALSE
