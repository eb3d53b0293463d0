SPECIFICATION Spec
CONSTANTS
  Inputs <- OneRing
  Tunings <- GridOnly
INVARIANTS AcceptedIsSimple
CHECK_DEADLOCK FALSE
