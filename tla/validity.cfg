SPECIFICATION Spec
CONSTANTS
  Inputs <- AllInputs
INVARIANTS AcceptedIsValid ValidAccepted PartsDisjoint
PROPERTY CycleVerdict
CHECK_DEADLOCK FALSE
