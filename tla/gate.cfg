SPECIFICATION Spec
CONSTANTS
  Inputs <- AllRings
  Tunings <- AllTunings
INVARIANTS NoPathStrays ValidatorExact WindingIsArea
CHECK_DEADLOCK FALSE
