SPECIFICATION Spec
CONSTANTS
  Inputs <- Unlisted
INVARIANTS NoFalseNegatives
CHECK_DEADLOCK FALSE
