SPECIFICATION Spec
CONSTANTS
  Inputs <- AllInputs
  Tunings <- AllTunings
INVARIANTS RunsValid PathsAgree
CHECK_DEADLOCK FALSE
