SPECIFICATION Spec
CONSTANTS
  Entries <- BothEntries
  Methods <- AllMethods
  Keeps = {TRUE, FALSE}
  NScales = 2
INVARIANTS TypeOK OnlyGateErrs OnlyOwnedRebuildUnwinds FiniteAnswers WindingNormalised
CHECK_DEADLOCK FALSE
