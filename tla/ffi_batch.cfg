SPECIFICATION Spec
CONSTANTS
  MaxItems = 3
  MaxFrees = 3
  w1 = w1
  w2 = w2
  Workers <- Pool
INVARIANTS TypeOK OutcomeInPlace FreedOnce NothingElseLeft
PROPERTIES CallReturns
CHECK_DEADLOCK FALSE
