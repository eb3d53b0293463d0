SPECIFICATION EngineSpec
CONSTANTS
  Polygons <- Mixed
  MaxRounds = 4
INVARIANTS EvenOddLevels NoFaceLeft SizeIndependent LabelsAlternate ArrangedEvenOdd
CHECK_DEADLOCK FALSE
