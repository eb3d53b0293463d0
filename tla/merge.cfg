SPECIFICATION Spec
CONSTANT Lists <- AllLists
INVARIANTS CancelsInPairs SinglyCoveredKept EvenOddWhenSafe ValidAreaKept
PROPERTIES MergeEnds
CHECK_DEADLOCK FALSE
