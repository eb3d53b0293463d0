SPECIFICATION Spec
CONSTANTS
  Payloads <- Mixed
  MaxNesting = 3
  MaxCollection = 1
  MaxWrites = 1
INVARIANTS ReadBack SizeExact RepairedCollections
CHECK_DEADLOCK FALSE
