SPECIFICATION Spec
CONSTANTS
  Entries <- Borrowed
  Methods <- AllMethods
  Keeps <- NeverKeep
  NScales = 4
INVARIANTS ValidInputKept CertifiedIsInput
PROPERTIES ImplementsContract
CHECK_DEADLOCK FALSE
