SPECIFICATION Spec
CONSTANTS
  Largest = 15
  SmallN = 5
  FewK = 3
  Ratio = 3
  MinLen = 4
  Calls <- SmallCalls
CHECK_DEADLOCK FALSE
INVARIANTS
  TypeOK
  ChoosesUnique
  Uniform
PROPERTY
  Ends
