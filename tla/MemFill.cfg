SPECIFICATION Spec
CONSTANTS
  Pages = 6
  Start = 16
  Powers = {2, 4, 8, 16}
  Reserves = {0, 2}
INVARIANTS
  TypeOK
  FillsAll
  RightVerdict
PROPERTY
  Ends
