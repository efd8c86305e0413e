SPECIFICATION Spec
CONSTANTS
  Programs <- TestPrograms
  BugsFor <- TestBugs
INVARIANTS
  TypeOK
  NoFalseAlarm
  FindsBug
  NoUndefined
  NothingLeft
PROPERTY
  Ends
