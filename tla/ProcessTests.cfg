CONSTANTS
  Programs <- TestPrograms
  BugsFor <- TestBugs
  Again <- Shared
  Actors = {1, 2, 3, 4}
SPECIFICATION Spec
INVARIANTS TypeOK RightVerdict NothingLeft
PROPERTY Finishes
