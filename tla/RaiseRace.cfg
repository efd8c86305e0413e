CONSTANTS
  Programs <- RaiseRaceOnly
  BugsFor <- TestBugs
  Again <- NoTest
  Actors = {1, 2, 3, 4}
SPECIFICATION Spec
PROPERTY RaiseRaceFinishes
