SPECIFICATION Spec
CONSTANTS
  Statuses = {0, 1, 2}
  CanStop = TRUE
  JobControl = TRUE
INVARIANTS
  TypeOK
  ReportIsRight
  KillsRightly
PROPERTIES
  NoLostChld
  FinishesUnlessStopped
  ImplementsVerdict
