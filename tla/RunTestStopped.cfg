SPECIFICATION Spec
CONSTANTS
  Statuses = {0, 1, 2}
  CanStop = TRUE
  JobControl = FALSE
PROPERTIES
  AlwaysFinishes
