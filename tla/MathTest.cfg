SPECIFICATION Spec
CONSTANTS
  Normal = 8
  CheckInexact = "no"
  Drivers <- AllDrivers
  Calls <- SmallCalls
  MaxVectors = 2
CHECK_DEADLOCK FALSE
INVARIANTS
  TypeOK
  RightVerdict
  UlperrIsDistance
