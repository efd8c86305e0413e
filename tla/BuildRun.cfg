SPECIFICATION Spec
CONSTANTS
  Dir = Dir
  Setups <- RunSessions
PROPERTIES
  RunReruns
