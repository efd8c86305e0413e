SPECIFICATION Spec
CONSTANTS
  Dir = Dir
  Setups <- Sessions
INVARIANTS
  TypeOK
  PassIsReal
  NoInterference
  DynStaticExclusive
PROPERTIES
  RunReruns
  SessionsEnd
