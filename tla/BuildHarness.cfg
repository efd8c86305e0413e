SPECIFICATION Spec
CONSTANTS
  Dir = Dir
  Setups <- NoHarness
INVARIANTS
  PassIsReal
