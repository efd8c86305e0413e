SPECIFICATION Spec
CONSTANTS
  Threads = {t1, t2, t3}
  Phases = 3
  Main = Main
  NoOne = NoOne
  Spurious = TRUE
INVARIANTS
  TypeOK
  ByPermission
  DefinedUse
  SuccessIsReal
PROPERTIES
  AlwaysExits
  ImplementsBarrier
  Passes
