CONSTANTS
  a = a
  b = b
  c = c
  Module = {a, b, c}
  MlMap = {c}
  WithInterface = {a}
  MaxEdits = 2
SPECIFICATION Spec
INVARIANTS
  TypeOK
  StaleIsDirty
  SuccessLeavesNothingStale
  NoReadWhileWritten
  CycleWhenStuck
PROPERTIES
  CompileEnds
