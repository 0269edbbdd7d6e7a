CONSTANTS
  a = a
  b = b
  c = c
  Module = {a, b}
  MlMap = {}
  WithInterface = {}
  MaxEdits = 2
  Kills = TRUE
  HalfFailures = {}
  Deletions = TRUE
SPECIFICATION BuildSpec
SYMMETRY Symmetry
INVARIANTS
  BuildTypeOK
  RepairedButForDeletions
  ParsedBeforeCompiled
