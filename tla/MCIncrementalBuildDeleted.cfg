CONSTANTS
  a = a
  b = b
  c = c
  Module = {a, b}
  MlMap = {}
  WithInterface = {}
  MaxEdits = 2
  Kills = FALSE
  HalfFailures = {}
  Deletions = TRUE
SPECIFICATION BuildSpec
INVARIANT RepairedByNextRun
