CONSTANTS
  a = a
  b = b
  c = c
  Module = {a, b}
  MlMap = {}
  WithInterface = {a}
  MaxEdits = 2
  Kills = FALSE
  HalfFailures = {}
  Deletions = FALSE
SPECIFICATION BuildSpec
INVARIANTS
  UpToDateAfterSuccess
  WarningsAreShownAgain
