SPECIFICATION WatchSpec
CONSTANTS
  a = a
  b = b
  Source = {a, b}
  warning = warning
  good = good
  syntaxError = syntaxError
  typeError = typeError
  none = none
  Text = {good, syntaxError, typeError}
  Unparsable = {syntaxError}
  Warned = {}
  Untypable = {typeError}
  None = none
  EditsWhileParsed = TRUE
  OldFilesMoved = TRUE
  SilentFailures = TRUE
  MaxChanges = 2
INVARIANTS
  WatchTypeOK
  NothingForgotten
  
PROPERTIES
  ComesToRest
  StopsWhenTold
CHECK_DEADLOCK FALSE
