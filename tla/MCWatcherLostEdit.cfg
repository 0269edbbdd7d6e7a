SPECIFICATION WatchSpec
CONSTANTS
  a = a
  b = b
  Source = {a, b}
  warning = warning
  good = good
  syntaxError = syntaxError
  typeError = typeError
  none = none
  Text = {good, warning, syntaxError, typeError}
  Unparsable = {syntaxError}
  Warned = {warning}
  Untypable = {typeError}
  None = none
  EditsWhileParsed = TRUE
  OldFilesMoved = FALSE
  SilentFailures = FALSE
  MaxChanges = 2
INVARIANTS
  FullScanFindsChanges
CHECK_DEADLOCK FALSE
