SPECIFICATION LegacySpec
CONSTANTS
  watcher = watcher
  builder = builder
  d1 = d1
  d2 = d2
  none = none
  stale = stale
  Command = {watcher, builder}
  Watchers = {watcher}
  Dir = {d1, d2}
  Absent = none
  Stale = stale
  Unwatched = FALSE
  QuickScans = FALSE
  MaxChanges = 3
INVARIANTS
  LegacyTypeOK
  EveryChangeIsRead
  LockIsNotLeftBehind
PROPERTIES
  Settles
