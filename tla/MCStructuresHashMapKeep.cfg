SPECIFICATION MCSpec
CONSTANTS
  Subjects = {"hash map"}
  Value = {v, w}
  Consumer = {t1, t2, t3}
  NoValue = NoValue
  MaxLen = 4
  Node = {1, 2, 3, 4, 5}
  Universes <- TwoUniverses
  MaxDeps = 2
  Queue = {q, r}
  Element = {v, w}
  Cell = {c1, c2, c3, c4}
  Nothing = Nothing
  k1 = k1
  k2 = k2
  k3 = k3
  k4 = k4
  Key = {k1, k2, k3, k4}
  Val = {v, w}
  Hash <- HashOf
  MinBuckets = 1
  SignBit = 8
  KeepSeveral = TRUE
  Missing = Missing
  SortInputs <- Inputs
  SearchKeys = {0, 1, 2, 3}
  Undefined = Undefined
  MutElement <- Elements
  MutArrays <- Arrays
  MutMaxSize = 9
  DictElement <- Elements
  DictArrays <- Arrays
  DictMaxSize = 9
INVARIANTS EntriesAreTheBindings
CHECK_DEADLOCK FALSE
