CONSTANTS
  build1 = build1
  build2 = build2
  watch = watch
  Process = {build1, build2, watch}
  Pid <- OfUnequalLength
  NoPid = NoPid
  Absent = Absent
  PidReuse = TRUE
SPECIFICATION Spec
SYMMETRY ProcessSymmetry
INVARIANTS
  TypeOK
  AtMostOneHolder
PROPERTIES
  LockedByAnother
  UnparsableOnlyWhileWritten
