CONSTANTS
  build1 = build1
  build2 = build2
  watch = watch
  Process = {build1, build2, watch}
  Pid <- OfUnequalLength
  NoPid = NoPid
  Absent = Absent
  PidReuse = FALSE
SPECIFICATION Spec
SYMMETRY ProcessSymmetry
PROPERTY RefusalNamesACommand
