SPECIFICATION Spec
CONSTANTS
  Projects = {p1, p2}
  Files = {f1, f2}
  Contents = {c1, c2}
  None = None
  Torn = Torn
  Default = Default
  WithID = {}
  Faults = {"db", "joern", "crash"}
  MaxScans = 3
  MaxEdits = 1
SYMMETRY Symmetry
INVARIANTS
  TypeOK
  RecordedBuildComplete
  BackendsAgree
  ErrorHasCause
CHECK_DEADLOCK FALSE
