\* Two projects scanned without an ID, nothing fails and nothing is edited.
SPECIFICATION Spec
CONSTANTS
  Projects = {p1, p2}
  Files = {f1, f2}
  Contents = {c1, c2}
  None = None
  Torn = Torn
  Default = Default
  WithID = {}
  Faults = {}
  MaxScans = 2
  MaxEdits = 0
SYMMETRY Symmetry
INVARIANTS
  OwnGraph
CHECK_DEADLOCK FALSE
