\* Two files, two runs that overlap or follow each other, with the faults of each manner.
SPECIFICATION RunsSpec
CONSTANTS
  f1 = f1
  f2 = f2
  bad = bad
  weak = weak
  r1 = r1
  r2 = r2
  None = None
  Files = {f1, f2}
  Contents = {bad, weak}
  Severity <- MCSeverity
  Scans = {r1, r2}
  Faults = {"kill", "signal", "db", "detector", "reasoning", "unreadable"}
  MaxParallel = 2
  MaxEdits = 1
SYMMETRY Symmetry
CHECK_DEADLOCK FALSE
INVARIANTS
  TypeOK
  NoSilentLoss
  QuietScanHeals
  VerdictIsCurrent
PROPERTIES
  CleanExitIsRecorded
  CommitMirrorsWalk
