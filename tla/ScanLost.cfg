\* A killed run, then a clean one: what the baseline comment promises.
SPECIFICATION Spec
CONSTANTS
  f1 = f1
  f2 = f2
  bad = bad
  weak = weak
  r1 = r1
  r2 = r2
  None = None
  Files = {f1, f2}
  Contents = {bad, weak}
  Severity <- MCSeverity
  Scans = {r1, r2}
  Faults = {"kill"}
  MaxParallel = 1
  MaxEdits = 1
CHECK_DEADLOCK FALSE
INVARIANT
  CompletedScanCoversWalk
