\* Two CLI processes on one port, three subprocesses in all.
SPECIFICATION FairSpec
CONSTANTS
  clA = clA
  clB = clB
  k1 = k1
  k2 = k2
  None = None
  Clients = {clA, clB}
  Callers = {k1, k2}
  ClientOf <- OneCallerEach
  Procs = {1, 2, 3}
CHECK_DEADLOCK FALSE
INVARIANTS
  TypeOK
  NoOrphan
  ExclusiveStop
  CrashFlagHonest
PROPERTIES
  StopReapsProcess
  StopTerminates
  ForeignServerNoticed
  KilledServerNoticed
