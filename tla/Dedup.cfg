\* Up to three reports per scan out of ten, any number of scans.
SPECIFICATION Spec
CONSTANTS
  Reports <- MCReports
  MaxReports = 3
  Automatable = TRUE
  AutoReason = "none"
  AckReason = "user_acknowledged"
  None = None
INVARIANTS
  OrderIrrelevant
  CorroborationNeverLowers
  NeverOverstated
PROPERTIES
  ChangedVerdictLands
