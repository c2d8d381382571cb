\* A build on a server that may hang, die, refuse or garble at any point.
SPECIFICATION FairSpec
CONSTANTS
  MaxAttempts = 2
  Faults = {"die", "transport", "refuse", "quiet"}
  NoGraph = NoGraph
INVARIANTS
  BuiltGraphIsNew
PROPERTIES
  FailsForCause
  ScriptEnds
