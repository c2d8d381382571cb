\* The reasoning path over two surfaces with four rounds of tool calls.
SPECIFICATION FairSpec
CONSTANTS
  MaxToolCalls = 4
  Tools = {"get_callers", "get_neighbours"}
  Bogus = "made_up"
  s1 = s1
  s2 = s2
  Surfaces <- MCSurfaces
  Shapes <- MCShapes
  Confidences <- MCConfidences
  None = None
INVARIANTS
  UninvestigatedNeverDecides
  BlockNeedsTwoAngles
  EveryViolationReportedOnce
  SafeNeedsProof
PROPERTY ReasoningEnds
