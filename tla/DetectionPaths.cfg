\* Five workers' worth of findings through a channel of capacity 2.
SPECIFICATION FairSpec
CONSTANTS
  taint = taint
  opengrep = opengrep
  s1 = s1
  s2 = s2
  None = None
  Findings = {1, 2, 3, 4, 5, 6, 7}
  Workers = {taint, opengrep, s1, s2}
  PathOf <- MCPathOf
  Found <- MCFound
  Crypto <- MCCrypto
  Analysis <- MCAnalysis
  Cap = 2
INVARIANTS
  NothingLostOnSuccess
  CloseAfterLastSend
PROPERTIES
  StageEnds
  ImplementsGather
