\* Selection and attribution on a chain, a cycle and a deep call graph.
SPECIFICATION AttributionSpec
CONSTANTS
  Methods <- MCMethods
  Graphs <- MCGraphs
  Bound <- MCBound
  TestFile = {}
  AuthNamed = {2}
  IDORNamed = {1, 3, 4}
  HasDB = TRUE
  MaxLostRows = 1
  Flows <- MCFlows
  InternalParam = {"rs"}
  InternalNode = {"buf"}
  LongFlow = 2
  MaxTaintPaths = 4
  NameOf <- MCName
  Vulnerable <- MCVulnerable
  MaxBlind = 1
  Workers = 2
INVARIANTS
  SurfacesOnPaths
  AttributionIsUnambiguous
  ConfirmedSinksKept
PROPERTY
  AttributionEnds
