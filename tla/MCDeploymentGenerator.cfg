CONSTANTS
  d1 = d1  d2 = d2  d3 = d3  s1 = s1  i1 = i1  i2 = i2  i3 = i3
  Fidl = {i1, i2, i3}  Fdepl = {d1, d2, d3}  SpecFiles = {s1}  Missing = {}  Empty = {}
  Fragile = {}  NoFile = NoFile
  ImportGraphs <- AllGraphs
  MaxDepth = 4
SPECIFICATION FairSpec
CHECK_DEADLOCK FALSE
INVARIANT OutputIsDeployed
INVARIANT NoStackOverflow
PROPERTY GenerationEnds
