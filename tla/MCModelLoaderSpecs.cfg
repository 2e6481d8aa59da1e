\* deployments and a specification in a cycle
CONSTANTS
  d1 = d1  d2 = d2  d3 = d3  x1 = x1  i1 = i1  s1 = s1  m1 = m1  e1 = e1
  Fidl = {i1}  Fdepl = {d1, d2}  SpecFiles = {s1}  Missing = {}  Empty = {e1}
  Fragile = {}  NoFile = NoFile
  ImportGraphs <- SpecificationGraphs
  Keywords = {"int"}
  Contents <- NoContents
  MaxRuns = 1  MaxDepth = 12
SPECIFICATION NamesSpec
CHECK_DEADLOCK FALSE
INVARIANT NoStackOverflow
