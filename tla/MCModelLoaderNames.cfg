\* deployments of methods with equal argument names
CONSTANTS
  d1 = d1  d2 = d2  d3 = d3  x1 = x1  i1 = i1  s1 = s1  m1 = m1  e1 = e1
  Fidl = {i1}  Fdepl = {d1, d2, d3, x1}  SpecFiles = {}  Missing = {}  Empty = {}
  Fragile = {x1}  NoFile = NoFile
  ImportGraphs <- FragileGraphs
  Keywords = {"int"}
  Contents <- SomeContents
  MaxRuns = 2  MaxDepth = 12
SPECIFICATION MCSpec
CHECK_DEADLOCK FALSE
INVARIANT SameNameAccepted
