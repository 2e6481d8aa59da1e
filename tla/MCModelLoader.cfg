\* two inputs after each other, over cyclic and acyclic graphs
CONSTANTS
  d1 = d1  d2 = d2  d3 = d3  x1 = x1  i1 = i1  s1 = s1  m1 = m1  e1 = e1
  Fidl = {i1}  Fdepl = {d1, d2, d3, x1}  SpecFiles = {s1}  Missing = {m1}  Empty = {e1}
  Fragile = {x1}  NoFile = NoFile
  ImportGraphs <- AllGraphs
  Keywords = {"int"}
  Contents <- SomeContents
  MaxRuns = 2  MaxDepth = 8
SPECIFICATION MCFairSpec
CHECK_DEADLOCK FALSE
INVARIANT LoadedOnce
INVARIANT LoadedIsNeeded
INVARIANT SuffixedOnce
PROPERTY LoadEnds
PROPERTY ImplementsClosure
