CONSTANTS
  d1 = d1  d2 = d2  d3 = d3  i1 = i1  m1 = m1  m2 = m2  e1 = e1
  Fidl = {i1}  Fdepl = {d1, d2, d3}  SpecFiles = {}  Missing = {m1, m2}  Empty = {e1}
  Fragile = {}  NoFile = NoFile
  IgnoredSpecs = {m2}
  ImportGraphs <- CyclicGraphs
  InvalidSets <- FewInvalid
SPECIFICATION FairSpec
CHECK_DEADLOCK FALSE
INVARIANT NoReentry
INVARIANT VerdictIsRight
PROPERTY VerdictReached
PROPERTY ImplementsClosure
