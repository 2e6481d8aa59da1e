\* three or four types, one of them possibly of another collection
CONSTANTS
  a = a  b = b  c = c  d = d
  Types = {a, b, c, d}
  TypeGraphs <- AllGraphs
  Collections <- Lists
SPECIFICATION FairSpec
CHECK_DEADLOCK FALSE
INVARIANT DeclaredInOrder
INVARIANT VerdictIsRight
PROPERTY SortEnds
