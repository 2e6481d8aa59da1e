CONSTANTS
  t1 = t1  t2 = t2  g1 = g1
  Setters = {t1, t2}  Getters = {g1}
  Values = {0, 1, 2}  Valid = {0, 1}  Initial = 0
  Torn = Torn  NoThread = NoThread  Wide = TRUE  MaxCalls = 2
SPECIFICATION FairSpec
CHECK_DEADLOCK FALSE
INVARIANT WritersExclusive
INVARIANT ChangeAnnounced
INVARIANT GetterSeesWhole
PROPERTY ImplementsContract
PROPERTY CallsReturn
