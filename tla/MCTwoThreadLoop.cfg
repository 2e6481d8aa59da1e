\* any two of: the source that reports the service, another one, a watch, a timeout
CONSTANTS
  s1 = s1  s2 = s2  w1 = w1  t1 = t1
  Sources = {s1, s2}  Watches = {w1}  Timeouts = {t1}
  Avail = s1  None = None
  MaxObjects = 2  MaxQueue = 2  MaxData = 1
SPECIFICATION FairSpec
INVARIANT NoUseAfterFree
INVARIANT RoundsExclusive
INVARIANT TearDownNeverStuck
PROPERTY ImplementsContract
PROPERTY Served
PROPERTY TearDownEnds
CHECK_DEADLOCK FALSE
