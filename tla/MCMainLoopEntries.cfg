\* every entry point, twice, with a source and a timeout
CONSTANTS
  s1 = s1  s2 = s2  w1 = w1  t1 = t1  t2 = t2
  Sources = {s1}  Watches = {}  Timeouts = {t1}  TimedSources = {s1}
  Prio <- MCPrio
  Clients = {c1}  Loop = loop  WakeFd = wakeFd  None = None
  Modes = {"run", "single", "both", "watches", "sources", "nothing"}
  MaxEntries = 2  MaxRounds = 1  MaxData = 2
SPECIFICATION Spec
INVARIANT NoUseAfterFree
INVARIANT LateDispatchBound
PROPERTY ImplementsContract
CHECK_DEADLOCK FALSE
