\* run() with either kind of timeout, and two dispatch sources of different
\* priority, or a watch and a timeout
CONSTANTS
  s1 = s1  s2 = s2  w1 = w1  t1 = t1  t2 = t2
  Sources = {s1,s2}  Watches = {w1}  Timeouts = {t1}  TimedSources = {}
  Prio <- MCPrio
  Clients = {c1}  Loop = loop  WakeFd = wakeFd  None = None
  Modes = {"run", "runFinite"}
  MaxEntries = 1  MaxRounds = 0  MaxData = 1
SPECIFICATION MCSpec
INVARIANT FlaggedNotPolled
INVARIANT FiresOnce
INVARIANT WatchHasEvent
PROPERTY UnregisteredFreed
PROPERTY DataServed
PROPERTY DueFires
PROPERTY StopHonoured
PROPERTY WakeupServes
CHECK_DEADLOCK FALSE
