------------------------------ MODULE MCMainLoop ------------------------------
(* Small instances of MainLoop for TLC. *)
EXTENDS MainLoop

CONSTANTS s1, s2, w1, t1, t2

(* s2 is more urgent than s1; everything else has one priority. *)
MCPrio == [o \in Objects |-> IF o = s2 THEN 0 ELSE 1]
\* Sources are registered, or a watch and a timeout, when the loop's timeout is
\* finite; one of the kinds when it is infinite.  So one run holds instances
\* that are each small enough for the liveness properties.
Concerned == registered \cup freed \cup ({call[t].obj : t \in Threads} \ {None})
Finite == pc = "off" \/ mode = "runFinite"
SmallInstance ==
  \/ Concerned \subseteq Sources /\ Finite
  \/ Concerned \subseteq Watches \cup Timeouts /\ Finite
  \/ Concerned \subseteq Watches \/ Concerned \subseteq Timeouts
MCNext ==
  \/ \E t \in Threads : (BeginCall(t) /\ SmallInstance') \/ FinishCall(t)
  \/ (EnterLoop /\ SmallInstance') \/ LoopStep \/ Environment
MCSpec == Init /\ [][MCNext]_vars /\ Fairness
===============================================================================
