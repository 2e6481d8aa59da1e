---------------------------- MODULE ImportClosure ----------------------------
(***************************************************************************)
(* What the callers of the two loaders rely on: asked for a file, a loader *)
(* answers with the models of exactly the readable files the file needs,   *)
(* unless something the file needs makes it give up.                       *)
(***************************************************************************)
EXTENDS ImportGraph

VARIABLES
  graph,   \* what the files import
  asked,   \* the file that is being loaded
  models   \* the interface and deployment models handed out

Init == graph \in [Files -> Seq(Files)] /\ asked = NoFile /\ models = {}

Ask(r) ==
  /\ asked = NoFile /\ models = {}
  /\ asked' = r
  /\ UNCHANGED <<graph, models>>

Answer ==
  /\ asked # NoFile
  /\ models' = Needed(graph, asked) \cap (Fidl \cup Fdepl)
  /\ asked' = NoFile
  /\ UNCHANGED graph

GiveUp ==
  /\ asked # NoFile /\ Needed(graph, asked) \cap (Missing \cup Empty \cup Fragile) # {}
  /\ asked' = NoFile
  /\ UNCHANGED <<graph, models>>

Discard ==
  /\ asked = NoFile
  /\ models' = {}
  /\ UNCHANGED <<graph, asked>>

Next == (\E r \in Readable : Ask(r)) \/ Answer \/ GiveUp \/ Discard

Spec == Init /\ [][Next]_<<graph, asked, models>>
=============================================================================
