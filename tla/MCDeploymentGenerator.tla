------------------------ MODULE MCDeploymentGenerator ------------------------
(* Import graphs for DeploymentGenerator.  The order of the imports does not *)
(* matter to it: one sequence for each set of imports.                       *)
EXTENDS DeploymentGenerator, SequencesExt

CONSTANTS d1, d2, d3, s1, i1, i2, i3

ImportsOf(S) == {SetToSeq(T) : T \in SUBSET S}

Graph(a, b, c, i) ==
  [f \in Files |-> CASE f = d1 -> a [] f = d2 -> b [] f = d3 -> c [] f = i1 -> i
                     [] OTHER -> <<>>]

(* Diamonds of deployments, interfaces that several deployments or another   *)
(* interface import, a specification.                                        *)
AcyclicGraphs ==
  {Graph(a, b, c, i) :
     a \in ImportsOf({d2, d3, i1, s1}), b \in ImportsOf({d3, i1, i2}),
     c \in ImportsOf({i2, i3}), i \in ImportsOf({i2})}

(* Deployments that import each other or themselves, and those that do not. *)
CyclicGraphs ==
  {Graph(a, b, c, <<>>) :
     a \in ImportsOf({d2, d3, i1}), b \in ImportsOf({d1, d2, i2}), c \in ImportsOf({i2})}

AllGraphs == AcyclicGraphs \cup CyclicGraphs
=============================================================================
