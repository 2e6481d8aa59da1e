-------------------------- MODULE MCStandaloneLoader --------------------------
(* Import graphs and rejected files for StandaloneLoader.                    *)
EXTENDS StandaloneLoader

CONSTANTS d1, d2, d3, i1, m1, m2, e1

(* The sequences over S without repetition of at most n elements. *)
Imports(S, n) ==
  {q \in UNION {[1 .. k -> S] : k \in 0 .. n} : \A j, k \in DOMAIN q : q[j] = q[k] => j = k}

(* Cycles, a missing file, a missing specification, a file without contents. *)
CyclicGraphs ==
  {[f \in Files |-> CASE f = d1 -> a [] f = d2 -> b [] f = d3 -> c [] OTHER -> <<>>] :
     a \in Imports({d2, m2}, 2), b \in Imports({d1, d3, i1, m1}, 2), c \in Imports({d2, e1}, 2)}

(* A validator objects to no file, to one, or to two. *)
FewInvalid == {{}, {i1}, {d2, d3}}
=============================================================================
