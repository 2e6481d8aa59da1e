------------------------------- MODULE Descent -------------------------------
(* The order in which the work that a recursion or a nest of loops has left  *)
(* becomes less: tuples of numbers, what is left of the outermost loop first. *)
(* No sequence of them of one length descends for ever.                      *)
EXTENDS Naturals

Precedes(v, w) ==
  \E i \in DOMAIN w : v[i] < w[i] /\ \A j \in DOMAIN w : j < i => v[j] = w[j]
=============================================================================
