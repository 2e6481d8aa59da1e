--------------------------- MODULE MCTwoThreadLoop ---------------------------
(* TwoThreadLoop on two sources, a watch and a timeout. *)
EXTENDS TwoThreadLoop
CONSTANTS s1, s2, w1, t1
==============================================================================
