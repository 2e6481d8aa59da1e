------------------------------ MODULE MCTypeOrder ------------------------------
(* A collection of three types with one type of another collection, and a     *)
(* collection of all four, over every way in which they may refer to at most  *)
(* two of each other.                                                         *)
EXTENDS TypeOrder

CONSTANTS a, b, c, d

RefersTo(S, n) == {SetToSeq(T) : T \in {T \in SUBSET S : Cardinality(T) <= n}}

AllGraphs ==
  {[t \in Types |-> CASE t = a -> p [] t = b -> q [] t = c -> r [] OTHER -> s] :
     p, q, r \in RefersTo({a, b, c, d}, 2), s \in RefersTo({a, b, c, d}, 1)}

Lists == {<<a, b, c>>, <<a, b, c, d>>}
=============================================================================
