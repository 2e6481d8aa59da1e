--------------------------- MODULE MCStubAttribute ---------------------------
(* Threads for StubAttribute. *)
EXTENDS StubAttribute

CONSTANTS t1, t2, g1
=============================================================================
