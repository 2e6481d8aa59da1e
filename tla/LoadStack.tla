------------------------------ MODULE LoadStack ------------------------------
(***************************************************************************)
(* The nested calls of a loadModel() that calls itself for every import:   *)
(* a sequence of frames, the innermost last, each with the file it loads   *)
(* and the position of its import iterator.                                *)
(***************************************************************************)
EXTENDS ImportGraph, Descent

Frames == [file : Readable, next : Nat \ {0}]
Frame(f) == [file |-> f, next |-> 1]

Top(s) == s[Len(s)]
HasNext(g, s) == s # <<>> /\ Top(s).next <= Len(g[Top(s).file])
ImportAt(g, s) == g[Top(s).file][Top(s).next]

(* Mutants: the iterator is not advanced, or twice. *)
AdvanceNot(s) == s
AdvanceTwice(s) == [s EXCEPT ![Len(s)].next = @ + 2]

Advance(s) == [s EXCEPT ![Len(s)].next = @ + 1]
Pop(s) == SubSeq(s, 1, Len(s) - 1)

FilesOf(s) == {s[i].file : i \in 1 .. Len(s)}

(* The imports that a call has dealt with so far are in L. *)
Done(g, fr) == {g[fr.file][i] : i \in 1 .. fr.next - 1}

DoneIn(g, s, L) ==
  \A i \in 1 .. Len(s) :
    Done(g, s[i]) \subseteq L /\ s[i].next <= Len(g[s[i].file]) + 1

(* What each of up to n nested calls has left to do: imports, and the return. *)
Left(g, s, n) ==
  [i \in 1 .. n |-> IF i <= Len(s) THEN Len(g[s[i].file]) + 2 - s[i].next ELSE 0]
=============================================================================
