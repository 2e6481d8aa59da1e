---------------------------- MODULE LoadStackProofs ----------------------------
(* Facts about import graphs and about nested calls: those of loadModel()    *)
(* that the proofs about both loaders rest on, and what the generator's      *)
(* recursion over the same graphs takes from them.                           *)
EXTENDS LoadStack, SequenceTheorems, WellFoundedInduction, TLAPS

(* What a file imports are files. *)
LEMMA ImportedFiles ==
  ASSUME NEW g \in [Files -> Seq(Files)], NEW f \in Files
  PROVE  Imported(g, f) \subseteq Files
<1>1. g[f] \in Seq(Files)  OBVIOUS
<1>2. \A i \in 1 .. Len(g[f]) : g[f][i] \in Files  BY <1>1
<1> QED  BY <1>2 DEF Imported

(* A file needs itself. *)
LEMMA NeededRoot ==
  ASSUME NEW g, NEW r \in Files
  PROVE  r \in Needed(g, r)
BY DEF Needed

(* What is needed by something that r needs, r needs. *)
LEMMA NeededClosed ==
  ASSUME NEW g \in [Files -> Seq(Files)], NEW r \in Files, NEW f \in Needed(g, r)
  PROVE  Imported(g, f) \subseteq Needed(g, r)
<1> SUFFICES ASSUME NEW h \in Imported(g, f)  PROVE h \in Needed(g, r)
  OBVIOUS
<1>1. f \in Files /\ h \in Files
  BY ImportedFiles DEF Needed
<1>2. ASSUME NEW S \in SUBSET Files, r \in S, Closed(g, S)
      PROVE  h \in S
  <2>1. f \in S  BY <1>2 DEF Needed
  <2> QED  BY <2>1, <1>2 DEF Closed
<1> QED  BY <1>1, <1>2 DEF Needed

(* Nothing is needed but what is in every closed set with r. *)
LEMMA NeededLeast ==
  ASSUME NEW g, NEW r \in Files, NEW S \in SUBSET Files, r \in S, Closed(g, S)
  PROVE  Needed(g, r) \subseteq S
BY DEF Needed

(* The files that cannot be loaded have no imports. *)
LEMMA UnreadableLeaf ==
  ASSUME NEW g \in ImportGraphs, NEW f \in Missing \cup Empty
  PROVE  Imported(g, f) = {}
<1>1. g[f] = <<>>  BY ImportGraphAssumption
<1> QED  BY <1>1 DEF Imported

-----------------------------------------------------------------------------
(* The innermost call, while there is one. *)
LEMMA TopFrame ==
  ASSUME NEW s \in Seq(Frames), s # <<>>
  PROVE  /\ Len(s) \in Nat \ {0} /\ Top(s) \in Frames /\ Top(s) = s[Len(s)]
         /\ Top(s).file \in Readable /\ Top(s).next \in Nat \ {0}
         /\ Top(s).file \in FilesOf(s)
         /\ \A i \in 1 .. Len(s) : s[i] \in Frames /\ s[i].file \in Readable
<1>1. Len(s) \in Nat \ {0} /\ \A i \in 1 .. Len(s) : s[i] \in Frames  OBVIOUS
<1>2. Top(s) = s[Len(s)] /\ Len(s) \in 1 .. Len(s)  BY <1>1 DEF Top
<1> QED  BY <1>1, <1>2 DEF Frames, FilesOf

(* The import at hand is one of the innermost file's. *)
LEMMA ImportAtFile ==
  ASSUME NEW g \in [Files -> Seq(Files)], NEW s \in Seq(Frames), HasNext(g, s)
  PROVE  ImportAt(g, s) \in Imported(g, Top(s).file) /\ ImportAt(g, s) \in Files
<1>1. s # <<>> /\ Top(s).file \in Files /\ Top(s).next \in Nat \ {0}
  BY TopFrame DEF HasNext, Readable, Files
<1>2. g[Top(s).file] \in Seq(Files) /\ Len(g[Top(s).file]) \in Nat  BY <1>1
<1>3. Top(s).next \in 1 .. Len(g[Top(s).file])  BY <1>1, <1>2 DEF HasNext
<1> QED  BY <1>1, <1>2, <1>3 DEF ImportAt, Imported

(* Advancing the iterator of the innermost call changes no file. *)
LEMMA AdvanceStack ==
  ASSUME NEW s \in Seq(Frames), s # <<>>
  PROVE  /\ Advance(s) \in Seq(Frames) /\ Len(Advance(s)) = Len(s)
         /\ Advance(s) # <<>>
         /\ FilesOf(Advance(s)) = FilesOf(s)
         /\ \A i \in 1 .. Len(s) :
              /\ Advance(s)[i].file = s[i].file
              /\ Advance(s)[i].next = IF i = Len(s) THEN Top(s).next + 1 ELSE s[i].next
<1>1. Len(s) \in Nat \ {0} /\ Top(s) \in Frames /\ Top(s) = s[Len(s)]
      /\ \A i \in 1 .. Len(s) : s[i] \in Frames
  BY TopFrame
<1> DEFINE fr == [file |-> Top(s).file, next |-> Top(s).next + 1]
<1>2. fr \in Frames  BY <1>1 DEF Frames
<1>3. [Top(s) EXCEPT !.next = @ + 1] = fr  BY <1>1 DEF Frames
<1>4a. Advance(s) = [s EXCEPT ![Len(s)] = [Top(s) EXCEPT !.next = @ + 1]]
  BY <1>1 DEF Advance
<1>4. Advance(s) \in Seq(Frames) /\ Len(Advance(s)) = Len(s) /\ Advance(s) # <<>>
  BY <1>1, <1>2, <1>3, <1>4a
<1>5. \A i \in 1 .. Len(s) :
        /\ Advance(s)[i].file = s[i].file
        /\ Advance(s)[i].next = IF i = Len(s) THEN Top(s).next + 1 ELSE s[i].next
  BY <1>1, <1>3, <1>4a
<1>6. FilesOf(Advance(s)) = FilesOf(s)  BY <1>4, <1>5 DEF FilesOf
<1> QED  BY <1>4, <1>5, <1>6

(* ... and what was dealt with grows by the import at hand. *)
LEMMA AdvanceDone ==
  ASSUME NEW g \in [Files -> Seq(Files)], NEW s \in Seq(Frames), HasNext(g, s),
         NEW L, NEW M, L \subseteq M, DoneIn(g, s, L), ImportAt(g, s) \in M
  PROVE  DoneIn(g, Advance(s), M)
<1> DEFINE t == Advance(s)
<1>1. s # <<>>  BY DEF HasNext
<1>2. Len(s) \in Nat \ {0} /\ Top(s) = s[Len(s)]
      /\ \A i \in 1 .. Len(s) : s[i] \in Frames
  BY <1>1, TopFrame
<1>3. Len(t) = Len(s)
      /\ \A i \in 1 .. Len(s) :
           /\ t[i].file = s[i].file
           /\ t[i].next = IF i = Len(s) THEN Top(s).next + 1 ELSE s[i].next
  BY <1>1, AdvanceStack
<1> HIDE DEF t
<1> SUFFICES ASSUME NEW i \in 1 .. Len(s)
             PROVE  Done(g, t[i]) \subseteq M /\ t[i].next <= Len(g[t[i].file]) + 1
  BY <1>3 DEF DoneIn, t
<1>4. Done(g, s[i]) \subseteq M /\ s[i].next <= Len(g[s[i].file]) + 1
  BY DEF DoneIn
<1>5. s[i].file \in Files /\ s[i].next \in Nat \ {0}
  BY <1>2 DEF Frames, Readable, Files
<1>6. CASE i # Len(s)
  <2>1. Done(g, t[i]) = Done(g, s[i])  BY <1>3, <1>6 DEF Done
  <2> QED  BY <2>1, <1>3, <1>4, <1>6
<1>7. CASE i = Len(s)
  <2>1. t[i].next = s[i].next + 1 /\ t[i].file = s[i].file  BY <1>2, <1>3, <1>7
  <2>2. Len(g[s[i].file]) \in Nat  BY <1>5
  <2>3. s[i].next <= Len(g[s[i].file]) /\ ImportAt(g, s) = g[s[i].file][s[i].next]
    BY <1>2, <1>7 DEF HasNext, ImportAt
  <2>4. \A k \in 1 .. t[i].next - 1 : k \in 1 .. s[i].next - 1 \/ k = s[i].next
    BY <2>1, <1>5
  <2>5. Done(g, t[i]) \subseteq M
    BY <2>1, <2>3, <2>4, <1>4 DEF Done
  <2> QED  BY <2>1, <2>2, <2>3, <2>5, <1>5
<1> QED  BY <1>6, <1>7

(* A new call adds its file and has dealt with nothing. *)
LEMMA PushStack ==
  ASSUME NEW s \in Seq(Frames), NEW f \in Readable
  PROVE  /\ Append(s, Frame(f)) \in Seq(Frames) /\ Append(s, Frame(f)) # <<>>
         /\ Len(Append(s, Frame(f))) = Len(s) + 1
         /\ \A i \in 1 .. Len(s) : Append(s, Frame(f))[i] = s[i]
         /\ Append(s, Frame(f))[Len(s) + 1] = Frame(f)
         /\ FilesOf(Append(s, Frame(f))) = FilesOf(s) \cup {f}
<1> DEFINE t == Append(s, Frame(f))
<1>1. Frame(f) \in Frames /\ Frame(f).file = f  BY DEF Frame, Frames
<1>2. t \in Seq(Frames) /\ t # <<>> /\ Len(t) = Len(s) + 1 /\ Len(s) \in Nat
      /\ (\A i \in 1 .. Len(s) : t[i] = s[i]) /\ t[Len(s) + 1] = Frame(f)
  BY <1>1
<1> HIDE DEF t
<1>3. \A i \in 1 .. Len(t) : i \in 1 .. Len(s) \/ i = Len(s) + 1  BY <1>2
<1>4. FilesOf(t) = FilesOf(s) \cup {f}  BY <1>1, <1>2, <1>3 DEF FilesOf
<1> QED  BY <1>2, <1>4 DEF t

LEMMA PushDone ==
  ASSUME NEW g \in [Files -> Seq(Files)], NEW s \in Seq(Frames), NEW f \in Readable,
         NEW L, NEW M, L \subseteq M, DoneIn(g, s, L)
  PROVE  DoneIn(g, Append(s, Frame(f)), M)
<1> DEFINE t == Append(s, Frame(f))
<1>1. Len(t) = Len(s) + 1 /\ Len(s) \in Nat /\ t[Len(s) + 1] = Frame(f)
      /\ \A i \in 1 .. Len(s) : t[i] = s[i]
  BY PushStack
<1> HIDE DEF t
<1> SUFFICES ASSUME NEW i \in 1 .. Len(t)
             PROVE  Done(g, t[i]) \subseteq M /\ t[i].next <= Len(g[t[i].file]) + 1
  BY DEF DoneIn, t
<1>2. CASE i \in 1 .. Len(s)
  <2>1. Done(g, s[i]) \subseteq M /\ s[i].next <= Len(g[s[i].file]) + 1
    BY <1>2 DEF DoneIn
  <2> QED  BY <2>1, <1>1, <1>2
<1>3. CASE i = Len(s) + 1
  <2>1. t[i].next = 1 /\ t[i].file = f  BY <1>1, <1>3 DEF Frame
  <2>2. Len(g[f]) \in Nat  BY DEF Readable, Files
  <2> QED  BY <2>1, <2>2 DEF Done
<1> QED  BY <1>1, <1>2, <1>3

(* A return takes the innermost file away, and nothing else. *)
LEMMA PopStack ==
  ASSUME NEW s \in Seq(Frames), s # <<>>
  PROVE  /\ Pop(s) \in Seq(Frames) /\ Len(Pop(s)) = Len(s) - 1
         /\ \A i \in 1 .. Len(s) - 1 : Pop(s)[i] = s[i]
         /\ FilesOf(s) = FilesOf(Pop(s)) \cup {Top(s).file}
<1>1. Len(s) \in Nat \ {0} /\ Top(s) = s[Len(s)]  BY TopFrame
<1>2. Pop(s) \in Seq(Frames) /\ Len(Pop(s)) = Len(s) - 1
      /\ \A i \in 1 .. Len(s) - 1 : Pop(s)[i] = s[i]
  <2>1. 1 \in Int /\ Len(s) - 1 \in Int /\ \A i \in 1 .. Len(s) - 1 : s[i] \in Frames
    BY <1>1
  <2>2. /\ Pop(s) \in Seq(Frames)
        /\ Len(Pop(s)) = IF 1 <= Len(s) - 1 THEN Len(s) - 1 - 1 + 1 ELSE 0
        /\ \A i \in 1 .. Len(s) - 1 - 1 + 1 : Pop(s)[i] = s[1 + i - 1]
    BY <2>1, SubSeqProperties DEF Pop
  <2>3. Len(s) - 1 - 1 + 1 = Len(s) - 1 /\ \A i \in 1 .. Len(s) - 1 : 1 + i - 1 = i
    BY <1>1
  <2>4. Len(Pop(s)) = Len(s) - 1
    <3>1. CASE 1 <= Len(s) - 1
      BY <3>1, <2>2, <2>3
    <3>2. CASE ~(1 <= Len(s) - 1)
      <4>0. \A n \in Nat \ {0} : ~(1 <= n - 1) => n = 1  OBVIOUS
      <4>1. Len(s) = 1  BY <4>0, <1>1, <3>2, Zenon
      <4>2. Len(Pop(s)) = 0  BY <2>2, <3>2
      <4> QED  BY <4>1, <4>2
    <3> QED  BY <3>1, <3>2
  <2>5. ASSUME NEW i \in 1 .. Len(s) - 1  PROVE Pop(s)[i] = s[i]
    BY <2>2, <2>3
  <2> QED  BY <2>2, <2>4, <2>5
<1>3. \A i \in 1 .. Len(s) : i \in 1 .. Len(s) - 1 \/ i = Len(s)  BY <1>1
<1>4. FilesOf(s) = FilesOf(Pop(s)) \cup {Top(s).file}
  <2>1. ASSUME NEW i \in 1 .. Len(s)
        PROVE  s[i].file \in FilesOf(Pop(s)) \cup {Top(s).file}
    <3>1. CASE i \in 1 .. Len(s) - 1
      <4>1. Pop(s)[i] = s[i] /\ i \in 1 .. Len(Pop(s))  BY <1>2, <3>1
      <4> QED  BY <4>1 DEF FilesOf
    <3>2. CASE i = Len(s)  BY <1>1, <3>2
    <3> QED  BY <1>3, <3>1, <3>2
  <2>2. ASSUME NEW i \in 1 .. Len(Pop(s))  PROVE Pop(s)[i].file \in FilesOf(s)
    <3>1. i \in 1 .. Len(s) - 1 /\ i \in 1 .. Len(s)  BY <1>1, <1>2
    <3>2. Pop(s)[i] = s[i]  BY <1>2, <3>1
    <3> QED  BY <3>1, <3>2 DEF FilesOf
  <2>3. Top(s).file \in FilesOf(s)
    <3>1. Len(s) \in 1 .. Len(s)  BY <1>1
    <3> QED  BY <1>1, <3>1 DEF FilesOf
  <2>4. FilesOf(s) \subseteq FilesOf(Pop(s)) \cup {Top(s).file}  BY <2>1 DEF FilesOf
  <2>5. FilesOf(Pop(s)) \subseteq FilesOf(s)  BY <2>2 DEF FilesOf
  <2> QED  BY <2>3, <2>4, <2>5
<1> QED  BY <1>2, <1>4

LEMMA PopDone ==
  ASSUME NEW g, NEW s \in Seq(Frames), s # <<>>, NEW L, DoneIn(g, s, L)
  PROVE  DoneIn(g, Pop(s), L)
<1>1. Len(Pop(s)) = Len(s) - 1 /\ (\A i \in 1 .. Len(s) - 1 : Pop(s)[i] = s[i])
      /\ Len(s) \in Nat \ {0}
  BY PopStack, TopFrame
<1> SUFFICES ASSUME NEW i \in 1 .. Len(s) - 1
             PROVE  Done(g, Pop(s)[i]) \subseteq L
                    /\ Pop(s)[i].next <= Len(g[Pop(s)[i].file]) + 1
  BY <1>1 DEF DoneIn
<1>2. i \in 1 .. Len(s) /\ Pop(s)[i] = s[i]  BY <1>1
<1> QED  BY <1>2 DEF DoneIn

(* A call that has no import left has dealt with all of them. *)
LEMMA DoneIsAll ==
  ASSUME NEW g \in [Files -> Seq(Files)], NEW s \in Seq(Frames), s # <<>>, ~HasNext(g, s),
         NEW L, DoneIn(g, s, L)
  PROVE  Imported(g, Top(s).file) \subseteq L
<1>1. Top(s).file \in Files /\ Top(s).next \in Nat \ {0} /\ Len(s) \in 1 .. Len(s)
      /\ Top(s) = s[Len(s)]
  BY TopFrame DEF Readable, Files
<1>2. Len(g[Top(s).file]) \in Nat  BY <1>1
<1>3. Done(g, Top(s)) \subseteq L /\ Top(s).next <= Len(g[Top(s).file]) + 1
  BY <1>1 DEF DoneIn
<1>a. ~(Top(s).next <= Len(g[Top(s).file]))  BY DEF HasNext
<1>b. \A a, b \in Nat : a <= b + 1 /\ ~(a <= b) => a - 1 = b  OBVIOUS
<1>4. Top(s).next - 1 = Len(g[Top(s).file])  BY <1>1, <1>2, <1>3, <1>a, <1>b, Zenon
<1> QED  BY <1>3, <1>4 DEF Done, Imported

-----------------------------------------------------------------------------
(* Termination: what is left to do becomes less with every turn of a loop,   *)
(* with every call and with every return.                                    *)

(* There is no endless descent. *)
LEMMA NoEndlessDescent ==
  ASSUME NEW n \in Nat, NEW w \in [Nat -> [1 .. n -> Nat]]
  PROVE  \E k \in Nat : ~Precedes(w[k + 1], w[k])
<1> DEFINE R == LexProductOrdering(OpToRel(<, Nat), Nat, n)
           S == [1 .. n -> Nat]
<1>1. IsWellFoundedOn(R, S)  BY NatLessThanWellFounded, WFLexProductOrdering
<1>2. ASSUME NEW v \in S, NEW u \in S, Precedes(v, u)  PROVE <<v, u>> \in R
  <2>1. PICK i \in 1 .. n : v[i] < u[i] /\ \A j \in 1 .. n : j < i => v[j] = u[j]
    BY <1>2 DEF Precedes
  <2>2. <<v[i], u[i]>> \in OpToRel(<, Nat)  BY <2>1 DEF OpToRel
  <2>3. \A j \in 1 .. i - 1 : v[j] = u[j]  BY <2>1
  <2> QED  BY <2>2, <2>3 DEF LexProductOrdering
<1> HIDE DEF R, S
<1>3. w \in [Nat -> S]  BY DEF S
<1>4. \A k \in Nat : k + 1 \in Nat  OBVIOUS
<1> SUFFICES ASSUME \A k \in Nat : Precedes(w[k + 1], w[k])  PROVE FALSE
  OBVIOUS
<1>5. \A k \in Nat : <<w[k + 1], w[k]>> \in R  BY <1>2, <1>3, <1>4
<1> QED  BY <1>1, <1>3, <1>5 DEF IsWellFoundedOn

LEMMA LeftType ==
  ASSUME NEW g \in [Files -> Seq(Files)], NEW s \in Seq(Frames), DoneIn(g, s, Files), NEW n \in Nat
  PROVE  Left(g, s, n) \in [1 .. n -> Nat]
<1> SUFFICES ASSUME NEW i \in 1 .. n, i <= Len(s)
             PROVE  Len(g[s[i].file]) + 2 - s[i].next \in Nat
  BY DEF Left
<1>1. i \in 1 .. Len(s)  OBVIOUS
<1>2. s[i] \in Frames  BY <1>1
<1>3. s[i].file \in Files /\ s[i].next \in Nat  BY <1>2 DEF Frames, Readable, Files
<1>4. Len(g[s[i].file]) \in Nat /\ s[i].next <= Len(g[s[i].file]) + 1  BY <1>1, <1>3 DEF DoneIn
<1> QED  BY <1>3, <1>4

(* A turn of the loop over the imports, ... *)
LEMMA AdvanceLeft ==
  ASSUME NEW g \in [Files -> Seq(Files)], NEW s \in Seq(Frames), HasNext(g, s),
         NEW n \in Nat, Len(s) <= n
  PROVE  Precedes(Left(g, Advance(s), n), Left(g, s, n))
<1> DEFINE t == Advance(s)
           k == Len(s)
<1>1. s # <<>>  BY DEF HasNext
<1>2. k \in 1 .. n /\ s[k].file \in Files /\ s[k].next \in Nat /\ Top(s) = s[k]
  BY <1>1, TopFrame DEF Readable, Files
<1>3. Len(t) = k /\ \A i \in 1 .. k : /\ t[i].file = s[i].file
                                     /\ t[i].next = IF i = k THEN s[k].next + 1 ELSE s[i].next
  BY <1>1, <1>2, AdvanceStack
<1>4. Len(g[s[k].file]) \in Nat  BY <1>2
<1> HIDE DEF t, k
<1>5. Left(g, t, n)[k] < Left(g, s, n)[k]  BY <1>2, <1>3, <1>4 DEF Left, k
<1>6. \A j \in 1 .. n : j < k => Left(g, t, n)[j] = Left(g, s, n)[j]
  BY <1>2, <1>3 DEF Left, k
<1> QED  BY <1>2, <1>5, <1>6 DEF Precedes, Left, t

(* ... one that makes a call ... *)
LEMMA PushLeft ==
  ASSUME NEW g \in [Files -> Seq(Files)], NEW s \in Seq(Frames), HasNext(g, s),
         NEW n \in Nat, Len(s) <= n, NEW f \in Readable
  PROVE  Precedes(Left(g, Append(Advance(s), Frame(f)), n), Left(g, s, n))
<1> DEFINE a == Advance(s)
           t == Append(a, Frame(f))
           k == Len(s)
<1>1. s # <<>>  BY DEF HasNext
<1>2. k \in 1 .. n /\ a \in Seq(Frames) /\ Len(a) = k  BY <1>1, TopFrame, AdvanceStack
<1> HIDE DEF a
<1>3. Len(t) = k + 1 /\ \A i \in 1 .. k : t[i] = a[i]  BY <1>2, PushStack
<1> HIDE DEF t, k
<1>4. \A j \in 1 .. n : j <= k => Left(g, t, n)[j] = Left(g, a, n)[j]
  BY <1>2, <1>3 DEF Left
<1>5. PICK i \in 1 .. n : /\ Left(g, a, n)[i] < Left(g, s, n)[i]
                          /\ \A j \in 1 .. n : j < i => Left(g, a, n)[j] = Left(g, s, n)[j]
  <2>1. Precedes(Left(g, a, n), Left(g, s, n))  BY AdvanceLeft DEF a
  <2> QED  BY <2>1 DEF Precedes, Left
<1>6. i <= k
  <2> SUFFICES ASSUME k < i  PROVE FALSE
    BY <1>2
  <2>1. Left(g, a, n)[i] = 0 /\ Left(g, s, n)[i] = 0  BY <1>2 DEF Left, k
  <2> QED  BY <1>5, <2>1
<1>7. \A j \in 1 .. n : j < i => Left(g, t, n)[j] = Left(g, s, n)[j]  BY <1>2, <1>4, <1>5, <1>6
<1>8. Left(g, t, n)[i] < Left(g, s, n)[i]  BY <1>4, <1>5, <1>6
<1> QED  BY <1>7, <1>8 DEF Precedes, Left, t, a

(* ... and a return. *)
LEMMA PopLeft ==
  ASSUME NEW g \in [Files -> Seq(Files)], NEW s \in Seq(Frames), s # <<>>, DoneIn(g, s, Files),
         NEW n \in Nat, Len(s) <= n
  PROVE  Precedes(Left(g, Pop(s), n), Left(g, s, n))
<1> DEFINE t == Pop(s)
           k == Len(s)
<1>1. k \in 1 .. n /\ k \in 1 .. Len(s) /\ s[k].file \in Files /\ s[k].next \in Nat
  BY TopFrame DEF Readable, Files
<1>2. Len(t) = k - 1 /\ \A i \in 1 .. k - 1 : t[i] = s[i]  BY PopStack
<1>3. Len(g[s[k].file]) \in Nat /\ s[k].next <= Len(g[s[k].file]) + 1  BY <1>1 DEF DoneIn
<1> HIDE DEF t, k
<1>4. Left(g, t, n)[k] < Left(g, s, n)[k]  BY <1>1, <1>2, <1>3 DEF Left, k
<1>5. \A j \in 1 .. n : j < k => Left(g, t, n)[j] = Left(g, s, n)[j]
  BY <1>1, <1>2 DEF Left, k
<1> QED  BY <1>1, <1>4, <1>5 DEF Precedes, Left, t
=============================================================================
