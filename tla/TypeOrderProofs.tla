--------------------------- MODULE TypeOrderProofs ---------------------------
(* Types are declared in the order of their references, for any types and any *)
(* references, cyclic ones included.                                          *)
EXTENDS TypeOrder, FiniteSetTheorems, TLAPS

(* What a type refers to is closed under reference.                           *)
LEMMA ReferencedClosed ==
  ASSUME NEW g \in [Types -> Seq(Types)], NEW t \in Types
  PROVE  /\ Direct(g, t) \subseteq Referenced(g, t)
         /\ \A u \in Referenced(g, t) : Direct(g, u) \subseteq Referenced(g, t)
<1>1. \A u \in Types : Direct(g, u) \subseteq Types
  <2> SUFFICES ASSUME NEW u \in Types  PROVE Direct(g, u) \subseteq Types
    OBVIOUS
  <2>1. g[u] \in Seq(Types)  OBVIOUS
  <2>2. \A i \in 1 .. Len(g[u]) : g[u][i] \in Types  BY <2>1
  <2> QED  BY <2>2 DEF Direct
<1> QED  BY <1>1 DEF Referenced

(* References are transitive. *)
LEMMA ReferencedTransitive ==
  ASSUME NEW g \in [Types -> Seq(Types)], NEW t \in Types, NEW u \in Referenced(g, t)
  PROVE  Referenced(g, u) \subseteq Referenced(g, t)
<1>1. Referenced(g, t) \in SUBSET Types  BY DEF Referenced
<1>2. /\ Direct(g, u) \subseteq Referenced(g, t)
      /\ \A s \in Referenced(g, t) : Direct(g, s) \subseteq Referenced(g, t)
  BY ReferencedClosed
<1> QED  BY <1>1, <1>2 DEF Referenced

(* u is s with one more element, t, at position k. *)
OneMore(u, s, k, t) ==
  /\ Len(u) = Len(s) + 1
  /\ \A i \in 1 .. k - 1 : u[i] = s[i]
  /\ u[k] = t
  /\ \A i \in k + 1 .. Len(s) + 1 : u[i] = s[i - 1]

LEMMA InsertAtElements ==
  ASSUME NEW S, NEW s \in Seq(S), NEW t \in S, NEW k \in 1 .. Len(s) + 1
  PROVE  InsertAt(s, k, t) \in Seq(S) /\ OneMore(InsertAt(s, k, t), s, k, t)
<1> DEFINE p == SubSeq(s, 1, k - 1)
           q == SubSeq(s, k, Len(s))
           r == p \o <<t>>
<1>1. k \in Nat \ {0} /\ Len(s) \in Nat /\ k - 1 \in 0 .. Len(s)  OBVIOUS
<1>2. p \in Seq(S) /\ Len(p) = k - 1 /\ \A i \in 1 .. k - 1 : p[i] = s[i]
  BY <1>1
<1>3. q \in Seq(S) /\ Len(q) = Len(s) - k + 1
      /\ \A i \in 1 .. Len(s) - k + 1 : q[i] = s[i + k - 1]
  BY <1>1
<1> HIDE DEF p, q
<1>4. r \in Seq(S) /\ Len(r) = k /\ r[k] = t /\ \A i \in 1 .. k - 1 : r[i] = s[i]
  BY <1>1, <1>2
<1> HIDE DEF r
<1>5. r \o q \in Seq(S) /\ Len(r \o q) = Len(s) + 1
      /\ \A i \in 1 .. k : (r \o q)[i] = r[i]
  BY <1>1, <1>3, <1>4
<1>6. \A i \in k + 1 .. Len(s) + 1 : (r \o q)[i] = s[i - 1]
  <2> SUFFICES ASSUME NEW i \in k + 1 .. Len(s) + 1  PROVE (r \o q)[i] = s[i - 1]
    OBVIOUS
  <2>1. i - k \in 1 .. Len(q)  BY <1>1, <1>3
  <2>2. (r \o q)[i] = q[i - k]  BY <1>1, <1>3, <1>4, <2>1
  <2> QED  BY <1>1, <1>3, <2>1, <2>2
<1>7. InsertAt(s, k, t) = r \o q  BY DEF InsertAt, p, q, r
<1> QED  BY <1>1, <1>4, <1>5, <1>6, <1>7 DEF OneMore

(* A sequence with t at k, and otherwise the elements of s, keeps the order if *)
(* t refers to nothing that comes after it and nothing before it refers to t.  *)
LEMMA OrderKept ==
  ASSUME NEW g, NEW s, NEW u, NEW t, NEW k \in 1 .. Len(s) + 1, Len(s) \in Nat,
         OneMore(u, s, k, t), InOrder(g, s),
         \A i \in 1 .. k - 1 : t \notin Referenced(g, s[i]),
         \A i \in k .. Len(s) : s[i] \notin Referenced(g, t)
  PROVE  InOrder(g, u)
<1> DEFINE n == Len(s)
<1>0. /\ n \in Nat /\ k \in 1 .. n + 1 /\ Len(u) = n + 1
      /\ \A i \in 1 .. k - 1 : u[i] = s[i] /\ t \notin Referenced(g, s[i])
      /\ u[k] = t
      /\ \A i \in k + 1 .. n + 1 : u[i] = s[i - 1]
      /\ \A i \in k .. n : s[i] \notin Referenced(g, t)
  BY DEF OneMore
<1>1. \A p, q \in 1 .. n : p < q => s[q] \notin Referenced(g, s[p])
  BY DEF InOrder
<1> HIDE DEF n
<1> SUFFICES ASSUME NEW i \in 1 .. n + 1, NEW j \in 1 .. n + 1, i < j
             PROVE  u[j] \notin Referenced(g, u[i])
  BY <1>0 DEF InOrder
<1>2. CASE j < k
  <2>1. i \in 1 .. n /\ j \in 1 .. n /\ i \in 1 .. k - 1 /\ j \in 1 .. k - 1  BY <1>0, <1>2
  <2> QED  BY <1>0, <1>1, <2>1
<1>3. CASE j = k
  <2>1. i \in 1 .. k - 1  BY <1>0, <1>3
  <2> QED  BY <1>0, <1>3, <2>1
<1>4. CASE i < k /\ k < j
  <2>1. i \in 1 .. n /\ j - 1 \in 1 .. n /\ i < j - 1 /\ i \in 1 .. k - 1 /\ j \in k + 1 .. n + 1
    BY <1>0, <1>4
  <2>2. u[i] = s[i] /\ u[j] = s[j - 1]  BY <1>0, <2>1
  <2> QED  BY <1>1, <2>1, <2>2
<1>5. CASE i = k
  <2>1. j \in k + 1 .. n + 1 /\ j - 1 \in k .. n  BY <1>0, <1>5
  <2>2. u[i] = t /\ u[j] = s[j - 1]  BY <1>0, <1>5, <2>1
  <2> QED  BY <1>0, <2>1, <2>2
<1>6. CASE k < i
  <2>1. i - 1 \in 1 .. n /\ j - 1 \in 1 .. n /\ i - 1 < j - 1
        /\ i \in k + 1 .. n + 1 /\ j \in k + 1 .. n + 1
    BY <1>0, <1>6
  <2>2. u[i] = s[i - 1] /\ u[j] = s[j - 1]  BY <1>0, <2>1
  <2> QED  BY <1>1, <2>1, <2>2
<1> QED  BY <1>0, <1>2, <1>3, <1>4, <1>5, <1>6

(* Such a sequence has the elements of s, and t. *)
LEMMA ElementsKept ==
  ASSUME NEW S, NEW s \in Seq(S), NEW u \in Seq(S), NEW t, NEW k \in 1 .. Len(s) + 1,
         OneMore(u, s, k, t)
  PROVE  ToSet(u) = ToSet(s) \cup {t}
<1> DEFINE n == Len(s)
<1>0. /\ n \in Nat /\ k \in 1 .. n + 1 /\ DOMAIN s = 1 .. n /\ DOMAIN u = 1 .. n + 1
      /\ \A i \in 1 .. k - 1 : u[i] = s[i]
      /\ u[k] = t
      /\ \A i \in k + 1 .. n + 1 : u[i] = s[i - 1]
  BY DEF OneMore
<1> HIDE DEF n
<1>1. ASSUME NEW i \in 1 .. n + 1  PROVE u[i] \in ToSet(s) \cup {t}
  <2>1. CASE i \in 1 .. k - 1
    <3>1. i \in 1 .. n  BY <1>0, <2>1
    <3> QED  BY <1>0, <2>1, <3>1 DEF ToSet
  <2>2. CASE i = k  BY <1>0, <2>2
  <2>3. CASE i \in k + 1 .. n + 1
    <3>1. i - 1 \in 1 .. n  BY <1>0, <2>3
    <3> QED  BY <1>0, <2>3, <3>1 DEF ToSet
  <2> QED  BY <1>0, <2>1, <2>2, <2>3
<1>2. ASSUME NEW i \in 1 .. n  PROVE s[i] \in ToSet(u)
  <2>1. CASE i \in 1 .. k - 1
    <3>1. i \in 1 .. n + 1  BY <1>0
    <3> QED  BY <1>0, <2>1, <3>1 DEF ToSet
  <2>2. CASE i \in k .. n
    <3>1. i + 1 \in k + 1 .. n + 1 /\ i + 1 \in 1 .. n + 1 /\ (i + 1) - 1 = i  BY <1>0, <2>2
    <3>2. u[i + 1] = s[i]  BY <1>0, <3>1
    <3> QED  BY <1>0, <3>1, <3>2 DEF ToSet
  <2> QED  BY <1>0, <2>1, <2>2
<1>3. t \in ToSet(u)
  <2>1. k \in 1 .. n + 1  BY <1>0
  <2> QED  BY <1>0, <2>1 DEF ToSet
<1>4. ToSet(s) \subseteq ToSet(u) /\ ToSet(u) \subseteq ToSet(s) \cup {t}
  BY <1>0, <1>1, <1>2 DEF ToSet
<1> QED  BY <1>3, <1>4

(* k is the position of the first type in s that refers to t. *)
RightPlace(g, s, k, t) ==
  /\ k \in 1 .. Len(s) + 1
  /\ \A i \in 1 .. k - 1 : t \notin Referenced(g, s[i])
  /\ k <= Len(s) => t \in Referenced(g, s[k]) /\ s[k] \notin Referenced(g, s[k])

(* Insertion before the first type that refers to the new one keeps the order:*)
(* whatever the new type refers to, that one refers to as well.               *)
LEMMA InsertInOrder ==
  ASSUME NEW g \in [Types -> Seq(Types)], NEW s \in Seq(Types), NEW t \in Types,
         NEW k, InOrder(g, s), RightPlace(g, s, k, t)
  PROVE  InOrder(g, InsertAt(s, k, t)) /\ ToSet(InsertAt(s, k, t)) = ToSet(s) \cup {t}
<1> USE DEF RightPlace
<1>1. InsertAt(s, k, t) \in Seq(Types) /\ OneMore(InsertAt(s, k, t), s, k, t)
  BY InsertAtElements
<1>2. \A j \in k .. Len(s) : s[j] \notin Referenced(g, t)
  <2> SUFFICES ASSUME NEW j \in k .. Len(s), s[j] \in Referenced(g, t)  PROVE FALSE
    OBVIOUS
  <2>1. k \in 1 .. Len(s) /\ j \in 1 .. Len(s) /\ s[k] \in Types  OBVIOUS
  <2>2. t \in Referenced(g, s[k]) /\ s[k] \notin Referenced(g, s[k])  BY <2>1
  <2>3. s[j] \in Referenced(g, s[k])  BY <2>1, <2>2, ReferencedTransitive
  <2>4. CASE j = k  BY <2>2, <2>3, <2>4
  <2>5. CASE k < j  BY <2>1, <2>3, <2>5 DEF InOrder
  <2> QED  BY <2>1, <2>4, <2>5
<1>3. InOrder(g, InsertAt(s, k, t))
  <2>1. Len(s) \in Nat /\ \A i \in 1 .. k - 1 : t \notin Referenced(g, s[i])  OBVIOUS
  <2> QED  BY <1>1, <1>2, <2>1, OrderKept, Zenon
<1>4. ToSet(InsertAt(s, k, t)) = ToSet(s) \cup {t}  BY <1>1, ElementsKept
<1> QED  BY <1>3, <1>4

-----------------------------------------------------------------------------
(* A position of an element and the element itself. *)
LEMMA ElementType ==
  ASSUME NEW S, NEW s \in Seq(S), NEW i \in 1 .. Len(s)
  PROVE  s[i] \in S
OBVIOUS

(* A tarjan() call that begins. *)
LEMMA CallType ==
  ASSUME TypeOK, NEW t \in Types, NEW c \in Seq(Frames), Call(t, c)
  PROVE  /\ indices' \in [Types -> Nat] /\ lowlink' \in [Types -> Nat]
         /\ stack' \in Seq(Types) /\ calls' \in Seq(Frames)
<1>1. Indexed + 1 \in Nat
  <2>1. IsFiniteSet({u \in Types : indices[u] # 0})  BY TypeOrderAssumption, FS_Subset
  <2> QED  BY <2>1, FS_CardinalityType DEF Indexed
<1>2. [type |-> t, reference |-> 1] \in Frames  BY DEF Frames
<1> QED  BY <1>1, <1>2 DEF Call, TypeOK

(* The innermost call. *)
LEMMA TopType ==
  ASSUME TypeOK, calls # <<>>
  PROVE  /\ Len(calls) \in 1 .. Len(calls) /\ top \in Frames
         /\ top.type \in Types /\ top.reference \in Nat \ {0}
         /\ AdvanceCall \in Seq(Frames)
<1>1. calls \in Seq(Frames) /\ Len(calls) \in Nat \ {0}  BY DEF TypeOK
<1>2. top \in Frames  BY <1>1 DEF top
<1>3. top.type \in Types /\ top.reference \in Nat \ {0}  BY <1>2 DEF Frames
<1>4. [calls[Len(calls)] EXCEPT !.reference = @ + 1] \in Frames  BY <1>2 DEF top, Frames
<1>5. AdvanceCall \in Seq(Frames)  BY <1>1, <1>4 DEF AdvanceCall
<1> QED  BY <1>1, <1>2, <1>3, <1>5

(* tarjan() looks at a reference. *)
LEMMA ReferenceType ==
  ASSUME TypeOK, HasReference
  PROVE  Reference \in Types
<1>1. top.type \in Types /\ top.reference \in Nat \ {0}  BY TopType DEF HasReference
<1>2. references[top.type] \in Seq(Types)  BY <1>1 DEF TypeOK
<1>3. top.reference \in 1 .. Len(references[top.type])  BY <1>1, <1>2 DEF HasReference
<1> QED  BY <1>2, <1>3, ElementType DEF Reference

(* The loops of the detector and of the sort keep to typeList. *)
LEMMA NextType ==
  ASSUME TypeOK, next <= Len(typeList)
  PROVE  typeList[next] \in Types
<1>1. next \in 1 .. Len(typeList) /\ typeList \in Seq(Types)  BY DEF TypeOK
<1> QED  BY <1>1, ElementType

(* All but the last element. *)
LEMMA FrontType ==
  ASSUME NEW S, NEW s \in Seq(S)
  PROVE  Front(s) \in Seq(S)
<1>1. Len(s) \in Nat /\ Len(s) - 1 <= Len(s)  OBVIOUS
<1>2. \A i \in 1 .. Len(s) - 1 : s[i] \in S  BY <1>1
<1>3. SubSeq(s, 1, Len(s) - 1) \in Seq(S)  BY <1>1, <1>2
<1> QED  BY <1>3 DEF Front

(* The insertion of the next type is one into the list. *)
LEMMA InsertType ==
  ASSUME TypeOK, SortInv, Sorting
  PROVE  /\ typeList[next] \in Types /\ insertIndex \in 1 .. Len(sortedTypeList) + 1
         /\ sortedTypeList \in Seq(Types)
         /\ InsertAt(sortedTypeList, insertIndex, typeList[next]) \in Seq(Types)
         /\ OneMore(InsertAt(sortedTypeList, insertIndex, typeList[next]),
                    sortedTypeList, insertIndex, typeList[next])
<1>1. typeList[next] \in Types  BY NextType DEF Sorting
<1>2. insertIndex \in 1 .. Len(sortedTypeList) + 1 /\ sortedTypeList \in Seq(Types)
  BY DEF SortInv, Sorting, TypeOK
<1> QED  BY <1>1, <1>2, InsertAtElements

LEMMA TypeStep ==
  ASSUME TypeOK, SortInv, [Next]_vars
  PROVE  TypeOK'
<1>1. CASE Detect
  <2>1. CASE indices[typeList[next]] = 0
    <3>1. Call(typeList[next], <<>>)  BY <1>1, <2>1 DEF Detect
    <3>2. typeList[next] \in Types /\ <<>> \in Seq(Frames)  BY <1>1, NextType DEF Detect
    <3>3. /\ indices' \in [Types -> Nat] /\ lowlink' \in [Types -> Nat]
          /\ stack' \in Seq(Types) /\ calls' \in Seq(Frames)
      BY <3>1, <3>2, CallType
    <3>4. next' = next + 1 /\ UNCHANGED <<references, typeList, phase, sorter>>
      BY <1>1 DEF Detect
    <3>5. next' \in Nat \ {0}  BY <3>4 DEF TypeOK
    <3> QED  BY <3>3, <3>4, <3>5 DEF TypeOK, sorter
  <2>2. CASE indices[typeList[next]] # 0
    BY <1>1, <2>2 DEF Detect, TypeOK, sorter, detector
  <2> QED  BY <2>1, <2>2
<1>2. CASE FollowNew
  <2>1. Reference \in Types /\ AdvanceCall \in Seq(Frames)
    BY <1>2, ReferenceType, TopType DEF FollowNew, HasReference
  <2>2. /\ indices' \in [Types -> Nat] /\ lowlink' \in [Types -> Nat]
        /\ stack' \in Seq(Types) /\ calls' \in Seq(Frames)
    BY <1>2, <2>1, CallType DEF FollowNew
  <2> QED  BY <1>2, <2>2 DEF FollowNew, TypeOK, sorter
<1>3. CASE FollowKnown
  <2>1. Reference \in Types /\ AdvanceCall \in Seq(Frames) /\ top.type \in Types
    BY <1>3, ReferenceType, TopType DEF FollowKnown, HasReference
  <2>2. Minimum(lowlink[top.type], indices[Reference]) \in Nat
    BY <2>1 DEF TypeOK, Minimum
  <2>3. lowlink' \in [Types -> Nat]  BY <1>3, <2>2 DEF FollowKnown, TypeOK
  <2> QED  BY <1>3, <2>1, <2>3 DEF FollowKnown, TypeOK, sorter
<1>4. CASE Return
  <2>1. calls \in Seq(Frames) /\ calls # <<>> /\ stack \in Seq(Types)
    BY <1>4 DEF Return, TypeOK
  <2>2. calls' \in Seq(Frames) /\ stack' \in Seq(Types)
    BY <1>4, <2>1, FrontType DEF Return
  <2>3. lowlink' \in [Types -> Nat]
    <3>1. CASE Len(calls) = 1  BY <1>4, <3>1 DEF Return, TypeOK
    <3>2. CASE 1 < Len(calls)
      <4>1. Len(calls) - 1 \in 1 .. Len(calls)  BY <2>1, <3>2
      <4>2. calls[Len(calls) - 1] \in Frames  BY <2>1, <4>1
      <4>3. Caller \in Types  BY <4>2 DEF Caller, Frames
      <4>4. top.type \in Types  BY <2>1, TopType
      <4>5. Minimum(lowlink[Caller], lowlink[top.type]) \in Nat
        BY <4>3, <4>4 DEF TypeOK, Minimum
      <4> QED  BY <1>4, <3>2, <4>5 DEF Return, TypeOK
    <3>3. Len(calls) \in Nat /\ Len(calls) # 0  BY <2>1
    <3>4. Len(calls) = 1 \/ 1 < Len(calls)  BY <3>3
    <3> QED  BY <3>1, <3>2, <3>4
  <2> QED  BY <1>4, <2>2, <2>3 DEF Return, TypeOK, sorter
<1>5. CASE Reject
  <2>1. stack' \in Seq(Types) /\ calls' \in Seq(Frames)
    BY <1>5, FrontType DEF Reject, TypeOK
  <2> QED  BY <1>5, <2>1 DEF Reject, TypeOK, sorter
<1>6. CASE Detected  BY <1>6 DEF Detected, TypeOK, sorter, detector
<1>7. CASE Scan  BY <1>7 DEF Scan, TypeOK, detector
<1>8. CASE Overflow  BY <1>8 DEF Overflow, TypeOK, sorter, detector
<1>9. CASE Insert
  <2>1. sortedTypeList' \in Seq(Types)  BY <1>9, InsertType DEF Insert
  <2> QED  BY <1>9, <2>1 DEF Insert, TypeOK, detector
<1>10. CASE Sorted  BY <1>10 DEF Sorted, TypeOK, sorter, detector
<1>11. CASE UNCHANGED vars  BY <1>11 DEF vars, TypeOK, sorter, detector
<1> QED
  BY <1>1, <1>2, <1>3, <1>4, <1>5, <1>6, <1>7, <1>8, <1>9, <1>10, <1>11 DEF Next

-----------------------------------------------------------------------------
(* One insertion: the types that have been inserted are those before next. *)
LEMMA InsertKeepsOrder ==
  ASSUME TypeOK, SortInv, Insert
  PROVE  SortInv'
<1>1. /\ typeList[next] \in Types /\ insertIndex \in 1 .. Len(sortedTypeList) + 1
      /\ sortedTypeList \in Seq(Types)
      /\ OneMore(sortedTypeList', sortedTypeList, insertIndex, typeList[next])
  BY InsertType DEF Insert
<1>2. /\ phase = "sorting" /\ phase' = "sorting" /\ next <= Len(typeList)
      /\ next' = next + 1 /\ insertIndex' = 1 /\ typeList' = typeList
      /\ references' = references
  BY DEF Insert, Sorting
<1>3. next \in 1 .. Len(typeList) /\ next \in Nat /\ Len(typeList) \in Nat
  BY <1>2 DEF SortInv, TypeOK
<1>4. Len(sortedTypeList) = next - 1 /\ InOrder(references, sortedTypeList)
      /\ ToSet(sortedTypeList) = {typeList[i] : i \in 1 .. next - 1}
      /\ \A i \in 1 .. insertIndex - 1 :
           typeList[next] \notin Referenced(references, sortedTypeList[i])
  BY <1>2 DEF SortInv
<1>5. insertIndex <= Len(sortedTypeList)
        => /\ typeList[next] \in Referenced(references, sortedTypeList[insertIndex])
           /\ sortedTypeList[insertIndex]
                \notin Referenced(references, sortedTypeList[insertIndex])
  <2> SUFFICES ASSUME insertIndex <= Len(sortedTypeList)
               PROVE  /\ typeList[next] \in Referenced(references, Compared)
                      /\ Compared \notin Referenced(references, Compared)
    BY DEF Compared
  <2>1. ~(insertIndex > Len(sortedTypeList))  BY <1>1
  <2>2. ~Endless(references, Compared) /\ typeList[next] \in Referenced(references, Compared)
    BY <2>1 DEF Insert
  <2> QED  BY <2>2 DEF Endless
<1>6. sortedTypeList' = InsertAt(sortedTypeList, insertIndex, typeList[next])
  BY DEF Insert
<1>7. references \in [Types -> Seq(Types)]  BY DEF TypeOK
<1>8. InOrder(references, sortedTypeList')
      /\ ToSet(sortedTypeList') = ToSet(sortedTypeList) \cup {typeList[next]}
  <2>1. RightPlace(references, sortedTypeList, insertIndex, typeList[next])
    BY <1>1, <1>4, <1>5 DEF RightPlace
  <2> QED  BY <1>1, <1>4, <1>6, <1>7, <2>1, InsertInOrder
<1>9. {typeList[i] : i \in 1 .. next' - 1}
        = {typeList[i] : i \in 1 .. next - 1} \cup {typeList[next]}
  <2>1. 1 .. next' - 1 = (1 .. next - 1) \cup {next}  BY <1>2, <1>3
  <2> QED  BY <2>1
<1>10. Len(sortedTypeList') = next' - 1  BY <1>1, <1>2, <1>3, <1>4 DEF OneMore
<1>11. next' \in 1 .. Len(typeList') + 1 /\ insertIndex' \in 1 .. Len(sortedTypeList') + 1
  BY <1>2, <1>3, <1>10
<1>12. ToSet(sortedTypeList') = {typeList'[i] : i \in 1 .. next' - 1}
  BY <1>2, <1>4, <1>8, <1>9
<1>13. \A i \in 1 .. insertIndex' - 1 :
         typeList'[next'] \notin Referenced(references', sortedTypeList'[i])
  BY <1>2
<1> QED  BY <1>2, <1>8, <1>10, <1>11, <1>12, <1>13 DEF SortInv

LEMMA SortStep ==
  ASSUME TypeOK, SortInv, [Next]_vars
  PROVE  SortInv'
<1>1. ASSUME Detect \/ FollowNew \/ FollowKnown \/ Return \/ Reject
      PROVE  SortInv'
  <2>1. /\ phase = "detecting" /\ phase' \in {"detecting", "rejected"}
        /\ UNCHANGED <<references, typeList, sortedTypeList, insertIndex>>
    BY <1>1 DEF Detect, FollowNew, FollowKnown, Return, Reject, HasReference, sorter
  <2> QED  BY <2>1 DEF SortInv
<1>2. CASE Detected
  <2>1. /\ phase' = "sorting" /\ next' = 1 /\ sortedTypeList' = <<>> /\ insertIndex' = 1
        /\ typeList' = typeList
    BY <1>2 DEF Detected, SortInv, sorter
  <2>2. Len(typeList) \in Nat  BY DEF TypeOK
  <2>3. 1 .. 1 - 1 = {} /\ Len(<<>>) = 0 /\ DOMAIN <<>> = {}  OBVIOUS
  <2>4. ToSet(sortedTypeList') = {} /\ {typeList'[i] : i \in 1 .. next' - 1} = {}
    BY <2>1, <2>3 DEF ToSet
  <2>5. InOrder(references', sortedTypeList')  BY <2>1 DEF InOrder
  <2>6. next' \in 1 .. Len(typeList') + 1 /\ Len(sortedTypeList') = next' - 1
        /\ insertIndex' \in 1 .. Len(sortedTypeList') + 1
    BY <2>1, <2>2
  <2> QED  BY <2>1, <2>4, <2>5, <2>6 DEF SortInv
<1>3. CASE Scan
  <2>1. /\ phase = "sorting" /\ phase' = "sorting" /\ next <= Len(typeList)
        /\ insertIndex <= Len(sortedTypeList) /\ insertIndex' = insertIndex + 1
        /\ typeList[next] \notin Referenced(references, sortedTypeList[insertIndex])
        /\ UNCHANGED <<references, typeList, next, sortedTypeList>>
    BY <1>3 DEF Scan, Sorting, Compared
  <2>2. /\ insertIndex \in 1 .. Len(sortedTypeList) + 1 /\ Len(sortedTypeList) \in Nat
        /\ \A i \in 1 .. insertIndex - 1 :
             typeList[next] \notin Referenced(references, sortedTypeList[i])
    BY <2>1 DEF SortInv, TypeOK
  <2>3. 1 .. insertIndex' - 1 = (1 .. insertIndex - 1) \cup {insertIndex}
    BY <2>1, <2>2
  <2>4. \A i \in 1 .. insertIndex' - 1 :
          typeList'[next'] \notin Referenced(references', sortedTypeList'[i])
    BY <2>1, <2>2, <2>3
  <2>5. insertIndex' \in 1 .. Len(sortedTypeList') + 1  BY <2>1, <2>2
  <2> QED  BY <2>1, <2>4, <2>5 DEF SortInv
<1>4. CASE Overflow  BY <1>4 DEF Overflow, SortInv
<1>5. CASE Insert  BY <1>5, InsertKeepsOrder
<1>6. CASE Sorted
  <2>1. /\ phase = "sorting" /\ phase' = "sorted" /\ next > Len(typeList)
        /\ UNCHANGED <<references, typeList, next, sortedTypeList, insertIndex>>
    BY <1>6 DEF Sorted, sorter
  <2>2. next = Len(typeList) + 1
    BY <2>1 DEF SortInv, TypeOK
  <2> QED  BY <2>1, <2>2 DEF SortInv
<1>7. CASE UNCHANGED vars  BY <1>7 DEF vars, SortInv, sorter
<1> QED  BY <1>1, <1>2, <1>3, <1>4, <1>5, <1>6, <1>7 DEF Next

LEMMA SortInit == Init => TypeOK /\ SortInv
<1> SUFFICES ASSUME Init  PROVE TypeOK /\ SortInv
  OBVIOUS
<1>1. references \in [Types -> Seq(Types)] /\ typeList \in Seq(Types)
  BY TypeOrderAssumption DEF Init
<1>2. TypeOK  BY <1>1 DEF Init, TypeOK
<1> QED  BY <1>2 DEF Init, SortInv

(* Both parts of the invariant hold together: an insertion needs its position *)
(* to be one of the list's.                                                   *)
THEOREM SortInvariant == Spec => [](TypeOK /\ SortInv)
<1>1. TypeOK /\ SortInv /\ [Next]_vars => (TypeOK /\ SortInv)'  BY TypeStep, SortStep
<1> QED  BY <1>1, SortInit, PTL DEF Spec

(* The variables keep to their types, for any types and references. *)
THEOREM OrderType == Spec => []TypeOK
BY SortInvariant, PTL

(* A header declares each type after all that it refers to: sortTypes() in    *)
(* FTypeGenerator gives up or crashes before it returns another order.        *)
THEOREM OrderIsRight == Spec => []DeclaredInOrder
<1>1. ASSUME TypeOK, SortInv  PROVE DeclaredInOrder
  <2> SUFFICES ASSUME phase = "sorted"
               PROVE  /\ Len(sortedTypeList) = Len(typeList)
                      /\ ToSet(sortedTypeList) = ToSet(typeList)
                      /\ InOrder(references, sortedTypeList)
    BY DEF DeclaredInOrder
  <2>1. Len(typeList) \in Nat /\ DOMAIN typeList = 1 .. Len(typeList)  BY <1>1 DEF TypeOK
  <2>2. next - 1 = Len(typeList)  BY <1>1, <2>1 DEF SortInv
  <2>3. ToSet(sortedTypeList) = {typeList[i] : i \in 1 .. Len(typeList)}
    BY <1>1, <2>2 DEF SortInv
  <2> QED  BY <1>1, <2>1, <2>2, <2>3 DEF SortInv, ToSet
<1> QED  BY <1>1, SortInvariant, PTL
-----------------------------------------------------------------------------
(* The detector.                                                              *)

(* Whatever holds t's references and is closed holds what t refers to. *)
LEMMA ReferencedWithin ==
  ASSUME NEW g, NEW t, NEW S \in SUBSET Types,
         Direct(g, t) \subseteq S, \A s \in S : Direct(g, s) \subseteq S
  PROVE  Referenced(g, t) \subseteq S
BY DEF Referenced

LEMMA DirectType ==
  ASSUME NEW g \in [Types -> Seq(Types)], NEW t \in Types
  PROVE  Direct(g, t) \subseteq Types /\ \A i \in 1 .. Len(g[t]) : g[t][i] \in Direct(g, t)
<1>1. g[t] \in Seq(Types)  OBVIOUS
<1>2. \A i \in 1 .. Len(g[t]) : g[t][i] \in Types  BY <1>1
<1> QED  BY <1>2 DEF Direct

LEMMA ReachesTransitive ==
  ASSUME TypeOK, NEW t \in Types, NEW u \in Types, NEW w \in Types, Reaches(u, w)
  PROVE  /\ Reaches(t, u) => Reaches(t, w)
         /\ u \in Referenced(references, t) => w \in Referenced(references, t)
<1>1. references \in [Types -> Seq(Types)]  BY DEF TypeOK
<1>2. u \in Referenced(references, t) => w \in Referenced(references, t)
  BY <1>1, ReferencedTransitive DEF Reaches
<1> QED  BY <1>2 DEF Reaches

(* What the list leads to is closed under reference. *)
LEMMA RelevantClosed ==
  ASSUME TypeOK
  PROVE  /\ Relevant \subseteq Types
         /\ \A i \in 1 .. Len(typeList) : typeList[i] \in Relevant
         /\ \A t \in Relevant : Direct(references, t) \subseteq Relevant
<1>1. /\ references \in [Types -> Seq(Types)] /\ typeList \in Seq(Types)
      /\ DOMAIN typeList = 1 .. Len(typeList)
  BY DEF TypeOK
<1>2. \A i \in 1 .. Len(typeList) : typeList[i] \in Types  BY <1>1
<1>3. \A i \in 1 .. Len(typeList) :
        {typeList[i]} \cup Referenced(references, typeList[i]) \subseteq Relevant
  BY <1>1 DEF Relevant
<1>4. Relevant \subseteq Types
  BY <1>1, <1>2 DEF Relevant, Referenced
<1>5. ASSUME NEW t \in Relevant  PROVE Direct(references, t) \subseteq Relevant
  <2>1. PICK i \in 1 .. Len(typeList) :
          t \in {typeList[i]} \cup Referenced(references, typeList[i])
    BY <1>1 DEF Relevant
  <2>2. Direct(references, t) \subseteq Referenced(references, typeList[i])
    BY <1>1, <1>2, <2>1, ReferencedClosed
  <2> QED  BY <1>3, <2>2
<1> QED  BY <1>3, <1>4, <1>5

(* The elements of a sequence and its end. *)
LEMMA AppendSet ==
  ASSUME NEW S, NEW s \in Seq(S), NEW t \in S
  PROVE  ToSet(Append(s, t)) = ToSet(s) \cup {t}
<1> DEFINE u == Append(s, t)
<1>1. /\ Len(s) \in Nat /\ DOMAIN s = 1 .. Len(s) /\ DOMAIN u = 1 .. Len(s) + 1
      /\ u[Len(s) + 1] = t /\ \A i \in 1 .. Len(s) : u[i] = s[i]
  OBVIOUS
<1>2. 1 .. Len(s) + 1 = (1 .. Len(s)) \cup {Len(s) + 1}  BY <1>1
<1> HIDE DEF u
<1>3. {u[i] : i \in 1 .. Len(s) + 1} = {s[i] : i \in 1 .. Len(s)} \cup {t}
  BY <1>1, <1>2
<1>4. ToSet(u) = {u[i] : i \in DOMAIN u} /\ ToSet(s) = {s[i] : i \in DOMAIN s}  BY DEF ToSet
<1> QED  BY <1>1, <1>3, <1>4 DEF u

LEMMA FrontElements ==
  ASSUME NEW S, NEW s \in Seq(S), s # <<>>
  PROVE  /\ Len(s) \in Nat \ {0} /\ Last(s) = s[Len(s)] /\ Last(s) \in S
         /\ Front(s) \in Seq(S) /\ Len(Front(s)) = Len(s) - 1
         /\ \A i \in 1 .. Len(s) - 1 : Front(s)[i] = s[i]
         /\ ToSet(s) = ToSet(Front(s)) \cup {Last(s)}
<1> DEFINE n == Len(s)
           u == Front(s)
<1>1. n \in Nat \ {0} /\ n - 1 \in 0 .. n /\ DOMAIN s = 1 .. n  OBVIOUS
<1>2. Last(s) = s[n] /\ s[n] \in S  BY <1>1 DEF Last
<1>3. u \in Seq(S)  BY FrontType
<1>4. Len(u) = n - 1 /\ DOMAIN u = 1 .. n - 1 /\ \A i \in 1 .. n - 1 : u[i] = s[i]
  BY <1>1 DEF Front
<1>5. 1 .. n = (1 .. n - 1) \cup {n}  BY <1>1
<1>6. ToSet(u) = {u[i] : i \in DOMAIN u} /\ ToSet(s) = {s[i] : i \in DOMAIN s}  BY DEF ToSet
<1> HIDE DEF n, u
<1>7. {s[i] : i \in 1 .. n} = {u[i] : i \in 1 .. n - 1} \cup {s[n]}
  BY <1>4, <1>5
<1>8. ToSet(s) = ToSet(u) \cup {Last(s)}  BY <1>1, <1>2, <1>4, <1>6, <1>7
<1> QED  BY <1>1, <1>2, <1>3, <1>4, <1>8 DEF n, u

LEMMA StackType ==
  ASSUME TypeOK
  PROVE  /\ OnStack \subseteq Types
         /\ \A i \in 1 .. Len(stack) : stack[i] \in OnStack
         /\ \A t \in OnStack : \E i \in 1 .. Len(stack) : t = stack[i]
<1>1. stack \in Seq(Types) /\ DOMAIN stack = 1 .. Len(stack)  BY DEF TypeOK
<1>2. \A i \in 1 .. Len(stack) : stack[i] \in Types  BY <1>1
<1> QED  BY <1>1, <1>2 DEF OnStack, ToSet

(* The type of a call that begins becomes the highest of the stack. *)
LEMMA CallEffect ==
  ASSUME TypeOK, StackInv, NEW t \in Types, indices[t] = 0, NEW c \in Seq(Frames), Call(t, c)
  PROVE  /\ t \notin OnStack /\ OnStack' = OnStack \cup {t} /\ Done' = Done
         /\ indices'[t] # 0 /\ lowlink'[t] = indices'[t]
         /\ \A u \in Types : /\ u # t => indices'[u] = indices[u] /\ lowlink'[u] = lowlink[u]
                             /\ u # t => indices[u] < indices'[t]
                             /\ indices'[u] <= Indexed'
                             /\ indices'[u] \in Nat /\ lowlink'[u] \in Nat
         /\ \A i, j \in 1 .. Len(stack') : i < j => indices'[stack'[i]] < indices'[stack'[j]]
         /\ Len(calls') = Len(c) + 1 /\ calls'[Len(c) + 1] = [type |-> t, reference |-> 1]
         /\ \A i \in 1 .. Len(c) : calls'[i] = c[i]
<1> DEFINE K == {u \in Types : indices[u] # 0}
<1>1. IsFiniteSet(K)  BY TypeOrderAssumption, FS_Subset
<1>2. Indexed = Cardinality(K) /\ Indexed \in Nat  BY <1>1, FS_CardinalityType DEF Indexed
<1>3. /\ indices \in [Types -> Nat] /\ lowlink \in [Types -> Nat] /\ stack \in Seq(Types)
      /\ indices' = [indices EXCEPT ![t] = Indexed + 1]
      /\ lowlink' = [lowlink EXCEPT ![t] = Indexed + 1]
      /\ stack' = Append(stack, t) /\ calls' = Append(c, [type |-> t, reference |-> 1])
  BY DEF TypeOK, Call
<1>4. Indexed' = Indexed + 1
  <2>0. \A u \in Types : indices'[u] # 0 <=> indices[u] # 0 \/ u = t  BY <1>2, <1>3
  <2>1. {u \in Types : indices'[u] # 0} = K \cup {t}  BY <2>0
  <2>2. Cardinality(K \cup {t}) = Cardinality(K) + 1  BY <1>1, FS_AddElement
  <2> QED  BY <1>2, <2>1, <2>2 DEF Indexed
<1> HIDE DEF K
<1>5. t \notin OnStack /\ OnStack' = OnStack \cup {t}
  BY <1>3, AppendSet DEF StackInv, OnStack
<1>6. \A u \in Types : indices[u] <= Indexed  BY DEF StackInv
<1>7. indices'[t] = Indexed + 1 /\ lowlink'[t] = Indexed + 1  BY <1>3
<1>8. \A u \in Types : u # t => indices'[u] = indices[u] /\ lowlink'[u] = lowlink[u]
  BY <1>3
<1>9. \A u \in Types : indices[u] \in Nat /\ lowlink[u] \in Nat  BY <1>3
<1>10. Done' = Done
  <2>1. \A u \in Types : indices'[u] # 0 /\ u \notin OnStack' <=> indices[u] # 0 /\ u \notin OnStack
    BY <1>5, <1>8
  <2> QED  BY <2>1 DEF Done
<1>11. /\ Len(stack) \in Nat /\ Len(stack') = Len(stack) + 1 /\ stack'[Len(stack) + 1] = t
       /\ \A i \in 1 .. Len(stack) : stack'[i] = stack[i] /\ stack[i] \in Types /\ stack[i] # t
  <2>1. \A i \in 1 .. Len(stack) : stack[i] \in OnStack  BY StackType
  <2> QED  BY <1>3, <1>5, <2>1
<1>12. ASSUME NEW i \in 1 .. Len(stack'), NEW j \in 1 .. Len(stack'), i < j
       PROVE  indices'[stack'[i]] < indices'[stack'[j]]
  <2>1. i \in 1 .. Len(stack) /\ stack[i] \in Types /\ stack[i] # t /\ stack'[i] = stack[i]
    BY <1>11, <1>12
  <2>2. CASE j = Len(stack) + 1
    <3>1. indices'[stack'[i]] = indices[stack[i]] /\ indices'[stack'[j]] = Indexed + 1
      BY <1>7, <1>8, <1>11, <2>1, <2>2
    <3> QED  BY <1>2, <1>6, <1>9, <2>1, <3>1
  <2>3. CASE j \in 1 .. Len(stack)
    <3>1. indices'[stack'[i]] = indices[stack[i]] /\ indices'[stack'[j]] = indices[stack[j]]
      BY <1>8, <1>11, <2>1, <2>3
    <3> QED  BY <1>12, <2>1, <2>3, <3>1 DEF StackInv
  <2> QED  BY <1>11, <2>2, <2>3
<1>13. /\ Len(calls') = Len(c) + 1 /\ calls'[Len(c) + 1] = [type |-> t, reference |-> 1]
       /\ \A i \in 1 .. Len(c) : calls'[i] = c[i]
  BY <1>3
<1>14. \A u \in Types : /\ u # t => indices[u] < indices'[t]
                        /\ indices'[u] <= Indexed'
                        /\ indices'[u] \in Nat /\ lowlink'[u] \in Nat
  BY <1>2, <1>4, <1>6, <1>7, <1>8, <1>9
<1>15. indices'[t] # 0 /\ lowlink'[t] = indices'[t]  BY <1>2, <1>7
<1> QED  BY <1>5, <1>8, <1>10, <1>12, <1>13, <1>14, <1>15

(* c is the list of calls, with the references that they have followed and    *)
(* possibly one more, which the innermost has come to: t.                     *)
Continued(c, t) ==
  /\ Len(c) = Len(calls)
  /\ \A i \in 1 .. Len(c) :
       /\ c[i].type = calls[i].type /\ t \in Referenced(references, c[i].type)
       /\ c[i].reference <= Len(references[c[i].type]) + 1
       /\ \A j \in 1 .. c[i].reference - 1 :
            j \in 1 .. calls[i].reference - 1 \/ (i = Len(c) /\ references[c[i].type][j] = t)

(* A call that begins: its type refers to nothing on the stack yet that is    *)
(* above it, and all the calls around it refer to it.                         *)
LEMMA CallKeeps ==
  ASSUME TypeOK, StackInv, CallsInv, LowlinkInv, FollowedInv, DoneInv,
         NEW t \in Relevant, indices[t] = 0, NEW c \in Seq(Frames), Call(t, c),
         UNCHANGED <<references, typeList>>, Continued(c, t),
         \A i \in 1 .. Len(typeList) : i < next' => i < next \/ typeList[i] = t
  PROVE  StackInv' /\ CallsInv' /\ LowlinkInv' /\ FollowedInv' /\ DoneInv'
<1> DEFINE n == Len(calls)
<1>0. t \in Types  BY RelevantClosed
<1>1. /\ t \notin OnStack /\ OnStack' = OnStack \cup {t} /\ Done' = Done
      /\ indices'[t] # 0 /\ lowlink'[t] = indices'[t]
      /\ \A u \in Types : u # t => indices'[u] = indices[u] /\ lowlink'[u] = lowlink[u]
      /\ \A u \in Types : u # t => indices[u] < indices'[t]
      /\ \A u \in Types : indices'[u] <= Indexed'
      /\ \A u \in Types : indices'[u] \in Nat /\ lowlink'[u] \in Nat
      /\ \A i, j \in 1 .. Len(stack') : i < j => indices'[stack'[i]] < indices'[stack'[j]]
  BY <1>0, CallEffect
<1>2. /\ n \in Nat /\ Len(c) = n /\ Len(calls') = n + 1
      /\ calls'[n + 1] = [type |-> t, reference |-> 1]
      /\ \A i \in 1 .. n : calls'[i] = c[i]
  <2>1. n \in Nat  BY DEF TypeOK
  <2> QED  BY <1>0, <2>1, CallEffect DEF Continued
<1>3. OnStack \subseteq Types /\ \A u \in OnStack : u # t  BY <1>1, StackType
<1>4. \A i \in 1 .. n : /\ calls'[i].type = calls[i].type
                        /\ calls[i].type \in OnStack
                        /\ t \in Referenced(references, calls[i].type)
  BY <1>2 DEF Continued, CallsInv
<1>5. calls'[n + 1].type = t /\ calls'[n + 1].reference = 1  BY <1>2
<1>6. Relevant' = Relevant  BY DEF Relevant
<1>7. references' = references /\ typeList' = typeList  OBVIOUS
<1> HIDE DEF n
<1>8. StackInv'
  <2>1. \A u \in Types : indices'[u] <= Indexed'  BY <1>1
  <2>2. \A u \in OnStack' : indices'[u] # 0 /\ u \in Relevant'
    BY <1>1, <1>3, <1>6 DEF StackInv
  <2>3. calls' # <<>>  BY <1>2
  <2>4. \A i \in 1 .. Len(typeList) : typeList[i] \in Types
    BY RelevantClosed
  <2>5. \A i \in 1 .. Len(typeList') : i < next' => indices'[typeList'[i]] # 0
    BY <1>0, <1>1, <1>7, <2>4 DEF StackInv
  <2> QED  BY <1>1, <2>1, <2>2, <2>3, <2>5 DEF StackInv
<1>9. CallsInv'
  <2>1. ASSUME NEW i \in 1 .. n + 1  PROVE calls'[i].type \in OnStack'
    BY <1>1, <1>2, <1>4, <1>5
  <2>2. ASSUME NEW i \in 1 .. n + 1, NEW j \in 1 .. n + 1, i < j
        PROVE  indices'[calls'[i].type] < indices'[calls'[j].type]
    <3>1. i \in 1 .. n  BY <1>2, <2>2
    <3>2. /\ calls'[i].type = calls[i].type /\ calls[i].type \in OnStack
          /\ calls[i].type \in Types /\ calls[i].type # t
      BY <1>3, <1>4, <3>1
    <3>3. CASE j = n + 1  BY <1>1, <1>5, <3>2, <3>3
    <3>4. CASE j \in 1 .. n
      <4>1. calls'[j].type = calls[j].type /\ calls[j].type \in Types /\ calls[j].type # t
        BY <1>3, <1>4, <3>4
      <4>2. indices[calls[i].type] < indices[calls[j].type]
        BY <2>2, <3>1, <3>4 DEF CallsInv, n
      <4> QED  BY <1>1, <3>2, <4>1, <4>2
    <3> QED  BY <1>2, <3>3, <3>4
  <2>3. ASSUME NEW i \in 1 .. n + 1, NEW u \in OnStack',
               indices'[calls'[i].type] < indices'[u]
        PROVE  u \in Referenced(references, calls'[i].type)
    <3>1. u \in Types  BY <1>0, <1>1, <1>3
    <3>2. CASE i = n + 1
      BY <1>0, <1>1, <1>3, <1>5, <2>3, <3>1, <3>2
    <3>3. CASE i \in 1 .. n /\ u = t  BY <1>4, <3>3
    <3>4. CASE i \in 1 .. n /\ u # t
      <4>1. u \in OnStack /\ calls[i].type \in Types /\ calls[i].type # t
            /\ calls'[i].type = calls[i].type
        BY <1>1, <1>3, <1>4, <3>4
      <4>2. indices[calls[i].type] < indices[u]  BY <1>1, <2>3, <3>1, <3>4, <4>1
      <4> QED  BY <3>4, <4>1, <4>2 DEF CallsInv, n
    <3> QED  BY <1>2, <3>2, <3>3, <3>4
  <2>4. ASSUME NEW u \in OnStack'
        PROVE  \E i \in 1 .. n + 1 :
                 indices'[calls'[i].type] <= indices'[u] /\ Reaches(u, calls'[i].type)
    <3>1. CASE u = t
      <4>1. n + 1 \in 1 .. n + 1  BY <1>2
      <4> QED  BY <1>0, <1>1, <1>5, <3>1, <4>1 DEF Reaches
    <3>2. CASE u \in OnStack
      <4>1. PICK i \in 1 .. n :
              indices[calls[i].type] <= indices[u] /\ Reaches(u, calls[i].type)
        BY <3>2 DEF CallsInv, n
      <4>2. i \in 1 .. n + 1  BY <1>2
      <4>3. calls'[i].type = calls[i].type
            /\ indices'[calls[i].type] = indices[calls[i].type] /\ indices'[u] = indices[u]
        BY <1>1, <1>3, <1>4, <3>2
      <4> QED  BY <4>1, <4>2, <4>3
    <3> QED  BY <1>1, <3>1, <3>2
  <2>5. Len(calls') = n + 1  BY <1>2
  <2>6. \A u, w : Reaches(u, w)' <=> Reaches(u, w)  BY DEF Reaches
  <2> QED  BY <2>1, <2>2, <2>3, <2>4, <2>5, <2>6, <1>7 DEF CallsInv
<1>10. LowlinkInv'
  <2> SUFFICES ASSUME NEW u \in OnStack'
               PROVE  /\ lowlink'[u] <= indices'[u]
                      /\ \E w \in OnStack' : indices'[w] = lowlink'[u] /\ Reaches(u, w)'
    BY DEF LowlinkInv
  <2>1. CASE u = t  BY <1>0, <1>1, <2>1 DEF Reaches
  <2>2. CASE u \in OnStack
    <3>1. lowlink[u] <= indices[u]  BY <2>2 DEF LowlinkInv
    <3>2. PICK w \in OnStack : indices[w] = lowlink[u] /\ Reaches(u, w)
      BY <2>2 DEF LowlinkInv
    <3>3. indices'[u] = indices[u] /\ lowlink'[u] = lowlink[u] /\ indices'[w] = indices[w]
      BY <1>1, <1>3, <2>2
    <3>4. w \in OnStack' /\ Reaches(u, w)'  BY <1>1, <3>2 DEF Reaches
    <3> QED  BY <3>1, <3>2, <3>3, <3>4
  <2> QED  BY <1>1, <2>1, <2>2
<1>11. FollowedInv'
  <2> SUFFICES ASSUME NEW i \in 1 .. n + 1
               PROVE  /\ calls'[i].reference <= Len(references[calls'[i].type]) + 1
                      /\ \A j \in 1 .. calls'[i].reference - 1 :
                           LET r == references[calls'[i].type][j]
                           IN  /\ indices'[r] # 0
                               /\ r \in OnStack' => \/ lowlink'[calls'[i].type] <= indices'[r]
                                                    \/ i < n + 1 /\ r = calls'[i + 1].type
    BY <1>2, <1>7 DEF FollowedInv, FollowedBy
  <2>1. CASE i = n + 1
    <3>1. references[t] \in Seq(Types)  BY <1>0 DEF TypeOK
    <3>2. Len(references[t]) \in Nat  BY <3>1
    <3>3. 1 <= Len(references[t]) + 1 /\ 1 .. 1 - 1 = {}  BY <3>2
    <3>4. calls'[i].reference = 1 /\ calls'[i].type = t  BY <1>5, <2>1
    <3> QED  BY <3>3, <3>4
  <2>2. CASE i \in 1 .. n
    <3>1. calls'[i] = c[i] /\ c[i].type = calls[i].type  BY <1>2, <1>4, <2>2
    <3>2. calls'[i].reference <= Len(references[calls'[i].type]) + 1
      BY <1>2, <2>2, <3>1 DEF Continued
    <3>3. ASSUME NEW j \in 1 .. calls'[i].reference - 1,
                 NEW r, r = references[calls'[i].type][j]
          PROVE  /\ indices'[r] # 0
                 /\ r \in OnStack' => \/ lowlink'[calls'[i].type] <= indices'[r]
                                      \/ i < n + 1 /\ r = calls'[i + 1].type
      <4>0. /\ calls[i].type \in Types /\ calls'[i].reference \in Nat \ {0}
            /\ calls[i].type # t
        <5>1. c[i] \in Frames  BY <1>2, <2>2
        <5> QED  BY <1>3, <1>4, <2>2, <3>1, <5>1 DEF Frames
      <4>1. CASE i = n /\ r = t
        BY <1>1, <1>2, <1>5, <4>1
      <4>2. CASE j \in 1 .. calls[i].reference - 1
        <5>1. /\ indices[r] # 0
              /\ r \in OnStack => \/ lowlink[calls[i].type] <= indices[r]
                                  \/ i < n /\ r = calls[i + 1].type
          <6>1. FollowedBy(i)  BY <2>2 DEF FollowedInv, n
          <6> QED  BY <3>1, <3>3, <4>2, <6>1 DEF FollowedBy, n
        <5>2. r \in Types /\ r # t
          <6>1. references[calls[i].type] \in Seq(Types)  BY <4>0 DEF TypeOK
          <6>2. j \in 1 .. Len(references[calls[i].type])  BY <3>1, <3>2, <4>0, <6>1
          <6> QED  BY <3>1, <3>3, <5>1, <6>1, <6>2, ElementType
        <5>3. indices'[r] = indices[r] /\ lowlink'[calls[i].type] = lowlink[calls[i].type]
              /\ (r \in OnStack' => r \in OnStack)
          BY <1>1, <4>0, <5>2
        <5>4. i < n => i + 1 \in 1 .. n /\ i < n + 1 /\ calls'[i + 1].type = calls[i + 1].type
          BY <1>2, <1>4, <2>2
        <5> QED  BY <3>1, <5>1, <5>3, <5>4
      <4>3. j \in 1 .. calls[i].reference - 1 \/ (i = n /\ r = t)
        BY <1>2, <2>2, <3>1, <3>3 DEF Continued
      <4> QED  BY <4>1, <4>2, <4>3
    <3> QED  BY <3>2, <3>3
  <2> QED  BY <1>2, <2>1, <2>2
<1>12. DoneInv'  BY <1>1, <1>7 DEF DoneInv
<1> QED  BY <1>8, <1>9, <1>10, <1>11, <1>12

(* The parts of the invariant of the detector. *)
AtWork == StackInv /\ CallsInv /\ LowlinkInv /\ FollowedInv /\ DoneInv

(* What a call comes to is one of the references of its type. *)
LEMMA ReferenceDirect ==
  ASSUME TypeOK, HasReference
  PROVE  /\ Len(calls) \in Nat \ {0} /\ top.type \in Types
         /\ top.reference \in 1 .. Len(references[top.type])
         /\ Reference \in Direct(references, top.type) /\ Reference \in Types
         /\ Reference \in Referenced(references, top.type)
<1>1. calls # <<>> /\ top.reference <= Len(references[top.type])  BY DEF HasReference
<1>2. Len(calls) \in Nat \ {0}  BY <1>1 DEF TypeOK
<1>3. top.type \in Types /\ top.reference \in Nat \ {0}  BY <1>1, TopType
<1>4. references \in [Types -> Seq(Types)]  BY DEF TypeOK
<1>5. top.reference \in 1 .. Len(references[top.type])  BY <1>1, <1>3, <1>4
<1>6. Reference \in Direct(references, top.type)  BY <1>3, <1>4, <1>5, DirectType DEF Reference
<1> QED  BY <1>2, <1>3, <1>4, <1>5, <1>6, ReferencedClosed, ReferenceType

(* A call goes on to its next reference. *)
LEMMA AdvanceEffect ==
  ASSUME TypeOK, calls # <<>>
  PROVE  /\ AdvanceCall \in Seq(Frames) /\ Len(AdvanceCall) = Len(calls)
         /\ \A i \in 1 .. Len(calls) - 1 : AdvanceCall[i] = calls[i]
         /\ AdvanceCall[Len(calls)].type = top.type
         /\ AdvanceCall[Len(calls)].reference = top.reference + 1
<1>1. calls \in Seq(Frames) /\ Len(calls) \in Nat \ {0} /\ Len(calls) \in 1 .. Len(calls)
  BY DEF TypeOK
<1>2. AdvanceCall \in Seq(Frames)  BY TopType
<1>3. calls[Len(calls)] \in Frames  BY <1>1
<1>4. AdvanceCall[Len(calls)] = [calls[Len(calls)] EXCEPT !.reference = @ + 1]
  BY <1>1 DEF AdvanceCall
<1>5. Len(AdvanceCall) = Len(calls) /\ \A i \in 1 .. Len(calls) - 1 : AdvanceCall[i] = calls[i]
  BY <1>1 DEF AdvanceCall
<1> QED  BY <1>2, <1>3, <1>4, <1>5 DEF top, Frames

LEMMA DetectKeeps ==
  ASSUME TypeOK, AtWork, Detect
  PROVE  AtWork'
<1>1. /\ calls = <<>> /\ next <= Len(typeList) /\ next' = next + 1
      /\ UNCHANGED <<references, typeList>> /\ next \in Nat \ {0}
  BY DEF Detect, TypeOK
<1>2. Len(typeList) \in Nat /\ next \in 1 .. Len(typeList)  BY <1>1 DEF TypeOK
<1>3. \A i \in 1 .. Len(typeList) : i < next' => i < next \/ typeList[i] = typeList[next]
  <2>1. \A i \in 1 .. Len(typeList) : i < next' => i < next \/ i = next  BY <1>1
  <2> QED  BY <2>1
<1>4. CASE indices[typeList[next]] = 0
  <2>1. Call(typeList[next], <<>>)  BY <1>4 DEF Detect
  <2>2. <<>> \in Seq(Frames) /\ Len(<<>>) = 0 /\ 1 .. 0 = {}  OBVIOUS
  <2>3. Continued(<<>>, typeList[next])  BY <1>1, <2>2 DEF Continued
  <2>4. typeList[next] \in Relevant  BY <1>2, RelevantClosed
  <2>5. StackInv' /\ CallsInv' /\ LowlinkInv' /\ FollowedInv' /\ DoneInv'
    BY <1>1, <1>3, <1>4, <2>1, <2>2, <2>3, <2>4, CallKeeps DEF AtWork
  <2> QED  BY <2>5 DEF AtWork
<1>5. CASE indices[typeList[next]] # 0
  <2>1. UNCHANGED <<calls, indices, lowlink, stack, references, typeList>>
    BY <1>1, <1>5 DEF Detect, detector
  <2>2. \A i \in 1 .. Len(typeList') : i < next' => indices'[typeList'[i]] # 0
    BY <1>3, <1>5, <2>1 DEF AtWork, StackInv
  <2>3. OnStack' = OnStack /\ Indexed' = Indexed /\ Relevant' = Relevant
        /\ Done' = Done /\ \A u, w : Reaches(u, w)' <=> Reaches(u, w)
    BY <2>1 DEF OnStack, Indexed, Relevant, Done, Reaches
  <2>4. StackInv'  BY <2>1, <2>2, <2>3 DEF AtWork, StackInv
  <2>5. CallsInv' /\ LowlinkInv'  BY <2>1, <2>3 DEF AtWork, CallsInv, LowlinkInv
  <2>6. FollowedInv' /\ DoneInv'  BY <2>1, <2>3 DEF AtWork, FollowedInv, FollowedBy, DoneInv
  <2> QED  BY <2>4, <2>5, <2>6 DEF AtWork
<1> QED  BY <1>4, <1>5

LEMMA FollowNewKeeps ==
  ASSUME TypeOK, AtWork, FollowNew
  PROVE  AtWork'
<1> DEFINE n == Len(calls)
           t == Reference
<1>1. /\ HasReference /\ calls # <<>> /\ indices[t] = 0 /\ Call(t, AdvanceCall)
      /\ UNCHANGED <<references, typeList, next>>
  BY DEF FollowNew, HasReference
<1>2. /\ n \in Nat \ {0} /\ top.type \in Types /\ top = calls[n]
      /\ top.reference \in 1 .. Len(references[top.type])
      /\ t \in Direct(references, top.type) /\ t \in Referenced(references, top.type)
      /\ t = references[top.type][top.reference] /\ t \in Types
  BY <1>1, ReferenceDirect DEF top, Reference
<1>3. /\ AdvanceCall \in Seq(Frames) /\ Len(AdvanceCall) = n
      /\ \A i \in 1 .. n - 1 : AdvanceCall[i] = calls[i]
      /\ AdvanceCall[n].type = top.type /\ AdvanceCall[n].reference = top.reference + 1
  BY <1>1, AdvanceEffect
<1>4. top.type \in OnStack /\ OnStack \subseteq Relevant
  <2>1. n \in 1 .. n  BY <1>2
  <2> QED  BY <1>2, <2>1 DEF AtWork, CallsInv, StackInv
<1>5. t \in Relevant  BY <1>2, <1>4, RelevantClosed
<1> HIDE DEF n, t
<1>6. Continued(AdvanceCall, t)
  <2> SUFFICES ASSUME NEW i \in 1 .. n
               PROVE  /\ AdvanceCall[i].type = calls[i].type
                      /\ t \in Referenced(references, calls[i].type)
                      /\ AdvanceCall[i].reference <= Len(references[calls[i].type]) + 1
                      /\ \A j \in 1 .. AdvanceCall[i].reference - 1 :
                           \/ j \in 1 .. calls[i].reference - 1
                           \/ i = n /\ references[calls[i].type][j] = t
    BY <1>3 DEF Continued, n
  <2>1. CASE i = n
    <3>1. \A j \in 1 .. top.reference + 1 - 1 : j \in 1 .. top.reference - 1 \/ j = top.reference
      BY <1>2
    <3>2. references[top.type] \in Seq(Types)  BY <1>2 DEF TypeOK
    <3>3. top.reference + 1 <= Len(references[top.type]) + 1  BY <1>2, <3>2
    <3> QED  BY <1>2, <1>3, <2>1, <3>1, <3>3
  <2>2. CASE i \in 1 .. n - 1
    <3>1. AdvanceCall[i] = calls[i]  BY <1>3, <2>2
    <3>2. calls[i].reference <= Len(references[calls[i].type]) + 1
      BY DEF AtWork, FollowedInv, FollowedBy, n
    <3>3. indices[calls[i].type] < indices[top.type]
      <4>1. n \in 1 .. n /\ i < n  BY <1>2, <2>2
      <4> QED  BY <1>2, <4>1 DEF AtWork, CallsInv, n
    <3>4. top.type \in Referenced(references, calls[i].type)
      BY <1>4, <3>3 DEF AtWork, CallsInv, n
    <3>5. calls[i].type \in Types
      BY StackType DEF AtWork, CallsInv, n
    <3>6. Reaches(top.type, t)  BY <1>2 DEF Reaches
    <3>7. t \in Referenced(references, calls[i].type)
      BY <1>2, <3>4, <3>5, <3>6, ReachesTransitive
    <3> QED  BY <3>1, <3>2, <3>7
  <2> QED  BY <1>2, <2>1, <2>2
<1>7. \A i \in 1 .. Len(typeList) : i < next' => i < next \/ typeList[i] = t
  BY <1>1
<1>8. StackInv' /\ CallsInv' /\ LowlinkInv' /\ FollowedInv' /\ DoneInv'
  BY <1>1, <1>3, <1>5, <1>6, <1>7, CallKeeps DEF AtWork, t
<1> QED  BY <1>8 DEF AtWork

LEMMA MinimumIsOne ==
  ASSUME NEW a \in Nat, NEW b \in Nat
  PROVE  Minimum(a, b) <= a /\ Minimum(a, b) <= b /\ Minimum(a, b) \in {a, b}
BY DEF Minimum

LEMMA FollowKnownKeeps ==
  ASSUME TypeOK, AtWork, FollowKnown
  PROVE  AtWork'
<1> DEFINE n == Len(calls)
           r == Reference
<1>1. /\ HasReference /\ calls # <<>> /\ indices[r] # 0 /\ calls' = AdvanceCall
      /\ lowlink' = IF r \in OnStack
                      THEN [lowlink EXCEPT ![top.type] = Minimum(@, indices[r])]
                      ELSE lowlink
      /\ UNCHANGED <<references, typeList, next, indices, stack>>
  BY DEF FollowKnown, HasReference, Contains, OnStack, ToSet
<1>2. /\ n \in Nat \ {0} /\ n \in 1 .. n /\ top.type \in Types /\ top = calls[n]
      /\ top.reference \in 1 .. Len(references[top.type])
      /\ r \in Referenced(references, top.type)
      /\ r = references[top.type][top.reference] /\ r \in Types
  BY <1>1, ReferenceDirect DEF top, Reference
<1>3. /\ calls' \in Seq(Frames) /\ Len(calls') = n
      /\ \A i \in 1 .. n - 1 : calls'[i] = calls[i]
      /\ calls'[n].type = top.type /\ calls'[n].reference = top.reference + 1
  BY <1>1, AdvanceEffect
<1>4. \A i \in 1 .. n : calls'[i].type = calls[i].type  BY <1>2, <1>3
<1>5. top.type \in OnStack /\ OnStack \subseteq Types
  BY <1>2, StackType DEF AtWork, CallsInv
<1>6. /\ indices \in [Types -> Nat] /\ lowlink \in [Types -> Nat]
      /\ \A t \in Types : lowlink'[t] \in Nat /\ lowlink'[t] <= lowlink[t]
      /\ \A t \in Types : t # top.type => lowlink'[t] = lowlink[t]
      /\ lowlink'[top.type] = lowlink[top.type]
           \/ (r \in OnStack /\ lowlink'[top.type] = indices[r])
      /\ r \in OnStack => lowlink'[top.type] <= indices[r]
  <2> DEFINE m == Minimum(lowlink[top.type], indices[r])
  <2>1. indices \in [Types -> Nat] /\ lowlink \in [Types -> Nat]  BY DEF TypeOK
  <2>2. lowlink[top.type] \in Nat /\ indices[r] \in Nat  BY <1>2, <2>1
  <2>3. m \in Nat /\ m <= lowlink[top.type] /\ m <= indices[r] /\ m \in {lowlink[top.type], indices[r]}
    BY <2>2, MinimumIsOne
  <2> HIDE DEF m, r
  <2>4. CASE r \in OnStack
    <3>1. lowlink' = [lowlink EXCEPT ![top.type] = m]  BY <1>1, <2>4 DEF m
    <3> QED  BY <1>2, <2>1, <2>3, <2>4, <3>1
  <2>5. CASE r \notin OnStack  BY <1>1, <2>1, <2>5
  <2> QED  BY <2>4, <2>5
<1>7. /\ OnStack' = OnStack /\ Indexed' = Indexed /\ Relevant' = Relevant
      /\ Done' = Done /\ \A u, w : Reaches(u, w)' <=> Reaches(u, w)
  BY <1>1 DEF OnStack, Indexed, Relevant, Done, Reaches
<1> HIDE DEF n, r
<1>8. StackInv'
  <2>1. calls' # <<>>  BY <1>2, <1>3
  <2> QED  BY <1>1, <1>7, <2>1 DEF AtWork, StackInv
<1>9. CallsInv'
  <2>1. \A i, j \in 1 .. n : i < j => indices[calls'[i].type] < indices[calls'[j].type]
    BY <1>4 DEF AtWork, CallsInv, n
  <2>2. \A i \in 1 .. n : \A u \in OnStack :
          indices[calls'[i].type] < indices[u] => u \in Referenced(references, calls'[i].type)
    BY <1>4 DEF AtWork, CallsInv, n
  <2>3. \A u \in OnStack : \E i \in 1 .. n :
          indices[calls'[i].type] <= indices[u] /\ Reaches(u, calls'[i].type)
    BY <1>4 DEF AtWork, CallsInv, n
  <2>4. \A i \in 1 .. n : calls'[i].type \in OnStack
    BY <1>4 DEF AtWork, CallsInv, n
  <2> QED  BY <1>1, <1>3, <1>7, <2>1, <2>2, <2>3, <2>4 DEF CallsInv
<1>10. LowlinkInv'
  <2> SUFFICES ASSUME NEW t \in OnStack
               PROVE  /\ lowlink'[t] <= indices[t]
                      /\ \E w \in OnStack : indices[w] = lowlink'[t] /\ Reaches(t, w)
    BY <1>1, <1>7 DEF LowlinkInv
  <2>1. /\ lowlink[t] <= indices[t]
        /\ \E w \in OnStack : indices[w] = lowlink[t] /\ Reaches(t, w)
    BY DEF AtWork, LowlinkInv
  <2>2. t \in Types  BY <1>5
  <2>3. lowlink'[t] <= indices[t]  BY <1>6, <2>1, <2>2
  <2>4. CASE lowlink'[t] = lowlink[t]  BY <2>1, <2>3, <2>4
  <2>5. CASE t = top.type /\ r \in OnStack /\ lowlink'[top.type] = indices[r]
    BY <1>2, <2>3, <2>5 DEF Reaches
  <2> QED  BY <1>6, <2>2, <2>4, <2>5
<1>11. FollowedInv'
  <2> SUFFICES ASSUME NEW i \in 1 .. n
               PROVE  /\ calls'[i].reference <= Len(references[calls[i].type]) + 1
                      /\ \A j \in 1 .. calls'[i].reference - 1 :
                           LET q == references[calls[i].type][j]
                           IN  /\ indices[q] # 0
                               /\ q \in OnStack => \/ lowlink'[calls[i].type] <= indices[q]
                                                   \/ i < n /\ q = calls[i + 1].type
    <3>1. \A k \in 1 .. n : k < n => k + 1 \in 1 .. n  BY <1>2
    <3>2. \A k \in 1 .. n : /\ calls'[k].type = calls[k].type
                            /\ k < n => calls'[k + 1].type = calls[k + 1].type
      BY <1>4, <3>1
    <3>3. references' = references /\ indices' = indices /\ OnStack' = OnStack /\ Len(calls') = n
      BY <1>1, <1>3, <1>7
    <3> QED  BY <3>2, <3>3 DEF FollowedInv, FollowedBy
  <2>0. /\ calls[i].reference <= Len(references[calls[i].type]) + 1
        /\ \A j \in 1 .. calls[i].reference - 1 :
             /\ indices[references[calls[i].type][j]] # 0
             /\ references[calls[i].type][j] \in OnStack =>
                  \/ lowlink[calls[i].type] <= indices[references[calls[i].type][j]]
                  \/ i < n /\ references[calls[i].type][j] = calls[i + 1].type
    BY DEF AtWork, FollowedInv, FollowedBy, n
  <2>1. /\ calls[i].type \in Types /\ lowlink'[calls[i].type] <= lowlink[calls[i].type]
        /\ lowlink'[calls[i].type] \in Nat /\ lowlink[calls[i].type] \in Nat
        /\ calls[i].reference \in Nat
    <3>1. calls[i] \in Frames  BY DEF TypeOK, n
    <3> QED  BY <1>6, <3>1 DEF Frames
  <2>2. references[calls[i].type] \in Seq(Types)  BY <2>1 DEF TypeOK
  <2>3. ASSUME NEW j \in 1 .. calls[i].reference - 1,
               NEW q, q = references[calls[i].type][j]
        PROVE  /\ indices[q] # 0
               /\ q \in OnStack => \/ lowlink'[calls[i].type] <= indices[q]
                                   \/ i < n /\ q = calls[i + 1].type
    <3>1. j \in 1 .. Len(references[calls[i].type])  BY <2>0, <2>1, <2>2
    <3>2. q \in Types  BY <2>2, <2>3, <3>1, ElementType
    <3>3. indices[q] \in Nat  BY <1>6, <3>2
    <3> QED  BY <2>0, <2>1, <2>3, <3>3
  <2>4. CASE i \in 1 .. n - 1
    <3>1. calls'[i].reference = calls[i].reference  BY <1>3, <2>4
    <3> QED  BY <2>0, <2>3, <3>1
  <2>5. CASE i = n
    <3>1. calls'[i].reference = calls[i].reference + 1  BY <1>2, <1>3, <2>5
    <3>2. calls'[i].reference <= Len(references[calls[i].type]) + 1
      BY <1>2, <2>1, <2>2, <2>5, <3>1
    <3>3. \A j \in 1 .. calls'[i].reference - 1 :
            j \in 1 .. calls[i].reference - 1 \/ j = calls[i].reference
      BY <2>1, <3>1
    <3>4. references[calls[i].type][calls[i].reference] = r /\ calls[i].type = top.type
      BY <1>2, <2>5
    <3> QED  BY <1>1, <1>6, <2>3, <3>2, <3>3, <3>4
  <2> QED  BY <1>2, <2>4, <2>5
<1>12. DoneInv'  BY <1>1, <1>7 DEF AtWork, DoneInv
<1> QED  BY <1>8, <1>9, <1>10, <1>11, <1>12 DEF AtWork

(* A call returns: its caller, if there is one, is lower on the stack, refers *)
(* to it and takes over its lowlink.                                          *)
LEMMA ReturnEffect ==
  ASSUME TypeOK, AtWork, Return
  PROVE  /\ Len(calls) \in Nat \ {0} /\ Len(calls) \in 1 .. Len(calls)
         /\ top = calls[Len(calls)] /\ top.type \in OnStack /\ OnStack \subseteq Types
         /\ \A i \in 1 .. Len(calls) : calls[i].type \in OnStack
         /\ Len(calls') = Len(calls) - 1
         /\ \A i \in 1 .. Len(calls) - 1 :
              calls'[i] = calls[i] /\ indices[calls[i].type] < indices[top.type]
         /\ \A u \in Types : indices[u] \in Nat /\ lowlink[u] \in Nat /\ lowlink'[u] \in Nat
         /\ \A u \in Types : lowlink'[u] <= lowlink[u]
         /\ \A u \in Types :
              lowlink'[u] # lowlink[u] => Len(calls) # 1 /\ u = Caller /\ lowlink'[u] = lowlink[top.type]
         /\ Len(calls) # 1 => /\ Len(calls) - 1 \in 1 .. Len(calls) - 1
                              /\ Caller = calls[Len(calls) - 1].type /\ Caller \in OnStack
                              /\ top.type \in Referenced(references, Caller)
                              /\ lowlink'[Caller] <= lowlink[top.type]
<1> DEFINE n == Len(calls)
           t == top.type
<1>1. /\ calls # <<>> /\ calls' = Front(calls)
      /\ lowlink' = IF n = 1 THEN lowlink
                             ELSE [lowlink EXCEPT ![Caller] = Minimum(@, lowlink[t])]
  BY DEF Return
<1>2. /\ calls \in Seq(Frames) /\ n \in Nat \ {0} /\ n \in 1 .. n /\ top = calls[n]
      /\ indices \in [Types -> Nat] /\ lowlink \in [Types -> Nat]
  BY <1>1 DEF TypeOK, top
<1>3. Len(calls') = n - 1 /\ \A i \in 1 .. n - 1 : calls'[i] = calls[i]
  BY <1>1, <1>2, FrontElements
<1>4. OnStack \subseteq Types /\ \A i \in 1 .. n : calls[i].type \in OnStack
  BY StackType DEF AtWork, CallsInv
<1>5. t \in OnStack  BY <1>2, <1>4
<1>6. \A i \in 1 .. n - 1 : indices[calls[i].type] < indices[t]
  <2>1. \A i \in 1 .. n - 1 : i \in 1 .. n /\ i < n  BY <1>2
  <2> QED  BY <1>2, <2>1 DEF AtWork, CallsInv
<1>7. CASE n = 1
  <2>1. lowlink' = lowlink  BY <1>1, <1>7
  <2> QED  BY <1>2, <1>3, <1>4, <1>5, <1>6, <1>7, <2>1
<1>8. CASE n # 1
  <2>1. n - 1 \in 1 .. n - 1 /\ n - 1 \in 1 .. n /\ Caller = calls[n - 1].type
    <3>1. n \in Nat /\ n # 0  BY <1>2
    <3> HIDE DEF n
    <3>2. n - 1 \in 1 .. n - 1 /\ n - 1 \in 1 .. n  BY <1>8, <3>1
    <3> QED  BY <3>2 DEF Caller, n
  <2>2. Caller \in OnStack /\ Caller \in Types /\ t \in Types  BY <1>4, <1>5, <2>1
  <2>3. t \in Referenced(references, Caller)
    BY <1>5, <1>6, <2>1 DEF AtWork, CallsInv
  <2> DEFINE m == Minimum(lowlink[Caller], lowlink[t])
  <2>4. m \in Nat /\ m <= lowlink[Caller] /\ m <= lowlink[t] /\ m \in {lowlink[Caller], lowlink[t]}
    BY <1>2, <2>2, MinimumIsOne
  <2> HIDE DEF m
  <2>5. lowlink' = [lowlink EXCEPT ![Caller] = m]  BY <1>1, <1>8 DEF m
  <2>6. lowlink'[Caller] = m /\ \A u \in Types : u # Caller => lowlink'[u] = lowlink[u]
    BY <1>2, <2>2, <2>5
  <2>7. \A u \in Types : lowlink'[u] \in Nat /\ lowlink'[u] <= lowlink[u]
    BY <1>2, <2>4, <2>6
  <2>8. \A u \in Types : lowlink'[u] # lowlink[u] => u = Caller /\ lowlink'[u] = lowlink[t]
    BY <2>4, <2>6
  <2>9. lowlink'[Caller] <= lowlink[t]  BY <2>4, <2>6
  <2> QED  BY <1>2, <1>3, <1>4, <1>5, <1>6, <1>8, <2>1, <2>2, <2>3, <2>7, <2>8, <2>9
<1> QED  BY <1>7, <1>8

(* A call that is no root refers to a type lower on the stack, and with it to *)
(* the type of another call.                                                  *)
LEMMA ReturnInsideKeeps ==
  ASSUME TypeOK, AtWork, Return, ~IsRoot
  PROVE  AtWork'
<1> DEFINE n == Len(calls)
           t == top.type
<1>1. /\ n \in Nat \ {0} /\ n \in 1 .. n
      /\ top = calls[n] /\ t \in OnStack /\ OnStack \subseteq Types
      /\ \A i \in 1 .. n : calls[i].type \in OnStack
      /\ Len(calls') = n - 1
      /\ \A i \in 1 .. n - 1 : calls'[i] = calls[i] /\ indices[calls[i].type] < indices[t]
      /\ \A u \in Types : indices[u] \in Nat /\ lowlink[u] \in Nat /\ lowlink'[u] \in Nat
      /\ \A u \in Types : lowlink'[u] <= lowlink[u]
      /\ \A u \in Types :
           lowlink'[u] # lowlink[u] => n # 1 /\ u = Caller /\ lowlink'[u] = lowlink[t]
      /\ n # 1 => /\ n - 1 \in 1 .. n - 1
                  /\ Caller = calls[n - 1].type /\ Caller \in OnStack
                  /\ t \in Referenced(references, Caller)
                  /\ lowlink'[Caller] <= lowlink[t]
  BY ReturnEffect
<1>2. /\ stack' = stack /\ UNCHANGED <<references, typeList, next, indices>>
      /\ lowlink[t] # indices[t]
  BY DEF Return, IsRoot
<1>3. /\ OnStack' = OnStack /\ Indexed' = Indexed /\ Relevant' = Relevant
      /\ Done' = Done /\ \A u, w : Reaches(u, w)' <=> Reaches(u, w)
  BY <1>2 DEF OnStack, Indexed, Relevant, Done, Reaches
<1> HIDE DEF n, t
<1>4. lowlink[t] <= indices[t] /\ t \in Types
      /\ \E w \in OnStack : indices[w] = lowlink[t] /\ Reaches(t, w)
  BY <1>1 DEF AtWork, LowlinkInv
<1>5. PICK w \in OnStack : indices[w] = lowlink[t] /\ Reaches(t, w)  BY <1>4
<1>6. indices[w] < indices[t] /\ w \in Types  BY <1>1, <1>2, <1>4, <1>5
<1>7. PICK k \in 1 .. n : indices[calls[k].type] <= indices[w] /\ Reaches(w, calls[k].type)
  BY DEF AtWork, CallsInv, n
<1>8. k # n /\ indices[calls[k].type] < indices[t] /\ calls[k].type \in Types
  <2>1. calls[k].type \in Types  BY <1>1
  <2>2. indices[calls[k].type] \in Nat /\ indices[w] \in Nat /\ indices[t] \in Nat
    BY <1>1, <1>4, <1>6, <2>1
  <2>3. indices[calls[k].type] < indices[t]  BY <1>6, <1>7, <2>2
  <2>4. calls[n].type = t  BY <1>1 DEF t
  <2> QED  BY <2>1, <2>2, <2>3, <2>4
<1>9. k \in 1 .. n - 1 /\ n # 1  BY <1>1, <1>7, <1>8
<1>10. Reaches(t, calls[k].type)  BY <1>4, <1>5, <1>6, <1>7, <1>8, ReachesTransitive
<1>11. StackInv'
  <2>1. calls' # <<>>  BY <1>1, <1>9
  <2> QED  BY <1>2, <1>3, <2>1 DEF AtWork, StackInv
<1>12. \A i \in 1 .. n - 1 : i \in 1 .. n /\ calls'[i] = calls[i] /\ calls[i].type \in OnStack
  BY <1>1
<1>13. CallsInv'
  <2>1. \A u \in OnStack : \E i \in 1 .. n - 1 :
          indices[calls'[i].type] <= indices[u] /\ Reaches(u, calls'[i].type)
    <3> SUFFICES ASSUME NEW u \in OnStack
                 PROVE  \E i \in 1 .. n - 1 :
                          indices[calls'[i].type] <= indices[u] /\ Reaches(u, calls'[i].type)
      OBVIOUS
    <3>1. PICK i \in 1 .. n : indices[calls[i].type] <= indices[u] /\ Reaches(u, calls[i].type)
      BY DEF AtWork, CallsInv, n
    <3>2. CASE i = n
      <4>1. indices[t] <= indices[u] /\ Reaches(u, t) /\ u \in Types
        BY <1>1, <3>1, <3>2 DEF t
      <4>2. Reaches(u, calls[k].type)  BY <1>4, <1>8, <1>10, <4>1, ReachesTransitive
      <4>3. indices[calls[k].type] <= indices[u]  BY <1>1, <1>4, <1>8, <4>1
      <4> QED  BY <1>9, <1>12, <4>2, <4>3
    <3>3. CASE i # n
      <4>1. i \in 1 .. n - 1  BY <1>1, <3>3
      <4> QED  BY <1>12, <3>1, <4>1
    <3> QED  BY <3>2, <3>3
  <2>2. \A i, j \in 1 .. n - 1 : i < j => indices[calls'[i].type] < indices[calls'[j].type]
    BY <1>12 DEF AtWork, CallsInv, n
  <2>3. \A i \in 1 .. n - 1 : \A u \in OnStack :
          indices[calls'[i].type] < indices[u] => u \in Referenced(references, calls'[i].type)
    BY <1>12 DEF AtWork, CallsInv, n
  <2>4. \A i \in 1 .. n - 1 : calls'[i].type \in OnStack  BY <1>12
  <2> QED  BY <1>1, <1>2, <1>3, <2>1, <2>2, <2>3, <2>4 DEF CallsInv
<1>14. LowlinkInv'
  <2> SUFFICES ASSUME NEW u \in OnStack
               PROVE  /\ lowlink'[u] <= indices[u]
                      /\ \E v \in OnStack : indices[v] = lowlink'[u] /\ Reaches(u, v)
    BY <1>2, <1>3 DEF LowlinkInv
  <2>1. /\ lowlink[u] <= indices[u] /\ u \in Types
        /\ \E v \in OnStack : indices[v] = lowlink[u] /\ Reaches(u, v)
    BY <1>1 DEF AtWork, LowlinkInv
  <2>2. lowlink'[u] <= indices[u]  BY <1>1, <2>1
  <2>3. CASE lowlink'[u] = lowlink[u]  BY <2>1, <2>2, <2>3
  <2>4. CASE lowlink'[u] # lowlink[u]
    <3>1. u = Caller /\ lowlink'[u] = lowlink[t] /\ t \in Referenced(references, u)
      BY <1>1, <2>1, <2>4
    <3>2. Reaches(u, t)  BY <3>1 DEF Reaches
    <3>3. Reaches(u, w)  BY <1>4, <1>5, <1>6, <2>1, <3>2, ReachesTransitive
    <3> QED  BY <1>5, <2>2, <3>1, <3>3
  <2> QED  BY <2>3, <2>4
<1>15. FollowedInv'
  <2> SUFFICES ASSUME NEW i \in 1 .. n - 1
               PROVE  FollowedBy(i)'
    BY <1>1 DEF FollowedInv
  <2> SUFFICES /\ calls[i].reference <= Len(references[calls[i].type]) + 1
               /\ \A j \in 1 .. calls[i].reference - 1 :
                    LET q == references[calls[i].type][j]
                    IN  /\ indices[q] # 0
                        /\ q \in OnStack => \/ lowlink'[calls[i].type] <= indices[q]
                                            \/ i < n - 1 /\ q = calls[i + 1].type
    <3>1. i < n - 1 => i + 1 \in 1 .. n - 1  BY <1>1
    <3>2. calls'[i] = calls[i] /\ (i < n - 1 => calls'[i + 1] = calls[i + 1])
      BY <1>12, <3>1
    <3>3. references' = references /\ indices' = indices /\ OnStack' = OnStack /\ Len(calls') = n - 1
      BY <1>1, <1>2, <1>3
    <3> QED  BY <3>2, <3>3 DEF FollowedBy
  <2>0. /\ calls[i].reference <= Len(references[calls[i].type]) + 1
        /\ \A j \in 1 .. calls[i].reference - 1 :
             /\ indices[references[calls[i].type][j]] # 0
             /\ references[calls[i].type][j] \in OnStack =>
                  \/ lowlink[calls[i].type] <= indices[references[calls[i].type][j]]
                  \/ i < n /\ references[calls[i].type][j] = calls[i + 1].type
    BY <1>12 DEF AtWork, FollowedInv, FollowedBy, n
  <2>1. /\ calls[i].type \in Types
        /\ lowlink'[calls[i].type] <= lowlink[calls[i].type]
        /\ lowlink'[calls[i].type] \in Nat /\ lowlink[calls[i].type] \in Nat
    BY <1>1, <1>12
  <2>2. ASSUME NEW j \in 1 .. calls[i].reference - 1,
               NEW q, q = references[calls[i].type][j], q \in OnStack
        PROVE  \/ lowlink'[calls[i].type] <= indices[q]
               \/ i < n - 1 /\ q = calls[i + 1].type
    <3>1. q \in Types /\ indices[q] \in Nat  BY <1>1, <2>2
    <3>2. CASE lowlink[calls[i].type] <= indices[q]  BY <2>1, <3>1, <3>2
    <3>3. CASE i = n - 1 /\ q = calls[i + 1].type
      <4>1. i + 1 = n  BY <1>1, <3>3
      <4>2. q = t /\ calls[i].type = Caller  BY <1>1, <1>9, <3>3, <4>1 DEF t
      <4>3. lowlink'[Caller] <= lowlink[t] /\ lowlink[t] \in Nat  BY <1>1, <1>4, <1>9
      <4> QED  BY <1>4, <2>1, <3>1, <4>2, <4>3
    <3>4. CASE i < n - 1 /\ q = calls[i + 1].type  BY <3>4
    <3> QED  BY <1>1, <2>0, <2>2, <3>2, <3>3, <3>4
  <2> QED  BY <2>0, <2>2
<1>16. DoneInv'  BY <1>2, <1>3 DEF AtWork, DoneInv
<1> QED  BY <1>11, <1>13, <1>14, <1>15, <1>16 DEF AtWork

(* The highest of the stack is taken from it. *)
LEMMA PopEffect ==
  ASSUME TypeOK, StackInv, stack # <<>>, stack' = Front(stack), UNCHANGED indices
  PROVE  /\ Last(stack) \in OnStack /\ Last(stack) \notin OnStack'
         /\ OnStack = OnStack' \cup {Last(stack)}
         /\ \A u \in OnStack' : indices[u] < indices[Last(stack)]
         /\ \A i, j \in 1 .. Len(stack') : i < j => indices[stack'[i]] < indices[stack'[j]]
<1> DEFINE n == Len(stack)
           t == Last(stack)
<1>1. /\ n \in Nat \ {0} /\ n \in 1 .. n /\ t = stack[n] /\ t \in Types
      /\ stack' \in Seq(Types) /\ Len(stack') = n - 1
      /\ \A i \in 1 .. n - 1 : stack'[i] = stack[i]
      /\ OnStack = OnStack' \cup {t}
  <2>1. stack \in Seq(Types)  BY DEF TypeOK
  <2>2. /\ n \in Nat \ {0} /\ t = stack[n] /\ t \in Types
        /\ stack' \in Seq(Types) /\ Len(stack') = n - 1
        /\ \A i \in 1 .. n - 1 : stack'[i] = stack[i]
        /\ OnStack = OnStack' \cup {t}
    BY <2>1, FrontElements DEF OnStack
  <2>3. n \in 1 .. n  BY <2>2
  <2> QED  BY <2>2, <2>3
<1> HIDE DEF n, t
<1>2. \A i \in 1 .. n - 1 : i \in 1 .. n /\ i < n  BY <1>1
<1>3. \A i, j \in 1 .. n : i < j => indices[stack[i]] < indices[stack[j]]
  BY DEF StackInv, n
<1>4. ASSUME NEW u \in OnStack'  PROVE indices[u] < indices[t]
  <2>1. PICK i \in 1 .. n - 1 : u = stack'[i]
    <3>1. DOMAIN stack' = 1 .. n - 1  BY <1>1
    <3> QED  BY <3>1 DEF OnStack, ToSet
  <2> QED  BY <1>1, <1>2, <1>3, <2>1
<1>5. t \notin OnStack'
  <2>1. indices[t] \in Nat  BY <1>1 DEF TypeOK
  <2> QED  BY <1>4, <2>1
<1>6. \A i, j \in 1 .. n - 1 : i < j => indices[stack'[i]] < indices[stack'[j]]
  BY <1>1, <1>2, <1>3
<1> QED  BY <1>1, <1>4, <1>5, <1>6 DEF t

(* All that a root refers to is done: what it refers to on the stack would    *)
(* lower its lowlink.                                                         *)
LEMMA RootIsDone ==
  ASSUME TypeOK, AtWork, Return, IsRoot
  PROVE  /\ OnStack = OnStack' \cup {top.type} /\ top.type \notin OnStack'
         /\ \A u \in OnStack' : indices[u] < indices[top.type]
         /\ \A i, j \in 1 .. Len(stack') : i < j => indices[stack'[i]] < indices[stack'[j]]
         /\ Done' = Done \cup {top.type} /\ top.type \notin Done
         /\ Direct(references, top.type) \subseteq Done \cup {top.type}
<1> DEFINE n == Len(calls)
           t == top.type
<1>1. /\ Last(stack) = t /\ stack' = Front(stack) /\ UNCHANGED <<indices, references>>
      /\ lowlink[t] = indices[t] /\ calls # <<>>
  BY DEF Return, IsRoot
<1>2. /\ n \in Nat \ {0} /\ n \in 1 .. n /\ top = calls[n] /\ t \in OnStack /\ OnStack \subseteq Types
      /\ \A u \in Types : indices[u] \in Nat
  BY ReturnEffect
<1>3. stack # <<>>
  <2>1. \E i \in 1 .. Len(stack) : t = stack[i]  BY <1>2, StackType
  <2>2. stack = <<>> => 1 .. Len(stack) = {}  OBVIOUS
  <2> QED  BY <2>1, <2>2
<1>4. /\ OnStack = OnStack' \cup {t} /\ t \notin OnStack'
      /\ \A u \in OnStack' : indices[u] < indices[t]
      /\ \A i, j \in 1 .. Len(stack') : i < j => indices[stack'[i]] < indices[stack'[j]]
  BY <1>1, <1>3, PopEffect DEF AtWork
<1>5. Done' = Done \cup {t} /\ t \notin Done
  <2>1. indices[t] # 0  BY <1>2 DEF AtWork, StackInv
  <2> QED  BY <1>1, <1>2, <1>4, <2>1 DEF Done
<1>6. Direct(references, t) \subseteq Done \cup {t}
  <2> SUFFICES ASSUME NEW j \in 1 .. Len(references[t]),
                      NEW r, r = references[t][j], r # t
               PROVE  r \in Done
    BY DEF Direct
  <2>1. references[t] \in Seq(Types)  BY <1>2 DEF TypeOK
  <2>2. r \in Types  BY <2>1, ElementType
  <2>3. j \in 1 .. top.reference - 1
    <3>1. ~(top.reference <= Len(references[t]))  BY <1>1 DEF Return, HasReference
    <3>2. top.reference \in Nat  BY <1>1, TopType
    <3> QED  BY <2>1, <3>1, <3>2
  <2>4. indices[r] # 0 /\ (r \in OnStack => lowlink[t] <= indices[r])
    <3>1. ~(n < Len(calls))  BY <1>2
    <3> QED  BY <1>2, <2>3, <3>1 DEF AtWork, FollowedInv, FollowedBy
  <2>5. r \notin OnStack
    <3>1. SUFFICES ASSUME r \in OnStack  PROVE FALSE
      OBVIOUS
    <3>2. indices[r] < indices[t] /\ indices[t] <= indices[r]
      BY <1>1, <1>4, <2>4, <3>1
    <3> QED  BY <1>2, <2>2, <3>2
  <2> QED  BY <2>2, <2>4, <2>5 DEF Done
<1> QED  BY <1>4, <1>5, <1>6

(* A call of a root returns, and what it reached on the stack is done.        *)
LEMMA ReturnRootKeeps ==
  ASSUME TypeOK, AtWork, Return, IsRoot
  PROVE  AtWork'
<1> DEFINE n == Len(calls)
           t == top.type
<1>1. /\ n \in Nat \ {0} /\ n \in 1 .. n
      /\ top = calls[n] /\ t \in OnStack /\ OnStack \subseteq Types
      /\ \A i \in 1 .. n : calls[i].type \in OnStack
      /\ Len(calls') = n - 1
      /\ \A i \in 1 .. n - 1 : calls'[i] = calls[i] /\ indices[calls[i].type] < indices[t]
      /\ \A u \in Types : indices[u] \in Nat /\ lowlink[u] \in Nat /\ lowlink'[u] \in Nat
      /\ \A u \in Types : lowlink'[u] <= lowlink[u]
      /\ \A u \in Types :
           lowlink'[u] # lowlink[u] => n # 1 /\ u = Caller /\ lowlink'[u] = lowlink[t]
      /\ n # 1 => /\ n - 1 \in 1 .. n - 1
                  /\ Caller = calls[n - 1].type /\ Caller \in OnStack
  BY ReturnEffect
<1>2. /\ OnStack = OnStack' \cup {t} /\ t \notin OnStack'
      /\ \A u \in OnStack' : indices[u] < indices[t]
      /\ \A i, j \in 1 .. Len(stack') : i < j => indices[stack'[i]] < indices[stack'[j]]
      /\ Done' = Done \cup {t} /\ t \notin Done
      /\ Direct(references, t) \subseteq Done \cup {t}
  BY RootIsDone
<1>3. /\ UNCHANGED <<references, typeList, next, indices>> /\ lowlink[t] = indices[t]
      /\ t \in Types
  BY <1>1 DEF Return, IsRoot
<1>4. /\ Indexed' = Indexed /\ Relevant' = Relevant
      /\ \A u, w : Reaches(u, w)' <=> Reaches(u, w)
  BY <1>3 DEF Indexed, Relevant, Reaches
<1> HIDE DEF n, t
<1>5. \A u \in Types : lowlink'[u] = lowlink[u]
  <2> SUFFICES ASSUME NEW u \in Types, lowlink'[u] # lowlink[u]  PROVE FALSE
    OBVIOUS
  <2>1. n # 1 /\ u = Caller /\ lowlink'[u] = lowlink[t]  BY <1>1
  <2>2. u \in OnStack /\ indices[u] < indices[t]  BY <1>1, <2>1
  <2>3. lowlink[u] <= indices[u]  BY <2>2 DEF AtWork, LowlinkInv
  <2>4. lowlink[t] <= lowlink[u]  BY <1>1, <2>1
  <2> QED  BY <1>1, <1>3, <2>2, <2>3, <2>4
<1>6. \A i \in 1 .. n - 1 : i \in 1 .. n /\ calls'[i] = calls[i] /\ calls[i].type \in OnStack'
  <2> SUFFICES ASSUME NEW i \in 1 .. n - 1
               PROVE  i \in 1 .. n /\ calls'[i] = calls[i] /\ calls[i].type \in OnStack'
    OBVIOUS
  <2>1. i \in 1 .. n  BY <1>1
  <2>2. calls[i].type \in OnStack /\ indices[calls[i].type] < indices[t]  BY <1>1, <2>1
  <2>3. calls[i].type # t  BY <1>1, <1>3, <2>2
  <2> QED  BY <1>1, <1>2, <2>1, <2>2, <2>3
<1>7. ASSUME NEW u \in OnStack'
      PROVE  \E i \in 1 .. n - 1 : indices[calls[i].type] <= indices[u] /\ Reaches(u, calls[i].type)
  <2>1. PICK i \in 1 .. n : indices[calls[i].type] <= indices[u] /\ Reaches(u, calls[i].type)
    BY <1>2 DEF AtWork, CallsInv, n
  <2>2. u \in Types /\ indices[u] < indices[t]  BY <1>1, <1>2
  <2>3. i # n  BY <1>1, <1>3, <2>1, <2>2 DEF t
  <2>4. i \in 1 .. n - 1  BY <1>1, <2>3
  <2> QED  BY <2>1, <2>4
<1>8. StackInv'
  <2>1. calls' = <<>> => stack' = <<>>
    <3> SUFFICES ASSUME calls' = <<>>, stack' # <<>>  PROVE FALSE
      OBVIOUS
    <3>1. 1 .. n - 1 = {}  BY <1>1
    <3>2. OnStack' # {}
      <4>1. stack' \in Seq(Types)  BY FrontType DEF Return, TypeOK
      <4>2. 1 \in DOMAIN stack'  BY <4>1
      <4> QED  BY <4>2 DEF OnStack, ToSet
    <3> QED  BY <1>7, <3>1, <3>2
  <2>2. \A u \in OnStack' : indices'[u] # 0 /\ u \in Relevant'
    BY <1>2, <1>3, <1>4 DEF AtWork, StackInv
  <2>3. \A u \in Types : indices'[u] <= Indexed'  BY <1>3, <1>4 DEF AtWork, StackInv
  <2>4. \A i \in 1 .. Len(typeList') : i < next' => indices'[typeList'[i]] # 0
    BY <1>3 DEF AtWork, StackInv
  <2>5. \A i, j \in 1 .. Len(stack') : i < j => indices'[stack'[i]] < indices'[stack'[j]]
    BY <1>2, <1>3
  <2> QED  BY <2>1, <2>2, <2>3, <2>4, <2>5 DEF StackInv
<1>9. CallsInv'
  <2>1. \A u \in OnStack' : \E i \in 1 .. n - 1 :
          indices[calls'[i].type] <= indices[u] /\ Reaches(u, calls'[i].type)
    BY <1>6, <1>7
  <2>2. \A i, j \in 1 .. n - 1 : i < j => indices[calls'[i].type] < indices[calls'[j].type]
    BY <1>6 DEF AtWork, CallsInv, n
  <2>3. \A i \in 1 .. n - 1 : \A u \in OnStack' :
          indices[calls'[i].type] < indices[u] => u \in Referenced(references, calls'[i].type)
    BY <1>2, <1>6 DEF AtWork, CallsInv, n
  <2>4. \A i \in 1 .. n - 1 : calls'[i].type \in OnStack'  BY <1>6
  <2> QED  BY <1>1, <1>3, <1>4, <2>1, <2>2, <2>3, <2>4 DEF CallsInv
<1>10. LowlinkInv'
  <2> SUFFICES ASSUME NEW u \in OnStack'
               PROVE  /\ lowlink'[u] <= indices[u]
                      /\ \E v \in OnStack' : indices[v] = lowlink'[u] /\ Reaches(u, v)
    BY <1>3, <1>4 DEF LowlinkInv
  <2>1. u \in Types /\ u \in OnStack /\ indices[u] < indices[t]  BY <1>1, <1>2
  <2>2. lowlink'[u] = lowlink[u] /\ lowlink[u] <= indices[u]
    BY <1>5, <2>1 DEF AtWork, LowlinkInv
  <2>3. PICK v \in OnStack : indices[v] = lowlink[u] /\ Reaches(u, v)
    BY <2>1 DEF AtWork, LowlinkInv
  <2>4. v # t  BY <1>1, <1>3, <2>1, <2>2, <2>3
  <2> QED  BY <1>2, <2>2, <2>3, <2>4
<1>11. FollowedInv'
  <2> SUFFICES ASSUME NEW i \in 1 .. n - 1
               PROVE  FollowedBy(i)'
    BY <1>1 DEF FollowedInv
  <2> SUFFICES /\ calls[i].reference <= Len(references[calls[i].type]) + 1
               /\ \A j \in 1 .. calls[i].reference - 1 :
                    LET q == references[calls[i].type][j]
                    IN  /\ indices[q] # 0
                        /\ q \in OnStack' => \/ lowlink'[calls[i].type] <= indices[q]
                                             \/ i < n - 1 /\ q = calls[i + 1].type
    <3>1. i < n - 1 => i + 1 \in 1 .. n - 1  BY <1>1
    <3>2. calls'[i] = calls[i] /\ (i < n - 1 => calls'[i + 1] = calls[i + 1])
      BY <1>6, <3>1
    <3>3. references' = references /\ indices' = indices /\ Len(calls') = n - 1
      BY <1>1, <1>3
    <3> QED  BY <3>2, <3>3 DEF FollowedBy
  <2>0. /\ calls[i].reference <= Len(references[calls[i].type]) + 1
        /\ \A j \in 1 .. calls[i].reference - 1 :
             /\ indices[references[calls[i].type][j]] # 0
             /\ references[calls[i].type][j] \in OnStack =>
                  \/ lowlink[calls[i].type] <= indices[references[calls[i].type][j]]
                  \/ i < n /\ references[calls[i].type][j] = calls[i + 1].type
    BY <1>6 DEF AtWork, FollowedInv, FollowedBy, n
  <2>1. lowlink'[calls[i].type] = lowlink[calls[i].type]
    BY <1>1, <1>2, <1>5, <1>6
  <2>2. ASSUME NEW q, q \in OnStack', i < n /\ q = calls[i + 1].type
        PROVE  i < n - 1 /\ q = calls[i + 1].type
    <3>1. i + 1 # n  BY <1>1, <1>2, <2>2 DEF t
    <3> QED  BY <1>1, <2>2, <3>1
  <2> QED  BY <1>2, <2>0, <2>1, <2>2
<1>12. DoneInv'
  <2>1. \A u \in Done : Direct(references, u) \subseteq Done
    BY DEF AtWork, DoneInv
  <2>2. Done \subseteq Types /\ Done \cup {t} \subseteq Types  BY <1>3 DEF Done
  <2>3. \A u \in Done : Referenced(references, u) \subseteq Done
    BY <2>1, <2>2, ReferencedWithin
  <2>4. \A u \in Done \cup {t} : Direct(references, u) \subseteq Done \cup {t}
    BY <1>2, <2>1
  <2>5. ASSUME NEW u \in Done \cup {t}, NEW w \in Done \cup {t},
               u \in Referenced(references, w), w \in Referenced(references, u)
        PROVE  u = w
    <3>1. CASE u \in Done /\ w \in Done  BY <2>5, <3>1 DEF AtWork, DoneInv
    <3>2. CASE u = t /\ w \in Done  BY <1>2, <2>3, <2>5, <3>2
    <3>3. CASE u \in Done /\ w = t  BY <1>2, <2>3, <2>5, <3>3
    <3>4. CASE u = t /\ w = t  BY <3>4
    <3> QED  BY <3>1, <3>2, <3>3, <3>4
  <2> QED  BY <1>2, <1>3, <2>4, <2>5 DEF DoneInv
<1> QED  BY <1>8, <1>9, <1>10, <1>11, <1>12 DEF AtWork

(* What is left on the stack above a root refers to it, and it to that. *)
LEMMA RejectIsRight ==
  ASSUME TypeOK, AtWork, Reject
  PROVE  VerdictIsRight'
<1> DEFINE n == Len(calls)
           t == top.type
           u == Last(stack)
<1>1. /\ calls # <<>> /\ u # t /\ phase' = "rejected" /\ UNCHANGED <<references, typeList>>
  BY DEF Reject
<1>2. calls \in Seq(Frames) /\ n \in Nat \ {0} /\ n \in 1 .. n /\ top = calls[n]
  BY <1>1 DEF TypeOK, top
<1>3. t \in OnStack /\ OnStack \subseteq Types /\ OnStack \subseteq Relevant
  BY <1>2, StackType DEF AtWork, CallsInv, StackInv
<1>4. /\ u \in OnStack /\ indices[t] < indices[u]
      /\ \A v \in OnStack : indices[v] \in Nat
  <2>1. \A v \in OnStack : indices[v] \in Nat  BY <1>3 DEF TypeOK
  <2>2. PICK i \in 1 .. Len(stack) : t = stack[i]  BY <1>3, StackType
  <2>3. Len(stack) \in Nat /\ Len(stack) \in 1 .. Len(stack) /\ u = stack[Len(stack)]
    <3>1. stack \in Seq(Types)  BY DEF TypeOK
    <3> QED  BY <2>2, <3>1 DEF Last
  <2>4. i < Len(stack)  BY <1>1, <2>2, <2>3
  <2>5. indices[t] < indices[u]  BY <2>2, <2>3, <2>4 DEF AtWork, StackInv
  <2> QED  BY <2>1, <2>3, <2>5, StackType
<1> HIDE DEF n, u, t
<1>5. u \in Referenced(references, t)
  BY <1>2, <1>4 DEF AtWork, CallsInv, n, t
<1>6. PICK i \in 1 .. n : indices[calls[i].type] <= indices[u] /\ Reaches(u, calls[i].type)
  BY <1>4 DEF AtWork, CallsInv, n
<1>7. calls[i].type \in OnStack  BY DEF AtWork, CallsInv, n
<1>8. Reaches(calls[i].type, t)
  <2>1. CASE i = n  BY <1>2, <2>1 DEF Reaches, t
  <2>2. CASE i # n
    <3>1. i < n  BY <1>2, <2>2
    <3>2. indices[calls[i].type] < indices[t]  BY <1>2, <3>1 DEF AtWork, CallsInv, n, t
    <3>3. t \in Referenced(references, calls[i].type)
      BY <1>3, <3>2 DEF AtWork, CallsInv, n
    <3> QED  BY <3>3 DEF Reaches
  <2> QED  BY <2>1, <2>2
<1>9. Reaches(u, t)  BY <1>3, <1>4, <1>6, <1>7, <1>8, ReachesTransitive
<1>10. t \in Referenced(references, u)  BY <1>1, <1>9 DEF Reaches
<1>11. Relevant' = Relevant  BY <1>1 DEF Relevant
<1> QED  BY <1>1, <1>3, <1>4, <1>5, <1>10, <1>11 DEF VerdictIsRight

(* When no call is left for the rest of the list, all it leads to is done.    *)
LEMMA AcceptIsRight ==
  ASSUME TypeOK, AtWork, Detected
  PROVE  VerdictIsRight'
<1>1. /\ calls = <<>> /\ next > Len(typeList) /\ phase' = "sorting"
      /\ UNCHANGED <<references, typeList>>
  BY DEF Detected
<1>2. OnStack = {}
  <2>1. stack = <<>>  BY <1>1 DEF AtWork, StackInv
  <2> QED  BY <2>1 DEF OnStack, ToSet
<1>3. typeList \in Seq(Types) /\ DOMAIN typeList = 1 .. Len(typeList) /\ Len(typeList) \in Nat
  BY DEF TypeOK
<1>4. \A i \in 1 .. Len(typeList) : typeList[i] \in Done
  <2> SUFFICES ASSUME NEW i \in 1 .. Len(typeList)  PROVE typeList[i] \in Done
    OBVIOUS
  <2>1. i < next  BY <1>1, <1>3 DEF TypeOK
  <2>2. indices[typeList[i]] # 0  BY <2>1 DEF AtWork, StackInv
  <2>3. typeList[i] \in Types  BY <1>3, ElementType
  <2> QED  BY <1>2, <2>2, <2>3 DEF Done
<1>5. \A t \in Done : Direct(references, t) \subseteq Done  BY DEF AtWork, DoneInv
<1>6. \A t \in Done : Referenced(references, t) \subseteq Done
  <2>1. Done \in SUBSET Types  BY DEF Done
  <2> QED  BY <1>5, <2>1, ReferencedWithin
<1>7. Relevant \subseteq Done  BY <1>3, <1>4, <1>6 DEF Relevant
<1>8. \A t, u \in Relevant :
        t \in Referenced(references, u) /\ u \in Referenced(references, t) => t = u
  BY <1>7 DEF AtWork, DoneInv
<1>9. Relevant' = Relevant  BY <1>1 DEF Relevant
<1> QED  BY <1>1, <1>8, <1>9 DEF VerdictIsRight

(* The invariant of the detector, and the verdict it comes to.                *)
LEMMA DetectorStep ==
  ASSUME TypeOK, DetectorInv, VerdictIsRight, [Next]_vars
  PROVE  DetectorInv' /\ VerdictIsRight'
<1>1. ASSUME AtWork', phase' = "detecting"  PROVE DetectorInv' /\ VerdictIsRight'
  BY <1>1 DEF DetectorInv, AtWork, VerdictIsRight
<1>2. phase = "detecting" => AtWork  BY DEF DetectorInv, AtWork
<1>3. CASE Detect  BY <1>1, <1>2, <1>3, DetectKeeps DEF Detect
<1>4. CASE FollowNew  BY <1>1, <1>2, <1>4, FollowNewKeeps DEF FollowNew, HasReference
<1>5. CASE FollowKnown  BY <1>1, <1>2, <1>5, FollowKnownKeeps DEF FollowKnown, HasReference
<1>6. CASE Return
  <2>1. AtWork'  BY <1>2, <1>6, ReturnInsideKeeps, ReturnRootKeeps DEF Return
  <2> QED  BY <1>1, <1>6, <2>1 DEF Return
<1>7. CASE Reject
  <2>1. VerdictIsRight'  BY <1>2, <1>7, RejectIsRight DEF Reject
  <2> QED  BY <1>7, <2>1 DEF Reject, DetectorInv
<1>8. CASE Detected
  <2>1. VerdictIsRight'  BY <1>2, <1>8, AcceptIsRight DEF Detected
  <2> QED  BY <1>8, <2>1 DEF Detected, DetectorInv
<1>9. ASSUME Scan \/ Overflow \/ Insert \/ Sorted  PROVE DetectorInv' /\ VerdictIsRight'
  <2>1. /\ phase = "sorting" /\ phase' \in {"sorting", "sorted", "crashed"}
        /\ UNCHANGED <<references, typeList>>
    BY <1>9 DEF Scan, Overflow, Insert, Sorted, Sorting
  <2>2. Relevant' = Relevant  BY <2>1 DEF Relevant
  <2> QED  BY <2>1, <2>2 DEF DetectorInv, VerdictIsRight
<1>10. CASE UNCHANGED vars
  <2>1. UNCHANGED <<references, typeList, phase, next, calls, indices, lowlink, stack>>
    BY <1>10 DEF vars, detector
  <2>2. OnStack' = OnStack /\ Indexed' = Indexed /\ Relevant' = Relevant
        /\ Done' = Done /\ \A u, w : Reaches(u, w)' <=> Reaches(u, w)
    BY <2>1 DEF OnStack, Indexed, Relevant, Done, Reaches
  <2>3. StackInv => StackInv'  BY <2>1, <2>2 DEF StackInv
  <2>4. CallsInv => CallsInv'  BY <2>1, <2>2 DEF CallsInv
  <2>5. LowlinkInv => LowlinkInv'  BY <2>1, <2>2 DEF LowlinkInv
  <2>6. FollowedInv => FollowedInv'  BY <2>1, <2>2 DEF FollowedInv, FollowedBy
  <2>7. DoneInv => DoneInv'  BY <2>1, <2>2 DEF DoneInv
  <2>8. VerdictIsRight'  BY <2>1, <2>2 DEF VerdictIsRight
  <2> QED  BY <2>1, <2>3, <2>4, <2>5, <2>6, <2>7, <2>8 DEF DetectorInv
<1> QED
  BY <1>3, <1>4, <1>5, <1>6, <1>7, <1>8, <1>9, <1>10 DEF Next

LEMMA DetectorInit == Init => DetectorInv /\ VerdictIsRight
<1> SUFFICES ASSUME Init  PROVE DetectorInv /\ VerdictIsRight
  OBVIOUS
<1>1. /\ calls = <<>> /\ stack = <<>> /\ next = 1 /\ phase = "detecting"
      /\ indices = [t \in Types |-> 0]
  BY DEF Init
<1>2. 1 .. Len(calls) = {} /\ 1 .. Len(stack) = {} /\ OnStack = {} /\ DOMAIN stack = {}
  BY <1>1 DEF OnStack, ToSet
<1>3. Done = {}  BY <1>1 DEF Done
<1>4. {t \in Types : indices[t] # 0} = {}  BY <1>1
<1>5. Indexed = 0  BY <1>4, FS_EmptySet DEF Indexed
<1>6. typeList \in Seq(Types)  BY TypeOrderAssumption DEF Init
<1>7. \A i \in 1 .. Len(typeList) : ~(i < next)  BY <1>1, <1>6
<1>8. StackInv  BY <1>1, <1>2, <1>5, <1>7 DEF StackInv
<1>9. CallsInv /\ LowlinkInv /\ FollowedInv /\ DoneInv
  BY <1>2, <1>3 DEF CallsInv, LowlinkInv, FollowedInv, DoneInv
<1> QED  BY <1>1, <1>8, <1>9 DEF DetectorInv, VerdictIsRight

(* FTypeCycleDetector refuses just the collections of which two types refer   *)
(* to each other: neither more nor, but for a type that refers to itself,     *)
(* fewer.                                                                     *)
THEOREM DetectorIsRight == Spec => []VerdictIsRight
<1>1. TypeOK /\ DetectorInv /\ VerdictIsRight /\ [Next]_vars => (DetectorInv /\ VerdictIsRight)'
  BY DetectorStep
<1> QED  BY <1>1, DetectorInit, OrderType, PTL DEF Spec

(* What refers to itself does so directly, or through one of its references.  *)
LEMMA FirstReference ==
  ASSUME TypeOK, NEW t \in Types, NEW u \in Referenced(references, t)
  PROVE  \E r \in Direct(references, t) : r \in Types /\ Reaches(r, u)
<1> DEFINE S == UNION {{r} \cup Referenced(references, r) : r \in Direct(references, t)}
<1>1. references \in [Types -> Seq(Types)]  BY DEF TypeOK
<1>2. Direct(references, t) \subseteq Types  BY <1>1, DirectType
<1>3. S \in SUBSET Types  BY <1>2 DEF Referenced
<1>4. Direct(references, t) \subseteq S  OBVIOUS
<1>5. ASSUME NEW s \in S  PROVE Direct(references, s) \subseteq S
  <2>1. PICK r \in Direct(references, t) : s \in {r} \cup Referenced(references, r)  OBVIOUS
  <2>2. Direct(references, s) \subseteq Referenced(references, r)
    BY <1>1, <1>2, <2>1, ReferencedClosed
  <2> QED  BY <2>2
<1>6. Referenced(references, t) \subseteq S  BY <1>3, <1>4, <1>5, ReferencedWithin
<1>7. PICK r \in Direct(references, t) : u \in {r} \cup Referenced(references, r)  BY <1>6
<1> QED  BY <1>2, <1>7 DEF Reaches

LEMMA CrashStep ==
  ASSUME TypeOK, SortInv, VerdictIsRight, CrashIsSelfReference, [Next]_vars
  PROVE  CrashIsSelfReference'
<1>1. CASE Overflow
  <2>1. /\ phase = "sorting" /\ Endless(references, Compared) /\ next <= Len(typeList)
        /\ insertIndex <= Len(sortedTypeList) /\ UNCHANGED <<references, typeList>>
    BY <1>1 DEF Overflow, Sorting
  <2>2. Compared \in Relevant
    <3>1. insertIndex \in 1 .. Len(sortedTypeList) /\ DOMAIN sortedTypeList = 1 .. Len(sortedTypeList)
      BY <2>1 DEF TypeOK
    <3>2. Compared \in ToSet(sortedTypeList)  BY <3>1 DEF Compared, ToSet
    <3>3. PICK i \in 1 .. next - 1 : Compared = typeList[i]
      BY <2>1, <3>2 DEF SortInv
    <3>4. i \in 1 .. Len(typeList)  BY <2>1 DEF TypeOK
    <3> QED  BY <3>3, <3>4, RelevantClosed
  <2>3. PICK u \in {Compared} \cup Referenced(references, Compared) :
          u \in Referenced(references, u)
    BY <2>1 DEF Endless
  <2>4. Relevant \subseteq Types  BY RelevantClosed
  <2>5. Referenced(references, Compared) \subseteq Relevant
    <3>1. Relevant \in SUBSET Types /\ Direct(references, Compared) \subseteq Relevant
      BY <2>2, RelevantClosed
    <3> QED  BY <3>1, RelevantClosed, ReferencedWithin
  <2>6. u \in Relevant /\ u \in Types  BY <2>2, <2>3, <2>4, <2>5
  <2>7. PICK r \in Direct(references, u) : r \in Types /\ Reaches(r, u)
    BY <2>3, <2>6, FirstReference
  <2>8. r \in Relevant /\ r \in Referenced(references, u)
    <3>1. references \in [Types -> Seq(Types)]  BY DEF TypeOK
    <3> QED  BY <2>6, <2>7, <3>1, RelevantClosed, ReferencedClosed
  <2>9. r = u  BY <2>1, <2>6, <2>7, <2>8 DEF VerdictIsRight, Reaches
  <2>10. Relevant' = Relevant /\ references' = references  BY <2>1 DEF Relevant
  <2> QED  BY <2>6, <2>7, <2>9, <2>10 DEF CrashIsSelfReference
<1>2. ASSUME Detect \/ FollowNew \/ FollowKnown \/ Return \/ Reject \/ Detected
             \/ Scan \/ Insert \/ Sorted
      PROVE  CrashIsSelfReference'
  <2>1. phase' # "crashed"
    BY <1>2 DEF Detect, FollowNew, FollowKnown, Return, Reject, Detected, HasReference,
                Scan, Insert, Sorted, Sorting
  <2> QED  BY <2>1 DEF CrashIsSelfReference
<1>3. CASE UNCHANGED vars
  <2>1. UNCHANGED <<references, typeList, phase>> /\ Relevant' = Relevant
    BY <1>3 DEF vars, Relevant
  <2> QED  BY <2>1 DEF CrashIsSelfReference
<1> QED  BY <1>1, <1>2, <1>3 DEF Next

(* Of the collections that get past the detector, the sort overflows the      *)
(* stack only of one with a type that is among its own direct references.     *)
THEOREM OverflowIsSelfReference == Spec => []CrashIsSelfReference
<1>1. Init => CrashIsSelfReference  BY DEF Init, CrashIsSelfReference
<1>2. TypeOK /\ SortInv /\ VerdictIsRight /\ CrashIsSelfReference /\ [Next]_vars
        => CrashIsSelfReference'
  BY CrashStep
<1> QED  BY <1>1, <1>2, SortInvariant, DetectorIsRight, PTL DEF Spec

-----------------------------------------------------------------------------
(* Termination. *)

LEMMA Four ==
  ASSUME NEW a, NEW b \in Nat, NEW c \in Nat, NEW d \in Nat, a \in Nat
  PROVE  <<a, b, c, d>> \in [1 .. 4 -> Nat]
<1> DEFINE v == <<a, b, c, d>>
<1>1. v = [i \in 1 .. 4 |-> v[i]]  OBVIOUS
<1>2. \A i \in 1 .. 4 : v[i] \in Nat  OBVIOUS
<1> HIDE DEF v
<1>3. v \in [1 .. 4 -> Nat]  BY <1>1, <1>2
<1> QED  BY <1>3 DEF v

LEMMA FourPrecede ==
  ASSUME NEW a, NEW b, NEW c, NEW d, NEW k, NEW l, NEW m, NEW n,
         \/ a < k
         \/ a = k /\ b < l
         \/ a = k /\ b = l /\ c < m
         \/ a = k /\ b = l /\ c = m /\ d < n
  PROVE  Precedes(<<a, b, c, d>>, <<k, l, m, n>>)
<1> DEFINE v == <<a, b, c, d>>
           w == <<k, l, m, n>>
<1>1. DOMAIN w = 1 .. 4 /\ v[1] = a /\ v[2] = b /\ v[3] = c /\ v[4] = d
      /\ w[1] = k /\ w[2] = l /\ w[3] = m /\ w[4] = n
  OBVIOUS
<1> HIDE DEF v, w
<1>2. Precedes(v, w)
  <2>1. CASE v[1] < w[1]  BY <1>1, <2>1 DEF Precedes
  <2>2. CASE v[1] = w[1] /\ v[2] < w[2]
    <3>1. \A j \in 1 .. 4 : j < 2 => v[j] = w[j]  BY <2>2
    <3> QED  BY <1>1, <2>2, <3>1 DEF Precedes
  <2>3. CASE v[1] = w[1] /\ v[2] = w[2] /\ v[3] < w[3]
    <3>1. \A j \in 1 .. 4 : j < 3 => v[j] = w[j]
      <4>1. \A j \in 1 .. 4 : j < 3 => j = 1 \/ j = 2  OBVIOUS
      <4> QED  BY <2>3, <4>1
    <3> QED  BY <1>1, <2>3, <3>1 DEF Precedes
  <2>4. CASE v[1] = w[1] /\ v[2] = w[2] /\ v[3] = w[3] /\ v[4] < w[4]
    <3>1. \A j \in 1 .. 4 : j < 4 => v[j] = w[j]
      <4>1. \A j \in 1 .. 4 : j < 4 => j = 1 \/ j = 2 \/ j = 3  OBVIOUS
      <4> QED  BY <2>4, <4>1
    <3> QED  BY <1>1, <2>4, <3>1 DEF Precedes
  <2> QED  BY <1>1, <2>1, <2>2, <2>3, <2>4
<1> QED  BY <1>2 DEF v, w

LEMMA UnindexedNat ==
  ASSUME NEW f
  PROVE  IsFiniteSet({t \in Types : f[t] = 0}) /\ Cardinality({t \in Types : f[t] = 0}) \in Nat
<1> DEFINE S == {t \in Types : f[t] = 0}
<1>1. S \in SUBSET Types /\ IsFiniteSet(Types)  BY TypeOrderAssumption
<1> HIDE DEF S
<1>2. IsFiniteSet(S) /\ Cardinality(S) \in Nat  BY <1>1, FS_Subset, FS_CardinalityType
<1> QED  BY <1>2 DEF S

(* A call of tarjan() comes to a type that no call has come to. *)
LEMMA UnindexedFewer ==
  ASSUME TypeOK, NEW t \in Types, NEW c, indices[t] = 0, Call(t, c)
  PROVE  Unindexed' < Unindexed
<1> DEFINE S == {u \in Types : indices[u] = 0}
           T == {u \in Types : indices'[u] = 0}
<1>1. Indexed + 1 # 0
  <2> DEFINE I == {u \in Types : indices[u] # 0}
  <2>1. I \in SUBSET Types /\ IsFiniteSet(Types)  BY TypeOrderAssumption
  <2> HIDE DEF I
  <2>2. Cardinality(I) \in Nat  BY <2>1, FS_Subset, FS_CardinalityType
  <2>3. Cardinality(I) + 1 # 0  BY <2>2
  <2> QED  BY <2>3 DEF I, Indexed
<1>2. T = S \ {t}  BY <1>1 DEF TypeOK, Call
<1>3. t \in S /\ IsFiniteSet(S) /\ Cardinality(S) \in Nat  BY UnindexedNat
<1>4. Unindexed = Cardinality(S) /\ Unindexed' = Cardinality(T)  BY DEF Unindexed
<1> HIDE DEF S, T
<1>5. Cardinality(S \ {t}) = Cardinality(S) - 1  BY <1>3, FS_RemoveElement
<1> QED  BY <1>2, <1>3, <1>4, <1>5

(* The loop of hasCycle() stays within the list. *)
DetectsWithin == phase = "detecting" => next <= Len(typeList) + 1

LEMMA RemainingType ==
  ASSUME TypeOK, SortInv, DetectorInv, DetectsWithin
  PROVE  Remaining \in [1 .. 4 -> Nat]
<1>1. CASE phase = "detecting"
  <2>1. Unindexed \in Nat  BY UnindexedNat DEF Unindexed
  <2>2. LoopLeft \in Nat
    <3>1. CASE calls = <<>>  BY <1>1, <3>1 DEF DetectsWithin, LoopLeft, TypeOK
    <3>2. CASE calls # <<>>
      <4>1. Len(calls) \in 1 .. Len(calls) /\ calls[Len(calls)] \in Frames  BY <3>2 DEF TypeOK
      <4>2. top.type \in Types /\ top.reference \in Nat /\ Len(references[top.type]) \in Nat
        <5>1. top.type \in Types /\ top.reference \in Nat  BY <4>1 DEF Frames, top
        <5>2. references[top.type] \in Seq(Types)  BY <5>1 DEF TypeOK
        <5> QED  BY <5>1, <5>2
      <4>3. top.reference <= Len(references[top.type]) + 1
        BY <1>1, <4>1 DEF DetectorInv, FollowedInv, FollowedBy, top
      <4> QED  BY <3>2, <4>2, <4>3 DEF LoopLeft
    <3> QED  BY <3>1, <3>2
  <2>3. Len(calls) \in Nat  BY DEF TypeOK
  <2>4. <<2, Unindexed, Len(calls), LoopLeft>> \in [1 .. 4 -> Nat]  BY <2>1, <2>2, <2>3, Four
  <2> QED  BY <1>1, <2>4 DEF Remaining
<1>2. CASE phase = "sorting"
  <2>1. Len(typeList) + 1 - next \in Nat /\ Len(sortedTypeList) + 1 - insertIndex \in Nat
    BY <1>2 DEF SortInv, TypeOK
  <2>2. <<1, Len(typeList) + 1 - next, Len(sortedTypeList) + 1 - insertIndex, 0>> \in [1 .. 4 -> Nat]
    BY <2>1, Four
  <2> QED  BY <1>2, <2>2 DEF Remaining
<1>3. CASE phase \notin {"detecting", "sorting"}
  <2>1. <<0, 0, 0, 0>> \in [1 .. 4 -> Nat]  BY Four
  <2> QED  BY <1>3, <2>1 DEF Remaining
<1> QED  BY <1>1, <1>2, <1>3

LEMMA RemainingLess ==
  ASSUME TypeOK, TypeOK', [Next]_vars
  PROVE  UNCHANGED vars \/ Precedes(Remaining', Remaining)
<1>a. Len(calls) \in Nat /\ Len(typeList) \in Nat /\ next \in Nat /\ insertIndex \in Nat
      /\ calls \in Seq(Frames) /\ Len(sortedTypeList) \in Nat /\ typeList \in Seq(Types)
  BY DEF TypeOK
<1>b. phase = "detecting" => Remaining = <<2, Unindexed, Len(calls), LoopLeft>>
  BY DEF Remaining
<1>c. phase' = "detecting" => Remaining' = <<2, Unindexed', Len(calls'), LoopLeft'>>
  BY DEF Remaining
<1>1. CASE Detect
  <2>1. phase = "detecting" /\ phase' = "detecting" /\ calls = <<>> /\ next <= Len(typeList)
        /\ next' = next + 1 /\ typeList' = typeList
    BY <1>1 DEF Detect
  <2>2. CASE indices[typeList[next]] = 0
    <3>1. Call(typeList[next], <<>>)  BY <1>1, <2>2 DEF Detect
    <3>2. typeList[next] \in Types  BY <1>a, <2>1 DEF TypeOK
    <3>3. Unindexed' < Unindexed  BY <2>2, <3>1, <3>2, UnindexedFewer
    <3> QED  BY <1>b, <1>c, <2>1, <3>3, FourPrecede
  <2>3. CASE indices[typeList[next]] # 0
    <3>1. calls' = <<>> /\ indices' = indices  BY <1>1, <2>1, <2>3 DEF Detect, detector
    <3>2. Unindexed' = Unindexed /\ Len(calls') = Len(calls)  BY <2>1, <3>1 DEF Unindexed
    <3>3. LoopLeft' < LoopLeft  BY <1>a, <2>1, <3>1 DEF LoopLeft
    <3> QED  BY <1>b, <1>c, <2>1, <3>2, <3>3, FourPrecede
  <2> QED  BY <2>2, <2>3
<1>2. CASE FollowNew
  <2>1. phase = "detecting" /\ phase' = "detecting" /\ calls # <<>> /\ indices[Reference] = 0
        /\ Call(Reference, AdvanceCall) /\ top.reference <= Len(references[top.type])
    BY <1>2 DEF FollowNew, HasReference
  <2>2. Reference \in Types
    <3>1. top \in Frames  BY <1>a, <2>1 DEF top
    <3>2. top.type \in Types /\ top.reference \in Nat \ {0}  BY <3>1 DEF Frames
    <3>3. references[top.type] \in Seq(Types)  BY <3>2 DEF TypeOK
    <3> QED  BY <2>1, <3>2, <3>3 DEF Reference
  <2>3. Unindexed' < Unindexed  BY <2>1, <2>2, UnindexedFewer
  <2> QED  BY <1>b, <1>c, <2>1, <2>3, FourPrecede
<1>3. CASE FollowKnown
  <2>1. phase = "detecting" /\ phase' = "detecting" /\ calls # <<>> /\ indices' = indices
        /\ calls' = AdvanceCall /\ references' = references
    BY <1>3 DEF FollowKnown, HasReference
  <2> DEFINE n == Len(calls)
  <2>2. n \in 1 .. n /\ calls[n] \in Frames  BY <1>a, <2>1
  <2>3. Len(calls') = n /\ calls' # <<>> /\ calls'[n] = [calls[n] EXCEPT !.reference = @ + 1]
    BY <1>a, <2>1, <2>2 DEF AdvanceCall
  <2>4. calls'[n].type = calls[n].type /\ calls'[n].reference = calls[n].reference + 1
    BY <2>2, <2>3 DEF Frames
  <2>5. top' = calls'[n] /\ top = calls[n]  BY <2>3 DEF top
  <2>6. calls[n].type \in Types /\ calls[n].reference \in Nat /\ Len(references[calls[n].type]) \in Nat
    <3>1. calls[n].type \in Types /\ calls[n].reference \in Nat  BY <2>2 DEF Frames
    <3>2. references[calls[n].type] \in Seq(Types)  BY <3>1 DEF TypeOK
    <3> QED  BY <3>1, <3>2
  <2> HIDE DEF n
  <2>7. LoopLeft' < LoopLeft  BY <2>1, <2>3, <2>4, <2>5, <2>6 DEF LoopLeft
  <2>8. Unindexed' = Unindexed /\ Len(calls') = Len(calls)  BY <2>1, <2>3 DEF Unindexed, n
  <2> QED  BY <1>b, <1>c, <2>1, <2>7, <2>8, FourPrecede
<1>4. CASE Return
  <2>1. phase = "detecting" /\ phase' = "detecting" /\ calls # <<>> /\ indices' = indices
        /\ calls' = Front(calls)
    BY <1>4 DEF Return
  <2>2. Len(calls') < Len(calls)  BY <1>a, <2>1 DEF Front
  <2>3. Unindexed' = Unindexed  BY <2>1 DEF Unindexed
  <2> QED  BY <1>b, <1>c, <2>1, <2>2, <2>3, FourPrecede
<1>5. CASE Reject \/ Sorted \/ Overflow
  <2>1. phase' \in {"rejected", "sorted", "crashed"} /\ phase \in {"detecting", "sorting"}
    BY <1>5 DEF Reject, Sorted, Overflow, Sorting
  <2>2. Remaining' = <<0, 0, 0, 0>>  BY <2>1 DEF Remaining
  <2>3. CASE phase = "detecting"  BY <1>b, <2>2, <2>3, FourPrecede
  <2>4. CASE phase = "sorting"
    <3>1. Remaining = <<1, Len(typeList) + 1 - next, Len(sortedTypeList) + 1 - insertIndex, 0>>
      BY <2>4 DEF Remaining
    <3> QED  BY <2>2, <3>1, FourPrecede
  <2> QED  BY <2>1, <2>3, <2>4
<1>6. CASE Detected
  <2>1. phase = "detecting" /\ phase' = "sorting"  BY <1>6 DEF Detected
  <2>2. Remaining' = <<1, (Len(typeList) + 1 - next)', (Len(sortedTypeList) + 1 - insertIndex)', 0>>
    BY <2>1 DEF Remaining
  <2> QED  BY <1>b, <2>1, <2>2, FourPrecede
<1>7. CASE Scan \/ Insert
  <2>1. phase = "sorting" /\ phase' = "sorting" /\ typeList' = typeList
    BY <1>7 DEF Scan, Insert, Sorting
  <2>2. Remaining = <<1, Len(typeList) + 1 - next, Len(sortedTypeList) + 1 - insertIndex, 0>>
    BY <2>1 DEF Remaining
  <2>3. Remaining' = <<1, Len(typeList) + 1 - next', Len(sortedTypeList') + 1 - insertIndex', 0>>
    BY <2>1 DEF Remaining
  <2>4. CASE Scan
    <3>1. next' = next /\ sortedTypeList' = sortedTypeList /\ insertIndex' = insertIndex + 1
      BY <2>4 DEF Scan
    <3>2. Len(sortedTypeList) + 1 - (insertIndex + 1) < Len(sortedTypeList) + 1 - insertIndex
      BY <1>a
    <3> QED  BY <2>2, <2>3, <3>1, <3>2, FourPrecede
  <2>5. CASE Insert
    <3>1. next' = next + 1  BY <2>5 DEF Insert
    <3>2. Len(typeList) + 1 - (next + 1) < Len(typeList) + 1 - next  BY <1>a
    <3> QED  BY <2>2, <2>3, <3>1, <3>2, FourPrecede
  <2> QED  BY <1>7, <2>4, <2>5
<1> QED  BY <1>1, <1>2, <1>3, <1>4, <1>5, <1>6, <1>7 DEF Next

(* sortTypes() does not go round for ever, whatever the references: what it   *)
(* has left to do becomes less with every step, in tuples of numbers that do  *)
(* not descend for ever.                                                      *)
THEOREM OrderShrinks == Spec => SortShrinks
<1> DEFINE T == Remaining \in [1 .. 4 -> Nat]
           A == Precedes(Remaining', Remaining)
<1>1. Init => DetectsWithin
  <2> SUFFICES ASSUME Init  PROVE 1 <= Len(typeList) + 1
    BY DEF Init, DetectsWithin
  <2>1. typeList \in Seq(Types)  BY TypeOrderAssumption DEF Init
  <2> QED  BY <2>1
<1>2. TypeOK /\ DetectsWithin /\ [Next]_vars => DetectsWithin'
  <2> SUFFICES ASSUME TypeOK, DetectsWithin, [Next]_vars, phase' = "detecting"
               PROVE  next' <= Len(typeList') + 1
    BY DEF DetectsWithin
  <2>1. CASE Detect  BY <2>1 DEF Detect, TypeOK
  <2>2. CASE ~Detect
    <3>1. phase = "detecting" /\ UNCHANGED <<next, typeList>>
      BY <2>2 DEF Next, FollowNew, FollowKnown, HasReference, Return, Reject, Detected,
                  Scan, Overflow, Insert, Sorted, Sorting, vars
    <3> QED  BY <3>1 DEF DetectsWithin
  <2> QED  BY <2>1, <2>2
<1>3. TypeOK /\ DetectorInv /\ VerdictIsRight /\ [Next]_vars => (DetectorInv /\ VerdictIsRight)'
  BY DetectorStep
<1>4. TypeOK /\ SortInv /\ DetectorInv /\ DetectsWithin => T  BY RemainingType
<1>5. TypeOK /\ TypeOK' /\ [Next]_vars => [A]_vars  BY RemainingLess
<1> HIDE DEF T, A
<1>6. Spec => []T /\ [][A]_vars
  BY <1>1, <1>2, <1>3, <1>4, <1>5, DetectorInit, SortInvariant, OrderType, PTL DEF Spec
<1> QED  BY <1>6 DEF T, A, SortShrinks
=============================================================================
