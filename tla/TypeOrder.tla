------------------------------ MODULE TypeOrder ------------------------------
(***************************************************************************)
(* The order in which the types of a type collection or interface are      *)
(* declared in the generated header: FTypeGenerator.sortTypes().  It first *)
(* asks FTypeCycleDetector, which looks for strongly connected components, *)
(* whether the types refer to each other in a cycle, and refuses if so;    *)
(* then it inserts one type after the other before the first that refers   *)
(* to it.                                                                  *)
(*                                                                         *)
(* A step is one turn of a loop, or one return of the recursive tarjan().  *)
(***************************************************************************)
EXTENDS Naturals, Sequences, FiniteSets, SequencesExt, Descent

CONSTANTS
  Types,       \* the types, those of other collections included
  TypeGraphs,  \* the references under consideration
  Collections  \* the lists of types to be sorted

ASSUME TypeOrderAssumption ==
  /\ IsFiniteSet(Types)
  /\ TypeGraphs \subseteq [Types -> Seq(Types)]
  /\ Collections \subseteq Seq(Types)
  /\ \A c \in Collections : \A i, j \in 1 .. Len(c) : c[i] = c[j] => i = j

VARIABLES
  references,     \* directlyReferencedTypes of every type
  typeList,       \* the types to be sorted
  phase,          \* where sortTypes() is
  next,           \* the position in typeList that a loop has come to
  calls,          \* the tarjan() calls, the innermost last
  indices,        \* by type, counted from 1; 0 for a type that is no key
  lowlink,        \* by type
  stack,
  sortedTypeList,
  insertIndex     \* counted from 1

detector == <<calls, indices, lowlink, stack>>
sorter == <<sortedTypeList, insertIndex>>
vars == <<references, typeList, phase, next, detector, sorter>>

Frames == [type : Types, reference : Nat \ {0}]

TypeOK ==
  /\ references \in [Types -> Seq(Types)] /\ typeList \in Seq(Types)
  /\ phase \in {"detecting", "sorting", "sorted", "rejected", "crashed"}
  /\ next \in Nat \ {0} /\ calls \in Seq(Frames)
  /\ indices \in [Types -> Nat] /\ lowlink \in [Types -> Nat]
  /\ stack \in Seq(Types)
  /\ sortedTypeList \in Seq(Types) /\ insertIndex \in Nat \ {0}

Init ==
  /\ references \in TypeGraphs /\ typeList \in Collections
  /\ phase = "detecting" /\ next = 1 /\ calls = <<>>
  /\ indices = [t \in Types |-> 0] /\ lowlink = [t \in Types |-> 0] /\ stack = <<>>
  /\ sortedTypeList = <<>> /\ insertIndex = 1

-----------------------------------------------------------------------------
(* getReferencedTypes(): what a type refers to, directly or not.            *)
Direct(g, t) == {g[t][i] : i \in 1 .. Len(g[t])}
Referenced(g, t) ==
  {u \in Types : \A S \in SUBSET Types :
     Direct(g, t) \subseteq S /\ (\A s \in S : Direct(g, s) \subseteq S) => u \in S}

(* Its recursion, which keeps no record of the types it has been at, does not *)
(* end when it comes to a cycle.                                              *)
Endless(g, t) == \E u \in {t} \cup Referenced(g, t) : u \in Referenced(g, u)

-----------------------------------------------------------------------------
(* The cycle detector.                                                      *)

top == calls[Len(calls)]
HasReference == phase = "detecting" /\ calls # <<>> /\ top.reference <= Len(references[top.type])
Reference == references[top.type][top.reference]
AdvanceCall == [calls EXCEPT ![Len(calls)].reference = @ + 1]
Indexed == Cardinality({t \in Types : indices[t] # 0})

Minimum(a, b) == IF a <= b THEN a ELSE b

(* tarjan() of a type begins. *)
Call(t, c) ==
  /\ indices' = [indices EXCEPT ![t] = Indexed + 1]
  /\ lowlink' = [lowlink EXCEPT ![t] = Indexed + 1]
  /\ stack' = Append(stack, t)
  /\ calls' = Append(c, [type |-> t, reference |-> 1])

(* Mutant: the iteration stays with a type that a call has come to. *)
DetectAgain ==
  /\ phase = "detecting" /\ calls = <<>> /\ next <= Len(typeList)
  /\ IF indices[typeList[next]] = 0
       THEN Call(typeList[next], <<>>) /\ next' = next + 1
       ELSE UNCHANGED <<detector, next>>
  /\ UNCHANGED <<references, typeList, phase, sorter>>

(* findFirst in hasCycle(): the next type, unless a call has come to it. *)
Detect ==
  /\ phase = "detecting" /\ calls = <<>> /\ next <= Len(typeList)
  /\ next' = next + 1
  /\ IF indices[typeList[next]] = 0
       THEN Call(typeList[next], <<>>)
       ELSE UNCHANGED detector
  /\ UNCHANGED <<references, typeList, phase, sorter>>

FollowNew ==
  /\ HasReference /\ indices[Reference] = 0
  /\ Call(Reference, AdvanceCall)
  /\ UNCHANGED <<references, typeList, phase, next, sorter>>

(* Mutant: whether a type is still on the stack is not asked. *)
FollowKnownAlways ==
  /\ HasReference /\ indices[Reference] # 0
  /\ lowlink' = [lowlink EXCEPT ![top.type] = Minimum(@, indices[Reference])]
  /\ calls' = AdvanceCall
  /\ UNCHANGED <<references, typeList, phase, next, indices, stack, sorter>>

FollowKnown ==
  /\ HasReference /\ indices[Reference] # 0
  /\ lowlink' = IF Contains(stack, Reference)
                  THEN [lowlink EXCEPT ![top.type] = Minimum(@, indices[Reference])]
                  ELSE lowlink
  /\ calls' = AdvanceCall
  /\ UNCHANGED <<references, typeList, phase, next, indices, stack, sorter>>

(* tarjan() returns FALSE, and its caller takes over the lower lowlink.  The  *)
(* root of a component is taken from the stack.                               *)
IsRoot == lowlink[top.type] = indices[top.type]
Caller == calls[Len(calls) - 1].type

Return ==
  /\ phase = "detecting" /\ calls # <<>> /\ ~HasReference
  /\ IsRoot => Last(stack) = top.type
  /\ stack' = IF IsRoot THEN Front(stack) ELSE stack
  /\ calls' = Front(calls)
  /\ lowlink' = IF Len(calls) = 1
                  THEN lowlink
                  ELSE [lowlink EXCEPT ![Caller] = Minimum(@, lowlink[top.type])]
  /\ UNCHANGED <<references, typeList, phase, next, indices, sorter>>

(* More than its root is on the stack of a component: all the calls return    *)
(* TRUE, and sortTypes() throws an IllegalArgumentException.                  *)
Reject ==
  /\ phase = "detecting" /\ calls # <<>> /\ ~HasReference
  /\ IsRoot /\ Last(stack) # top.type
  /\ stack' = Front(stack) /\ calls' = <<>> /\ phase' = "rejected"
  /\ UNCHANGED <<references, typeList, next, indices, lowlink, sorter>>

Detected ==
  /\ phase = "detecting" /\ calls = <<>> /\ next > Len(typeList)
  /\ phase' = "sorting" /\ next' = 1
  /\ UNCHANGED <<references, typeList, detector, sorter>>

-----------------------------------------------------------------------------
(* The insertion sort.                                                      *)

Sorting == phase = "sorting" /\ next <= Len(typeList)
Compared == sortedTypeList[insertIndex]

(* Mutant: only the direct references are looked at. *)
ScanDirect ==
  /\ Sorting /\ insertIndex <= Len(sortedTypeList)
  /\ ~Endless(references, Compared)
  /\ typeList[next] \notin Direct(references, Compared)
  /\ insertIndex' = insertIndex + 1
  /\ UNCHANGED <<references, typeList, phase, next, detector, sortedTypeList>>

(* isReferencedBy() says no: on to the next of the sorted types. *)
Scan ==
  /\ Sorting /\ insertIndex <= Len(sortedTypeList)
  /\ ~Endless(references, Compared)
  /\ typeList[next] \notin Referenced(references, Compared)
  /\ insertIndex' = insertIndex + 1
  /\ UNCHANGED <<references, typeList, phase, next, detector, sortedTypeList>>

(* getReferencedTypes() does not end: a StackOverflowError. *)
Overflow ==
  /\ Sorting /\ insertIndex <= Len(sortedTypeList)
  /\ Endless(references, Compared)
  /\ phase' = "crashed"
  /\ UNCHANGED <<references, typeList, next, detector, sorter>>

Insert ==
  /\ Sorting
  /\ \/ insertIndex > Len(sortedTypeList)
     \/ /\ insertIndex <= Len(sortedTypeList)
        /\ ~Endless(references, Compared)
        /\ typeList[next] \in Referenced(references, Compared)
  /\ sortedTypeList' = InsertAt(sortedTypeList, insertIndex, typeList[next])
  /\ insertIndex' = 1 /\ next' = next + 1
  /\ UNCHANGED <<references, typeList, phase, detector>>

Sorted ==
  /\ phase = "sorting" /\ next > Len(typeList)
  /\ phase' = "sorted"
  /\ UNCHANGED <<references, typeList, next, detector, sorter>>

Next ==
  \/ Detect \/ FollowNew \/ FollowKnown \/ Return \/ Reject \/ Detected
  \/ Scan \/ Overflow \/ Insert \/ Sorted

Spec == Init /\ [][Next]_vars

(* One thread that never waits. *)
FairSpec == Spec /\ WF_vars(Next)

-----------------------------------------------------------------------------
(* The types that the detector has to judge. *)
Relevant == UNION {{typeList[i]} \cup Referenced(references, typeList[i]) : i \in DOMAIN typeList}

(* A header declares every type of the collection once, after all those it   *)
(* refers to, directly or through types of other collections.                *)
InOrder(g, s) == \A i, j \in 1 .. Len(s) : i < j => s[j] \notin Referenced(g, s[i])

DeclaredInOrder ==
  phase = "sorted" =>
    /\ Len(sortedTypeList) = Len(typeList)
    /\ ToSet(sortedTypeList) = ToSet(typeList)
    /\ InOrder(references, sortedTypeList)

(* Only types that refer to each other are refused; only a type that refers  *)
(* to itself gets past the detector in a cycle.                              *)
VerdictIsRight ==
  /\ phase = "rejected" =>
       \E t, u \in Relevant : t # u /\ t \in Referenced(references, u)
                                    /\ u \in Referenced(references, t)
  /\ phase \in {"sorting", "sorted", "crashed"} =>
       \A t, u \in Relevant : t \in Referenced(references, u)
                                /\ u \in Referenced(references, t) => t = u

(* The sort does not end only for a type that refers to itself. *)
CrashIsSelfReference ==
  phase = "crashed" => \E t \in Relevant : t \in Direct(references, t)

(* sortTypes() ends. *)
SortEnds == <>(phase \in {"sorted", "rejected", "crashed"})

(* Nothing goes round for ever: every turn of a loop, every call of tarjan()  *)
(* and every return leaves less to do.  While detecting these are the types   *)
(* that no call has come to, the calls under way and the rest of the innermost *)
(* loop; while sorting the types to be inserted and those to be compared.     *)
Unindexed == Cardinality({t \in Types : indices[t] = 0})
LoopLeft ==
  IF calls = <<>> THEN Len(typeList) + 1 - next
                  ELSE Len(references[top.type]) + 1 - top.reference
Remaining ==
  CASE phase = "detecting" -> <<2, Unindexed, Len(calls), LoopLeft>>
    [] phase = "sorting" ->
         <<1, Len(typeList) + 1 - next, Len(sortedTypeList) + 1 - insertIndex, 0>>
    [] OTHER -> <<0, 0, 0, 0>>

SortShrinks == [](Remaining \in [1 .. 4 -> Nat]) /\ [][Precedes(Remaining', Remaining)]_vars

(* What the insertion sort keeps: the types inserted so far are in order, and *)
(* none of those the scan has passed refers to the type to be inserted.       *)
SortInv ==
  /\ phase \in {"detecting", "rejected"} => sortedTypeList = <<>> /\ insertIndex = 1
  /\ phase \in {"sorting", "sorted"} =>
       /\ next \in 1 .. Len(typeList) + 1
       /\ phase = "sorted" => next = Len(typeList) + 1
       /\ Len(sortedTypeList) = next - 1
       /\ ToSet(sortedTypeList) = {typeList[i] : i \in 1 .. next - 1}
       /\ insertIndex \in 1 .. Len(sortedTypeList) + 1
       /\ insertIndex > 1 => next <= Len(typeList)
       /\ \A i \in 1 .. insertIndex - 1 :
            typeList[next] \notin Referenced(references, sortedTypeList[i])
       /\ InOrder(references, sortedTypeList)
(* What the detector keeps while it is at work.  A type is done when its call *)
(* has returned and it has been taken from the stack.                         *)
OnStack == ToSet(stack)
Done == {t \in Types : indices[t] # 0 /\ t \notin OnStack}
Reaches(t, u) == t = u \/ u \in Referenced(references, t)

(* Later types are higher on the stack, and all are reachable from the list. *)
StackInv ==
  /\ \A t \in Types : indices[t] <= Indexed
  /\ \A t \in OnStack : indices[t] # 0 /\ t \in Relevant
  /\ \A i, j \in 1 .. Len(stack) : i < j => indices[stack[i]] < indices[stack[j]]
  /\ calls = <<>> => stack = <<>>
  /\ \A i \in 1 .. Len(typeList) : i < next => indices[typeList[i]] # 0

(* A call refers to all that is above its type on the stack, and all that is  *)
(* on the stack refers to the type of a call that began no later.             *)
CallsInv ==
  /\ \A i \in 1 .. Len(calls) : calls[i].type \in OnStack
  /\ \A i, j \in 1 .. Len(calls) : i < j => indices[calls[i].type] < indices[calls[j].type]
  /\ \A i \in 1 .. Len(calls) : \A u \in OnStack :
       indices[calls[i].type] < indices[u] => u \in Referenced(references, calls[i].type)
  /\ \A u \in OnStack : \E i \in 1 .. Len(calls) :
       indices[calls[i].type] <= indices[u] /\ Reaches(u, calls[i].type)

(* lowlink is the index of a type on the stack that can be reached. *)
LowlinkInv ==
  \A t \in OnStack :
    lowlink[t] <= indices[t]
      /\ \E w \in OnStack : indices[w] = lowlink[t] /\ Reaches(t, w)

(* A reference that a call has followed leads to what is done, or to a type   *)
(* of no lower index than lowlink, unless the call of it has yet to return.   *)
FollowedBy(i) ==
  /\ calls[i].reference <= Len(references[calls[i].type]) + 1
  /\ \A j \in 1 .. calls[i].reference - 1 :
       LET r == references[calls[i].type][j]
       IN  /\ indices[r] # 0
           /\ r \in OnStack => \/ lowlink[calls[i].type] <= indices[r]
                               \/ i < Len(calls) /\ r = calls[i + 1].type

FollowedInv == \A i \in 1 .. Len(calls) : FollowedBy(i)

(* What is done refers to nothing else, and to itself in no cycle of two. *)
DoneInv ==
  /\ \A t \in Done : Direct(references, t) \subseteq Done
  /\ \A t, u \in Done : t \in Referenced(references, u)
                           /\ u \in Referenced(references, t) => t = u

DetectorInv ==
  phase = "detecting" => StackInv /\ CallsInv /\ LowlinkInv /\ FollowedInv /\ DoneInv
=============================================================================
